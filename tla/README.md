# A TLA+ model of glsld

glsld is a language server for GLSL. It consists of `glsld-core`, a compiler
front end (tokenizer, preprocessor, parser, types), `glsld-server`, the server that
keeps the documents of an editor compiled and answers queries about them, and
`glslang`, which is linked in and only computes diagnostics. This directory holds TLA+
modules for the server's protocol and concurrency, for the compiler from the text of a
document to its syntax tree and the constants in it, and for the features that read the tree. TLC checks them on small
instances and TLAPS proves some of their safety properties for every instance.

Paths below are relative to `src/`; `LS` is `glsld-server/src/Server/LanguageService.cpp`,
`LS.h` its header, `LV` is `glsld-server/src/Server/LanguageServer.cpp`, `BC` is
`glsld-server/src/Server/BackgroundCompilation.cpp`, `PP` is
`glsld-core/src/Compiler/Preprocessor.cpp`, `PP.h` its header. Other files are given by
their name.

## 1. Inventory

### The server (glsld-server)

**LanguageServer** (`LV`) owns the transport and the `LanguageService`. The main thread
reads one message at a time, dispatches it by method name and runs its handler to the end
before it reads the next. Handlers and pool threads write responses through one mutex.
Hard: lengths that do not fit the payload, a write that fails halfway, the stop flag that
the reading loop only sees after another message, requests for which nothing is ever sent.

**LanguageService** (`LS`) keeps the thread pool (`backgroundWorkerCtx`) and, declared
after it and destroyed before it, `documentContexts`, a map from URI to
`TextDocumentContext`. A context keeps an async scope for its tasks, the latest
`BackgroundCompilation`, and for every feature with a mutable state the state with an
`AsyncMutex`. Operations: `didOpen`, `didChange`, `didClose`, `exit`,
`ScheduleBackgroundCompilation`, `ScheduleBackgroundDiagnostic` (a debounce timer, then
the pool), `ScheduleBackgroundClosingDocument`, `ScheduleLanguageQuery` and one handler
per query, all of which schedule and return. Hard: every task started for a version may
run after the version was replaced or its document closed; the tasks of one document wait
for one another while they share a pool that may have a single thread. It is correct when
a query is answered once, from the version it was asked about; when diagnostics are
published for versions that stay and not for those replaced before they were ready; when a
context is freed after its last task.

**BackgroundCompilation** (`BC`) is one version of a document: its text, the
`LanguageConfig` (language version and extensions) it is compiled with, a precompiled
preamble or none, the result of its two compiler passes, two availability flags, the
expired flag and the latch that queries wait for. Its `Run` is executed once, on a pool
thread, and the next version is created from whatever it has published by then. Hard:
flags that are published one after the other and read one after the other.

**AsyncLatch, AsyncMutex, IntrusiveQueue** (`Support/`) let tasks wait without holding a
thread. Each keeps a counter or a flag and a queue of waiters under an internal
`std::mutex` and resumes the waiters after releasing it. The nodes of the queue are in the
operation states of the waiting tasks. Hard: a waiter lost between the test and the
enqueueing, the hand-over of the mutex, links whose memory goes with the task.

**Document text** (`ApplySourceChange` in `SourceText.h`, `didChange` in `LS`) applies
incremental edits, given as positions, to the bytes of a version. Hard: the client counts
UTF-16 units and the server bytes; a mistake stays in the text until the document is sent
as a whole.

**Features** (`Feature/`) read the syntax tree: navigation (definition, references, hover,
outline, folding), completion and signature help, colours and inlay hints. Each is a visitor
with cases of its own. They are correct when they agree with the text, with the scopes of the
parser and with one another. One of them has a state: semantic tokens caches the last result
and its id (`SemanticTokenState`) and sends the difference to it. It is correct when the
client, applying the edits, gets the new result.

**LanguageQueryInfo** (`Server/`) is what the features ask first: where tokens and nodes
stand, and which symbol is at a position. Hard: the search leaves out what a position cannot
be in and stops at the first node behind it, so it depends on the order of every traversal
and on the range of every node.

**PreprocessSymbolStore** (`Server/PreprocessSymbolStore.cpp`) collects, from the callbacks
of the preprocessor, the macros and headers of a file and its inactive regions.

**Remaining parts**: `SourceReconstruction` (formatting), `Protocol` and
`Support/JsonSerializer` (data).

### The compiler (glsld-core)

**Tokenizer** (`Tokenizer.h/.cpp`) turns bytes into tokens with positions in UTF-16. It
removes line continuations wherever they are. Hard: lookahead across a continuation,
comments that end where a line ends, the mode in which header names are lexed.

**Preprocessor** (`PP`, `PP.h`) is fed token by token. `PreprocessStateMachine` keeps its
state, the tokens of the directive being read, the stack of conditionals and the number
of conditionals opened inside an inactive branch. `MacroExpansionProcessor` keeps the
pending invocation of a function-like macro and the expansion stack. `EvaluatePPExpression`
evaluates `#if` with a stack of values and a stack of operators. Hard: sequences of
directives, each legal, that have to add up (nesting, skipping, at most one branch), an
invocation that spans a directive, operators of equal precedence.

**Parser** (`Parser.cpp`, `Parser.h`) is a recursive-descent parser that goes on after an
error: it counts parentheses, brackets and braces, and in its recovery mode skips to a
token at which the enclosing production can go on. It pushes and pops the levels of the
`SymbolTable`, declares names and looks them up while it parses. Hard: every loop has to make
progress on every text, an error must not spread beyond what encloses it, and levels have to
balance on every path.

**Syntax tree** (`Ast/`): each kind of node has its children, the order in which visitors go
through them (`DoTraverse`) and the range of tokens it was built from.

**AstBuilder, types, SymbolTable** deduce the type of each node bottom-up, insert implicit
casts and resolve overloads. Hard: conversion orders, operators over shapes.

**Constant evaluation** (`Eval.cpp`, `ConstValue`) folds expressions for hovers and array
sizes. Hard: buffers whose type the caller has to know, integer corner cases.

**SourceManager** opens files and remembers what it found by path and by canonical path.

**CompilerInvocation** is configured, given a text and used for one compilation, which makes its
`CompilerInvocationState`: tables of atoms, macros and symbols, and an artifact for each of the
three texts (system preamble, user preamble, main file). A `PrecompiledPreamble` takes the tables of
such a state over and is shared by later compilations. Hard: who keeps alive what tokens, trees and
tables point into, and that a text compiled on top of a preamble is what it would be in one.

**MacroTable, MemoryArena, AtomTable**: data structures called by the passes of a compilation on
one thread.

### Interaction

    client --bytes--> LanguageServer loop (main thread) --calls--> LanguageService
      didOpen/didChange: applies the edits, creates a BackgroundCompilation,
                         spawns its Run and its diagnostic
      query: captures the latest BackgroundCompilation; AsyncLatch -> AsyncMutex -> pool
      didClose: moves the context to a task that waits for its scope
    pool thread: Run -> CompilerInvocation -> Tokenizer -> Preprocessor -> Parser
                     -> AstBuilder; flags; CountDown
    any thread --bytes, under the output mutex--> client

`PROJECT.json` lists every component with its status and every hazard at its line.

## 2. Modules

| module | models | kind |
|---|---|---|
| `DocumentService` | LanguageService, TextDocumentContext, BackgroundCompilation, the pool | system |
| `DocumentContract` | what a client may rely on | abstract specification |
| `ServerLoop` | LanguageServer, TextTransport, the output mutex | system |
| `AsyncPrimitives` | AsyncLatch, AsyncMutex, IntrusiveQueue | component |
| `FifoMutex` | what AsyncMutex promises | abstract specification |
| `SemanticTokens` | the semantic tokens cache and its client | component |
| `DocumentText` | incremental edits on both sides of the protocol | component |
| `Tokenizer` | the tokenizer, over the texts of `DocumentText` | component |
| `Lexemes` | what the tokens of a text are | reference definition |
| `Conditionals` | conditional compilation, inactive regions | component |
| `Inclusion` | headers, files, the config directives, comments of declarations | component |
| `MacroExpansion` | MacroExpansionProcessor, MacroTable | component |
| `Invocation` | CompilerInvocation, preambles and results, what they share | component |
| `PPExpression` | the evaluator of `#if` expressions | component |
| `SyntaxTree` | the nodes, their children and the traversal | component |
| `ParserState`, `TreeBuilder`, `Parser` | the parser, its recovery, the symbol table, the tree it builds | component |
| `LanguageQuery` | ranges and positions, the symbol at a position | component |
| `Navigation` | definition, references, hover, outline, folding | component |
| `Completion` | completion, signature help | component |
| `Presentation` | colours, inlay hints | component |
| `Typing`, `AstBuilder` | types, conversions, operators, overloads, casts | component |
| `ConstEval` | folding of constant expressions, over `Typing` | component |
| `Scalars` | arithmetic of C++ the evaluators share | operators |
| `DocumentServiceProofs`, `CompilationProofs`, `InclusionProofs`, `CommentProofs`, `ConcurrencyProofs` (of `ServerLoop` and `AsyncPrimitives`), `ConditionalsProofs`, `AstBuilderProofs`, `EditProofs` (of `SemanticTokens` and `DocumentText`) | theorems | proofs |
| `MC...` | constants and bounded next-state relations for TLC | instances |

Operators whose comment begins with "Mutant:" are not part of a model. Each is a plausible
wrong version of the definition that follows it, and replacing the definition by it makes
a property of a run fail; `PROJECT.json` lists them. They are the evidence that the
properties depend on the code they are about.

Composition. `Tokenizer` runs on the texts that sessions of `DocumentText` leave in the
server, so that its positions are compared with those of the client's text. `ConstEval`
takes the type of each node from `Typing`, as `Eval.cpp` takes it from the tree.
`TreeBuilder` instantiates the same `Typing` for the types of the nodes, and each of
`SyntaxTree`, `ParserState`, `TreeBuilder`, `Parser`, `LanguageQuery`, `Navigation`,
`Completion` and `Presentation` extends one before it: the features are asked about the trees
that the parser builds.
`MCCompilation` checks four parts of a compilation that share no state side by side: the two
evaluators, `Inclusion` and `Invocation`. `DocumentService` uses latch and
mutex as `AsyncPrimitives` shows them to behave: a mutex that is handed over in order, and a
latch that resumes everybody. For the latch this is what it promises as long as no task is freed
under the walk that resumes it (`OthersResumed`); what `DocumentService` shows about queries is
about executions in which no walk is cut off that way (section 5).

### DocumentService

The identities of objects are constants: `Contexts` and `Compilations` are used up as
`didOpen` and `didChange` create objects, so a context that was closed and one opened later
for the same document are told apart, and so are the versions.

| variable | code |
|---|---|
| `documentContexts` | `LanguageService::documentContexts`; "null" is an entry with an empty pointer |
| `contextState` | life of a `TextDocumentContext`: open, moved to the closing task, waiting in `on_empty`, destroyed |
| `backgroundCompilation` | the member of that name |
| `handler` | local state of `UpdateTextDocument` (LS:59-91) between its reads |
| `comp` | the const members of a `BackgroundCompilation`: text, config, preamble |
| `compPc` | where `BackgroundCompilation::Run` is |
| `nextPreamble`, `nextConfig`, `isPreambleAvailable`, `isAvailable`, `isExpired` | the members behind the flags |
| `signalResumeQueue` | the waiters of `latchCompilation` |
| `diagnostic` | where the sender of `ScheduleBackgroundDiagnostic` is |
| `queryPc`, `query`, `answer` | where the sender of `ScheduleLanguageQuery` is, what it captured, what it answered |
| `locked`, `lockQueue` | the `AsyncMutex` of every feature state |

`comp` keeps the text a result was computed from in place of syntax trees and responses: a
response is identified by the content it is about. A preamble is identified by the config
it was compiled for, which is what the code compares.

Atomicity. A handler that only creates objects and starts tasks is one action. `didChange`
is four, because between `SetExpired`, the two flag reads and the installation a worker
may publish either flag. `Run` is split where it publishes something: preamble, result,
counting the latch down, each resumed waiter. A task is split where it awaits. A waiter
that is resumed runs on the resuming thread until it has locked or queued for the mutex
(`LetLock`), and only then moves to the pool. That the latch is open and that the mutex
is taken are one step in `ScheduleQuery`: the latch, once open, stays open, so reading it
earlier makes no difference.

A pool thread is counted while it is inside a task (`BusyWorkers`): tasks that await hold
no thread. `WorkerFree` guards every step that begins on the pool.

The closing task and the capture of the context in LS:147 are written with `|`, whose
operands the language leaves unsequenced; the model follows clang, the compiler of the
build presets, which evaluates them left to right. `didClose` does not expire the running
version, so its diagnostics may be published after the close; the model shows the same.

### DocumentContract

Three functions: the content of every open document, the content every accepted request
is about, the content its answer was computed from. `Answer` may only copy the second to
the third. The refinement mapping reads the content of a document from the latest version
of its context; a `didChange` maps to `Edit` at the moment the new version is installed.

### ServerLoop

The client's stream is a sequence of units: a header line is one, a payload two. `sent` is
what the client has written, `input` what is left of it, `pulled` what the loop has handed to
the dispatcher. `pc` and `length` are the listening loop; `push` is each thread's call of
`PushMessage`, split at the lock, each of the two writes, the flush and the unlock, because
any of them may fail and the process may exit between any two. A frame may declare the
size of its payload rightly, with a Content-Type line, twice (the later line counts), with a
negative number, not at all, too small, too large for the payload (the loop then reads into
the next frame) or too large for the buffer. `MaxBufferSize` is the limit of LV; it and
`PayloadSize` are constants, and a payload fits the buffer (`FrameAssumption`). What is
left out: the JSON inside a payload, except whether it is valid, its method, id and
parameters; the replay file, which is written before the payload is looked at.

### AsyncPrimitives and FifoMutex

One level below the service: the internal `std::mutex` critical sections are actions, and
what is done after its release is separate. Links of queues are explicit (`latchNext`,
`mutexNext`). The tasks do what a query does: latch, mutex, work, unlock, free.

The set of tasks is finite. A waiter is a node inside the operation state of its task, and `Free`
takes it away whenever the task is done: nothing in the code keeps it until the walk of `CountDown`
has left it. Reading its link then is undefined; the walk goes on if the link is still there and
ends if it is not (`AdvanceWalk`). A wild pointer, which is the third thing that may be found, would be the
end of the process and is left out. `cutOff` is a history variable, the tasks that a walk
that ended early had still to resume.

### SemanticTokens

The state of the feature, the requests under way in any order, and a client that holds the
last response and names it when it asks for a delta. Results are sequences over `Data`; the
common prefix and suffix that the code finds with two loops are stated as the longest ones.

### DocumentText, Tokenizer, Lexemes

A text is a sequence of UTF-8 code units: "LF", "CR", the first unit of a character of two or
four units, a unit that continues one, or ASCII. `client` is the text the user sees, `server`
the buffer of the server. An edit is made by the client at places between its characters and
sent as positions in UTF-16; `ApplySourceChange` scans the server's bytes for them. `shifted`
remembers that an edit since the last whole text was behind a wide character of its line,
where the two ways of counting differ. `Tokenizer` is one operator per lexing function over a
record with the cursor, the line and the character. `Lexemes` says what the tokens are
without a scan: continuations are taken out, and a token is the longest lexeme at the next
character that is no space. Two things of the program are built into the reference, as it has
no other meaning for them: a block comment is a token and takes the flag of being the first
on its line (so `/* c */ #define X` is no directive, and `F/**/(x)` after `#define` is
function-like), and the first token of the line after an `#include` is lexed as a header name.
Left out: a NUL in the text, a lone CR as the end of a line.

### Conditionals

`pp` holds the members of `PreprocessStateMachine` and of the collector of regions. A line
is text or a directive with at most one tail token; a condition is its value. `nest`,
`disputed` and the operators below "Reference" are the language's view: which branches are
selected, by nesting alone. Text goes to `passed` or `dropped` as the state machine sends it
on to macro expansion or not. An `#elif` after the selected branch is where the code departs
from the language (section 5); such conditionals are marked `late` and left out of the
properties that compare text, so that these say everything about the rest.

### Inclusion

`stack` holds the `PreprocessStateMachine`s: an `#include` that opens a file pushes one, and its
includer keeps the token that ended the directive in `redirected` until the header is done
(`EnterInclude`, `LeaveFile`; in the code the handler of the directive is still on the call stack).
All of them append to `tokens`, `comments` and `files`, the `PreprocessedTokens`. A text is a
sequence of lines, a line a sequence of tokens; `//` stands for any comment, so that a token may
follow it, and the tail of `#if` is its value. `Conditionals` has the other conditionals, and
tokens are output without macro expansion. `entries`, `lookup` and `canonical` are the
`SourceManager`'s; a path is a directory and a name, `Canonical` says which are the same file.
`config` is what `LanguageConfigCollector` collects.

The meaning of inclusion (`Items`, `Included`) is defined on the lines of the texts, without state
machines: a text is the items of its lines, one after the other, and an `#include` is the items of its
header. It has one departure of the code built in: a line behind a block comment belongs to the
directive above, as its further words (`IsSwallowed`, `Directive`, section 5). `QueryCommentDescription` is asked of every
range of one or two tokens as if it were a declaration.

### Invocation

An action is a call of `CompilerInvocation`, or its owner's giving up an invocation, a preamble or
a result. A compilation is one step: it runs on one thread and reads nothing that others write,
provided that it declares nothing in the levels it shares, which is part of a property
(`NothingDangles`). For the same reason one client at a time is enough; what matters is the
order in which the owners let go. The memory of compilation n (atom table, tree, level of symbols)
is the number n, and whatever points into it names n. Tables of atoms and macros are copied from a
preamble, levels and artifacts are referred to, as in `CompilerInvocationState::Initialize`. Two of the
feature macros stand for all.

### MacroExpansion

`processor` is the `MacroExpansionProcessor` of the file. Its field `arg` is the processor of
the argument being collected (`argProcessor`), which has one of its own for an invocation in
the argument, and so on. The processor made for the body of a macro lives for one call and
is the fold in `FeedAll`; `outputBuffer` and the set of disabled macros are parts of `env`. A
token is its text. What a pasted text is tokenized to is the constant `Pasted`.

`input` and `output` are the tokens of one *episode*: it begins with a token fed while nothing
is withheld and goes on until nothing is withheld again. `Reference` expands the whole input
of an episode in the way the language describes: each token carries the macros it may not be
expanded by any more, and the expansion of a macro is scanned again together with the
tokens that follow. It has no processors, no ranges and no order of feeding in common with
the code. `departures` collects the ways in which the code is known to differ, each recorded
where it happens (section 5). Each of them is needed: without any one of them
`ExpansionMatchesLanguage` has a counterexample, or, for "missing" and "dangling", the code
has no defined behaviour to compare.

Left out: `__LINE__`, `__FILE__` and `__VERSION__`, the `#` operator (two tokens are
discarded), a `##` at the end of a body, comments, token positions, the callback.

### PPExpression and ConstEval

`PPExpression` consumes a line token by token with `parsedLhs` and the two stacks, as
`PPExpressionEvaluator` does, and compares the result with the value of the parse by the
grammar (`LineMeaning`). A value has `Width` bits.

`ConstEval` builds an expression node by node; beside the value that `ConstValue` computes
it keeps the type that the builder deduces and the value the language gives it. Two kinds of
integers of different width stand for all eight. Where the code is known to differ `exact`
becomes FALSE, where C++ has no defined result the value is `Unspecified`, and so is what a
function of floating point numbers makes of integers (the sine, a power). A call of a built-in function is
resolved by `Typing!FindIn` among the declarations of `Stdlib.Generated.h` (`FunctionsNamed`), as a
call of any other function is.

### ParserState and Parser

A parsing function maps the state of the parser (cursor, mode, depths, scopes) to the state
it leaves; there is one operator per function, and `Parse(name, s)` is the call by which they
are recursive. A loop that would not end is flagged and ends the parse (`Hang`), as are the
assertions of the code. `Parse` of the text is repeated after each edit of the document, as the
server does. Levels of the symbol table are the field `levels`, the latest innermost.

A node is a record with its kind, its range of tokens, its children in the order of
`DoTraverse`, its name (a token) and what the builder has resolved: type, declaration (the id
of the declaring node), scope. `TreeBuilder` has one operator for each function of
`AstBuilder` the parser calls. Left out of the tree: constness, the values of layout
qualifiers, sizes that are no literal, printing.

### LanguageQuery, Navigation, Completion, Presentation

A token is two characters wide and followed by a blank, so that token k has the positions 3k
before it, 3k + 1 in it and 3k + 2 behind it; for folding a token stands for a line. A feature
is an operator from the document and a position to tokens, declarations or items; the order
and the wording of what is sent are left out. `Info` is the document of `Parser` after its
last parse. What a name should mean is defined over the text and the ranges of declarations
(`Meant`), without levels. The properties are stated for programs without errors (`Clean`):
with errors the features answer about whatever recovery has made of the text.

### Typing and AstBuilder

`Typing` translates the tables of conversions and the deduction of the type of each operator.
`AstBuilder` builds an expression bottom-up: a step takes the expression under construction
and leaves of given types, and records the casts it inserts. `table` is what the symbol table
finds for a name, the imported preamble first and then the document, in any order of the hash
table. The types of declared names are closed under elements and members (`LeafAssumption`), a
parameter is an input, an output or both (`OverloadAssumption`).

## 3. Runs

| run | instance | states | shows |
|---|---|---|---|
| `any` | 1 document, 2 contexts, 3 versions, 1 request, 2 threads, misuse and exit allowed | 1.28 million (up to symmetry) | both assertions of BackgroundCompilation, extensions, the contract |
| `queries` | 1 context, 2 versions, 2 requests, 1 thread, fair | 166 thousand | one holder per state, the scope, every query answered, closed documents freed, diagnostics of the version that stays, the fair contract |
| `async` | 3 tasks, 3 callers of CountDown, counter 2 | 28 thousand | the primitives, with waiters freed under the walk |
| `server` | 2 frames, 8 kinds of header, 5 messages, 2 workers, fair | 68 thousand | framing in and out, one answer per request |
| `semantic_tokens` | results up to length 3 over 2 values, 4 responses, 2 requests at a time | 520 thousand | deltas |
| `lexing` | 6 alphabets, texts up to 5 to 7 units | 110 thousand | edits and tokens |
| `edits_utf16` | the instance of `lexing`, edits behind wide characters too | violation | the finding of section 5 |
| `conditionals` | every file of up to 7 lines | 982 thousand | nesting, selection, regions |
| `macros` | 3 macros with 8 definitions, 6 tokens of an invocation, 3 before a directive | 1.82 million | expansion, nesting, arguments, pasting |
| `compilation` | lines of 4 (7) tokens; trees of 2 operations over 10 leaves; main files of 9 kinds of line up to 3, 6 up to 4, 10 config lines up to 3, 7 around swallowed ones up to 3, 3 disks, depth 2; 2 compilations, 2 user preambles, 2 main files | 564 thousand | both evaluators, inclusion, what compilations share |
| `parser` | 5 programs with edits, 2197 expressions | 151 thousand | termination, containment of errors, precedence, scopes, the features over the tree |
| `typing` | 23 leaf types, 3 overloads of 13 signatures, 2 preambles | 220 thousand | casts, operators, overloads |

Bounds, all of them CONSTANTS given in the cfg files or definitions of the MC modules:

- Three versions let a version inherit from one that inherited (the chain
  config -> preamble -> config), with a declaring and a plain text at each link. Two
  contexts let a document be closed and opened again while the tasks of the first are
  running. One document is enough for `any`: documents share only the pool, and its size is
  varied between the runs. Two requests are needed for the mutex and are in `queries`.
- One thread in `queries` is the hardest case for deadlock: any wait that kept its thread
  would stop the server there.
- Three tasks in `async` make the queue have a middle element; three callers on a counter
  of two include the call that finds it at zero.
- Two frames in `server` are one that is cut wrongly and the one it runs into; two workers
  and the main thread compete for the output.
- Results of length three over two values contain every way in which the common prefix and
  suffix of two results meet or would overlap (0 0 and 0 0 0, or 0 1 0 and 0).
- The alphabets of `lexing` are one for each group of lexing functions (comments and
  continuations, directives, numbers, operators, headers, wide characters), since a lexing
  function looks only at its own characters. Edits are made everywhere in texts up to length
  4, and at the end of longer ones.
- Seven lines hold three conditionals closed in any order, or one with five branches.
- Four lines of a main file (`compilation`) hold a conditional around an `#include` with text behind it, two
  `#include`s with comments before and between them, and a comment between any two other lines. The
  disks have a header that ends with a comment, one that includes itself, one that opens a
  conditional and does not close it, two names for one file, a name found in the second directory
  only; depth 2 is the least at which a header is met inside a header and stopped inside that.
- Two compilations are a preamble and a main file on top of it, or a main file alone. A
  third would be a second main file on top of the same preamble, which is what the second is, as
  the levels they share do not change. The texts define a macro again, declare a name of either preamble
  again, use names under feature macros and names that are declared later.
- Six tokens (`MaxTokens`) hold an invocation with two arguments, `P ( x , F )`, one inside
  another, `F ( F ( x )`, and a name that is released by what follows it. The definitions
  name one another and themselves, contain invocations and end with a name, and paste a
  parameter to a token and to another parameter. A directive in the middle of an invocation
  comes after at most three tokens (`MaxInterrupted`): it is met before a list, at its
  beginning, at the beginning of its second argument and behind a token of an argument.
- Seven tokens of an `#if` line are three operands with two binary operators and a pair of
  parentheses or two unary ones, one more than the evaluator's stacks need to hold to decide
  between any two neighbours. All tokens are used in lines of four.
- Two operations of `ConstEval` feed the result of every operation to every other; seven functions
  (`Called`) stand for the ways in which the twenty-two are declared and evaluated.
- The five programs of `parser` use every parsing function and every kind of node between
  them, and in one of them names hide one another in every kind of scope. Each token of
  each is deleted, replaced by and preceded by each of 21 tokens; several hundred of the texts
  that result are other programs without errors, in which the features are asked at every name.
  Two edits are made of a small program. Three operators are all that grouping by precedence
  can get wrong at a time.
- Three overloads are the least for which "better than all others" differs from "better
  than the next".

Symmetry is used in `any` only, for identities nothing compares by order; no liveness is
checked there. Deadlock is not checked in `server` (the client closes its end),
`parser` and `typing` (the bounds on edits and operations are reached); in the other runs it
is, and where the system may stop the module has a stuttering action that says so.

**Fairness.** `DocumentService!Fairness` is weak fairness of every task of every version,
request and context and of the handler in progress: the pool runs what is scheduled on it,
the timer fires, a handler ends. Every such action, once enabled, is disabled only by
itself, by other tasks that hold the pool's threads and end, or by the end of the server.
Nothing is assumed of the client. Weak fairness of a pool step is enough only because the
pool does not starve a queued task: in the runs with liveness, tasks are finite in number.
The pool of the code is a work-stealing one with FIFO queues, so no strong fairness is
needed for more of them. `AsyncPrimitives!Fairness` says that a thread in a critical section,
in a walk or in a task goes on.

`ServerLoop!FairSpec` is weak fairness of the listening loop, of each worker's taking a task
and of each thread's steps inside a push, and strong fairness of its lock of the output: the
operating system runs every thread that can run and hands a mutex on. Nothing makes the client
write, or close its end.

## 4. Properties

`DocumentService`

- `PreambleMatchesConfig`: the assertion of the constructor of BackgroundCompilation, that
  a preamble handed over was compiled for the config handed over, for every moment at which
  `didChange` may read the two flags.
- `QueryFindsResult`: the assertion of `GetLanguageQueryInfo`, on whichever thread and after
  whichever wait the query gets there.
- `ReplacedNeverPublished`: a version replaced while its diagnostics are debounced, queued or
  computed never publishes them. One replaced after the second look at the flag does. It builds
  on `OnlyLatestUnexpired`, that exactly the replaced versions are expired, which is proved.
- `ExtensionsNeverForgotten`: the extensions of consecutive versions grow, however far the
  older had been compiled. (The code never switches an extension off again, not even when
  the `#extension` line is deleted: extensions stay until the document is closed.)
- `OneHolderPerState`, `ContextOutlivesTasks`, `ClosedContextDestroyed`,
  `LatestVersionDiagnosed`, `ImplementsContract`.
- `ImplementsFairContract`: every query the server accepted is answered (`FairSpec` of the contract), on
  one pool thread too, and even when the document is changed or closed meanwhile.

`ServerLoop`

- `OutputFramed`: whatever the threads push at the same time, and wherever one of them fails,
  the output is whole messages up to the first failure.
- `AnsweredOnce`, `RequestsAnswered`: a request the loop dispatched is answered at most once,
  and, if no push fails and the server is not told to exit, it is answered. A query counts only
  when its document is open: for another one the service writes a line to the log and the
  client waits for ever (LS.h:113, `DocumentOpen`).
- `PulledInStep`: as long as frames declare their payload rightly, what is dispatched is what
  was sent, in order. A frame with the wrong length shifts everything after it.

`AsyncPrimitives`: `EveryTaskServed`, no waiter is lost from the links of the queues, except
those behind a waiter that was freed under the walk (`cutOff`); `ImplementsFifoMutex`. Stated
and proved: `OthersResumed`, whoever waits for the latch is in its queue, ahead of the walk
or cut off, and `CutOffByFreed`, nobody is cut off unless a task that was resumed has been freed.
`AllWaitersResumed`, the promise without that exception, does not hold (section 5).

`SemanticTokens`: `DeltaExactUnlessTruncated`, the client that applies a delta to the result it
named gets the new one. The module also states `ResultIdNamesOneResponse`, which does not hold: `cachedResultId += nextResultId`
in `Feature/SemanticTokens.cpp:337` adds the new id to the old one, so that
the ids 0, 0+1, 1+2 of three responses are followed by 3 when the fourth is a full one.
`DeltaExactUnlessTruncated` is therefore stated for ids that name one response.

`DocumentText`, `Tokenizer`: `PlainEditsMirrored`, unless an edit was behind a wide
character the server holds what the user sees; `LexedAsWritten`, then the tokens of the
server are the lexemes of the user's text, with their classes, texts, positions and flags.

`Conditionals`: `PassedTextIsSelected`, `RegionsMatchDropped`. That the stack and the counter
together are the nesting (`NestingKept`) and that the code may
look at the innermost conditional alone (`OnlyInnermostInactive`) is proved.

`Inclusion`: `OutputIsInclusion`, the tokens of the stream are those that nested inclusion stands
for; the innermost range around a token or a comment is that of its file (`RangesTellFiles`), the config is
that of the directives (`ConfigIsMeant`), a file is one `FileID` (`OneEntryPerFile`). `DescribedByAdjacent`, a
comment of the file that is shown with a declaration ends its line or stands above it with nothing in
between, and comments can be searched by the index of the next token (`CommentsSorted`).

`Invocation`: `NothingDangles`, whatever lives points into what lives, and no level that is shared has a
declaration of a compilation on top of it; `CompiledAsOneText`, a result has the tokens and declarations
of the three texts read as one (a name that the main file declares again is the preamble's when they are compiled at once,
and its own on top of a preamble, since only then it has a level of its own: the reference says which),
and a word is one atom in all of them (`AtomsAgree`).

`MacroExpansion`: `ExpansionMatchesLanguage`, token by token the processor arrives at what the
language defines for the whole text, and tokens are withheld exactly while an invocation is
pending, at every depth of arguments (`WellFormed`).

`PPExpression`, `ConstEval`: `ValueIsMeaning`, a line is given the value of its parse or is
refused; `FoldedIsMeant`, where no departure applies the folded value is the value, and its shape and
kind are those of the type deduced for the node (`FoldedHasDeducedType`), which the readers of the buffer
rely on. `BuffersTyped` is stated and does not hold (section 5).

`Parser`: `ParserEnds`, every parse comes to the end of the text without a loop that makes no
progress, but for two known ones, and no assertion on depths and modes fails, but for the one on
assignments in recovery, which is reached behind a struct without a body and in an `else` whose `if`
breaks off (section 5); `ErrorsStayInBody`, an edit inside a balanced function body
leaves the declarations after it as they were; `GroupedByPrecedence`.

`LanguageQuery`: `NamesResolvedByScope`, a name is resolved to what it means by the scopes of
the text; `SearchFindsNames`, the search by position finds every name that a visit of the
whole tree comes across (but for two kinds of place, section 5).

`Navigation`: `NavigationAgrees`, from every name the definition has that name, is among the
references, has the same type and, if global, is in the outline; every reference leads to the
same definition; what folds nests.

`Completion`: `CompletionOffersVisible`, what the parser resolves completion offers, and
signature help is about the call whose argument the cursor is at.

`Presentation`: `ColouredOnce`, no token is coloured by both passes, and no name by none;
`HintsNameArguments`, the name of a parameter stands before its argument. The hints for members,
elements and components of an initializer are in the model, but no property is about them.

`AstBuilder`: `CastsAreConversions`, a cast inserted for an operand, an argument or a
branch is an implicit conversion of the language; `ProductsAreLinearAlgebra`, the type of a
product; `OverloadOrderIrrelevant`, which overload is found does not depend on the order of
the entries.

## 5. Findings

A disagreement between the code and its documentation is the run `edits_utf16`, which must fail.
Edits are sent in UTF-16 units and applied to bytes (`SourceText.h:53`;
`Tokenizer.h:32`: "LSP requires utf-16 code units."). Type `é` and delete it: the second
byte stays in the server's text.

The models contain further behaviour that a reader may not expect. For those in the first
table a cfg is kept that makes TLC show it (`tlc -config <cfg> <module>`).

| cfg | module | behaviour |
|---|---|---|
| `DocumentService_exit` | `MCDocumentService` | `exit` destroys the contexts of open documents while tasks are in their scopes (LS:226). LS.h:43: "We have to keep this context alive until all tasks in the scope are finished." |
| `AsyncPrimitives_freed` | `AsyncPrimitives` | `CountDown` advances from a node after resuming it (`AsyncLatch.h:115`); the task may have completed and been freed on another thread by then, and the waiters behind it are never resumed (`AllWaitersResumed`) |
| `ServerLoop_exit` | `MCServerLoop` | the output and its mutex are destroyed before the pool has finished its pushes (`LanguageServer.h:70`: "This function is thread-safe.") |
| `SemanticTokens_prefix` | `SemanticTokens` | no edit is sent when the new result is the old one cut short (`SemanticTokens.cpp:340`); the client keeps the removed tokens |
| `Conditionals_elif` | `Conditionals` | `HandleElifDirective` resets `seenActiveBranch` (PP:802): in `#if 1 / #elif 0 / #else` the `#else` branch is active as well |

For those in the second table the module states what one would expect, and TLC shows the counterexample
when that is the INVARIANT of the cfg of the module's run.

| invariant | run | behaviour |
|---|---|---|
| `ArgumentRangeIsArgument` | `macros` | the comma between two arguments is withheld after the range of the second argument has begun (PP:90): of `#define P(A, B) B`, `P(x, y)` is expanded to `, y` |
| `AssignmentsAreParsed` | `parser` | `if (a) else a = b;` and an assignment behind a struct without a body are parsed in recovery, where `GLSLD_ASSERT(InParsingMode())` fails (`Parser.cpp:1105`); a release build goes on |
| `NoBraceEndsGlobalScope` | `parser` | `void f ( { ) a ; }` followed by `}` is parsed for ever (`Parser.cpp:2037`) |
| `BuffersTyped` | `compilation` | buffers of `uint8` are read as `int8_t` (`ConstValue.h:500`, against the assertion at line 171) |
| `DirectiveEndsWithLine` | `compilation` | the token behind a block comment at the start of a line is not flagged as the first of its line (`Tokenizer.cpp:647`; `SyntaxToken.h:116`: "If the token is the first token of a line, this flag is set to true."): `#define X 1` swallows a line `/* c */ int a;` below it |
| `ExpandedIntoMainFile` | `compilation` | tokens of a header have their position in the header where the position in the main file is meant (PP.h:309; `SyntaxToken.h:356`: "this is an empty range right before \"#include\""); positions are searched in these ranges, which are then not sorted |
| `LineCommentDescribes` | `compilation` | a comment on the first line does not describe the declaration below it, since the line of the token before it starts as 0 (PP.h:359; `LanguageQueryInfo.cpp:376`) |
| `DescribedFromOwnFile` | `compilation` | a comment that ends a header is shown with a declaration of the includer if line numbers happen to agree (`LanguageQueryInfo.cpp:378`; line 377: "no preprocessor lines in between") |
| `LastLineComment` | `compilation` | a comment that ends the last line of a file is not shown with the declaration it follows: the end of the file is on the same line (`Tokenizer.cpp:295`) |
| `ScanEndsAtText` | `compilation` | the scan for version and extensions does not stop at the first token (PP:386; `CompilerInvocation.h:149`: "Scanning should end at the first non-comment, non-preprocessor token.") |

Others, part of the models or met while writing them:

*Service.* `didChange` or a query for a document that is not open inserts an empty entry
(`documentContexts[uri]`), which the `didClose` that follows dereferences (LS:275, LS:147;
`CloseNullEntry`). Result ids of semantic tokens repeat (section 4).

*Server loop.* A payload is written to the replay file before it is known to be JSON (LV:172);
`Replay` ignores the stop flag and stops at the first payload that is not an object. Unknown
or malformed requests get no response. A worker's failed push stops the loop only after
another message or the end of the stream. What a length leaves of a payload is read together
with the header line that follows, which is lost.

*Text.* A position behind the end of a line goes to the start of the next one, where the
comment at `Protocol.h:43` says it defaults to the length of the line.

*Files.* Opened files are never closed: the source manager keeps the content and not the handle
(`SourceManager.cpp:36`; `FileSystemProvider.h:24`: "The returned handle object needs to be closed by
calling Close.").

*Tokenizer.* `ParseGlslVersion` does not know 300 and 310 (`#version 300 es`);
`#version 450 1` meets an assertion; `#define F(a` is accepted as function-like.

*Conditionals.* The callback of `#elif` is told the value of the expression and not the
activity of the branch (PP:798): for `#if 1 / #elif 1` the second branch is dropped and not
shown as inactive. `#ifdef` without a name opens nothing in an active branch and is counted
in an inactive one. The end of the file in an inactive branch meets the assertion of PP.h:555
in debug builds; the model halts as a release build does.

*Macros.* An invocation with too few arguments whose parameter is pasted reads `args[i]`
without a bound (PP:225; "missing"). An `#undef` while the arguments of the macro are collected
leaves the processor with a pointer to the freed definition ("dangling"). Pasting gives up on
an argument of several tokens (PP:228; "long") and makes the end-of-file token from no text
(PP:252; "empty"). The name of a function-like macro at the end of an expansion is not an
invocation even if a `(` follows (PP:299; "cut"). A name that its own expansion has left alone
inside an argument is expanded when the argument is substituted ("enabled again"). The tokens
of an argument list that is not closed are lost, except the name ("unterminated"), although
PP.h:256 says of `Finalize` "Release all witheld tokens".

*Parser.* The inner loop of `ParseBinaryExpr` makes no progress on `a + struct * b`, whatever
the NOTE at `Parser.cpp:1201` says. The assertion `InParsingMode()` fails for `if (a) else { a = 1; }` and after a bare
struct; `if [`, `while x`, malformed initializer lists and `layout x` recover without an
error; a `;` in an initializer list rebalances the braces of the body.

*Types.* `bvec2 * mat2` reaches GLSLD_UNREACHABLE (`AstBuilder.cpp:582`, 648). `IsOrderingComparableTo` is inverted (`Type.h:357`). A prototype and its definition
make a call that needs a conversion ambiguous (FIXME at `SymbolTable.cpp:12`). The argument
of an `out` parameter is cast towards the parameter (`AstBuilder.cpp:848`). Casts of indices,
array sizes and initializers are not checked. Component-wise operations of matrices ignore
their dimensions, and arrays of several dimensions are nested in reverse
(`AstContext.cpp:70`). A redeclaration of a builtin resolves to the preamble's.

*Tree and features.* `AstDoWhileStmt` is visited condition first (`Stmt.h:383`), so nothing in the
body of a do-while is found by position. The range of an expression statement that begins with
a constructor leaves its type out. `(a) + b` begins at `a`, so a hint for it stands inside the
parentheses. An array of a struct is no reference to the struct (`Reference.cpp:40`), and for
the struct's own definition the id of a default-constructed token is read, which its
constructor leaves indeterminate (`SyntaxToken.h:146`; the model takes it as not in the file).
Definition at an unnamed block dereferences an empty declarator (`Definition.cpp:74`). The
references of the name of a block are those of its instance. `IsBlockField` tests for the
wrong kind of node (`Expr.h:223`). Redeclarations of a function are declarations of their own.
Names of structs nested in others or defined in a parameter are never declared, and the
declarators of `int a = 1, b = a;` only after all of them. The cursor right behind a name finds
nothing. Recovery can be entered and left without an error (`struct g[1]` as a parameter), and
`layout struct S {...}` loses the members. Completion keeps one item per name, of the kind of
its last declaration.

*Constants.* Integer `1/0`, `x%0` and the least value by -1 kill the process
(`AstContext.cpp:82`, `Hover.cpp:154`). A scalar is not broadcast over a vector, nor in a call: `max(vec2(2, 3), 1)` is
folded with a 0 for the second component of the scalar. `min`, `max` and `clamp` of scalars are declared
twice (`Stdlib.Generated.h:1487`, 1489), so that a call without an exact match, `min(1, 2.0)`, is
ambiguous and resolves to nothing. A function of the user with the name of a built-in one is folded as
that (`AstBuilder.cpp:842`: "FIXME: this is a loose check"). `==` on
vectors folds to a vector; products of matrices are element-wise; `.length()` of a matrix
folds to its rows; `ToString` of a bool reads element 0; float16 aborts.

## 6. Proofs

TLAPS checks the following for every value of the constants. The first lemma of each module
gives the shape of the states; what makes the invariants inductive is said below.

`DocumentServiceProofs` proves of `Spec`, for every number of documents, contexts,
versions, requests, features and threads, and whether or not the client misuses the
protocol or sends exit: `TypeCorrect` (`TypeOK`), `PreambleAlwaysMatches`
(`PreambleMatchesConfig`), `QueryAlwaysFindsResult` (`QueryFindsResult`), `OnlyLatestIsUnexpired`
(`OnlyLatestUnexpired`) and `ExtensionsAreKept` (the action property
`ExtensionsNeverForgotten`). The assumptions are those of `DocumentService`: the texts declare
known versions and extensions, and the null values are none of the objects they stand in for.
None of these is inductive. `IInv` adds what ties the parts together:

- an open document has a context in use with a version, and an unused context has none
  (otherwise `didOpen` could add a second version to a context without expiring the first);
- between the steps of a `didChange` its document stays open, its version is expired, and
  the config read is at least that version's (otherwise nothing is known of what the last
  step installs);
- the flags of a version are exactly the progress of its `Run`, and its result has at least
  the extensions of its config (so whichever of the two is read, nothing is lost);
- whoever is in the queue of a latch waits for that version, and whoever is in the queue
  of a mutex has passed its latch (so the thread that resumes a query need not look at it).

Each of the four parts of `IInv` is a lemma `ASSUME IInv, [Next]_vars PROVE part'` with a step
per action; a frame lemma per part covers the actions that leave its variables alone.
`ExtensionsAreKept` follows from `IInv` because only `DidOpen` and `InstallChange` change
the latest version: the first in a context that had none, the second to a config that
`IInv` bounds from below.

`ReplacedIsNeverPublished` (`ReplacedNeverPublished`) rests on the second of these: a version that
was replaced is expired, and its diagnostic is published only in the step that finds it is not.

It proves `StateHasOneHolder` (`OneHolderPerState`). Its invariant `MutexInv` says that
the queues of the latches and of the mutexes hold waiting queries only, each of them once, and
that a mutex is locked by exactly one query and free without a holder or a queue. That a queue
has no repetition is what makes the hand-over in `Unlock` keep the count at one.

The same module proves `ContractImplemented`: `Spec` implements the safety part of
`DocumentContract` (`ImplementsContract`), so a request is answered at most once and from the
content its document had when it was handled, for any number of documents, queries and threads.
Beyond `IInv` and `MutexInv` this needs that open documents have contexts of their own, which
are open, and that a query that has not run has no answer. `didOpen`, the last step of a
`didChange`, `didClose`, `exit`, the acceptance of a query and its answer map to the steps of
the contract, everything else to a stutter. From the same invariant follows
`ContextsOutliveTasks` (`ContextOutlivesTasks`), under the assumption that the client never
sends exit: with exit it is the behaviour of `DocumentService_exit` (section 5).

`ConditionalsProofs` proves `TypeCorrect`, `InnermostDecides` (`OnlyInnermostInactive`),
`DepthKept` (`NestingKept`) and `SelectedTextPasses` (`PassedTextIsSelected`) for files of any
length and nesting of any depth. The inductive invariant says that the stack of the state
machine is the language's nesting down to and including the first branch that is not
selected, entry by entry (`Follows`, `Agrees`), that the counter is the number of conditionals
below that, and that the state is inactive exactly when the innermost entry is. There is a
lemma per handler of a directive.

From a second invariant follows `InactiveRegionsExact` (`RegionsMatchDropped`): the regions sent
to the client are the lines that were dropped. It adds that a region is open exactly when the top of the stack is inactive (but for late `#elif`s), that regions end before the current
line, and that the lines read so far are those before the directive.

`EditProofs` proves `EditsAreMirrored` (`PlainEditsMirrored`) for every alphabet, text
and session. Positions grow strictly from place to place (by the cardinalities of the sets of
units before them), so the scan for a position stops at the one place that has it, and behind
ASCII alone the positions of the two encodings are the same numbers.

It proves `TypeCorrect` and `DeltasAreExact` (`DeltaExactUnlessTruncated`) of `SemanticTokens`, for results of any
length over any data. The calculation is a lemma of its own (`DeltaTurnsOldIntoNew`): the one edit between
the longest common prefix and the longest common suffix behind it turns the old result into the new,
unless the new one is a prefix of the old. The invariant says that the cache holds the last
response that was sent, and that a delta started from the one before it.

`ConcurrencyProofs` proves of `ServerLoop` `TypeCorrect`, `WholeFrames` (`OutputFramed`), `OneAnswer` (`AnsweredOnce`)
and `StaysInStep` (`PulledInStep`) for every number of workers, frames and messages, every size of
payload and buffer and every kind of header. The parts of the invariant:

- the thread that holds the output's mutex is the one between two writes, and the last header
  written is its own (so the frame it completes is the one it began);
- the payloads in the input are in the order of the stream, each once and behind those that were
  pulled (so a request that was pulled is not met again, however wrongly frames are cut);
- an answer is in one place at a time: still to be found in the stream, in a task, in a push
  or in the output;
- while all frames declare their payload rightly, the input is cut where a frame begins, or
  inside the frame where the loop is, with the length it has read.

`ConcurrencyProofs` proves of `AsyncPrimitives` `PrimitivesTypeCorrect`, `MutexIsFifo` (`ImplementsFifoMutex`: the mutex over its
intrusive queue refines `FifoMutex`) and `EverybodyResumed` (`OthersResumed`, `CutOffByFreed`), for every finite set
of tasks and any number of callers. The invariant names what the links are: the tasks that wait
for the mutex are the path from its queue's head to its tail, without repetition, and the holder is one; the
tasks that wait for the latch are the path of its queue until the counter is zero, and then
the path before the one walk that resumes them, or cut off from it. Pushing and popping keep such paths
(`PushLinked`, `PopLinked`). `EverybodyResumed` assumes nothing of the lifetime of a waiter: a task may be
freed under the walk, and the theorem says that the tasks behind it are then all that is lost. That
nobody is lost at all cannot be proved, since it is not so (`AsyncPrimitives_freed`, section 5).

`AstBuilderProofs` proves `TypeCorrect`, `CastsConvert` (`CastsAreConversions`), `ProductsHaveShape`
(`ProductsAreLinearAlgebra`) and `OrderOfOverloadsIrrelevant` (`OverloadOrderIrrelevant`) for every set
of declared types and every table of overloads. Types and casts are inductive together. There is a lemma
for each way in which an operator is deduced, saying that what an operand is converted to can
be reached from it; the one that needs thought is the broadcast of a scalar that converts the
composite, where a matrix becomes one of doubles or the error type. For the overloads, a
permutation of the table carries exact matches to exact matches and the best candidate to the
best candidate.

`CompilationProofs` proves of `CompileSpec`, for any texts, stages, clients and number of
compilations: `CompilationsOwnMemory`, `NothingEverDangles` (`NothingDangles`), `TextsAreMeant` and
`AlwaysCompiledAsOneText` (`CompiledAsOneText`). The one assumption is that the texts are sequences of
items. The first invariant, `MemoryOwned`, says into whose memory everything points: what a preamble has,
its levels included, into its own, what a result has into its own and into that of the preamble it
keeps. The second, `TextMeant`, says what everything means: atoms, macros, tokens, trees and levels are
those that the texts, read as one, stand for up to the place that was reached. That of a preamble must
hold for every main file that may follow (`PreambleMeant`, `MainAfter`), for it is compiled before there is
one. Where each of the three texts is in the one is said once (`UnitAt`, `TextShape`). Preprocessor and parser go over a text item by item, so what they
keep up to every place is an induction over the items; it is done with sets, since a set of numbers
that is not empty has a least one (`LeastNumber`, `Climb`), and functions like these have their
recursive equation by the same argument. The heart of the second part is
that the k-th token of a unit is that of the k-th meant item of its text (`TokenIndex`), with
which the places of declarations in trees, and so the declarations found through the levels of
two compilations, are compared with the text.

`InclusionProofs` proves of `FileSpec` that `OutputIsInclusion` holds (`PreprocessingIsInclusion`), for any
main file, headers, include directories and depth limit. The assumptions are that a text is a sequence of at
least one line of words, none of which is the mark for the end, and that no file has the null path. The property speaks of the end only, so the
invariant has to say what has been done at any time (`InclusionInvariant`):

- what a state machine has read (`Reads`): its conditionals are the `#if`s around the line where it is
  (`Nested`), the directive it is in has the words of its line so far, and its items are those of the lines
  above and of the columns to the left; before a kept token is dispatched, `Arrives` says the same of the
  place of that token;
- the stack is a chain (`Stacked`): below the top each machine waits for the header that the one above it reads,
  one level deeper, and when that is done, its kept token `Arrives` behind the items of the header. The
  items of all levels one after the other are what has been output and collected (`Says`). This is what makes a header that ends
  give its items to its includer, at any depth: `Included` counts the levels that are left, the machine
  those that are used;
- the source manager knows of every path what the disk says of it (`SourcesOK`), so a search finds the first
  directory that has the header, whether or not it was tried before;
- every token and comment lies in the range of its file, innermost first, or, if its file is still being
  read, behind the place where the deepest machine around it began (`RangesInv`, `Told`).

The reference is a function of the lines and columns that were read, so the lemmas about it say what one more
token, one more line or one more item adds (`Tries`, `DirectiveTo`, `ItemsTo` and `PlacesOf` are functions of the
place for that reason); all are inductions with sets of numbers, as in `CompilationProofs`. A lemma per action and invariant
follows, `FileStepKeeps` puts them together.

`CommentProofs` goes on to `DescribedByAdjacent` (`CommentsDescribeAdjacent`), from the same assumptions. Attachment lines
and token indices are kept for one file and one line after the other, so the invariant (`CommentsInvariant`) says where
in a text they belong:

- a token is a word of a line that is output, and the last word before it in its line is the token before it (`Spoken`);
- a comment that is output stands behind the token of its index: if its line is output, the last word before it
  there is that token (`Stands`), nothing but comments precede it unless it has the attachment line of what is before
  it, and nothing but comments lie between it and its back attachment line (`Clear`); the indices never go down (`Said`);
- the same is true of the comments that wait, of the place that is read and of the last token (`TopHolds`); a machine
  that waits for a header has no comments and has read to the end of a directive (`AllWait`), and a line of which a
  word is output is read to its end before another file is entered or left (`Pursues`), which is what keeps the
  comments of two files apart.

In the end a comment whose back attachment line is not its own has only comments behind it in its line, and the last word before it is
the last token of the declaration (`EndsLine`); one whose front attachment line is not its own begins its line, and
no word can be between it and the first token of the declaration, since that word would be the token of its index
and the comment would stand behind it in its line (`StandsAbove`).

Each invariant was checked with TLC on the instance of its run before it was proved (`CommentsInv` too), except
the other two of `InclusionProofs`: they quantify over sequences of items, of which TLC checked what the property says
of the end.

Only model-checked: what has recursive operators, about which the prover cannot reason
(`MacroExpansion`, `PPExpression`, `Tokenizer`, `SyntaxTree` and what is built on it: the parser and the
features over the tree); `ConstEval`, whose bit operations are those of `Bitwise`; and all
liveness (`ClosedContextDestroyed`, `LatestVersionDiagnosed`, `EveryTaskServed`,
`RequestsAnswered`, `ImplementsFairContract`). `ErrorsStayInBody` belongs to the
parser. Every other property of a passing run is proved.

## 7. Not modelled, and why

- `#line`, `#pragma` and `#error`, which change nothing; a change on disk during a compilation.
- What glslang computes, `SourceReconstruction`, the wording of hovers and signatures: text
  that no property here tells apart. Of the features, what concerns macros, header names,
  comments and the items of the standard library: the parser runs on preprocessed tokens here.
- JSON, protocol records, the generated declarations of the standard library (a fifth of the
  source; but for those of the functions that fold), the printing of trees: data without operations.
- `MemoryArena`: allocation on one thread, without a protocol.
- `TryWait`, `Wait`, `TryLock`, `Lock` and `Clear` of the primitives: the server does not
  call them.
- The programs `glsld`, `glsld-wrapper` and the generators: command lines and code
  generation. `Replay` is described in section 5.

What is left to do with these modules: structs and arrays in `ConstEval`, and a proof that
what `ConstEval` folds has the type deduced for it, with the bit operations as parameters.
