----------------------------- MODULE Invocation -----------------------------
(***************************************************************************)
(* The life of compilations.  A CompilerInvocation is configured, given a  *)
(* text and used once: it compiles the system preamble (the declarations   *)
(* of the language) and a user preamble into a PrecompiledPreamble, or the *)
(* main file into a CompilerResult, either from nothing or on top of a     *)
(* precompiled preamble that any number of compilations share.             *)
(*                                                                         *)
(* A compilation makes an atom table, a tree and one global level of the   *)
(* symbol table, which live as long as the preamble or the result that     *)
(* takes them over: they are its memory, named by the compilation's        *)
(* number.  Whatever points into it - tokens at atoms, trees at            *)
(* declarations, symbol tables at levels - names it.  A preamble lives as  *)
(* long as somebody has a shared pointer to it.                            *)
(*                                                                         *)
(* A text is a sequence of #defines, declarations and uses of names, the   *)
(* latter two possibly under an #ifdef.  Directives are the subject of     *)
(* Conditionals and Inclusion, expansion is that of MacroExpansion: here   *)
(* a macro stands for one word, which is no macro.                         *)
(***************************************************************************)
EXTENDS Integers, Sequences, FiniteSets, SequencesExt, FiniteSetsExt, TLC

CONSTANTS
    Clients,         \* who has an invocation: the server's threads, the wrapper
    Stages,          \* the shader stages in use
    GlslStdlibText,  \* the system preamble
    UserPreambles,   \* texts of the user preamble, the empty one included
    UserTexts,       \* texts of the main file
    MaxCompilations  \* bound on the number of compilations

VARIABLES
    compilations, \* how many there were
    invocations,  \* client -> its CompilerInvocation, if it has one
    preambles,    \* number -> PrecompiledPreamble
    results,      \* number -> CompilerResult
    levels,       \* number -> the global SymbolTableLevel of the compilation
    held          \* the preambles somebody has a pointer to

\* What a text is made of.
Item == [op : {"define"}, name : STRING, body : STRING]
            \cup [op : {"declare", "use"}, name : STRING, under : STRING]

ASSUME TextAssumption ==
    /\ GlslStdlibText \in Seq(Item)
    /\ UserPreambles \subseteq Seq(Item)
    /\ UserTexts \subseteq Seq(Item)

compileVars == <<compilations, invocations, preambles, results, levels, held>>
compiled == <<compilations, preambles, results, levels>>

None == 0
NoText == <<[op |-> "none"]>>  \* mainFileId is not valid
Always == "always"
NoDecl == <<None, None, None>>

\* Neither the version nor an extension has an effect on a compilation.
DefaultConfig == [stage |-> "Unknown", noStdlib |-> FALSE]
LanguageConfigs == [stage : Stages, noStdlib : BOOLEAN]

SystemPreamble == 1
UserPreamble == 2
UserFile == 3

\* A table with one more entry, if it does not have it yet.
Added(f, x, e) == [y \in DOMAIN f \cup {x} |-> IF y \in DOMAIN f THEN f[y] ELSE e]

-----------------------------------------------------------------------------
(***************************************************************************)
(* The CompilerInvocationState s of a compilation.  An atom is a pointer   *)
(* to a word in the arena of a compilation; macros are found by atom,      *)
(* declarations by word.                                                   *)
(***************************************************************************)
Intern(s, word) == [s EXCEPT !.atoms = Added(@, word, <<s.memory, word>>)]
GetAtom(s, word) == Intern(s, word).atoms[word]
Word(atom) == atom[2]

IsMacroDefined(s, word) == GetAtom(s, word) \in DOMAIN s.macros

\* Mutant: the last definition counts.
RedefineMacro(s, word, body) ==
    LET t == Intern(Intern(s, word), body)
    IN  [t EXCEPT !.macros = (GetAtom(t, word) :> GetAtom(t, body)) @@ @]

\* A macro that is defined stays as it is.
DefineMacro(s, word, body) ==
    LET t == Intern(Intern(s, word), body)
    IN  [t EXCEPT !.macros = Added(@, GetAtom(t, word), GetAtom(t, body))]

StageMacro(stage) == "__GLSLD_SHADER_STAGE_" \o stage
FeatureMacros(config) == {"GL_core_profile", StageMacro(config.stage)}

DefineFeatureMacros(s) ==
    DefineMacro(DefineMacro(s, "GL_core_profile", "1"), StageMacro(s.config.stage), "1")

NewArtifact(memory) == [buffer |-> memory, tokens |-> <<>>, tree |-> <<>>]

\* Initialize, on top of a preamble: tables are copied, except for the levels of
\* symbols, which are shared, and the artifacts, which become views.
StateWithPreamble(n, p) ==
    [memory |-> n, preamble |-> p, config |-> preambles[p].config,
     atoms |-> preambles[p].atoms, macros |-> preambles[p].macros,
     symbols |-> Append(preambles[p].symbols, n), levels |-> Added(levels, n, <<>>),
     artifacts |-> Append(preambles[p].artifacts, NewArtifact(n))]

\* Initialize and InitializeStdlib, from nothing.
StateFromNothing(n, config) ==
    DefineFeatureMacros(
        [memory |-> n, preamble |-> None, config |-> config,
         atoms |-> <<>>, macros |-> <<>>,
         symbols |-> <<n>>, levels |-> Added(levels, n, <<>>),
         artifacts |-> <<NewArtifact(n), NewArtifact(n), NewArtifact(n)>>])

-----------------------------------------------------------------------------
(***************************************************************************)
(* The two passes over a text.                                             *)
(***************************************************************************)
Expanded(s, word) == IF IsMacroDefined(s, word) THEN s.macros[GetAtom(s, word)]
                     ELSE GetAtom(s, word)

PreprocessItem(s, unit, item) ==
    CASE item.op = "define" -> DefineMacro(s, item.name, item.body)
      [] item.op \in {"declare", "use"} ->
            LET t == IF item.under = Always THEN s ELSE Intern(s, item.under)
                u == Intern(t, item.name)
            IN  IF item.under = Always \/ IsMacroDefined(t, item.under)
                THEN [u EXCEPT !.artifacts[unit].tokens =
                         Append(@, [op |-> item.op, atom |-> Expanded(u, item.name)])]
                ELSE t

DoPreprocess(s, unit, text) ==
    LET pass[k \in 0 .. Len(text)] ==
            IF k = 0 THEN s ELSE PreprocessItem(pass[k - 1], unit, text[k])
    IN  pass[Len(text)]

FindSymbol(s, word) ==
    LET hits == {k \in DOMAIN s.symbols : word \in DOMAIN s.levels[s.symbols[k]]}
    IN  IF hits = {} THEN NoDecl ELSE s.levels[s.symbols[Max(hits)]][word]

\* The tree has the declaration of every token: a name is declared in the
\* current level unless it is there, and looked up from the last level on.
ParseToken(s, unit, token) ==
    LET word == Word(token.atom)
        decl == <<s.memory, unit, Len(s.artifacts[unit].tree) + 1>>
    IN  IF token.op = "declare"
        THEN [s EXCEPT !.levels[Last(s.symbols)] = Added(@, word, decl),
                       !.artifacts[unit].tree = Append(@, decl)]
        ELSE [s EXCEPT !.artifacts[unit].tree = Append(@, FindSymbol(s, word))]

DoParse(s, unit) ==
    LET tokens == s.artifacts[unit].tokens
        pass[k \in 0 .. Len(tokens)] ==
            IF k = 0 THEN s ELSE ParseToken(pass[k - 1], unit, tokens[k])
    IN  pass[Len(tokens)]

-----------------------------------------------------------------------------
(***************************************************************************)
(* The operations of a CompilerInvocation.  Its users set it up before     *)
(* they scan or compile, and compile once.                                 *)
(***************************************************************************)
CompileInit ==
    /\ compilations = 0
    /\ invocations = <<>>
    /\ preambles = <<>> /\ results = <<>>
    /\ levels = <<>>
    /\ held = {}

Has(c) == c \in DOMAIN invocations
InSetup(c) == Has(c) /\ invocations[c].phase = "setup"

\* Setting a member that only counts without a preamble.
Configure(c, config) ==
    /\ InSetup(c)
    /\ invocations' = IF invocations[c].preamble = None
                      THEN [invocations EXCEPT ![c].config = config]
                      ELSE invocations
    /\ UNCHANGED <<compiled, held>>

NewInvocation(c) ==
    /\ ~Has(c)
    /\ \E p \in {None} \cup held :
           invocations' = Added(invocations, c,
               [preamble |-> p, phase |-> "setup",
                config |-> IF p = None THEN DefaultConfig ELSE preambles[p].config,
                systemPreamble |-> <<>>, userPreamble |-> <<>>, main |-> NoText])
    /\ UNCHANGED <<compiled, held>>

ApplyLanguageConfig(c) == \E config \in LanguageConfigs : Configure(c, config)
SetShaderStage(c) ==
    \E stage \in Stages : Configure(c, [invocations[c].config EXCEPT !.stage = stage])
SetNoStdlib(c) == Configure(c, [invocations[c].config EXCEPT !.noStdlib = TRUE])

SetUserPreamble(c) ==
    /\ InSetup(c) /\ invocations[c].preamble = None
    /\ \E text \in UserPreambles :
           invocations' = [invocations EXCEPT ![c].userPreamble = text]
    /\ UNCHANGED <<compiled, held>>

\* SetMainFileFromBuffer and SetMainFileFromFile.
SetMainFile(c) ==
    /\ InSetup(c)
    /\ \E text \in UserTexts : invocations' = [invocations EXCEPT ![c].main = text]
    /\ UNCHANGED <<compiled, held>>

\* What InitializeStdlib leaves in the SourceManager.
SystemText(i) == IF i.config.noStdlib THEN i.systemPreamble ELSE GlslStdlibText

\* The wrapper collects the version and the extensions of the text first.
ScanVersionAndExtension(c) ==
    LET i == invocations[c]
    IN  /\ InSetup(c) /\ i.main # NoText /\ i.preamble = None
        /\ invocations' = [invocations EXCEPT
               ![c] = [i EXCEPT !.phase = "scanned", !.systemPreamble = SystemText(i)]]
        /\ UNCHANGED <<compiled, held>>

\* An invocation that compiled: its members are read no more.
Used(i) == [i EXCEPT !.phase = "used", !.config = DefaultConfig, !.systemPreamble = <<>>,
                     !.userPreamble = <<>>, !.main = NoText]

Ready(c) ==
    Has(c) /\ invocations[c].phase \in {"setup", "scanned"} /\ compilations < MaxCompilations

\* CreatePreamble takes the tables of the state over.
CompilePreamble(c) ==
    LET i == invocations[c]
        n == compilations + 1
        s == DoParse(DoPreprocess(StateFromNothing(n, i.config), SystemPreamble, SystemText(i)),
                     SystemPreamble)
        t == DoParse(DoPreprocess(s, UserPreamble, i.userPreamble), UserPreamble)
    IN  /\ Ready(c) /\ i.preamble = None
        /\ preambles' = Added(preambles, n,
               [config |-> i.config, systemPreamble |-> SystemText(i),
                userPreamble |-> i.userPreamble, atoms |-> t.atoms, macros |-> t.macros,
                symbols |-> t.symbols, artifacts |-> SubSeq(t.artifacts, 1, 2)])
        /\ levels' = t.levels
        /\ compilations' = n
        /\ held' = held \cup {n}
        /\ invocations' = [invocations EXCEPT ![c] = Used(i)]
        /\ UNCHANGED <<results>>

\* The compilation of a main file, from nothing or on top of the preamble.
Preprocessed(i, n) ==
    IF i.preamble # None
    THEN DoPreprocess(StateWithPreamble(n, i.preamble), UserFile, i.main)
    ELSE LET s == DoPreprocess(StateFromNothing(n, i.config), SystemPreamble, SystemText(i))
         IN  DoPreprocess(DoPreprocess(s, UserPreamble, i.userPreamble), UserFile, i.main)

Parsed(i, s) ==
    IF i.preamble # None THEN DoParse(s, UserFile)
    ELSE DoParse(DoParse(DoParse(s, SystemPreamble), UserPreamble), UserFile)

\* The system preamble, the user preamble and the main file a result is of.
Texts(i) ==
    IF i.preamble = None THEN <<SystemText(i), i.userPreamble, i.main>>
    ELSE <<preambles[i.preamble].systemPreamble, preambles[i.preamble].userPreamble, i.main>>

\* Mutant: the preamble is not kept.
ResultWithoutPreamble(s, texts) ==
    [preamble |-> None, atoms |-> s.atoms, artifacts |-> s.artifacts,
     config |-> s.config, texts |-> texts, base |-> s.preamble]

\* CreateCompileResult: the preamble is kept, the level of the state is not.
\* What it was made from - config, texts and base - is only remembered here.
CreateCompileResult(s, texts) ==
    [preamble |-> s.preamble, atoms |-> s.atoms, artifacts |-> s.artifacts,
     config |-> s.config, texts |-> texts, base |-> s.preamble]

CompileMainFile(c) ==
    LET i == invocations[c]
        n == compilations + 1
    IN  /\ Ready(c) /\ i.main # NoText
        /\ \E mode \in {"ParseOnly", "PreprocessOnly"} :
             LET p == Preprocessed(i, n)
                 s == IF mode = "ParseOnly" THEN Parsed(i, p) ELSE p
             IN  /\ results' = Added(results, n, CreateCompileResult(s, Texts(i)))
                 /\ levels' = [k \in DOMAIN s.levels \ {n} |-> s.levels[k]]
        /\ compilations' = n
        /\ invocations' = [invocations EXCEPT ![c] = Used(i)]
        /\ UNCHANGED <<preambles, held>>

DestroyInvocation(c) ==
    /\ Has(c)
    /\ invocations' = [k \in DOMAIN invocations \ {c} |-> invocations[k]]
    /\ UNCHANGED <<compiled, held>>

\* Who has a preamble gives it up.
ReleasePreamble ==
    /\ \E p \in held : held' = held \ {p}
    /\ UNCHANGED <<compiled, invocations>>

DestroyResult ==
    /\ \E r \in DOMAIN results : results' = [k \in DOMAIN results \ {r} |-> results[k]]
    /\ UNCHANGED <<compilations, invocations, preambles, levels, held>>

CompileNext ==
    \/ \E c \in Clients :
           \/ NewInvocation(c)
           \/ ApplyLanguageConfig(c) \/ SetShaderStage(c) \/ SetNoStdlib(c)
           \/ SetUserPreamble(c) \/ SetMainFile(c)
           \/ ScanVersionAndExtension(c)
           \/ CompilePreamble(c) \/ CompileMainFile(c)
           \/ DestroyInvocation(c)
    \/ ReleasePreamble
    \/ DestroyResult

CompileSpec == CompileInit /\ [][CompileNext]_compileVars

-----------------------------------------------------------------------------
(***************************************************************************)
(* What lives, and what it points to.                                      *)
(***************************************************************************)
LivePreambles ==
    {p \in DOMAIN preambles :
        \/ p \in held
        \/ \E c \in Clients : Has(c) /\ invocations[c].preamble = p
        \/ \E r \in DOMAIN results : results[r].preamble = p}

ArtifactPointers(a) ==
    {a.buffer} \cup {a.tokens[k].atom[1] : k \in DOMAIN a.tokens}
               \cup ({a.tree[k][1] : k \in DOMAIN a.tree} \ {None})

\* The memory a preamble or a result points into.
Pointers(o) ==
    {o.atoms[w][1] : w \in DOMAIN o.atoms}
        \cup UNION {ArtifactPointers(o.artifacts[u]) : u \in DOMAIN o.artifacts}

LevelPointers(p) == {levels[p][w][1] : w \in DOMAIN levels[p]}

(***************************************************************************)
(* The system preamble, the user preamble and the main file read as one    *)
(* text, from its start to its end.                                        *)
(***************************************************************************)
OfUnit(texts, u) == [k \in DOMAIN texts[u] |-> [unit |-> u, item |-> texts[u][k]]]
OneText(texts) ==
    OfUnit(texts, SystemPreamble) \o OfUnit(texts, UserPreamble) \o OfUnit(texts, UserFile)

DefinitionsBefore(text, i, word) ==
    {j \in 1 .. i - 1 : text[j].item.op = "define" /\ text[j].item.name = word}

IsDefinedBefore(config, text, i, word) ==
    word \in FeatureMacros(config) \/ DefinitionsBefore(text, i, word) # {}

\* The macros of the language are defined first, and the first definition counts.
Replacement(config, text, i, word) ==
    IF word \in FeatureMacros(config) THEN "1"
    ELSE IF DefinitionsBefore(text, i, word) = {} THEN word
    ELSE text[Min(DefinitionsBefore(text, i, word))].item.body

MeantWord(config, text, i) == Replacement(config, text, i, text[i].item.name)

IsMeant(config, text, i) ==
    /\ text[i].item.op \in {"declare", "use"}
    /\ text[i].item.under = Always \/ IsDefinedBefore(config, text, i, text[i].item.under)

\* The indices of the text that a unit has tokens for, up to index i.
MeantTokens(config, text, unit, i) ==
    {j \in 1 .. i : text[j].unit = unit /\ IsMeant(config, text, j)}

\* Which token of its unit index i of the text is.
TokenIndex(config, text, i) == Cardinality(MeantTokens(config, text, text[i].unit, i))

\* The declarations of the name of a use before it; those of the main file
\* hide the others if these were compiled before, to a level of their own.
MeantDecls(config, text, i, base) ==
    LET decls == {j \in 1 .. i - 1 : /\ IsMeant(config, text, j) /\ text[j].item.op = "declare"
                                      /\ MeantWord(config, text, j) = MeantWord(config, text, i)}
        own   == {j \in decls : text[j].unit = UserFile}
    IN  IF base # None /\ own # {} THEN own ELSE decls

\* The declaration a token stands for or refers to: its unit and its place in it.
MeantDecl(config, text, i, base) ==
    LET decls == IF text[i].item.op = "declare" THEN {i} ELSE MeantDecls(config, text, i, base)
        first == Min(decls)
    IN  IF decls = {} THEN <<None, None>>
        ELSE <<text[first].unit, TokenIndex(config, text, first)>>

-----------------------------------------------------------------------------
(***************************************************************************)
(* Properties.                                                             *)
(***************************************************************************)

\* Whatever lives only points into what lives: a result can be used when the
\* invocation, and everybody else who had the preamble, is gone, and a level that
\* compilations share has no declaration of one of them.
\* (CreateCompileResult, CreatePreamble, AtomTable, SymbolTable)
NothingDangles ==
    /\ \A r \in DOMAIN results : Pointers(results[r]) \subseteq {r} \cup LivePreambles
    /\ \A p \in LivePreambles :
           /\ Pointers(preambles[p]) \subseteq LivePreambles
           /\ \A k \in DOMAIN preambles[p].symbols :
                  LevelPointers(preambles[p].symbols[k]) \subseteq LivePreambles

AtomsAgree(o) ==
    LET atoms == UNION {{o.artifacts[u].tokens[k].atom : k \in DOMAIN o.artifacts[u].tokens} : u \in 1 .. 3}
    IN  \A a, b \in atoms : Word(a) = Word(b) => a = b

\* A result has the tokens and the declarations of the preambles and the main
\* file compiled as one text under its configuration, whether they were compiled
\* together or the preambles once for many main files; and the atoms of all these
\* tokens can be compared as pointers.  (CompileMainFile, CompilePreamble,
\* CompilerInvocationState, AtomTable::GetAtom)
CompiledAsOneText ==
    \A r \in DOMAIN results :
        LET o    == results[r]
            text == OneText(o.texts)
        IN  /\ AtomsAgree(o)
            /\ \A u \in 1 .. 3 :
                   /\ Len(o.artifacts[u].tokens)
                          = Cardinality(MeantTokens(o.config, text, u, Len(text)))
                   /\ Len(o.artifacts[u].tree) \in {0, Len(o.artifacts[u].tokens)}
            /\ \A i \in DOMAIN text : IsMeant(o.config, text, i) =>
                   LET a == o.artifacts[text[i].unit]
                       k == TokenIndex(o.config, text, i)
                   IN  /\ a.tokens[k].op = text[i].item.op
                       /\ Word(a.tokens[k].atom) = MeantWord(o.config, text, i)
                       /\ a.tree # <<>> =>
                              <<a.tree[k][2], a.tree[k][3]>>
                                  = MeantDecl(o.config, text, i, o.base)
=============================================================================
