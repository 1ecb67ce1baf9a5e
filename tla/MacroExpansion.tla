--------------------------- MODULE MacroExpansion ---------------------------
(***************************************************************************)
(* Macro expansion in the preprocessor: the MacroExpansionProcessor that   *)
(* is fed the tokens of the active text, the processors it makes for the   *)
(* arguments of an invocation and for the body of a macro, and the         *)
(* MacroTable that #define and #undef change between two lines.            *)
(*                                                                         *)
(* A token is its text.  The body of a macro is a sequence of pastings: a  *)
(* pasting is a token, or several that ## joins.  What pasted texts are    *)
(* tokenized to is a constant.  Stringification, the built-in macros and   *)
(* the positions of tokens are left out.                                   *)
(*                                                                         *)
(* The output is compared with the expansion the language defines (see     *)
(* Reference).  Every departure from it is recorded where it happens.      *)
(***************************************************************************)
EXTENDS Integers, Sequences, SequencesExt, FiniteSetsExt

CONSTANTS
    Definitions,     \* [name, isFunctionLike, params, body] of a #define
    TextTokens,      \* tokens of the text
    Pasted(_),       \* the token a nonempty sequence of texts is pasted to
    MaxTokens,       \* bound on the tokens fed while an invocation is pending
    MaxInterrupted   \* bound on those fed before a directive interrupts it

ASSUME BoundAssumption == MaxTokens \in Nat /\ MaxInterrupted \in Nat
ASSUME DefinitionAssumption ==
    \A d \in Definitions : ~d.isFunctionLike => d.params = <<>>

Names == {d.name : d \in Definitions}

VARIABLES
    macroTable,  \* MacroTable::macroLookup: Names -> <<>> or <<definition>>
    processor,   \* PreprocessStateMachine::macroExpansionProcessor
    input,       \* tokens fed since the processor last had nothing withheld
    output,      \* tokens put out for them
    departures,  \* how their expansion departs from the language
    halted       \* the end of the file has been seen

vars == <<macroTable, processor, input, output, departures, halted>>

IdleProcessor ==
    [witheld |-> <<>>, args |-> <<>>, pending |-> "none", parens |-> 0, arg |-> <<>>]

Init ==
    /\ macroTable = [n \in Names |-> <<>>]
    /\ processor = IdleProcessor
    /\ input = <<>> /\ output = <<>>
    /\ departures = {}
    /\ halted = FALSE

Result(p, tokens, how) == [processor |-> p, out |-> tokens, departures |-> how]

\* The index of parameter t, 0 for another token.
Parameter(def, t) ==
    Max({0} \cup {i \in DOMAIN def.params : def.params[i] = t})

-----------------------------------------------------------------------------
(***************************************************************************)
(* Arguments of a pending invocation.  An argument is a range of the       *)
(* tokens withheld, filled by a processor of its own.                      *)
(***************************************************************************)
NewPendingInvocationArgument(p) ==
    [p EXCEPT !.args = Append(@, [numArgumentToken |-> 0, pasteToken |-> "none",
                                  indexBegin |-> Len(p.witheld),
                                  indexEnd |-> Len(p.witheld)]),
              !.arg = <<IdleProcessor>>]

\* The name of a macro that got no argument list is released; the arguments
\* of an unterminated list are not.
Finalize(p) == IF p.pending = "none" THEN <<>> ELSE <<p.witheld[1]>>

\* Mutant: a name withheld at the end of the argument is forgotten.
FinishWithoutFinalize(p) ==
    [p EXCEPT !.arg = <<>>, !.args[Len(p.args)].indexEnd = Len(p.witheld)]

FinishPendingInvocationArgument(p) ==
    LET witheld == p.witheld \o Finalize(p.arg[1])
    IN  [p EXCEPT !.witheld = witheld, !.arg = <<>>,
                  !.args[Len(p.args)].indexEnd = Len(witheld)]

\* The expanded tokens of the i-th argument.
ArgumentTokens(witheld, args, i) ==
    SubSeq(witheld, args[i].indexBegin + 1, args[i].indexEnd)

\* A single token of the body: a parameter becomes its argument, expanded, or
\* nothing if the invocation has fewer arguments.  The range of an argument
\* after the first begins with the comma.
SubstituteToken(def, t, witheld, args) ==
    LET i == Parameter(def, t)
    IN  IF i = 0 THEN Result(IdleProcessor, <<t>>, {})
        ELSE IF i > Len(args) THEN Result(IdleProcessor, <<>>, {})
        ELSE Result(IdleProcessor, ArgumentTokens(witheld, args, i),
                    IF i > 1 THEN {"comma"} ELSE {})

\* Tokens joined by ##: a parameter stands for its argument, unexpanded, which
\* may be one token or none.  The argument is not looked for before it is used
\* ("missing": nothing is known of what follows), several tokens paste to
\* nothing ("long") and no text to the end of the file ("empty").
SubstitutePasting(def, pasting, args) ==
    LET ParameterOf(t) == Parameter(def, t)
        missing == \E t \in ToSet(pasting) : ParameterOf(t) > Len(args)
        long == \E t \in ToSet(pasting) :
                    ParameterOf(t) # 0 /\ args[ParameterOf(t)].numArgumentToken > 1
        Text(t) == IF ParameterOf(t) = 0 THEN <<t>>
                   ELSE IF args[ParameterOf(t)].numArgumentToken = 0 THEN <<>>
                   ELSE <<args[ParameterOf(t)].pasteToken>>
        texts == FlattenSeq([i \in DOMAIN pasting |-> Text(pasting[i])])
    IN  IF missing THEN Result(IdleProcessor, <<>>, {"missing"})
        ELSE IF long THEN Result(IdleProcessor, <<>>, {"long"})
        ELSE IF texts = <<>> THEN Result(IdleProcessor, <<"eof">>, {"empty"})
        ELSE Result(IdleProcessor, <<Pasted(texts)>>, {})

\* The body of a macro with its arguments in place of its parameters.
Substitute(def, witheld, args) ==
    LET part == [i \in DOMAIN def.body |->
                    IF Len(def.body[i]) = 1
                    THEN SubstituteToken(def, def.body[i][1], witheld, args)
                    ELSE SubstitutePasting(def, def.body[i], args)]
    IN  Result(IdleProcessor, FlattenSeq([i \in DOMAIN part |-> part[i].out]),
               UNION {part[i].departures : i \in DOMAIN part})

-----------------------------------------------------------------------------
(***************************************************************************)
(* Feed.  The environment has the macro table, the disabled macros and     *)
(* whether the output goes to a buffer of arguments.                       *)
(***************************************************************************)
RECURSIVE Feed(_, _, _)

FeedAll(tokens, env) ==
    FoldLeft(LAMBDA r, t : LET next == Feed(r.processor, t, env)
                           IN  Result(next.processor, r.out \o next.out,
                                      r.departures \cup next.departures),
             Result(IdleProcessor, <<>>, {}), tokens)

\* The body is fed to a processor of its own while the macro is disabled.  The
\* name of a function-like macro at the end of the body is released, without a
\* look at the tokens behind the invocation ("cut"); a name that was disabled
\* is not remembered as such when the argument it is in is fed again
\* ("enabled again").
FeedMacroExpansion(name, witheld, args, env) ==
    LET body == Substitute(env.table[name][1], witheld, args)
        result == FeedAll(body.out, [env EXCEPT !.disabled = @ \cup {name}])
        tokens == result.out \o Finalize(result.processor)
    IN  Result(IdleProcessor, tokens,
               body.departures \cup result.departures
                 \cup (IF result.processor.pending # "none" THEN {"cut"} ELSE {})
                 \cup (IF env.buffered /\ name \in ToSet(tokens)
                       THEN {"enabled again"} ELSE {}))

FeedTokenWithoutMacroContext(t, env) ==
    IF t \notin DOMAIN env.table \ env.disabled \/ env.table[t] = <<>>
    THEN Result(IdleProcessor, <<t>>, {})
    ELSE IF env.table[t][1].isFunctionLike
    THEN Result([IdleProcessor EXCEPT !.witheld = <<t>>, !.pending = t], <<>>, {})
    ELSE FeedMacroExpansion(t, <<>>, <<>>, env)

\* Only a name is withheld: a ( starts its arguments, any other token releases
\* it.
AwaitArguments(p, t, env) ==
    IF t = "("
    THEN Result([NewPendingInvocationArgument(p) EXCEPT !.parens = 1], <<>>, {})
    ELSE LET next == FeedTokenWithoutMacroContext(t, env)
         IN  [next EXCEPT !.out = <<p.witheld[1]>> \o @]

\* ) closes the list.  A list of one empty argument is that of a macro without
\* parameters, too.
CloseArguments(p, env) ==
    LET done == FinishPendingInvocationArgument(p)
        noArguments == /\ env.table[p.pending][1].params = <<>>
                       /\ Len(done.args) = 1
                       /\ done.args[1].numArgumentToken = 0
    IN  FeedMacroExpansion(p.pending, done.witheld,
                           IF noArguments THEN <<>> ELSE done.args, env)

NextArgument(p) ==
    LET next == NewPendingInvocationArgument(FinishPendingInvocationArgument(p))
    IN  Result([next EXCEPT !.witheld = Append(@, ",")], <<>>, {})

FeedArgument(p, t, env) ==
    LET last == Len(p.args)
        fed  == Feed(p.arg[1], t, [env EXCEPT !.buffered = TRUE])
    IN  Result([p EXCEPT
                    !.arg = <<fed.processor>>,
                    !.witheld = @ \o fed.out,
                    !.args[last].numArgumentToken = @ + 1,
                    !.args[last].pasteToken =
                        IF p.args[last].numArgumentToken = 0 THEN t ELSE @],
               <<>>, fed.departures)

CollectArguments(p, t, env) ==
    LET parens == p.parens + (IF t = "(" THEN 1 ELSE IF t = ")" THEN -1 ELSE 0)
        counted == [p EXCEPT !.parens = parens]
    IN  IF parens = 0 THEN CloseArguments(counted, env)
        ELSE IF parens = 1 /\ t = "," THEN NextArgument(counted)
        ELSE FeedArgument(counted, t, env)

Feed(p, t, env) ==
    IF p.witheld = <<>> THEN FeedTokenWithoutMacroContext(t, env)
    ELSE IF p.args = <<>> THEN AwaitArguments(p, t, env)
    ELSE CollectArguments(p, t, env)

-----------------------------------------------------------------------------
(***************************************************************************)
(* Steps.                                                                  *)
(***************************************************************************)
\* The file goes on, and nothing undefined has happened.
Running == ~halted /\ departures \cap {"missing", "dangling"} = {}

\* A token of the text.  With nothing withheld an episode begins, but tokens
\* behind a name released at the end of an expansion belong to its episode.
FeedToken(t) ==
    LET fed == Feed(processor, t,
                    [table |-> macroTable, disabled |-> {}, buffered |-> FALSE])
        first == /\ processor = IdleProcessor
                 /\ "cut" \in departures => Len(input) >= MaxTokens
    IN  /\ Running
        /\ first \/ Len(input) < MaxTokens
        /\ processor' = fed.processor
        /\ input' = Append(IF first THEN <<>> ELSE input, t)
        /\ output' = (IF first THEN <<>> ELSE output) \o fed.out
        /\ departures' = (IF first THEN {} ELSE departures) \cup fed.departures
        /\ UNCHANGED <<macroTable, halted>>

\* The macros that pointers of a processor, or of those for its arguments, lead
\* to.
RECURSIVE PendingMacros(_)
PendingMacros(p) ==
    IF p.pending = "none" THEN {}
    ELSE {p.pending} \cup (IF p.arg = <<>> THEN {} ELSE PendingMacros(p.arg[1]))

\* A directive between two lines of text.  With nothing withheld the episode
\* ends; behind tokens of an argument, which the processor has expanded with
\* the macros there were, the language gives it no meaning.
AfterDirective(how) ==
    /\ processor # IdleProcessor => Len(input) <= MaxInterrupted
    /\ IF processor = IdleProcessor
       THEN input' = <<>> /\ output' = <<>> /\ departures' = {}
       ELSE /\ departures' = departures \cup how
                               \cup (IF \E i \in DOMAIN processor.args :
                                           processor.args[i].numArgumentToken > 0
                                       THEN {"directive"} ELSE {})
            /\ UNCHANGED <<input, output>>

\* #define: the first definition of a name stays.
Define(def) ==
    /\ Running
    /\ macroTable[def.name] = <<>>
    /\ macroTable' = [macroTable EXCEPT ![def.name] = <<def>>]
    /\ AfterDirective({})
    /\ UNCHANGED <<processor, halted>>

\* #undef frees the definition, and an invocation that waits for its arguments
\* holds a pointer to it.
Undefine(name) ==
    /\ Running
    /\ macroTable[name] # <<>>
    /\ macroTable' = [macroTable EXCEPT ![name] = <<>>]
    /\ AfterDirective(IF name \in PendingMacros(processor) THEN {"dangling"} ELSE {})
    /\ UNCHANGED <<processor, halted>>

EndOfFile ==
    /\ Running
    /\ halted' = TRUE
    /\ output' = output \o Finalize(processor)
    /\ departures' = departures \cup (IF processor.args # <<>> THEN {"unterminated"} ELSE {})
    /\ processor' = [processor EXCEPT !.pending = "none", !.witheld = <<>>, !.args = <<>>]
    /\ UNCHANGED <<macroTable, input>>

Ended == ~Running /\ UNCHANGED vars

Next ==
    \/ \E t \in TextTokens : FeedToken(t)
    \/ \E def \in Definitions : Define(def)
    \/ \E name \in Names : Undefine(name)
    \/ EndOfFile
    \/ Ended

Spec == Init /\ [][Next]_vars

-----------------------------------------------------------------------------
(***************************************************************************)
(* The expansion the language defines.  A token carries the set of macros  *)
(* it may not be expanded by any more, for good; the expansion of a macro  *)
(* is rescanned together with the tokens that follow.                      *)
(***************************************************************************)
Plain(tokens) == [i \in DOMAIN tokens |-> [text |-> tokens[i], hidden |-> {}]]
Texts(tokens) == [i \in DOMAIN tokens |-> tokens[i].text]

Depth(tokens, i) ==
    Cardinality({j \in 1 .. i : tokens[j].text = "("})
      - Cardinality({j \in 1 .. i : tokens[j].text = ")"})

\* The ) that closes the ( at the beginning of tokens, 0 without one.
Closing(tokens) ==
    LET closed == {i \in DOMAIN tokens : Depth(tokens, i) = 0}
    IN  IF tokens = <<>> \/ tokens[1].text # "(" \/ closed = {} THEN 0 ELSE Min(closed)

\* What is between the ( at the beginning, the commas of its own level and
\* the ) at close.
Arguments(tokens, close) ==
    LET bounds == {1, close} \cup {i \in 2 .. close - 1 :
                                     tokens[i].text = "," /\ Depth(tokens, i) = 1}
        bound == SetToSortSeq(bounds, <)
    IN  [k \in 1 .. Len(bound) - 1 |-> SubSeq(tokens, bound[k] + 1, bound[k + 1] - 1)]

RECURSIVE Rescan(_, _)

ReferenceBody(def, args, table) ==
    LET Argument(t) == IF Parameter(def, t) > Len(args) THEN <<>> ELSE args[Parameter(def, t)]
        Expanded(t) == IF Parameter(def, t) = 0 THEN Plain(<<t>>) ELSE Rescan(Argument(t), table)
        Unexpanded(t) == IF Parameter(def, t) = 0 THEN <<t>> ELSE Texts(Argument(t))
        Part(pasting) ==
            LET texts == FlattenSeq([i \in DOMAIN pasting |-> Unexpanded(pasting[i])])
            IN  IF Len(pasting) = 1 THEN Expanded(pasting[1])
                ELSE IF texts = <<>> THEN <<>>
                ELSE Plain(<<Pasted(texts)>>)
    IN  FlattenSeq([i \in DOMAIN def.body |-> Part(def.body[i])])

Hide(tokens, names) == [i \in DOMAIN tokens |-> [tokens[i] EXCEPT !.hidden = @ \cup names]]

Rescan(tokens, table) ==
    IF tokens = <<>> THEN <<>>
    ELSE LET head == Head(tokens)
             name == head.text
             rest == Tail(tokens)
             close == Closing(rest)
         IN  IF name \notin DOMAIN table \ head.hidden \/ table[name] = <<>>
             THEN <<head>> \o Rescan(rest, table)
             ELSE IF ~table[name][1].isFunctionLike
             THEN Rescan(Hide(ReferenceBody(table[name][1], <<>>, table),
                              head.hidden \cup {name}) \o rest, table)
             ELSE IF close = 0 THEN <<head>> \o Rescan(rest, table)
             ELSE Rescan(Hide(ReferenceBody(table[name][1], Arguments(rest, close), table),
                              (head.hidden \cap rest[close].hidden) \cup {name})
                           \o SubSeq(rest, close + 1, Len(rest)), table)

Reference(tokens, table) == Texts(Rescan(Plain(tokens), table))

-----------------------------------------------------------------------------
\* The assertions of the processor: something is withheld while a macro is
\* pending, parentheses are open while arguments are collected, and an argument
\* has a processor until it is finished.
RECURSIVE WellFormed(_)
WellFormed(p) ==
    /\ p.pending \in Names \cup {"none"}
    /\ p.witheld = <<>> <=> p.pending = "none"
    /\ p.witheld # <<>> => p.witheld[1] = p.pending
    /\ p.args = <<>> => p.arg = <<>> /\ p.parens = 0
    /\ p.args # <<>> => /\ p.pending # "none" /\ p.parens >= 1
                        /\ Len(p.arg) = 1 /\ WellFormed(p.arg[1])
    /\ \A i \in DOMAIN p.args :
          p.args[i].indexBegin <= p.args[i].indexEnd /\ p.args[i].indexEnd <= Len(p.witheld)

Settled == processor = IdleProcessor \/ halted

\* Token by token, with arguments expanded as they are collected and macros
\* disabled only while they are expanded, the processor arrives at what the
\* language defines, whatever is nested in or defined before what, except in
\* the ways it is known to depart from it; and on the way there the processors of
\* a file and of the arguments it is collecting agree, at every depth: no token is
\* withheld for a macro that is not pending, and no argument is a range of tokens
\* that are not withheld.  (The end of the file gives up a pending invocation and
\* leaves the state of its arguments behind.)
ExpansionMatchesLanguage ==
    /\ halted \/ WellFormed(processor)
    /\ Settled /\ departures = {} => output = Reference(input, macroTable)

\* "The index range of the expanded argument in tokens witheld": the tokens in
\* the range of an argument are those of the argument.  Does not hold: the
\* range begins with the comma before it.
ArgumentRangeIsArgument ==
    Settled /\ departures \subseteq {"comma"} => output = Reference(input, macroTable)
=============================================================================
