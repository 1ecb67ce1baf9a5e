---------------------------- MODULE Conditionals ----------------------------
(***************************************************************************)
(* Conditional compilation in the preprocessor: the state machine that is  *)
(* fed the tokens of the main file (PreprocessStateMachine), its stack of  *)
(* conditionals, and the collector that derives the inactive regions the   *)
(* server publishes from the callbacks of the directives.                  *)
(*                                                                         *)
(* A token is its text and whether it is the first of its line; blank      *)
(* lines are not counted.  A condition is its value: the tail of #if and   *)
(* #elif is the token that EvaluatePPExpression decides on, the tail of    *)
(* #ifdef (and #ifndef) a name that makes it active or not.  "other"       *)
(* stands for the directives that have no effect on the stack.             *)
(***************************************************************************)
EXTENDS Integers, Sequences, SequencesExt

CONSTANT MaxLines   \* bound on the length of a file

ASSUME LinesAssumption == MaxLines \in Nat

Directives == {"if", "ifdef", "elif", "else", "endif", "other"}
ConditionalDirectives == Directives \ {"other"}

VARIABLES
    pp,       \* the members of PreprocessStateMachine and of the collector
    line,     \* the line of the last token
    passed,   \* lines of text that went on to macro expansion
    dropped,  \* lines of text that were ignored
    disputed, \* lines of text in a conditional with a late #elif
    nest      \* the conditionals open according to the language

vars == <<pp, line, passed, dropped, disputed, nest>>

Init ==
    /\ pp = [state |-> "Default", directive |-> <<>>, directiveLine |-> 0,
             stack |-> <<>>, skipped |-> 0, regionStart |-> 0, regions |-> <<>>]
    /\ line = 0
    /\ passed = {} /\ dropped = {} /\ disputed = {}
    /\ nest = <<>>

-----------------------------------------------------------------------------
\* Effective activity: conditionalStack.empty() || conditionalStack.back().active.
InActive(m) == m.stack = <<>> \/ Last(m.stack).active

Tail1(m) == IF Len(m.directive) > 1 THEN m.directive[2] ELSE "none"
Condition(m) == Tail1(m) = "true"

(***************************************************************************)
(* The collector: regions run from the line after a directive to the line  *)
(* of the directive that ends them.  Lines count from 1 here, 0 is "no     *)
(* region is open".                                                        *)
(***************************************************************************)
EnterInactiveRange(m) == [m EXCEPT !.regionStart = m.directiveLine + 1]

\* Mutant: the region that was left stays open.
LeaveKeepingStart(m) ==
    IF m.regionStart = 0 THEN m
    ELSE [m EXCEPT !.regions = Append(@, <<m.regionStart, m.directiveLine>>)]

TryLeaveInactiveRange(m) ==
    IF m.regionStart = 0 THEN m
    ELSE [m EXCEPT !.regions = Append(@, <<m.regionStart, m.directiveLine>>),
                   !.regionStart = 0]

OnIf(m, isActive) == IF isActive THEN m ELSE EnterInactiveRange(m)
OnBranch(m, isActive) == OnIf(TryLeaveInactiveRange(m), isActive)

-----------------------------------------------------------------------------
(***************************************************************************)
(* The handlers of the conditional directives.                             *)
(***************************************************************************)
PushConditional(m, isActive) ==
    OnIf([m EXCEPT !.stack = Append(@, [active |-> isActive,
                                        seenActiveBranch |-> isActive,
                                        seenElse |-> FALSE])], isActive)

HandleIfDirective(m) ==
    IF ~InActive(m)
    THEN [m EXCEPT !.skipped = @ + 1]
    ELSE PushConditional(m, Condition(m))

\* Without a name the directive is dropped, and nothing is pushed.
HandleIfdefDirective(m) ==
    IF ~InActive(m) THEN [m EXCEPT !.skipped = @ + 1]
    ELSE IF Tail1(m) = "none" THEN m
    ELSE PushConditional(m, Condition(m))

\* The stack learns whether the branch is active, the callback whether its
\* expression is true.
HandleElifDirective(m) ==
    IF m.skipped > 0 \/ m.stack = <<>> \/ Last(m.stack).seenElse
    THEN m
    ELSE LET isActive == ~Last(m.stack).seenActiveBranch /\ Condition(m)
         IN  OnBranch([m EXCEPT !.stack[Len(m.stack)] =
                          [@ EXCEPT !.active = isActive, !.seenActiveBranch = isActive]],
                      Condition(m))

\* Mutant: an #else after an active branch becomes active.
ElseAlwaysActive(m) ==
    IF m.skipped > 0 \/ m.stack = <<>> \/ Last(m.stack).seenElse
    THEN m
    ELSE OnBranch([m EXCEPT !.stack[Len(m.stack)] =
                      [active |-> TRUE, seenActiveBranch |-> TRUE, seenElse |-> TRUE]], TRUE)

HandleElseDirective(m) ==
    IF m.skipped > 0 \/ m.stack = <<>> \/ Last(m.stack).seenElse
    THEN m
    ELSE LET isActive == ~Last(m.stack).seenActiveBranch
         IN  OnBranch([m EXCEPT !.stack[Len(m.stack)] =
                          [active |-> isActive, seenActiveBranch |-> TRUE,
                           seenElse |-> TRUE]], isActive)

HandleEndifDirective(m) ==
    IF m.skipped > 0 THEN [m EXCEPT !.skipped = @ - 1]
    ELSE IF m.stack = <<>> THEN m
    ELSE TryLeaveInactiveRange([m EXCEPT !.stack = Front(@)])

DispatchPPDirectiveToHandler(m) ==
    IF m.directive = <<>> THEN m
    ELSE CASE m.directive[1] = "if"    -> HandleIfDirective(m)
           [] m.directive[1] = "ifdef" -> HandleIfdefDirective(m)
           [] m.directive[1] = "elif"  -> HandleElifDirective(m)
           [] m.directive[1] = "else"  -> HandleElseDirective(m)
           [] m.directive[1] = "endif" -> HandleEndifDirective(m)
           [] OTHER                    -> m

-----------------------------------------------------------------------------
(***************************************************************************)
(* The state machine.                                                      *)
(***************************************************************************)
InDirective(m) == m.state \in {"ExpectDirective", "ExpectDirectiveTail"}

\* Default and Inactive: a # that starts a line opens a directive.
AcceptOnText(m, text) ==
    IF text = "#"
    THEN [m EXCEPT !.state = "ExpectDirective", !.directive = <<>>, !.directiveLine = line']
    ELSE m

\* The first token of the next line ends the directive: it is handled, and
\* the token goes to the state that the stack now calls for.
EndDirective(m, text) ==
    LET handled == DispatchPPDirectiveToHandler(m)
    IN  AcceptOnText([handled EXCEPT !.state =
                         IF InActive(handled) THEN "Default" ELSE "Inactive"], text)

\* In an inactive region only the conditional directives are read to the end.
AcceptOnExpectDirective(m, text) ==
    [m EXCEPT !.directive = Append(@, text),
              !.state = IF InActive(m) \/ text \in ConditionalDirectives
                        THEN "ExpectDirectiveTail" ELSE "Inactive"]

AcceptOnExpectDirectiveTail(m, text) == [m EXCEPT !.directive = Append(@, text)]

\* FeedPPToken of the end of the main file.
Halt(m) == [m EXCEPT !.state = "Halt"]

-----------------------------------------------------------------------------
(***************************************************************************)
(* What the language says: the branch of a conditional that is selected is *)
(* the first with a true condition, else that of #else, and text counts    *)
(* when every conditional around it has its selected branch there.  A late *)
(* #elif is one that follows the selected branch of its conditional.  The  *)
(* language has no meaning for an #ifdef without a name: here it opens     *)
(* nothing where directives are read, as in the code.                      *)
(***************************************************************************)
Selected(n) == \A i \in DOMAIN n : n[i].live
IsLate(n) == \E i \in DOMAIN n : n[i].late

Select(branch, cond) == [branch EXCEPT !.live = ~branch.done /\ cond, !.done = @ \/ cond]

Reference(n, directive) ==
    LET name   == directive[1]
        cond   == Len(directive) > 1 /\ directive[2] = "true"
        branch == n[Len(n)]
        opens  == name = "if" \/ (name = "ifdef" /\ (Len(directive) > 1 \/ ~InActive(pp)))
        inside == n # <<>> /\ ~branch.afterElse
    IN  CASE opens -> Append(n, [live |-> cond, done |-> cond, afterElse |-> FALSE, late |-> FALSE])
          [] name = "elif" /\ inside ->
                [n EXCEPT ![Len(n)] =
                    [Select(branch, cond) EXCEPT !.late = @ \/ branch.done]]
          [] name = "else" /\ inside ->
                [n EXCEPT ![Len(n)] = [Select(branch, TRUE) EXCEPT !.afterElse = TRUE]]
          [] name = "endif" /\ n # <<>> -> Front(n)
          [] OTHER -> n

-----------------------------------------------------------------------------
\* The directive that the first token of the next line ends, if any.
Account ==
    nest' = IF InDirective(pp) /\ pp.directive # <<>>
            THEN Reference(nest, pp.directive) ELSE nest

\* The first token of a line: # or text.
FirstToken(text) ==
    /\ pp.state # "Halt"
    /\ line < MaxLines
    /\ line' = line + 1
    /\ pp' = IF InDirective(pp) THEN EndDirective(pp, text) ELSE AcceptOnText(pp, text)
    /\ Account
    /\ passed' = IF pp'.state = "Default" THEN passed \cup {line'} ELSE passed
    /\ dropped' = IF pp'.state = "Inactive" THEN dropped \cup {line'} ELSE dropped
    /\ disputed' = IF text = "text" /\ IsLate(nest') THEN disputed \cup {line'} ELSE disputed

DirectiveName(text) ==
    /\ pp.state = "ExpectDirective"
    /\ pp' = AcceptOnExpectDirective(pp, text)
    /\ UNCHANGED <<line, passed, dropped, disputed, nest>>

DirectiveTail(text) ==
    /\ pp.state = "ExpectDirectiveTail"
    /\ Len(pp.directive) = 1
    /\ pp' = AcceptOnExpectDirectiveTail(pp, text)
    /\ UNCHANGED <<line, passed, dropped, disputed, nest>>

EndOfFile ==
    /\ pp.state # "Halt"
    /\ line' = line + 1
    /\ pp' = Halt(IF InDirective(pp) THEN EndDirective(pp, "eof") ELSE pp)
    /\ Account
    /\ UNCHANGED <<passed, dropped, disputed>>

Halted == pp.state = "Halt" /\ UNCHANGED vars

Next ==
    \/ \E text \in {"#", "text"} : FirstToken(text)
    \/ \E text \in Directives : DirectiveName(text)
    \/ \E text \in {"true", "false"} : DirectiveTail(text)
    \/ EndOfFile
    \/ Halted

Spec == Init /\ [][Next]_vars

-----------------------------------------------------------------------------
(***************************************************************************)
(* Properties.                                                             *)
(***************************************************************************)
ConditionalInfo == [active : BOOLEAN, seenActiveBranch : BOOLEAN, seenElse : BOOLEAN]
Lines == 1 .. MaxLines

TypeOK ==
    /\ pp.state \in {"Default", "Inactive", "ExpectDirective", "ExpectDirectiveTail", "Halt"}
    /\ pp.directive = <<>> \/ pp.directive[1] \in Directives
    /\ pp.directiveLine \in 0 .. MaxLines
    /\ pp.stack \in Seq(ConditionalInfo)
    /\ pp.skipped \in Nat
    /\ pp.regionStart \in 0 .. MaxLines + 1
    /\ pp.regions \in Seq(Lines \X Lines)
    /\ line \in 0 .. MaxLines + 1
    /\ passed \subseteq Lines /\ dropped \subseteq Lines /\ disputed \subseteq Lines
    /\ nest \in Seq([live : BOOLEAN, done : BOOLEAN, afterElse : BOOLEAN, late : BOOLEAN])

\* Looking at the innermost conditional only is enough: the conditionals
\* around it are active, and directives are skipped only in an inactive one.
OnlyInnermostInactive ==
    /\ \A i \in 1 .. Len(pp.stack) - 1 : pp.stack[i].active
    /\ pp.skipped > 0 => ~InActive(pp)

\* However directives are skipped in inactive branches, the stack and the
\* counter together are as deep as the nesting of the file, so an #endif
\* closes the conditional it belongs to.
NestingKept == Len(pp.stack) + pp.skipped = Len(nest)

\* Text is preprocessed exactly when the language selects it, at any depth of
\* nesting, outside conditionals with a late #elif.
PassedTextIsSelected ==
    ~IsLate(nest) =>
        /\ pp.state = "Default" => Selected(nest)
        /\ pp.state = "Inactive" => ~Selected(nest)

InRegion(l) ==
    \/ \E i \in DOMAIN pp.regions : pp.regions[i][1] <= l /\ l < pp.regions[i][2]
    \/ pp.regionStart # 0 /\ pp.regionStart <= l

\* The lines shown as inactive are those whose text was dropped: none is left
\* out where regions meet or nest, and none is greyed that was compiled.
\* (Lines in a conditional with a late #elif are left aside.)
RegionsMatchDropped ==
    \A l \in (passed \cup dropped) \ disputed : InRegion(l) <=> l \in dropped

\* "If an active branch has been encountered, this flag is set to true": of
\* the branches of an open conditional the flag knows the one that was
\* selected.  Does not hold after a late #elif.
SeenActiveBranchRemembered ==
    \A i \in DOMAIN pp.stack : nest[i].done => pp.stack[i].seenActiveBranch
=============================================================================
