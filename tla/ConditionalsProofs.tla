------------------------- MODULE ConditionalsProofs -------------------------
(***************************************************************************)
(* Safety of Conditionals for files of any length: the type invariant, the *)
(* shape of the stack, its depth, and that text is passed on exactly where *)
(* the language selects it.                                                *)
(*                                                                         *)
(* The inductive invariant relates the stack and the counter of skipped    *)
(* conditionals to the nesting of the language: the stack is the part of   *)
(* the nesting down to the first inactive branch, entry by entry, and the  *)
(* counter is the rest.  Each handler of a directive takes that relation   *)
(* to the nesting that Reference gives, and the state machine only         *)
(* moves between its states according to the top of the stack.             *)
(***************************************************************************)
EXTENDS Conditionals, TLAPS

Tokens == Directives \cup {"true", "false"}
States == {"Default", "Inactive", "ExpectDirective", "ExpectDirectiveTail", "Halt"}
Branch == [live : BOOLEAN, done : BOOLEAN, afterElse : BOOLEAN, late : BOOLEAN]

Machine == [state : States, directive : Seq(Tokens), directiveLine : Int,
            stack : Seq(ConditionalInfo), skipped : Nat,
            regionStart : Int, regions : Seq(Int \X Int)]

\* Every variable has its type.
TypeInv == pp \in Machine /\ nest \in Seq(Branch) /\ line \in Int

\* An entry of the stack knows its conditional, unless there was a late #elif.
Agrees(entry, branch) ==
    /\ entry.seenElse = branch.afterElse
    /\ ~branch.late => entry.active = branch.live /\ entry.seenActiveBranch = branch.done

\* The stack is the nesting down to the first inactive branch, the counter
\* the rest of it.
Follows(m, n) ==
    /\ \A i \in 1 .. Len(m.stack) - 1 : m.stack[i].active
    /\ m.skipped > 0 => ~InActive(m)
    /\ Len(m.stack) + m.skipped = Len(n)
    /\ \A i \in 1 .. Len(m.stack) : Agrees(m.stack[i], n[i])

\* The state of the machine between directives is what the stack calls for.
StateFollowsStack ==
    /\ pp.state = "Default" => InActive(pp)
    /\ pp.state = "Inactive" => ~InActive(pp)

IInv == TypeInv /\ Follows(pp, nest) /\ StateFollowsStack

-----------------------------------------------------------------------------
(***************************************************************************)
(* The fields of a machine that an update leaves.                          *)
(***************************************************************************)
SameButCollector(m, k) ==
    /\ k \in Machine
    /\ k.stack = m.stack /\ k.skipped = m.skipped
    /\ k.state = m.state /\ k.directive = m.directive

LEMMA StackUpdate ==
    ASSUME NEW m \in Machine, NEW s \in Seq(ConditionalInfo)
    PROVE  LET k == [m EXCEPT !.stack = s] IN
           /\ k \in Machine /\ k.stack = s /\ k.skipped = m.skipped
           /\ k.state = m.state /\ k.directive = m.directive
BY DEF Machine

LEMMA SkippedUpdate ==
    ASSUME NEW m \in Machine, NEW c \in Nat
    PROVE  LET k == [m EXCEPT !.skipped = c] IN
           /\ k \in Machine /\ k.stack = m.stack /\ k.skipped = c
           /\ k.state = m.state /\ k.directive = m.directive
BY DEF Machine

LEMMA StateUpdate ==
    ASSUME NEW m \in Machine, NEW x \in States
    PROVE  LET k == [m EXCEPT !.state = x] IN
           /\ k \in Machine /\ k.stack = m.stack /\ k.skipped = m.skipped
           /\ k.state = x /\ k.directive = m.directive
BY DEF Machine

LEMMA RegionUpdate ==
    ASSUME NEW m \in Machine, NEW r \in Seq(Int \X Int), NEW z \in Int
    PROVE  /\ SameButCollector(m, [m EXCEPT !.regionStart = z])
           /\ SameButCollector(m, [m EXCEPT !.regions = r, !.regionStart = z])
BY DEF Machine, SameButCollector

\* The collector's part of a handler leaves the rest of the machine alone.
LEMMA EnterFrame ==
    ASSUME NEW m \in Machine
    PROVE  SameButCollector(m, EnterInactiveRange(m))
<1>1. m.directiveLine + 1 \in Int /\ m.regions \in Seq(Int \X Int)
  BY DEF Machine
<1>2. QED BY <1>1, RegionUpdate DEF EnterInactiveRange

LEMMA LeaveFrame ==
    ASSUME NEW m \in Machine
    PROVE  SameButCollector(m, TryLeaveInactiveRange(m))
<1> DEFINE r == Append(m.regions, <<m.regionStart, m.directiveLine>>)
           z == 0
<1>1. r \in Seq(Int \X Int) /\ z \in Int
  BY DEF Machine
<1>2. TryLeaveInactiveRange(m) = IF m.regionStart = 0 THEN m
                                 ELSE [m EXCEPT !.regions = r, !.regionStart = z]
  BY DEF TryLeaveInactiveRange
<1>3. SameButCollector(m, m)
  BY DEF SameButCollector
<1> HIDE DEF r, z
<1>4. SameButCollector(m, [m EXCEPT !.regions = r, !.regionStart = z])
  BY <1>1, RegionUpdate
<1>5. QED BY <1>2, <1>3, <1>4

LEMMA CollectorFrame ==
    ASSUME NEW m \in Machine, NEW b \in BOOLEAN
    PROVE  /\ SameButCollector(m, OnIf(m, b))
           /\ SameButCollector(m, OnBranch(m, b))
<1>1. ASSUME NEW k \in Machine
      PROVE  SameButCollector(k, OnIf(k, b))
  BY EnterFrame DEF OnIf, SameButCollector
<1>2. SameButCollector(m, TryLeaveInactiveRange(m))
  BY LeaveFrame
<1>3. QED BY <1>1, <1>2 DEF OnBranch, SameButCollector

-----------------------------------------------------------------------------
(***************************************************************************)
(* Follows is a relation of the stack, the counter and the nesting, and it *)
(* is kept by what the handlers do to them.                                *)
(***************************************************************************)
LEMMA FollowsFrame ==
    ASSUME NEW m \in Machine, NEW k \in Machine, NEW n \in Seq(Branch),
           k.stack = m.stack, k.skipped = m.skipped
    PROVE  /\ Follows(m, n) <=> Follows(k, n)
           /\ InActive(m) <=> InActive(k)
BY DEF Follows, InActive

\* In an active region nothing is skipped and the whole stack is active.
LEMMA ActiveRegion ==
    ASSUME NEW m \in Machine, NEW n \in Seq(Branch), Follows(m, n), InActive(m)
    PROVE  /\ m.skipped = 0 /\ Len(m.stack) = Len(n)
           /\ \A i \in 1 .. Len(m.stack) : m.stack[i].active
<1>1. m.stack \in Seq(ConditionalInfo) /\ m.skipped \in Nat
  BY DEF Machine
<1>2. QED BY <1>1 DEF Follows, InActive, Last

\* Pushing the conditional of an active region.
LEMMA PushFollows ==
    ASSUME NEW m \in Machine, NEW n \in Seq(Branch), Follows(m, n), InActive(m), NEW b \in BOOLEAN,
           NEW branch \in Branch, branch.live = b, branch.done = b, ~branch.afterElse
    PROVE  PushConditional(m, b) \in Machine /\ Follows(PushConditional(m, b), Append(n, branch))
<1> DEFINE entry == [active |-> b, seenActiveBranch |-> b, seenElse |-> FALSE]
           s == Append(m.stack, entry)
           k == [m EXCEPT !.stack = s]
           p == PushConditional(m, b)
<1>1. /\ entry \in ConditionalInfo /\ m.stack \in Seq(ConditionalInfo)
      /\ s \in Seq(ConditionalInfo)
  BY DEF ConditionalInfo, Machine
<1>2. p = OnIf(k, b)
  BY DEF PushConditional
<1>3. /\ Len(s) = Len(m.stack) + 1 /\ s[Len(m.stack) + 1] = entry
      /\ \A i \in 1 .. Len(m.stack) : s[i] = m.stack[i]
  BY <1>1
<1>4. Agrees(entry, branch)
  BY DEF Agrees, Branch
<1> HIDE DEF entry, s
<1>5. k \in Machine /\ k.stack = s /\ k.skipped = m.skipped
  BY <1>1, StackUpdate
<1> HIDE DEF k
<1>6. p \in Machine /\ p.stack = s /\ p.skipped = m.skipped
  BY <1>2, <1>5, CollectorFrame DEF SameButCollector
<1> HIDE DEF p
<1>7. /\ m.skipped = 0 /\ Len(m.stack) = Len(n)
      /\ \A i \in 1 .. Len(m.stack) : m.stack[i].active
  BY ActiveRegion
<1>8. Len(m.stack) \in Nat
  BY <1>1
<1>9. /\ Len(Append(n, branch)) = Len(n) + 1 /\ Append(n, branch)[Len(n) + 1] = branch
      /\ \A i \in 1 .. Len(n) : Append(n, branch)[i] = n[i]
  OBVIOUS
<1>10. \A i \in 1 .. Len(p.stack) : Agrees(p.stack[i], Append(n, branch)[i])
  <2> SUFFICES ASSUME NEW i \in 1 .. Len(s)
               PROVE  Agrees(s[i], Append(n, branch)[i])
    BY <1>6
  <2>1. CASE i = Len(m.stack) + 1
    BY <2>1, <1>3, <1>4, <1>7, <1>9
  <2>2. CASE i \in 1 .. Len(m.stack)
    BY <2>2, <1>3, <1>7, <1>9 DEF Follows
  <2>3. i = Len(m.stack) + 1 \/ i \in 1 .. Len(m.stack)
    BY <1>3, <1>8
  <2>4. QED BY <2>1, <2>2, <2>3
<1>11. Follows(p, Append(n, branch))
  BY <1>3, <1>6, <1>7, <1>8, <1>9, <1>10 DEF Follows
<1>12. QED BY <1>6, <1>11 DEF p

\* Changing the entry on top of the stack together with its conditional.
LEMMA TopFollows ==
    ASSUME NEW m \in Machine, NEW n \in Seq(Branch), Follows(m, n),
           m.skipped = 0, m.stack # <<>>,
           NEW entry \in ConditionalInfo, NEW branch \in Branch, Agrees(entry, branch)
    PROVE  /\ [m EXCEPT !.stack = [m.stack EXCEPT ![Len(m.stack)] = entry]] \in Machine
           /\ Follows([m EXCEPT !.stack = [m.stack EXCEPT ![Len(m.stack)] = entry]],
                      [n EXCEPT ![Len(n)] = branch])
<1> DEFINE s == [m.stack EXCEPT ![Len(m.stack)] = entry]
           k == [m EXCEPT !.stack = s]
           o == [n EXCEPT ![Len(n)] = branch]
<1>1. m.stack \in Seq(ConditionalInfo)
  BY DEF Machine
<1>2. Len(m.stack) \in Nat /\ Len(m.stack) > 0 /\ Len(n) = Len(m.stack)
  BY <1>1 DEF Follows
<1>3. /\ s \in Seq(ConditionalInfo) /\ Len(s) = Len(m.stack)
      /\ \A i \in 1 .. Len(m.stack) : s[i] = IF i = Len(m.stack) THEN entry ELSE m.stack[i]
  BY <1>1, <1>2
<1>4. /\ o \in Seq(Branch) /\ Len(o) = Len(n)
      /\ \A i \in 1 .. Len(n) : o[i] = IF i = Len(n) THEN branch ELSE n[i]
  BY <1>2
<1> HIDE DEF s, o
<1>5. k \in Machine /\ k.stack = s /\ k.skipped = m.skipped
  BY <1>3, StackUpdate
<1> HIDE DEF k
<1>6. Len(k.stack) = Len(m.stack) /\ Len(k.stack) + k.skipped = Len(o)
  BY <1>2, <1>3, <1>4, <1>5
<1>7. \A i \in 1 .. Len(k.stack) - 1 : k.stack[i].active
  <2> SUFFICES ASSUME NEW i \in 1 .. Len(m.stack) - 1
               PROVE  s[i].active
    BY <1>5, <1>6
  <2>1. i \in 1 .. Len(m.stack) /\ i # Len(m.stack)
    BY <1>2
  <2>2. QED BY <1>3, <2>1 DEF Follows
<1>8. \A i \in 1 .. Len(k.stack) : Agrees(k.stack[i], o[i])
  <2> SUFFICES ASSUME NEW i \in 1 .. Len(m.stack)
               PROVE  Agrees(s[i], o[i])
    BY <1>5, <1>6
  <2>1. QED BY <1>2, <1>3, <1>4 DEF Follows
<1>9. Follows(k, o)
  BY <1>5, <1>6, <1>7, <1>8 DEF Follows
<1>10. QED BY <1>5, <1>9 DEF k, s, o

\* Closing the innermost conditional.
LEMMA PopFollows ==
    ASSUME NEW m \in Machine, NEW n \in Seq(Branch), Follows(m, n),
           m.skipped = 0, m.stack # <<>>
    PROVE  /\ [m EXCEPT !.stack = Front(m.stack)] \in Machine
           /\ Follows([m EXCEPT !.stack = Front(m.stack)], Front(n))
<1> DEFINE s == Front(m.stack)
           k == [m EXCEPT !.stack = s]
           o == Front(n)
<1>1. m.stack \in Seq(ConditionalInfo)
  BY DEF Machine
<1>2. Len(m.stack) \in Nat /\ Len(m.stack) > 0 /\ Len(n) = Len(m.stack)
  BY <1>1 DEF Follows
<1>3. /\ s \in Seq(ConditionalInfo) /\ Len(s) = Len(m.stack) - 1
      /\ \A i \in 1 .. Len(s) : s[i] = m.stack[i]
  BY <1>1, <1>2 DEF Front
<1>4. /\ o \in Seq(Branch) /\ Len(o) = Len(n) - 1
      /\ \A i \in 1 .. Len(o) : o[i] = n[i]
  BY <1>2 DEF Front
<1> HIDE DEF s, o
<1>5. k \in Machine /\ k.stack = s /\ k.skipped = m.skipped
  BY <1>3, StackUpdate
<1> HIDE DEF k
<1>6. Len(k.stack) = Len(m.stack) - 1 /\ Len(k.stack) + k.skipped = Len(o)
  BY <1>2, <1>3, <1>4, <1>5
<1>7. \A i \in 1 .. Len(k.stack) - 1 : k.stack[i].active
  <2> SUFFICES ASSUME NEW i \in 1 .. Len(s) - 1
               PROVE  s[i].active
    BY <1>5
  <2>1. i \in 1 .. Len(s) /\ i \in 1 .. Len(m.stack) - 1
    BY <1>2, <1>3
  <2>2. QED BY <1>3, <2>1 DEF Follows
<1>8. \A i \in 1 .. Len(k.stack) : Agrees(k.stack[i], o[i])
  <2> SUFFICES ASSUME NEW i \in 1 .. Len(s)
               PROVE  Agrees(s[i], o[i])
    BY <1>5
  <2>1. i \in 1 .. Len(m.stack) /\ i \in 1 .. Len(o)
    BY <1>2, <1>3, <1>4
  <2>2. QED BY <1>3, <1>4, <2>1 DEF Follows
<1>9. Follows(k, o)
  BY <1>5, <1>6, <1>7, <1>8 DEF Follows
<1>10. QED BY <1>5, <1>9 DEF k, s, o

\* Counting a conditional that opens in an inactive region.
LEMMA SkipFollows ==
    ASSUME NEW m \in Machine, NEW n \in Seq(Branch), Follows(m, n), ~InActive(m),
           NEW branch \in Branch
    PROVE  /\ [m EXCEPT !.skipped = m.skipped + 1] \in Machine
           /\ Follows([m EXCEPT !.skipped = m.skipped + 1], Append(n, branch))
<1> DEFINE c == m.skipped + 1
           k == [m EXCEPT !.skipped = c]
           o == Append(n, branch)
<1>1. m.stack \in Seq(ConditionalInfo) /\ m.skipped \in Nat /\ c \in Nat
  BY DEF Machine
<1>2. Len(o) = Len(n) + 1 /\ \A i \in 1 .. Len(n) : o[i] = n[i]
  OBVIOUS
<1>3. c = m.skipped + 1
  OBVIOUS
<1> HIDE DEF c, o
<1>4. k \in Machine /\ k.stack = m.stack /\ k.skipped = c
  BY <1>1, SkippedUpdate
<1> HIDE DEF k
<1>5. /\ Len(m.stack) \in Nat /\ Len(n) = Len(m.stack) + m.skipped
      /\ \A i \in 1 .. Len(m.stack) : o[i] = n[i] /\ Agrees(m.stack[i], n[i])
  BY <1>1, <1>2 DEF Follows
<1>6. Len(k.stack) + k.skipped = Len(o) /\ ~InActive(k)
  BY <1>1, <1>2, <1>3, <1>4, <1>5 DEF InActive
<1>7. \A i \in 1 .. Len(k.stack) : Agrees(k.stack[i], o[i])
  BY <1>4, <1>5
<1>8. Follows(k, o)
  BY <1>4, <1>6, <1>7 DEF Follows
<1>9. QED BY <1>4, <1>8 DEF c, k, o

\* Closing a conditional that was counted.
LEMMA UnskipFollows ==
    ASSUME NEW m \in Machine, NEW n \in Seq(Branch), Follows(m, n), m.skipped > 0
    PROVE  /\ [m EXCEPT !.skipped = m.skipped - 1] \in Machine
           /\ Follows([m EXCEPT !.skipped = m.skipped - 1], Front(n))
<1> DEFINE c == m.skipped - 1
           k == [m EXCEPT !.skipped = c]
           o == Front(n)
<1>1. m.stack \in Seq(ConditionalInfo) /\ m.skipped \in Nat /\ c \in Nat /\ c = m.skipped - 1
  BY DEF Machine
<1>2. Len(m.stack) \in Nat /\ Len(n) = Len(m.stack) + m.skipped
  BY <1>1 DEF Follows
<1>3. Len(o) = Len(n) - 1 /\ \A i \in 1 .. Len(n) - 1 : o[i] = n[i]
  BY <1>1, <1>2 DEF Front
<1> HIDE DEF c, o
<1>4. k \in Machine /\ k.stack = m.stack /\ k.skipped = c
  BY <1>1, SkippedUpdate
<1> HIDE DEF k
<1>5. \A i \in 1 .. Len(m.stack) : o[i] = n[i] /\ Agrees(m.stack[i], n[i])
  BY <1>1, <1>2, <1>3 DEF Follows
<1>6. Len(k.stack) + k.skipped = Len(o) /\ ~InActive(k)
  BY <1>1, <1>2, <1>3, <1>4 DEF InActive, Follows
<1>7. \A i \in 1 .. Len(k.stack) : Agrees(k.stack[i], o[i])
  BY <1>4, <1>5
<1>8. Follows(k, o)
  BY <1>4, <1>6, <1>7 DEF Follows
<1>9. QED BY <1>4, <1>8 DEF c, k, o

\* A branch of a conditional that was counted is not one of the stack's.
LEMMA DeeperBranch ==
    ASSUME NEW m \in Machine, NEW n \in Seq(Branch), Follows(m, n), m.skipped > 0,
           NEW branch \in Branch
    PROVE  Follows(m, [n EXCEPT ![Len(n)] = branch])
<1> DEFINE o == [n EXCEPT ![Len(n)] = branch]
<1>1. Len(m.stack) \in Nat /\ m.skipped \in Nat /\ Len(n) = Len(m.stack) + m.skipped
  BY DEF Machine, Follows
<1>2. Len(o) = Len(n) /\ \A i \in 1 .. Len(n) : i # Len(n) => o[i] = n[i]
  BY <1>1
<1> HIDE DEF o
<1>3. \A i \in 1 .. Len(m.stack) : o[i] = n[i] /\ Agrees(m.stack[i], n[i])
  BY <1>1, <1>2 DEF Follows
<1>4. \A i \in 1 .. Len(m.stack) : Agrees(m.stack[i], o[i])
  BY <1>3
<1>5. Follows(m, o)
  BY <1>2, <1>4 DEF Follows
<1>6. QED BY <1>5 DEF o

-----------------------------------------------------------------------------
(***************************************************************************)
(* Every handler takes the relation to the nesting that Reference gives.   *)
(***************************************************************************)
HasDirective(name) ==
    /\ pp \in Machine /\ nest \in Seq(Branch) /\ Follows(pp, nest)
    /\ pp.directive # <<>> /\ pp.directive[1] = name

Keeps(k) ==
    /\ k \in Machine
    /\ Reference(nest, pp.directive) \in Seq(Branch)
    /\ Follows(k, Reference(nest, pp.directive))

NewBranch(cond) == [live |-> cond, done |-> cond, afterElse |-> FALSE, late |-> FALSE]
Given == Len(pp.directive) > 1 /\ pp.directive[2] = "true"

\* The condition of a directive is that of the language.
LEMMA ConditionGiven ==
    ASSUME pp \in Machine
    PROVE  /\ Given \in BOOLEAN
           /\ Condition(pp) = Given
           /\ Tail1(pp) = "none" <=> ~(Len(pp.directive) > 1)
<1>1. pp.directive \in Seq(Tokens)
  BY DEF Machine
<1>2. Len(pp.directive) > 1 => pp.directive[2] \in Tokens
  BY <1>1
<1>3. "none" \notin Tokens
  BY DEF Tokens, Directives
<1>4. QED BY <1>2, <1>3 DEF Condition, Tail1, Given

\* What opens a conditional is counted or pushed.
LEMMA OpenKeeps ==
    ASSUME pp \in Machine, nest \in Seq(Branch), Follows(pp, nest),
           Reference(nest, pp.directive) = Append(nest, NewBranch(Given))
    PROVE  /\ ~InActive(pp) => Keeps([pp EXCEPT !.skipped = pp.skipped + 1])
           /\ InActive(pp) => Keeps(PushConditional(pp, Condition(pp)))
<1>1. Given \in BOOLEAN /\ Condition(pp) = Given
  BY ConditionGiven
<1>2. /\ NewBranch(Given) \in Branch
      /\ NewBranch(Given).live = Given /\ NewBranch(Given).done = Given
      /\ ~NewBranch(Given).afterElse
  BY <1>1 DEF NewBranch, Branch
<1>3. Append(nest, NewBranch(Given)) \in Seq(Branch)
  BY <1>2
<1>4. CASE ~InActive(pp)
  BY <1>2, <1>3, <1>4, SkipFollows DEF Keeps
<1>5. CASE InActive(pp)
  BY <1>1, <1>2, <1>3, <1>5, PushFollows DEF Keeps
<1>6. QED BY <1>4, <1>5

LEMMA IfKeeps == HasDirective("if") => Keeps(HandleIfDirective(pp))
<1> SUFFICES ASSUME HasDirective("if")
             PROVE  Keeps(HandleIfDirective(pp))
  OBVIOUS
<1>1. Reference(nest, pp.directive) = Append(nest, NewBranch(Given))
  BY DEF HasDirective, Reference, NewBranch, Given
<1>2. HandleIfDirective(pp) = IF ~InActive(pp) THEN [pp EXCEPT !.skipped = pp.skipped + 1]
                              ELSE PushConditional(pp, Condition(pp))
  BY DEF HandleIfDirective
<1>3. QED BY <1>1, <1>2, OpenKeeps DEF HasDirective

LEMMA IfdefKeeps == HasDirective("ifdef") => Keeps(HandleIfdefDirective(pp))
<1> SUFFICES ASSUME HasDirective("ifdef")
             PROVE  Keeps(HandleIfdefDirective(pp))
  OBVIOUS
<1>1. Tail1(pp) = "none" <=> ~(Len(pp.directive) > 1)
  BY ConditionGiven DEF HasDirective
<1>2. HandleIfdefDirective(pp) = IF ~InActive(pp) THEN [pp EXCEPT !.skipped = pp.skipped + 1]
                                 ELSE IF Tail1(pp) = "none" THEN pp
                                 ELSE PushConditional(pp, Condition(pp))
  BY DEF HandleIfdefDirective
<1>3. CASE InActive(pp) /\ Tail1(pp) = "none"
  <2>1. Reference(nest, pp.directive) = nest
    BY <1>1, <1>3 DEF HasDirective, Reference
  <2>2. QED BY <1>2, <1>3, <2>1 DEF HasDirective, Keeps
<1>4. CASE ~InActive(pp) \/ Tail1(pp) # "none"
  <2>1. Reference(nest, pp.directive) = Append(nest, NewBranch(Given))
    BY <1>1, <1>4 DEF HasDirective, Reference, NewBranch, Given
  <2>2. QED BY <1>2, <1>4, <2>1, OpenKeeps DEF HasDirective
<1>5. QED BY <1>3, <1>4

Innermost == nest[Len(nest)]
WithInnermost(branch) == [nest EXCEPT ![Len(nest)] = branch]

LEMMA InnermostType ==
    ASSUME nest \in Seq(Branch), nest # <<>>, NEW branch \in Branch
    PROVE  WithInnermost(branch) \in Seq(Branch)
<1>1. Len(nest) \in 1 .. Len(nest)
  OBVIOUS
<1>2. QED BY <1>1 DEF WithInnermost

\* What the relation says of the innermost conditional.
LEMMA InnermostFollows ==
    ASSUME pp \in Machine, nest \in Seq(Branch), Follows(pp, nest)
    PROVE  /\ pp.stack \in Seq(ConditionalInfo) /\ pp.skipped \in Nat
           /\ pp.skipped > 0 => pp.stack # <<>> /\ nest # <<>>
           /\ pp.skipped = 0 => Len(pp.stack) = Len(nest) /\ (pp.stack = <<>> <=> nest = <<>>)
           /\ nest # <<>> => Innermost \in Branch
           /\ pp.skipped = 0 /\ pp.stack # <<>> =>
                 /\ Last(pp.stack) \in ConditionalInfo
                 /\ Agrees(Last(pp.stack), Innermost)
<1>1. pp.stack \in Seq(ConditionalInfo) /\ pp.skipped \in Nat
  BY DEF Machine
<1>2. Len(pp.stack) + pp.skipped = Len(nest)
  BY DEF Follows
<1>3. pp.skipped > 0 => pp.stack # <<>> /\ nest # <<>>
  BY <1>1, <1>2 DEF Follows, InActive
<1>4. pp.skipped = 0 => Len(pp.stack) = Len(nest) /\ (pp.stack = <<>> <=> nest = <<>>)
  BY <1>1, <1>2
<1>5. nest # <<>> => Innermost \in Branch
  BY DEF Innermost
<1>6. ASSUME pp.skipped = 0, pp.stack # <<>>
      PROVE  Last(pp.stack) \in ConditionalInfo /\ Agrees(Last(pp.stack), Innermost)
  <2>1. Len(pp.stack) \in 1 .. Len(pp.stack) /\ Len(pp.stack) = Len(nest)
    BY <1>1, <1>4, <1>6
  <2>2. Agrees(pp.stack[Len(pp.stack)], nest[Len(nest)])
    BY <2>1 DEF Follows
  <2>3. pp.stack[Len(pp.stack)] \in ConditionalInfo
    BY <1>1, <2>1
  <2>4. QED BY <2>2, <2>3 DEF Last, Innermost
<1>7. QED BY <1>1, <1>3, <1>4, <1>5, <1>6

\* A handler that leaves the machine alone, when the language leaves the
\* nesting alone or changes a branch that was counted.
LEMMA NothingKeeps ==
    ASSUME pp \in Machine, nest \in Seq(Branch), Follows(pp, nest),
           \/ Reference(nest, pp.directive) = nest
           \/ /\ pp.skipped > 0
              /\ \E branch \in Branch : Reference(nest, pp.directive) = WithInnermost(branch)
    PROVE  Keeps(pp)
<1>1. CASE Reference(nest, pp.directive) = nest
  BY <1>1 DEF Keeps
<1>2. ASSUME pp.skipped > 0, NEW branch \in Branch,
             Reference(nest, pp.directive) = WithInnermost(branch)
      PROVE  Keeps(pp)
  <2>1. Follows(pp, WithInnermost(branch))
    BY <1>2, DeeperBranch DEF WithInnermost
  <2>2. WithInnermost(branch) \in Seq(Branch)
    BY <1>2, InnermostFollows, InnermostType
  <2>3. QED BY <1>2, <2>1, <2>2 DEF Keeps
<1>3. QED BY <1>1, <1>2

\* A handler that changes the top of the stack as the language changes the
\* innermost conditional.
LEMMA TopKeeps ==
    ASSUME pp \in Machine, nest \in Seq(Branch), Follows(pp, nest),
           pp.skipped = 0, pp.stack # <<>>,
           NEW entry \in ConditionalInfo, NEW branch \in Branch, Agrees(entry, branch),
           Reference(nest, pp.directive) = WithInnermost(branch), NEW b \in BOOLEAN
    PROVE  Keeps(OnBranch([pp EXCEPT !.stack = [pp.stack EXCEPT ![Len(pp.stack)] = entry]], b))
<1> DEFINE k == [pp EXCEPT !.stack = [pp.stack EXCEPT ![Len(pp.stack)] = entry]]
<1>1. k \in Machine /\ Follows(k, WithInnermost(branch))
  BY TopFollows DEF WithInnermost
<1>2. WithInnermost(branch) \in Seq(Branch)
  BY InnermostFollows, InnermostType
<1> HIDE DEF k
<1>3. SameButCollector(k, OnBranch(k, b))
  BY <1>1, CollectorFrame
<1>4. OnBranch(k, b) \in Machine /\ Follows(OnBranch(k, b), WithInnermost(branch))
  BY <1>1, <1>2, <1>3, FollowsFrame DEF SameButCollector
<1>5. Keeps(OnBranch(k, b))
  BY <1>2, <1>4 DEF Keeps
<1>6. QED BY <1>5 DEF k

LEMMA ElseKeeps == HasDirective("else") => Keeps(HandleElseDirective(pp))
<1> SUFFICES ASSUME HasDirective("else")
             PROVE  Keeps(HandleElseDirective(pp))
  OBVIOUS
<1> USE InnermostFollows DEF HasDirective
<1> DEFINE branch == [Select(Innermost, TRUE) EXCEPT !.afterElse = TRUE]
           isActive == ~Last(pp.stack).seenActiveBranch
           entry == [active |-> isActive, seenActiveBranch |-> TRUE, seenElse |-> TRUE]
<1>1. Reference(nest, pp.directive) =
          IF nest # <<>> /\ ~Innermost.afterElse THEN WithInnermost(branch) ELSE nest
  BY DEF Reference, Innermost, WithInnermost
<1>2. nest # <<>> => /\ branch \in Branch
                     /\ branch.live = ~Innermost.done /\ branch.done /\ branch.afterElse
                     /\ branch.late = Innermost.late
  BY DEF Select, Branch
<1>3. CASE pp.skipped > 0 \/ pp.stack = <<>> \/ Last(pp.stack).seenElse
  <2>1. HandleElseDirective(pp) = pp
    BY <1>3 DEF HandleElseDirective
  <2>2. \/ Reference(nest, pp.directive) = nest
        \/ pp.skipped > 0 /\ Reference(nest, pp.directive) = WithInnermost(branch)
    BY <1>1, <1>3 DEF Agrees
  <2>3. QED BY <1>1, <1>2, <2>1, <2>2, NothingKeeps
<1>4. CASE pp.skipped = 0 /\ pp.stack # <<>> /\ ~Last(pp.stack).seenElse
  <2>1. nest # <<>> /\ ~Innermost.afterElse /\ Reference(nest, pp.directive) = WithInnermost(branch)
    BY <1>1, <1>4 DEF Agrees
  <2>2. isActive \in BOOLEAN /\ entry \in ConditionalInfo
    BY <1>4 DEF ConditionalInfo
  <2>3. Agrees(entry, branch)
    BY <1>2, <1>4, <2>1, <2>2 DEF Agrees, Branch, ConditionalInfo
  <2>4. HandleElseDirective(pp) =
            OnBranch([pp EXCEPT !.stack = [pp.stack EXCEPT ![Len(pp.stack)] = entry]], isActive)
    BY <1>4 DEF HandleElseDirective
  <2> HIDE DEF branch, isActive, entry
  <2>5. QED BY <1>2, <1>4, <2>1, <2>2, <2>3, <2>4, TopKeeps
<1>5. QED BY <1>3, <1>4

LEMMA ElifKeeps == HasDirective("elif") => Keeps(HandleElifDirective(pp))
<1> SUFFICES ASSUME HasDirective("elif")
             PROVE  Keeps(HandleElifDirective(pp))
  OBVIOUS
<1> USE InnermostFollows DEF HasDirective
<1> DEFINE branch == [Select(Innermost, Given) EXCEPT !.late = @ \/ Innermost.done]
           isActive == ~Last(pp.stack).seenActiveBranch /\ Condition(pp)
           entry == [Last(pp.stack) EXCEPT !.active = isActive, !.seenActiveBranch = isActive]
<1>1. Reference(nest, pp.directive) =
          IF nest # <<>> /\ ~Innermost.afterElse THEN WithInnermost(branch) ELSE nest
  BY DEF Reference, Innermost, WithInnermost, Given
<1>2. Given \in BOOLEAN /\ Condition(pp) = Given
  BY ConditionGiven
<1>3. nest # <<>> => /\ branch \in Branch
                     /\ branch.live = (~Innermost.done /\ Given)
                     /\ branch.done = (Innermost.done \/ Given)
                     /\ branch.afterElse = Innermost.afterElse
                     /\ branch.late = (Innermost.late \/ Innermost.done)
  BY <1>2 DEF Select, Branch
<1>4. CASE pp.skipped > 0 \/ pp.stack = <<>> \/ Last(pp.stack).seenElse
  <2>1. HandleElifDirective(pp) = pp
    BY <1>4 DEF HandleElifDirective
  <2>2. \/ Reference(nest, pp.directive) = nest
        \/ pp.skipped > 0 /\ Reference(nest, pp.directive) = WithInnermost(branch)
    BY <1>1, <1>4 DEF Agrees
  <2>3. QED BY <1>1, <1>3, <2>1, <2>2, NothingKeeps
<1>5. CASE pp.skipped = 0 /\ pp.stack # <<>> /\ ~Last(pp.stack).seenElse
  <2>1. nest # <<>> /\ ~Innermost.afterElse /\ Reference(nest, pp.directive) = WithInnermost(branch)
    BY <1>1, <1>5 DEF Agrees
  <2>2. /\ isActive \in BOOLEAN /\ entry \in ConditionalInfo
        /\ entry.active = isActive /\ entry.seenActiveBranch = isActive
        /\ entry.seenElse = Last(pp.stack).seenElse
    BY <1>2, <1>5 DEF ConditionalInfo
  <2>3. Agrees(entry, branch)
    BY <1>2, <1>3, <1>5, <2>1, <2>2 DEF Agrees, Branch, ConditionalInfo
  <2>4. HandleElifDirective(pp) =
            OnBranch([pp EXCEPT !.stack = [pp.stack EXCEPT ![Len(pp.stack)] = entry]], Condition(pp))
    BY <1>5 DEF HandleElifDirective, Last
  <2> HIDE DEF branch, isActive, entry
  <2>5. QED BY <1>2, <1>3, <1>5, <2>1, <2>2, <2>3, <2>4, TopKeeps
<1>6. QED BY <1>4, <1>5

LEMMA EndifKeeps == HasDirective("endif") => Keeps(HandleEndifDirective(pp))
<1> SUFFICES ASSUME HasDirective("endif")
             PROVE  Keeps(HandleEndifDirective(pp))
  OBVIOUS
<1> USE InnermostFollows DEF HasDirective
<1>1. Reference(nest, pp.directive) = IF nest # <<>> THEN Front(nest) ELSE nest
  BY DEF Reference
<1>2. nest # <<>> => Front(nest) \in Seq(Branch)
  BY DEF Front
<1>3. CASE pp.skipped > 0
  <2>1. HandleEndifDirective(pp) = [pp EXCEPT !.skipped = pp.skipped - 1]
    BY <1>3 DEF HandleEndifDirective
  <2>2. QED BY <1>1, <1>2, <1>3, <2>1, UnskipFollows DEF Keeps
<1>4. CASE pp.skipped = 0 /\ pp.stack = <<>>
  <2>1. HandleEndifDirective(pp) = pp
    BY <1>4 DEF HandleEndifDirective
  <2>2. QED BY <1>1, <1>4, <2>1, NothingKeeps
<1>5. CASE pp.skipped = 0 /\ pp.stack # <<>>
  <2> DEFINE k == [pp EXCEPT !.stack = Front(pp.stack)]
  <2>1. HandleEndifDirective(pp) = TryLeaveInactiveRange(k)
    BY <1>5 DEF HandleEndifDirective
  <2>2. k \in Machine /\ Follows(k, Front(nest))
    BY <1>5, PopFollows
  <2> HIDE DEF k
  <2>3. SameButCollector(k, TryLeaveInactiveRange(k))
    BY <2>2, LeaveFrame
  <2>4. TryLeaveInactiveRange(k) \in Machine /\ Follows(TryLeaveInactiveRange(k), Front(nest))
    BY <1>2, <1>5, <2>2, <2>3, FollowsFrame DEF SameButCollector
  <2>5. QED BY <1>1, <1>2, <1>5, <2>1, <2>4 DEF Keeps
<1>6. QED BY <1>3, <1>4, <1>5

\* The nesting after the directive that is pending, if there is one.
NextNest == IF pp.directive # <<>> THEN Reference(nest, pp.directive) ELSE nest

LEMMA DispatchKeeps ==
    ASSUME pp \in Machine, nest \in Seq(Branch), Follows(pp, nest)
    PROVE  /\ DispatchPPDirectiveToHandler(pp) \in Machine
           /\ NextNest \in Seq(Branch)
           /\ Follows(DispatchPPDirectiveToHandler(pp), NextNest)
<1> DEFINE k == DispatchPPDirectiveToHandler(pp)
<1>1. CASE pp.directive = <<>>
  BY <1>1 DEF DispatchPPDirectiveToHandler, NextNest
<1>2. CASE pp.directive # <<>> /\ pp.directive[1] \notin ConditionalDirectives
  <2>1. k = pp
    BY <1>2 DEF DispatchPPDirectiveToHandler, ConditionalDirectives, Directives
  <2>2. NextNest = nest
    BY <1>2 DEF NextNest, Reference, ConditionalDirectives, Directives
  <2>3. QED BY <2>1, <2>2
<1>3. CASE pp.directive # <<>> /\ pp.directive[1] \in ConditionalDirectives
  <2>1. \/ HasDirective("if") \/ HasDirective("ifdef") \/ HasDirective("elif")
        \/ HasDirective("else") \/ HasDirective("endif")
    BY <1>3 DEF ConditionalDirectives, Directives, HasDirective
  <2>2. Keeps(k)
    BY <2>1, IfKeeps, IfdefKeeps, ElifKeeps, ElseKeeps, EndifKeeps
       DEF DispatchPPDirectiveToHandler, HasDirective
  <2>3. QED BY <1>3, <2>2 DEF Keeps, NextNest
<1>4. QED BY <1>1, <1>2, <1>3

-----------------------------------------------------------------------------
(***************************************************************************)
(* The state machine.                                                      *)
(***************************************************************************)
LEMMA AcceptFrame ==
    ASSUME NEW m \in Machine, NEW text, line' \in Int
    PROVE  /\ AcceptOnText(m, text) \in Machine
           /\ AcceptOnText(m, text).stack = m.stack /\ AcceptOnText(m, text).skipped = m.skipped
           /\ AcceptOnText(m, text).state = IF text = "#" THEN "ExpectDirective" ELSE m.state
<1>1. "ExpectDirective" \in States /\ <<>> \in Seq(Tokens)
  BY DEF States
<1>2. QED BY <1>1 DEF AcceptOnText, Machine

\* The end of a directive, and the token after it.
LEMMA EndDirectiveKeeps ==
    ASSUME pp \in Machine, nest \in Seq(Branch), Follows(pp, nest), NEW text, line' \in Int
    PROVE  /\ EndDirective(pp, text) \in Machine /\ NextNest \in Seq(Branch)
           /\ Follows(EndDirective(pp, text), NextNest)
           /\ EndDirective(pp, text).state = "Default" => InActive(EndDirective(pp, text))
           /\ EndDirective(pp, text).state = "Inactive" => ~InActive(EndDirective(pp, text))
<1> DEFINE handled == DispatchPPDirectiveToHandler(pp)
           x == IF InActive(handled) THEN "Default" ELSE "Inactive"
           k == [handled EXCEPT !.state = x]
           e == EndDirective(pp, text)
<1>1. handled \in Machine /\ NextNest \in Seq(Branch) /\ Follows(handled, NextNest)
  BY DispatchKeeps
<1>2. x \in States /\ (x = "Default" => InActive(handled)) /\ (x = "Inactive" => ~InActive(handled))
  BY DEF States
<1>3. e = AcceptOnText(k, text)
  BY DEF EndDirective
<1> HIDE DEF handled, x
<1>4. k \in Machine /\ k.stack = handled.stack /\ k.skipped = handled.skipped /\ k.state = x
  BY <1>1, <1>2, StateUpdate
<1> HIDE DEF k, e
<1>5. /\ e \in Machine /\ e.stack = handled.stack /\ e.skipped = handled.skipped
      /\ e.state = IF text = "#" THEN "ExpectDirective" ELSE x
  BY <1>3, <1>4, AcceptFrame
<1>6. Follows(e, NextNest) /\ (InActive(e) <=> InActive(handled))
  BY <1>1, <1>5, FollowsFrame
<1>7. QED BY <1>1, <1>2, <1>5, <1>6 DEF e

LEMMA Initially == Init => IInv
BY DEF Init, IInv, TypeInv, Machine, Follows, StateFollowsStack, InActive, States, ConditionalInfo,
       Branch

LEMMA FirstTokenStep ==
    ASSUME IInv, NEW text \in {"#", "text"}, FirstToken(text)
    PROVE  IInv'
<1>1. /\ pp \in Machine /\ nest \in Seq(Branch) /\ Follows(pp, nest) /\ line \in Int
      /\ line' \in Int
  BY DEF IInv, TypeInv, FirstToken
<1>2. CASE InDirective(pp)
  <2>1. pp' = EndDirective(pp, text) /\ nest' = NextNest
    BY <1>2 DEF FirstToken, Account, NextNest
  <2>2. QED BY <1>1, <2>1, EndDirectiveKeeps DEF IInv, TypeInv, StateFollowsStack
<1>3. CASE ~InDirective(pp)
  <2>1. pp' = AcceptOnText(pp, text) /\ nest' = nest
    BY <1>3 DEF FirstToken, Account
  <2>2. /\ pp' \in Machine /\ pp'.stack = pp.stack /\ pp'.skipped = pp.skipped
        /\ pp'.state = IF text = "#" THEN "ExpectDirective" ELSE pp.state
    BY <1>1, <2>1, AcceptFrame
  <2>3. Follows(pp', nest) /\ (InActive(pp') <=> InActive(pp))
    BY <1>1, <2>2, FollowsFrame
  <2>4. QED BY <1>1, <2>1, <2>2, <2>3 DEF IInv, TypeInv, StateFollowsStack
<1>4. QED BY <1>2, <1>3

LEMMA DirectiveNameStep ==
    ASSUME IInv, NEW text \in Directives, DirectiveName(text)
    PROVE  IInv'
<1>1. /\ pp \in Machine /\ nest \in Seq(Branch) /\ Follows(pp, nest) /\ line \in Int
      /\ line' = line /\ nest' = nest
  BY DEF IInv, TypeInv, DirectiveName
<1> DEFINE x == IF InActive(pp) \/ text \in ConditionalDirectives
                THEN "ExpectDirectiveTail" ELSE "Inactive"
           d == Append(pp.directive, text)
<1>2. x \in States /\ d \in Seq(Tokens) /\ x # "Default" /\ (x = "Inactive" => ~InActive(pp))
  BY <1>1 DEF States, Tokens, Machine
<1>3. pp' = [pp EXCEPT !.directive = d, !.state = x]
  BY DEF DirectiveName, AcceptOnExpectDirective
<1> HIDE DEF x, d
<1>4. pp' \in Machine /\ pp'.stack = pp.stack /\ pp'.skipped = pp.skipped /\ pp'.state = x
  BY <1>1, <1>2, <1>3 DEF Machine
<1>5. Follows(pp', nest) /\ (InActive(pp') <=> InActive(pp))
  BY <1>1, <1>4, FollowsFrame
<1>6. QED BY <1>1, <1>2, <1>4, <1>5 DEF IInv, TypeInv, StateFollowsStack

LEMMA DirectiveTailStep ==
    ASSUME IInv, NEW text \in {"true", "false"}, DirectiveTail(text)
    PROVE  IInv'
<1>1. /\ pp \in Machine /\ nest \in Seq(Branch) /\ Follows(pp, nest) /\ line \in Int
      /\ line' = line /\ nest' = nest /\ pp.state = "ExpectDirectiveTail"
  BY DEF IInv, TypeInv, DirectiveTail
<1> DEFINE d == Append(pp.directive, text)
<1>2. d \in Seq(Tokens)
  BY <1>1 DEF Tokens, Machine
<1>3. pp' = [pp EXCEPT !.directive = d]
  BY DEF DirectiveTail, AcceptOnExpectDirectiveTail
<1> HIDE DEF d
<1>4. pp' \in Machine /\ pp'.stack = pp.stack /\ pp'.skipped = pp.skipped /\ pp'.state = pp.state
  BY <1>1, <1>2, <1>3 DEF Machine
<1>5. Follows(pp', nest) /\ (InActive(pp') <=> InActive(pp))
  BY <1>1, <1>4, FollowsFrame
<1>6. QED BY <1>1, <1>4, <1>5 DEF IInv, TypeInv, StateFollowsStack

LEMMA EndOfFileStep ==
    ASSUME IInv, EndOfFile
    PROVE  IInv'
<1> DEFINE k == IF InDirective(pp) THEN EndDirective(pp, "eof") ELSE pp
           x == "Halt"
<1>1. /\ pp \in Machine /\ nest \in Seq(Branch) /\ Follows(pp, nest) /\ line' \in Int
      /\ pp' = [k EXCEPT !.state = x] /\ x \in States
      /\ x # "Default" /\ x # "Inactive"
  BY DEF IInv, TypeInv, EndOfFile, Halt, States
<1>2. k \in Machine /\ nest' \in Seq(Branch) /\ Follows(k, nest')
  <2>1. CASE InDirective(pp)
    <3>1. nest' = NextNest
      BY <2>1 DEF EndOfFile, Account, NextNest
    <3>2. QED BY <1>1, <2>1, <3>1, EndDirectiveKeeps
  <2>2. CASE ~InDirective(pp)
    BY <1>1, <2>2 DEF EndOfFile, Account
  <2>3. QED BY <2>1, <2>2
<1> HIDE DEF k, x
<1>3. pp' \in Machine /\ pp'.stack = k.stack /\ pp'.skipped = k.skipped /\ pp'.state = x
  BY <1>1, <1>2, StateUpdate
<1>4. Follows(pp', nest')
  BY <1>2, <1>3, FollowsFrame
<1>5. QED BY <1>1, <1>2, <1>3, <1>4 DEF IInv, TypeInv, StateFollowsStack

LEMMA Inductive == IInv /\ [Next]_vars => IInv'
<1> SUFFICES ASSUME IInv, [Next]_vars
             PROVE  IInv'
  OBVIOUS
<1>1. CASE \E text \in {"#", "text"} : FirstToken(text)
  BY <1>1, FirstTokenStep
<1>2. CASE \E text \in Directives : DirectiveName(text)
  BY <1>2, DirectiveNameStep
<1>3. CASE \E text \in {"true", "false"} : DirectiveTail(text)
  BY <1>3, DirectiveTailStep
<1>4. CASE EndOfFile
  BY <1>4, EndOfFileStep
<1>5. CASE UNCHANGED vars
  BY <1>5 DEF vars, IInv, TypeInv, StateFollowsStack, Follows, InActive
<1>6. QED BY <1>1, <1>2, <1>3, <1>4, <1>5 DEF Next, Halted

-----------------------------------------------------------------------------
(***************************************************************************)
(* The theorems.                                                           *)
(***************************************************************************)
\* The members of the state machine and of its collector keep their types, for
\* files of any length.
THEOREM TypeCorrect == Spec => []TypeInv
<1>1. Spec => []IInv
  BY Initially, Inductive, PTL DEF Spec
<1>2. IInv => TypeInv
  BY DEF IInv
<1>3. QED BY <1>1, <1>2, PTL

\* PreprocessStateMachine looks at the innermost conditional only, and that is
\* enough: the conditionals around it are active, and directives are counted
\* instead of pushed only inside an inactive one.
THEOREM InnermostDecides == Spec => []OnlyInnermostInactive
<1>1. Spec => []IInv
  BY Initially, Inductive, PTL DEF Spec
<1>2. IInv => OnlyInnermostInactive
  BY DEF IInv, Follows, OnlyInnermostInactive
<1>3. QED BY <1>1, <1>2, PTL

\* The stack and the counter of skipped conditionals are together as deep as the
\* nesting of the file, so an #endif closes the conditional it belongs to.
THEOREM DepthKept == Spec => []NestingKept
<1>1. Spec => []IInv
  BY Initially, Inductive, PTL DEF Spec
<1>2. IInv => NestingKept
  BY DEF IInv, Follows, NestingKept
<1>3. QED BY <1>1, <1>2, PTL

LEMMA InvSelected == IInv => PassedTextIsSelected
<1> SUFFICES ASSUME IInv, ~IsLate(nest)
             PROVE  /\ pp.state = "Default" => Selected(nest)
                    /\ pp.state = "Inactive" => ~Selected(nest)
  BY DEF PassedTextIsSelected
<1>1. /\ pp \in Machine /\ pp.stack \in Seq(ConditionalInfo) /\ nest \in Seq(Branch)
      /\ Follows(pp, nest) /\ Len(pp.stack) \in Nat /\ Len(pp.stack) <= Len(nest)
  BY DEF IInv, TypeInv, Machine, Follows
<1>2. \A i \in 1 .. Len(pp.stack) : i \in 1 .. Len(nest) /\ pp.stack[i].active = nest[i].live
  BY <1>1 DEF Follows, Agrees, IsLate
<1>3. ASSUME pp.state = "Default"
      PROVE  Selected(nest)
  <2>1. InActive(pp)
    BY <1>3 DEF IInv, StateFollowsStack
  <2>2. Len(pp.stack) = Len(nest) /\ \A i \in 1 .. Len(pp.stack) : pp.stack[i].active
    BY <1>1, <2>1, ActiveRegion
  <2>3. QED BY <1>1, <1>2, <2>2 DEF Selected
<1>4. ASSUME pp.state = "Inactive"
      PROVE  ~Selected(nest)
  <2>1. ~InActive(pp)
    BY <1>4 DEF IInv, StateFollowsStack
  <2>2. Len(pp.stack) \in 1 .. Len(pp.stack) /\ ~pp.stack[Len(pp.stack)].active
    BY <1>1, <2>1 DEF InActive, Last
  <2>3. QED BY <1>1, <1>2, <2>2 DEF Selected
<1>5. QED BY <1>3, <1>4

\* Text is preprocessed exactly where the language selects it, for files of any
\* length and nesting of any depth, outside conditionals with a late #elif.
THEOREM SelectedTextPasses == Spec => []PassedTextIsSelected
<1>1. Spec => []IInv
  BY Initially, Inductive, PTL DEF Spec
<1>2. QED BY <1>1, InvSelected, PTL

-----------------------------------------------------------------------------
(***************************************************************************)
(* The inactive regions, for files of any length: the lines shown as       *)
(* inactive are those whose text was dropped.                              *)
(*                                                                         *)
(* To the invariant above this one adds when a region is open, and where   *)
(* the lines read so far are.  A handler of a directive leaves the lines   *)
(* before the directive inside or outside of a region, as they were (Cut), *)
(* and leaves a region open when the stack calls for one (Marks).          *)
(***************************************************************************)
In(m, l) ==
    \/ \E i \in DOMAIN m.regions : m.regions[i][1] <= l /\ l < m.regions[i][2]
    \/ m.regionStart # 0 /\ m.regionStart <= l

\* A region is open in an inactive branch, and in none that is active.
Marks(m, n) ==
    /\ InActive(m) => m.regionStart = 0
    /\ ~InActive(m) /\ (\A i \in 1 .. Len(m.stack) : ~n[i].late) => m.regionStart # 0

\* k has the regions of m up to the line of the directive.
Cut(m, k) ==
    /\ k.directiveLine = m.directiveLine
    /\ k.regionStart = m.regionStart \/ k.regionStart = 0 \/ k.regionStart = m.directiveLine + 1
    /\ \A i \in DOMAIN k.regions :
          \/ k.regions[i][2] = m.directiveLine
          \/ i \in DOMAIN m.regions /\ k.regions[i] = m.regions[i]
    /\ \A l \in Int : l < m.directiveLine => (In(k, l) <=> In(m, l))

SameCollector(m, k) ==
    /\ k.directiveLine = m.directiveLine
    /\ k.regionStart = m.regionStart /\ k.regions = m.regions

-----------------------------------------------------------------------------
LEMMA SameCut ==
    ASSUME NEW m, NEW k, SameCollector(m, k)
    PROVE  /\ Cut(m, k)
           /\ \A j : Cut(k, j) => Cut(m, j)
           /\ \A j : Cut(j, m) => Cut(j, k)
BY DEF Cut, SameCollector, In

LEMMA CutTransitive ==
    ASSUME NEW m, NEW k, NEW j, Cut(m, k), Cut(k, j)
    PROVE  Cut(m, j)
BY DEF Cut

LEMMA UpdateCollector ==
    ASSUME NEW m \in Machine, NEW s, NEW c, NEW x
    PROVE  /\ SameCollector(m, [m EXCEPT !.stack = s])
           /\ SameCollector(m, [m EXCEPT !.skipped = c])
           /\ SameCollector(m, [m EXCEPT !.state = x])
BY DEF Machine, SameCollector

LEMMA EnterCut ==
    ASSUME NEW m \in Machine, m.regionStart = 0
    PROVE  /\ Cut(m, EnterInactiveRange(m))
           /\ EnterInactiveRange(m).regionStart = m.directiveLine + 1
<1> DEFINE z == m.directiveLine + 1
           k == [m EXCEPT !.regionStart = z]
<1>1. z \in Int /\ m.directiveLine \in Int /\ z = m.directiveLine + 1
  BY DEF Machine
<1> HIDE DEF z
<1>2. k.regionStart = z /\ k.regions = m.regions /\ k.directiveLine = m.directiveLine
  BY DEF Machine
<1> HIDE DEF k
<1>3. \A l \in Int : l < m.directiveLine => (In(k, l) <=> In(m, l))
  BY <1>1, <1>2 DEF In
<1>4. Cut(m, k) /\ k.regionStart = m.directiveLine + 1
  BY <1>1, <1>2, <1>3 DEF Cut
<1>5. QED BY <1>4 DEF k, z, EnterInactiveRange

LEMMA LeaveCut ==
    ASSUME NEW m \in Machine
    PROVE  /\ Cut(m, TryLeaveInactiveRange(m))
           /\ TryLeaveInactiveRange(m).regionStart = 0
<1> DEFINE r == Append(m.regions, <<m.regionStart, m.directiveLine>>)
           k == [m EXCEPT !.regions = r, !.regionStart = 0]
<1>1. CASE m.regionStart = 0
  BY <1>1, SameCut DEF TryLeaveInactiveRange, SameCollector
<1>2. CASE m.regionStart # 0
  <2>1. TryLeaveInactiveRange(m) = k
    BY <1>2 DEF TryLeaveInactiveRange
  <2>2. /\ m.regions \in Seq(Int \X Int) /\ m.directiveLine \in Int /\ m.regionStart \in Int
        /\ <<m.regionStart, m.directiveLine>> \in Int \X Int
    BY DEF Machine
  <2>3. /\ Len(m.regions) \in Nat
        /\ DOMAIN m.regions = 1 .. Len(m.regions) /\ DOMAIN r = 1 .. Len(m.regions) + 1
        /\ \A i \in 1 .. Len(m.regions) : r[i] = m.regions[i]
        /\ r[Len(m.regions) + 1] = <<m.regionStart, m.directiveLine>>
    BY <2>2
  <2> HIDE DEF r
  <2>4. k.regionStart = 0 /\ k.regions = r /\ k.directiveLine = m.directiveLine
    BY DEF Machine
  <2> HIDE DEF k
  <2>5. /\ r[Len(m.regions) + 1][1] = m.regionStart
        /\ r[Len(m.regions) + 1][2] = m.directiveLine
    BY <2>3
  <2>6. \A i \in DOMAIN r : i = Len(m.regions) + 1 \/ i \in DOMAIN m.regions
    BY <2>3
  <2>7. \A i \in DOMAIN r :
           \/ r[i][2] = m.directiveLine
           \/ i \in DOMAIN m.regions /\ r[i] = m.regions[i]
    BY <2>3, <2>5, <2>6
  <2>8. ASSUME NEW l \in Int, l < m.directiveLine
        PROVE  In(k, l) <=> In(m, l)
    <3>1. ASSUME In(k, l) PROVE In(m, l)
      <4>1. PICK i \in DOMAIN r : r[i][1] <= l /\ l < r[i][2]
        BY <2>4, <3>1 DEF In
      <4>2. CASE i = Len(m.regions) + 1
        BY <1>2, <2>5, <4>1, <4>2 DEF In
      <4>3. CASE i \in DOMAIN m.regions
        BY <2>3, <4>1, <4>3 DEF In
      <4>4. QED BY <2>6, <4>2, <4>3
    <3>2. ASSUME In(m, l) PROVE In(k, l)
      <4>1. CASE \E i \in DOMAIN m.regions : m.regions[i][1] <= l /\ l < m.regions[i][2]
        <5>1. PICK i \in DOMAIN m.regions : m.regions[i][1] <= l /\ l < m.regions[i][2]
          BY <4>1
        <5>2. i \in DOMAIN r /\ r[i] = m.regions[i]
          BY <2>3, <5>1
        <5>3. QED BY <2>4, <5>1, <5>2 DEF In
      <4>2. CASE m.regionStart <= l
        <5>1. Len(m.regions) + 1 \in DOMAIN r
          BY <2>3
        <5>2. QED BY <2>4, <2>5, <2>8, <4>2, <5>1 DEF In
      <4>3. QED BY <3>2, <4>1, <4>2 DEF In
    <3>3. QED BY <3>1, <3>2
  <2>9. QED BY <2>1, <2>4, <2>7, <2>8 DEF Cut
<1>3. QED BY <1>1, <1>2

LEMMA BranchCut ==
    ASSUME NEW m \in Machine, NEW b \in BOOLEAN
    PROVE  /\ m.regionStart = 0 =>
                 /\ Cut(m, OnIf(m, b))
                 /\ OnIf(m, b).regionStart = IF b THEN 0 ELSE m.directiveLine + 1
           /\ Cut(m, OnBranch(m, b))
           /\ OnBranch(m, b).regionStart = IF b THEN 0 ELSE m.directiveLine + 1
<1>1. ASSUME NEW k \in Machine, k.regionStart = 0
      PROVE  /\ Cut(k, OnIf(k, b))
             /\ OnIf(k, b).regionStart = IF b THEN 0 ELSE k.directiveLine + 1
  <2>1. Cut(k, k)
    BY SameCut DEF SameCollector
  <2>2. QED BY <1>1, <2>1, EnterCut DEF OnIf
<1> DEFINE k == TryLeaveInactiveRange(m)
<1>2. k \in Machine /\ k.regionStart = 0 /\ Cut(m, k) /\ k.directiveLine = m.directiveLine
  BY LeaveFrame, LeaveCut DEF SameButCollector, Cut
<1>3. OnBranch(m, b) = OnIf(k, b)
  BY DEF OnBranch
<1> HIDE DEF k
<1>4. QED BY <1>1, <1>2, <1>3, CutTransitive

-----------------------------------------------------------------------------
(***************************************************************************)
(* The handlers.                                                           *)
(***************************************************************************)
Shows(k) == Cut(pp, k) /\ Marks(k, Reference(nest, pp.directive))

Marked ==
    /\ pp \in Machine /\ nest \in Seq(Branch) /\ Follows(pp, nest)
    /\ Marks(pp, nest) /\ pp.directiveLine > 0

\* A handler that leaves the stack and the collector alone, and the conditionals
\* of the stack in the nesting.
LEMMA SameShows ==
    ASSUME Marked, NEW k, SameCollector(pp, k), k.stack = pp.stack, NEW n,
           \A i \in 1 .. Len(pp.stack) : n[i] = nest[i]
    PROVE  Cut(pp, k) /\ Marks(k, n)
BY SameCut DEF Marked, Marks, SameCollector, InActive

LEMMA PushShows ==
    ASSUME Marked, InActive(pp), NEW b \in BOOLEAN, NEW branch
    PROVE  /\ Cut(pp, PushConditional(pp, b))
           /\ Marks(PushConditional(pp, b), Append(nest, branch))
<1> DEFINE entry == [active |-> b, seenActiveBranch |-> b, seenElse |-> FALSE]
           s == Append(pp.stack, entry)
           k == [pp EXCEPT !.stack = s]
           p == PushConditional(pp, b)
<1>1. pp \in Machine /\ pp.stack \in Seq(ConditionalInfo) /\ entry \in ConditionalInfo
      /\ pp.regionStart = 0 /\ pp.directiveLine > 0 /\ pp.directiveLine \in Int
  BY DEF Marked, Marks, Machine, ConditionalInfo
<1>2. /\ s \in Seq(ConditionalInfo) /\ Len(s) = Len(pp.stack) + 1 /\ s # <<>>
      /\ s[Len(s)] = entry /\ entry.active = b
  BY <1>1
<1>3. p = OnIf(k, b)
  BY DEF PushConditional
<1> HIDE DEF s, entry
<1>4. k \in Machine /\ k.stack = s /\ SameCollector(pp, k)
  BY <1>1, <1>2, StackUpdate, UpdateCollector
<1> HIDE DEF k, p
<1>5. Cut(k, p) /\ p.regionStart = (IF b THEN 0 ELSE k.directiveLine + 1) /\ p.stack = s
  BY <1>1, <1>3, <1>4, BranchCut, CollectorFrame DEF SameCollector, SameButCollector
<1>6. Cut(pp, p)
  BY <1>4, <1>5, SameCut
<1>7. InActive(p) <=> b
  BY <1>2, <1>5 DEF InActive, Last
<1>8. p.regionStart = 0 <=> b
  BY <1>1, <1>4, <1>5 DEF SameCollector
<1>9. QED BY <1>6, <1>7, <1>8 DEF Marks, p

LEMMA TopShows ==
    ASSUME Marked, pp.stack # <<>>, NEW entry \in ConditionalInfo, NEW b \in BOOLEAN, NEW n,
           entry.active => b,
           (~n[Len(pp.stack)].late /\ b) => entry.active
    PROVE  LET k == OnBranch([pp EXCEPT !.stack = [pp.stack EXCEPT ![Len(pp.stack)] = entry]], b)
           IN  Cut(pp, k) /\ Marks(k, n)
<1> DEFINE s == [pp.stack EXCEPT ![Len(pp.stack)] = entry]
           k == [pp EXCEPT !.stack = s]
           p == OnBranch(k, b)
<1>1. pp \in Machine /\ pp.stack \in Seq(ConditionalInfo)
      /\ pp.directiveLine > 0 /\ pp.directiveLine \in Int
  BY DEF Marked, Machine
<1>2. /\ s \in Seq(ConditionalInfo) /\ Len(s) = Len(pp.stack) /\ s # <<>>
      /\ s[Len(s)] = entry /\ Len(s) \in 1 .. Len(s)
  BY <1>1
<1> HIDE DEF s
<1>3. k \in Machine /\ k.stack = s /\ SameCollector(pp, k)
  BY <1>1, <1>2, StackUpdate, UpdateCollector
<1> HIDE DEF k
<1>4. Cut(k, p) /\ p.regionStart = (IF b THEN 0 ELSE k.directiveLine + 1) /\ p.stack = s
  BY <1>3, BranchCut, CollectorFrame DEF SameButCollector
<1> HIDE DEF p
<1>5. Cut(pp, p)
  BY <1>3, <1>4, SameCut
<1>6. InActive(p) <=> entry.active
  BY <1>2, <1>4 DEF InActive, Last
<1>7. p.regionStart = 0 <=> b
  BY <1>1, <1>3, <1>4 DEF SameCollector
<1>8. Marks(p, n)
  BY <1>2, <1>4, <1>6, <1>7 DEF Marks
<1>9. QED BY <1>5, <1>8 DEF p, k, s

LEMMA OpenShows ==
    ASSUME Marked, Reference(nest, pp.directive) = Append(nest, NewBranch(Given))
    PROVE  /\ ~InActive(pp) => Shows([pp EXCEPT !.skipped = pp.skipped + 1])
           /\ InActive(pp) => Shows(PushConditional(pp, Condition(pp)))
<1> DEFINE c == pp.skipped + 1
           k == [pp EXCEPT !.skipped = c]
<1>1. pp \in Machine /\ pp.stack \in Seq(ConditionalInfo) /\ nest \in Seq(Branch)
      /\ c \in Nat /\ pp.skipped \in Nat /\ Len(pp.stack) + pp.skipped = Len(nest)
  BY DEF Marked, Machine, Follows
<1>2. SameCollector(pp, k) /\ k.stack = pp.stack
  BY <1>1, UpdateCollector, SkippedUpdate
<1>3. \A i \in 1 .. Len(pp.stack) : Append(nest, NewBranch(Given))[i] = nest[i]
  BY <1>1
<1> HIDE DEF c, k
<1>4. Shows(k)
  BY <1>2, <1>3, SameShows DEF Shows
<1>5. Given \in BOOLEAN /\ Condition(pp) = Given
  BY <1>1, ConditionGiven
<1>6. InActive(pp) => Shows(PushConditional(pp, Condition(pp)))
  BY <1>5, PushShows DEF Shows
<1>7. QED BY <1>4, <1>6 DEF k, c

\* The language leaves the nesting alone, or changes a branch that was counted.
LEMMA NothingShows ==
    ASSUME Marked,
           \/ Reference(nest, pp.directive) = nest
           \/ pp.skipped > 0 /\ \E branch \in Branch : Reference(nest, pp.directive) = WithInnermost(branch)
    PROVE  Shows(pp)
<1>1. pp \in Machine /\ pp.stack \in Seq(ConditionalInfo) /\ nest \in Seq(Branch)
      /\ pp.skipped \in Nat /\ Len(pp.stack) + pp.skipped = Len(nest)
  BY DEF Marked, Machine, Follows
<1>2. \A i \in 1 .. Len(pp.stack) : Reference(nest, pp.directive)[i] = nest[i]
  <2>1. ASSUME pp.skipped > 0, NEW branch \in Branch, NEW i \in 1 .. Len(pp.stack)
        PROVE  WithInnermost(branch)[i] = nest[i]
    BY <1>1, <2>1 DEF WithInnermost
  <2>2. QED BY <2>1
<1>3. SameCollector(pp, pp)
  BY DEF SameCollector
<1>4. QED BY <1>2, <1>3, SameShows DEF Shows

LEMMA IfShows == Marked /\ HasDirective("if") => Shows(HandleIfDirective(pp))
<1> SUFFICES ASSUME Marked, HasDirective("if")
             PROVE  Shows(HandleIfDirective(pp))
  OBVIOUS
<1>1. Reference(nest, pp.directive) = Append(nest, NewBranch(Given))
  BY DEF HasDirective, Reference, NewBranch, Given
<1>2. HandleIfDirective(pp) = IF ~InActive(pp) THEN [pp EXCEPT !.skipped = pp.skipped + 1]
                              ELSE PushConditional(pp, Condition(pp))
  BY DEF HandleIfDirective
<1>3. QED BY <1>1, <1>2, OpenShows

LEMMA IfdefShows == Marked /\ HasDirective("ifdef") => Shows(HandleIfdefDirective(pp))
<1> SUFFICES ASSUME Marked, HasDirective("ifdef")
             PROVE  Shows(HandleIfdefDirective(pp))
  OBVIOUS
<1>1. Tail1(pp) = "none" <=> ~(Len(pp.directive) > 1)
  BY ConditionGiven DEF HasDirective
<1>2. HandleIfdefDirective(pp) = IF ~InActive(pp) THEN [pp EXCEPT !.skipped = pp.skipped + 1]
                                 ELSE IF Tail1(pp) = "none" THEN pp
                                 ELSE PushConditional(pp, Condition(pp))
  BY DEF HandleIfdefDirective
<1>3. CASE InActive(pp) /\ Tail1(pp) = "none"
  <2>1. Reference(nest, pp.directive) = nest
    BY <1>1, <1>3 DEF HasDirective, Reference
  <2>2. QED BY <1>2, <1>3, <2>1, NothingShows
<1>4. CASE ~InActive(pp) \/ Tail1(pp) # "none"
  <2>1. Reference(nest, pp.directive) = Append(nest, NewBranch(Given))
    BY <1>1, <1>4 DEF HasDirective, Reference, NewBranch, Given
  <2>2. QED BY <1>2, <1>4, <2>1, OpenShows
<1>5. QED BY <1>3, <1>4

LEMMA ElseShows == Marked /\ HasDirective("else") => Shows(HandleElseDirective(pp))
<1> SUFFICES ASSUME Marked, HasDirective("else")
             PROVE  Shows(HandleElseDirective(pp))
  OBVIOUS
<1> USE InnermostFollows DEF HasDirective
<1> DEFINE branch == [Select(Innermost, TRUE) EXCEPT !.afterElse = TRUE]
           isActive == ~Last(pp.stack).seenActiveBranch
           entry == [active |-> isActive, seenActiveBranch |-> TRUE, seenElse |-> TRUE]
<1>1. Reference(nest, pp.directive) =
          IF nest # <<>> /\ ~Innermost.afterElse THEN WithInnermost(branch) ELSE nest
  BY DEF Reference, Innermost, WithInnermost
<1>2. nest # <<>> => branch \in Branch
  BY DEF Select, Branch
<1>3. CASE pp.skipped > 0 \/ pp.stack = <<>> \/ Last(pp.stack).seenElse
  <2>1. HandleElseDirective(pp) = pp
    BY <1>3 DEF HandleElseDirective
  <2>2. \/ Reference(nest, pp.directive) = nest
        \/ pp.skipped > 0 /\ Reference(nest, pp.directive) = WithInnermost(branch)
    BY <1>1, <1>3 DEF Agrees
  <2>3. QED BY <1>1, <1>2, <2>1, <2>2, NothingShows
<1>4. CASE pp.skipped = 0 /\ pp.stack # <<>> /\ ~Last(pp.stack).seenElse
  <2>1. isActive \in BOOLEAN /\ entry \in ConditionalInfo /\ entry.active = isActive
    BY <1>4 DEF ConditionalInfo
  <2>2. HandleElseDirective(pp) =
            OnBranch([pp EXCEPT !.stack = [pp.stack EXCEPT ![Len(pp.stack)] = entry]], isActive)
    BY <1>4 DEF HandleElseDirective
  <2> HIDE DEF branch, isActive, entry
  <2>3. QED BY <1>4, <2>1, <2>2, TopShows DEF Shows
<1>5. QED BY <1>3, <1>4

LEMMA ElifShows == Marked /\ HasDirective("elif") => Shows(HandleElifDirective(pp))
<1> SUFFICES ASSUME Marked, HasDirective("elif")
             PROVE  Shows(HandleElifDirective(pp))
  OBVIOUS
<1> USE InnermostFollows DEF HasDirective
<1> DEFINE branch == [Select(Innermost, Given) EXCEPT !.late = @ \/ Innermost.done]
           isActive == ~Last(pp.stack).seenActiveBranch /\ Condition(pp)
           entry == [Last(pp.stack) EXCEPT !.active = isActive, !.seenActiveBranch = isActive]
<1>1. Reference(nest, pp.directive) =
          IF nest # <<>> /\ ~Innermost.afterElse THEN WithInnermost(branch) ELSE nest
  BY DEF Reference, Innermost, WithInnermost, Given
<1>2. Given \in BOOLEAN /\ Condition(pp) = Given
  BY ConditionGiven
<1>3. nest # <<>> => branch \in Branch /\ branch.late = (Innermost.late \/ Innermost.done)
  BY <1>2 DEF Select, Branch
<1>4. CASE pp.skipped > 0 \/ pp.stack = <<>> \/ Last(pp.stack).seenElse
  <2>1. HandleElifDirective(pp) = pp
    BY <1>4 DEF HandleElifDirective
  <2>2. \/ Reference(nest, pp.directive) = nest
        \/ pp.skipped > 0 /\ Reference(nest, pp.directive) = WithInnermost(branch)
    BY <1>1, <1>4 DEF Agrees
  <2>3. QED BY <1>1, <1>3, <2>1, <2>2, NothingShows
<1>5. CASE pp.skipped = 0 /\ pp.stack # <<>> /\ ~Last(pp.stack).seenElse
  <2>1. nest # <<>> /\ Reference(nest, pp.directive) = WithInnermost(branch)
    BY <1>1, <1>5 DEF Agrees
  <2>2. /\ isActive \in BOOLEAN /\ entry \in ConditionalInfo /\ entry.active = isActive
        /\ isActive => Condition(pp)
    BY <1>2, <1>5 DEF ConditionalInfo
  <2>3. ~branch.late /\ Condition(pp) => isActive
    BY <1>3, <1>5, <2>1 DEF Agrees, Branch, ConditionalInfo
  <2>4. HandleElifDirective(pp) =
            OnBranch([pp EXCEPT !.stack = [pp.stack EXCEPT ![Len(pp.stack)] = entry]], Condition(pp))
    BY <1>5 DEF HandleElifDirective, Last
  <2>5. Len(nest) \in 1 .. Len(nest) /\ Len(pp.stack) = Len(nest)
    BY <1>5, <2>1
  <2>6. WithInnermost(branch)[Len(pp.stack)] = branch
    BY <2>5 DEF WithInnermost
  <2> HIDE DEF branch, isActive, entry
  <2>7. QED BY <1>2, <1>5, <2>1, <2>2, <2>3, <2>4, <2>6, TopShows DEF Shows
<1>6. QED BY <1>4, <1>5

LEMMA OneOrMore == \A c \in Nat : c # 0 => c = 1 \/ c > 1
OBVIOUS

LEMMA EndifShows == Marked /\ HasDirective("endif") => Shows(HandleEndifDirective(pp))
<1> SUFFICES ASSUME Marked, HasDirective("endif")
             PROVE  Shows(HandleEndifDirective(pp))
  OBVIOUS
<1> USE InnermostFollows DEF HasDirective
<1>1. Reference(nest, pp.directive) = IF nest # <<>> THEN Front(nest) ELSE nest
  BY DEF Reference
<1>2. CASE pp.skipped > 0
  <2> DEFINE c == pp.skipped - 1
             k == [pp EXCEPT !.skipped = c]
  <2>1. HandleEndifDirective(pp) = k
    BY <1>2 DEF HandleEndifDirective
  <2>2. c \in Nat /\ Len(pp.stack) + pp.skipped = Len(nest) /\ Len(pp.stack) \in Nat
    BY <1>2 DEF Follows
  <2>3. SameCollector(pp, k) /\ k.stack = pp.stack
    BY <2>2, UpdateCollector, SkippedUpdate
  <2>4. \A i \in 1 .. Len(pp.stack) : Front(nest)[i] = nest[i]
    BY <1>2, <2>2 DEF Front
  <2> HIDE DEF c, k
  <2>5. QED BY <1>1, <1>2, <2>1, <2>3, <2>4, SameShows DEF Shows
<1>3. CASE pp.skipped = 0 /\ pp.stack = <<>>
  <2>1. HandleEndifDirective(pp) = pp
    BY <1>3 DEF HandleEndifDirective
  <2>2. QED BY <1>1, <1>3, <2>1, NothingShows
<1>4. CASE pp.skipped = 0 /\ pp.stack # <<>>
  <2> DEFINE k == [pp EXCEPT !.stack = Front(pp.stack)]
             p == TryLeaveInactiveRange(k)
  <2>1. HandleEndifDirective(pp) = p
    BY <1>4 DEF HandleEndifDirective
  <2>2. k \in Machine /\ SameCollector(pp, k)
    BY <1>4, PopFollows, UpdateCollector
  <2>3. k.stack = Front(pp.stack)
    BY DEF Machine
  <2> HIDE DEF k
  <2>4. Cut(k, p) /\ p.regionStart = 0 /\ p.stack = Front(pp.stack)
    BY <2>2, <2>3, LeaveCut, LeaveFrame DEF SameButCollector
  <2> HIDE DEF p
  <2>5. Cut(pp, p)
    BY <2>2, <2>4, SameCut
  <2>6. InActive(p)
    <3>1. CASE Len(pp.stack) = 1
      BY <1>4, <2>4, <3>1 DEF InActive, Front
    <3>2. CASE Len(pp.stack) > 1
      <4>1. /\ Len(p.stack) = Len(pp.stack) - 1
            /\ Len(p.stack) \in 1 .. Len(pp.stack) - 1
            /\ p.stack[Len(p.stack)] = pp.stack[Len(p.stack)]
        BY <1>4, <2>4, <3>2 DEF Front
      <4>2. p.stack[Len(p.stack)].active
        BY <4>1 DEF Follows
      <4>3. QED BY <4>2 DEF InActive, Last
    <3>3. pp.stack \in Seq(ConditionalInfo)
      BY DEF Machine
    <3>4. Len(pp.stack) \in Nat /\ Len(pp.stack) # 0
      BY <1>4, <3>3
    <3>5. Len(pp.stack) = 1 \/ Len(pp.stack) > 1
      BY <3>4, OneOrMore
    <3>6. QED BY <3>1, <3>2, <3>5
  <2>7. QED BY <2>1, <2>4, <2>5, <2>6 DEF Shows, Marks
<1>5. QED BY <1>2, <1>3, <1>4

LEMMA DispatchShows ==
    ASSUME Marked
    PROVE  /\ Cut(pp, DispatchPPDirectiveToHandler(pp))
           /\ Marks(DispatchPPDirectiveToHandler(pp), NextNest)
<1> DEFINE k == DispatchPPDirectiveToHandler(pp)
<1>1. CASE pp.directive = <<>> \/ pp.directive[1] \notin ConditionalDirectives
  <2>1. k = pp
    BY <1>1 DEF DispatchPPDirectiveToHandler, ConditionalDirectives, Directives
  <2>2. NextNest = nest
    BY <1>1 DEF NextNest, Reference, ConditionalDirectives, Directives
  <2>3. SameCollector(pp, pp)
    BY DEF SameCollector
  <2>4. QED BY <2>1, <2>2, <2>3, SameShows
<1>2. CASE pp.directive # <<>> /\ pp.directive[1] \in ConditionalDirectives
  <2>1. \/ HasDirective("if") \/ HasDirective("ifdef") \/ HasDirective("elif")
        \/ HasDirective("else") \/ HasDirective("endif")
    BY <1>2 DEF ConditionalDirectives, Directives, HasDirective, Marked
  <2>2. Shows(k)
    BY <2>1, IfShows, IfdefShows, ElifShows, ElseShows, EndifShows
       DEF DispatchPPDirectiveToHandler, HasDirective
  <2>3. QED BY <1>2, <2>2 DEF Shows, NextNest
<1>3. QED BY <1>1, <1>2

-----------------------------------------------------------------------------
(***************************************************************************)
(* The lines read so far, and the regions.                                 *)
(***************************************************************************)
RegionsUpTo(m, n, end) ==
    /\ Marks(m, n)
    /\ m.regionStart <= end + 1
    /\ \A i \in DOMAIN m.regions : m.regions[i][2] <= end

LinesRead ==
    /\ line \in Nat
    /\ RegionsUpTo(pp, nest, line)
    /\ \A l \in passed \cup dropped : /\ l \in Int /\ l <= line
                                      /\ InDirective(pp) => l < pp.directiveLine
    /\ InDirective(pp) => pp.directiveLine > 0 /\ pp.directiveLine <= line

RegionInv == IInv /\ LinesRead /\ RegionsMatchDropped

LEMMA SameRegions ==
    ASSUME NEW m, NEW k, k.stack = m.stack, k.regionStart = m.regionStart, k.regions = m.regions
    PROVE  /\ \A n, end : RegionsUpTo(m, n, end) <=> RegionsUpTo(k, n, end)
           /\ \A l : In(m, l) <=> In(k, l)
BY DEF RegionsUpTo, Marks, InActive, In

LEMMA HandledEffect ==
    ASSUME IInv, LinesRead, InDirective(pp), NEW h, h = DispatchPPDirectiveToHandler(pp)
    PROVE  /\ h \in Machine /\ RegionsUpTo(h, NextNest, line)
           /\ \A l \in passed \cup dropped : In(h, l) <=> In(pp, l)
<1>1. /\ pp \in Machine /\ nest \in Seq(Branch) /\ Follows(pp, nest) /\ line \in Nat
      /\ pp.directiveLine \in Int /\ pp.regionStart \in Int
      /\ pp.directiveLine > 0 /\ pp.directiveLine <= line
      /\ Marks(pp, nest) /\ pp.regionStart <= line + 1
      /\ \A i \in DOMAIN pp.regions : pp.regions[i][2] <= line
  BY DEF IInv, TypeInv, LinesRead, RegionsUpTo, Machine
<1>2. h \in Machine
  BY <1>1, DispatchKeeps
<1>3. Cut(pp, h) /\ Marks(h, NextNest)
  BY <1>1, DispatchShows DEF Marked
<1>4. h.regionStart <= line + 1
  BY <1>1, <1>3 DEF Cut
<1>5. \A i \in DOMAIN h.regions : h.regions[i][2] <= line
  BY <1>1, <1>3 DEF Cut
<1>6. \A l \in passed \cup dropped : In(h, l) <=> In(pp, l)
  BY <1>3 DEF Cut, LinesRead
<1>7. QED BY <1>2, <1>3, <1>4, <1>5, <1>6 DEF RegionsUpTo

\* A token that starts a line: what was pending is handled, and at most the line
\* of a directive is noted.
LEMMA TextFrame ==
    ASSUME NEW m \in Machine, NEW text
    PROVE  /\ AcceptOnText(m, text).stack = m.stack
           /\ AcceptOnText(m, text).regionStart = m.regionStart
           /\ AcceptOnText(m, text).regions = m.regions
           /\ text = "#" => /\ AcceptOnText(m, text).directiveLine = line'
                            /\ AcceptOnText(m, text).state = "ExpectDirective"
           /\ text # "#" => AcceptOnText(m, text) = m
<1>1. CASE text = "#"
  BY <1>1 DEF AcceptOnText, Machine
<1>2. CASE text # "#"
  BY <1>2 DEF AcceptOnText
<1>3. QED BY <1>1, <1>2

LEMMA EndEffect ==
    ASSUME IInv, LinesRead, InDirective(pp), NEW text, NEW e, e = EndDirective(pp, text)
    PROVE  /\ RegionsUpTo(e, NextNest, line)
           /\ \A l \in passed \cup dropped : In(e, l) <=> In(pp, l)
           /\ text = "#" => e.directiveLine = line' /\ e.state = "ExpectDirective"
           /\ text # "#" => ~InDirective(e)
<1> DEFINE h == DispatchPPDirectiveToHandler(pp)
           x == IF InActive(h) THEN "Default" ELSE "Inactive"
           k == [h EXCEPT !.state = x]
<1>1. /\ h \in Machine /\ RegionsUpTo(h, NextNest, line)
      /\ \A l \in passed \cup dropped : In(h, l) <=> In(pp, l)
  BY HandledEffect
<1>2. x \in States /\ x \notin {"ExpectDirective", "ExpectDirectiveTail"}
  BY DEF States
<1>3. e = AcceptOnText(k, text)
  BY DEF EndDirective
<1> HIDE DEF h, x
<1>4. k \in Machine /\ k.stack = h.stack /\ k.state = x /\ SameCollector(h, k)
  BY <1>1, <1>2, StateUpdate, UpdateCollector
<1> HIDE DEF k
<1>5. /\ e.stack = h.stack /\ e.regionStart = h.regionStart /\ e.regions = h.regions
      /\ text = "#" => e.directiveLine = line' /\ e.state = "ExpectDirective"
      /\ text # "#" => e = k
  BY <1>3, <1>4, TextFrame DEF SameCollector
<1>6. text # "#" => ~InDirective(e)
  BY <1>2, <1>4, <1>5 DEF InDirective
<1>7. QED BY <1>1, <1>5, <1>6, SameRegions

LEMMA TokenEffect ==
    ASSUME IInv, LinesRead, NEW text \in {"#", "text"}, FirstToken(text)
    PROVE  /\ RegionsUpTo(pp', nest', line)
           /\ \A l \in passed \cup dropped : In(pp', l) <=> In(pp, l)
           /\ InDirective(pp') => text = "#" /\ pp'.directiveLine = line'
           /\ text = "#" => pp'.state = "ExpectDirective"
<1>1. CASE InDirective(pp)
  <2>1. pp' = EndDirective(pp, text) /\ nest' = NextNest
    BY <1>1 DEF FirstToken, Account, NextNest
  <2>2. QED BY <1>1, <2>1, EndEffect
<1>2. CASE ~InDirective(pp)
  <2>1. pp' = AcceptOnText(pp, text) /\ nest' = nest /\ pp \in Machine
    BY <1>2 DEF FirstToken, Account, IInv, TypeInv
  <2>2. /\ pp'.stack = pp.stack /\ pp'.regionStart = pp.regionStart /\ pp'.regions = pp.regions
        /\ text = "#" => pp'.directiveLine = line' /\ pp'.state = "ExpectDirective"
        /\ text # "#" => pp' = pp
    BY <2>1, TextFrame
  <2>3. InDirective(pp') => text = "#" /\ pp'.directiveLine = line'
    BY <1>2, <2>2
  <2>4. RegionsUpTo(pp, nest, line)
    BY DEF LinesRead
  <2>5. QED BY <2>1, <2>2, <2>3, <2>4, SameRegions
<1>3. QED BY <1>1, <1>2

LEMMA NextLine ==
    ASSUME line \in Nat, line' = line + 1, pp' \in Machine, RegionsUpTo(pp', nest', line)
    PROVE  line' \in Nat /\ RegionsUpTo(pp', nest', line')
<1>1. pp'.regionStart \in Int /\ pp'.regions \in Seq(Int \X Int)
  BY DEF Machine
<1>2. \A i \in DOMAIN pp'.regions : pp'.regions[i][2] \in Int
  BY <1>1
<1>3. QED BY <1>1, <1>2 DEF RegionsUpTo

LEMMA FirstTokenRegions ==
    ASSUME RegionInv, NEW text \in {"#", "text"}, FirstToken(text)
    PROVE  RegionInv'
<1>1. IInv /\ LinesRead /\ RegionsMatchDropped /\ IInv' /\ line \in Nat /\ line' = line + 1
  BY FirstTokenStep DEF RegionInv, LinesRead, FirstToken
<1>2. /\ RegionsUpTo(pp', nest', line)
      /\ \A l \in passed \cup dropped : In(pp', l) <=> In(pp, l)
      /\ InDirective(pp') => text = "#" /\ pp'.directiveLine = line'
      /\ text = "#" => pp'.state = "ExpectDirective"
  BY <1>1, TokenEffect
<1>3. /\ passed' = IF pp'.state = "Default" THEN passed \cup {line'} ELSE passed
      /\ dropped' = IF pp'.state = "Inactive" THEN dropped \cup {line'} ELSE dropped
      /\ disputed' = IF text = "text" /\ IsLate(nest') THEN disputed \cup {line'} ELSE disputed
  BY DEF FirstToken
<1>4. \A l \in passed \cup dropped : l \in Int /\ l <= line /\ l # line'
  BY <1>1 DEF LinesRead
<1>5. InDirective(pp') => pp'.state # "Default" /\ pp'.state # "Inactive"
  BY DEF InDirective
<1>6. pp' \in Machine /\ nest' \in Seq(Branch) /\ pp'.regionStart \in Int
      /\ (pp'.state = "Default" => InActive(pp')) /\ (pp'.state = "Inactive" => ~InActive(pp'))
      /\ Len(pp'.stack) \in Nat /\ Len(pp'.stack) <= Len(nest')
  <2>1. pp' \in Machine /\ nest' \in Seq(Branch)
    BY <1>1 DEF IInv, TypeInv
  <2>2. pp'.regionStart \in Int /\ Len(pp'.stack) \in Nat /\ pp'.skipped \in Nat
    BY <2>1 DEF Machine
  <2>3. (pp'.state = "Default" => InActive(pp')) /\ (pp'.state = "Inactive" => ~InActive(pp'))
    BY <1>1 DEF IInv, StateFollowsStack
  <2>4. Len(pp'.stack) + pp'.skipped = Len(nest')
    BY <1>1 DEF IInv, Follows
  <2>5. QED
    BY <2>1, <2>2, <2>3, <2>4
<1>7. LinesRead'
  <2>1. line' \in Nat /\ RegionsUpTo(pp', nest', line')
    BY <1>1, <1>2, <1>6, NextLine
  <2>2. InDirective(pp') => pp'.directiveLine > 0 /\ pp'.directiveLine <= line'
    BY <1>1, <1>2
  <2>3. ASSUME NEW l \in passed' \cup dropped'
        PROVE  l \in Int /\ l <= line' /\ (InDirective(pp') => l < pp'.directiveLine)
    <3>1. CASE l \in passed \cup dropped
      BY <1>1, <1>2, <1>4, <3>1
    <3>2. CASE l = line' /\ ~InDirective(pp')
      BY <1>1, <3>2
    <3>3. QED BY <1>3, <1>5, <2>3, <3>1, <3>2
  <2>4. QED BY <2>1, <2>2, <2>3 DEF LinesRead
<1>8. pp'.state = "Default" => ~In(pp', line')
  <2>1. ASSUME pp'.state = "Default"
        PROVE  pp'.regionStart = 0
    BY <1>2, <1>6, <2>1 DEF RegionsUpTo, Marks
  <2>2. \A i \in DOMAIN pp'.regions : ~(line' < pp'.regions[i][2])
    <3>1. \A i \in DOMAIN pp'.regions : pp'.regions[i][2] \in Int
      BY <1>6 DEF Machine
    <3>2. QED BY <1>1, <1>2, <3>1 DEF RegionsUpTo
  <2>3. QED BY <2>1, <2>2 DEF In
<1>9. pp'.state = "Inactive" /\ ~IsLate(nest') => In(pp', line')
  <2>1. ASSUME pp'.state = "Inactive", ~IsLate(nest')
        PROVE  pp'.regionStart # 0
    <3>1. \A i \in 1 .. Len(pp'.stack) : ~nest'[i].late
      BY <1>6, <2>1 DEF IsLate
    <3>2. QED BY <1>2, <1>6, <2>1, <3>1 DEF RegionsUpTo, Marks
  <2>2. pp'.regionStart <= line'
    BY <1>1, <1>2 DEF RegionsUpTo
  <2>3. QED BY <2>1, <2>2 DEF In
<1>10. ASSUME NEW l \in (passed' \cup dropped') \ disputed'
       PROVE  In(pp', l) <=> l \in dropped'
  <2>1. CASE l \in passed \cup dropped
    <3>1. l # line' /\ l \notin disputed /\ (In(pp', l) <=> In(pp, l))
      BY <1>2, <1>3, <1>4, <2>1
    <3>2. In(pp, l) <=> l \in dropped
      BY <1>1, <2>1, <3>1 DEF RegionsMatchDropped, InRegion, In
    <3>3. l \in dropped' <=> l \in dropped
      BY <1>3, <3>1
    <3>4. QED BY <3>1, <3>2, <3>3
  <2>2. CASE l = line' /\ l \notin passed \cup dropped
    <3>1. pp'.state = "Default" \/ pp'.state = "Inactive"
      BY <1>3, <2>2
    <3>2. text = "text"
      BY <1>2, <3>1
    <3>3. ~IsLate(nest')
      BY <1>3, <2>2, <3>2
    <3>4. CASE pp'.state = "Default"
      BY <1>3, <1>8, <2>2, <3>4
    <3>5. CASE pp'.state = "Inactive"
      BY <1>3, <1>9, <2>2, <3>3, <3>5
    <3>6. QED BY <3>1, <3>4, <3>5
  <2>3. QED BY <1>3, <2>1, <2>2
<1>11. RegionsMatchDropped'
  BY <1>10 DEF RegionsMatchDropped, InRegion, In
<1>12. QED BY <1>1, <1>7, <1>11 DEF RegionInv

\* A step that reads no line and leaves the regions alone.
LEMMA QuietRegions ==
    ASSUME RegionInv, IInv', line' \in Nat, line <= line', line' <= line + 1,
           RegionsUpTo(pp', nest', line'), UNCHANGED <<passed, dropped, disputed>>,
           \A l \in passed \cup dropped : In(pp', l) <=> In(pp, l),
           InDirective(pp') => InDirective(pp) /\ pp'.directiveLine = pp.directiveLine
    PROVE  RegionInv'
<1>1. LinesRead /\ RegionsMatchDropped /\ line \in Nat /\ pp.directiveLine \in Int
  BY DEF RegionInv, LinesRead, IInv, TypeInv, Machine
<1>2. LinesRead'
  BY <1>1 DEF LinesRead
<1>3. RegionsMatchDropped'
  BY <1>1 DEF RegionsMatchDropped, InRegion, In
<1>4. QED BY <1>2, <1>3 DEF RegionInv

LEMMA EndOfFileRegions ==
    ASSUME RegionInv, EndOfFile
    PROVE  RegionInv'
<1>1. IInv /\ LinesRead /\ IInv' /\ line \in Nat /\ line' = line + 1 /\ pp \in Machine
      /\ UNCHANGED <<passed, dropped, disputed>>
  BY EndOfFileStep DEF RegionInv, LinesRead, EndOfFile, IInv, TypeInv
<1> DEFINE k == IF InDirective(pp) THEN EndDirective(pp, "eof") ELSE pp
           x == "Halt"
<1>2. pp' = [k EXCEPT !.state = x]
  BY DEF EndOfFile, Halt
<1>3. /\ k \in Machine /\ RegionsUpTo(k, nest', line)
      /\ \A l \in passed \cup dropped : In(k, l) <=> In(pp, l)
  <2>1. CASE InDirective(pp)
    <3>1. nest' = NextNest
      BY <2>1 DEF EndOfFile, Account, NextNest
    <3>2. k \in Machine
      BY <1>1, <2>1, EndDirectiveKeeps DEF IInv, TypeInv
    <3>3. QED BY <1>1, <2>1, <3>1, <3>2, EndEffect
  <2>2. CASE ~InDirective(pp)
    BY <1>1, <2>2 DEF EndOfFile, Account, LinesRead
  <2>3. QED BY <2>1, <2>2
<1>4. x \in States /\ x = "Halt"
  BY DEF States
<1> HIDE DEF k, x
<1>5. /\ pp' \in Machine /\ pp'.stack = k.stack /\ pp'.regionStart = k.regionStart
      /\ pp'.regions = k.regions /\ pp'.state = x
  BY <1>2, <1>3, <1>4, StateUpdate, UpdateCollector DEF SameCollector
<1>6. /\ RegionsUpTo(pp', nest', line)
      /\ \A l \in passed \cup dropped : In(pp', l) <=> In(pp, l)
  BY <1>3, <1>5, SameRegions
<1>7. line' \in Nat /\ RegionsUpTo(pp', nest', line')
  BY <1>1, <1>5, <1>6, NextLine
<1>8. ~InDirective(pp')
  BY <1>4, <1>5 DEF InDirective
<1>9. line <= line' /\ line' <= line + 1
  BY <1>1
<1>10. QED BY <1>1, <1>6, <1>7, <1>8, <1>9, QuietRegions

\* Reading the name or the tail of a directive.
LEMMA DirectiveRegions ==
    ASSUME RegionInv, IInv', NEW d, NEW x, pp' = [pp EXCEPT !.directive = d, !.state = x],
           InDirective(pp), UNCHANGED <<line, passed, dropped, disputed, nest>>
    PROVE  RegionInv'
<1>1. LinesRead /\ pp \in Machine /\ line \in Nat
  BY DEF RegionInv, LinesRead, IInv, TypeInv
<1>2. /\ pp'.stack = pp.stack /\ pp'.regionStart = pp.regionStart /\ pp'.regions = pp.regions
      /\ pp'.directiveLine = pp.directiveLine
  BY <1>1 DEF Machine
<1>3. RegionsUpTo(pp', nest', line') /\ \A l : In(pp', l) <=> In(pp, l)
  BY <1>1, <1>2, SameRegions DEF LinesRead
<1>4. QED BY <1>1, <1>2, <1>3, QuietRegions

LEMMA RegionsInitially == Init => RegionInv
BY Initially DEF Init, RegionInv, LinesRead, RegionsUpTo, Marks, InActive, RegionsMatchDropped,
   InDirective

LEMMA RegionsInductive == RegionInv /\ [Next]_vars => RegionInv'
<1> SUFFICES ASSUME RegionInv, [Next]_vars
             PROVE  RegionInv'
  OBVIOUS
<1>1. IInv /\ IInv'
  BY Inductive DEF RegionInv
<1>2. CASE \E text \in {"#", "text"} : FirstToken(text)
  BY <1>2, FirstTokenRegions
<1>3. ASSUME NEW text \in Directives, DirectiveName(text)
      PROVE  RegionInv'
  <2>1. InDirective(pp) /\ UNCHANGED <<line, passed, dropped, disputed, nest>>
    BY <1>3 DEF DirectiveName, InDirective
  <2>2. \E d, x : pp' = [pp EXCEPT !.directive = d, !.state = x]
    BY <1>3 DEF DirectiveName, AcceptOnExpectDirective
  <2>3. QED BY <1>1, <2>1, <2>2, DirectiveRegions
<1>4. ASSUME NEW text \in {"true", "false"}, DirectiveTail(text)
      PROVE  RegionInv'
  <2>1. InDirective(pp) /\ UNCHANGED <<line, passed, dropped, disputed, nest>>
    BY <1>4 DEF DirectiveTail, InDirective
  <2> DEFINE d == Append(pp.directive, text)
  <2>2. pp' = [pp EXCEPT !.directive = d] /\ pp \in Machine
    BY <1>1, <1>4 DEF DirectiveTail, AcceptOnExpectDirectiveTail, IInv, TypeInv
  <2> HIDE DEF d
  <2>3. pp' = [pp EXCEPT !.directive = d, !.state = pp.state]
    BY <2>2 DEF Machine
  <2>4. QED BY <1>1, <2>1, <2>3, DirectiveRegions
<1>5. CASE EndOfFile
  BY <1>5, EndOfFileRegions
<1>6. CASE UNCHANGED vars
  <2>1. UNCHANGED <<pp, line, passed, dropped, disputed, nest>>
    BY <1>6 DEF vars
  <2>2. LinesRead /\ line \in Nat
    BY DEF RegionInv, LinesRead
  <2>3. RegionsUpTo(pp', nest', line')
    BY <2>1, <2>2 DEF LinesRead
  <2>4. QED BY <1>1, <2>1, <2>2, <2>3, QuietRegions
<1>7. QED BY <1>2, <1>3, <1>4, <1>5, <1>6 DEF Next, Halted

-----------------------------------------------------------------------------
\* The lines that are shown as inactive are those whose text was dropped, for
\* files of any length: no line is left out where regions meet or nest, and none
\* is greyed that was compiled, outside conditionals with a late #elif.
THEOREM InactiveRegionsExact == Spec => []RegionsMatchDropped
<1>1. Spec => []RegionInv
  BY RegionsInitially, RegionsInductive, PTL DEF Spec
<1>2. RegionInv => RegionsMatchDropped
  BY DEF RegionInv
<1>3. QED BY <1>1, <1>2, PTL
=============================================================================
