-------------------------- MODULE CompilationProofs --------------------------
(***************************************************************************)
(* Safety of Invocation for any texts, clients, stages and number of       *)
(* compilations.                                                           *)
(*                                                                         *)
(* The first invariant, MemoryOwned, says into whose memory everything     *)
(* points: what a preamble has into its own, what a result has into its    *)
(* own and into that of the preamble it keeps.  NothingDangles follows.    *)
(*                                                                         *)
(* The second one, TextMeant, says what everything means: the tokens,      *)
(* macros, trees and levels that are there are those that the texts, read  *)
(* as one up to the place that was reached, stand for.  For a preamble     *)
(* that must hold whatever main file comes after it, for it is compiled    *)
(* before there is one.  CompiledAsOneText follows.                        *)
(*                                                                         *)
(* Both passes over a text are folds, and what they keep is shown by       *)
(* induction over the items: a set of numbers that is not empty has a      *)
(* least one (LeastNumber, Climb).                                         *)
(***************************************************************************)
EXTENDS Invocation, SequenceTheorems, FiniteSetTheorems, WellFoundedInduction, TLAPS

-----------------------------------------------------------------------------
(* Numbers, and functions defined by recursion.                            *)

\* A set of numbers has a least one.
LEMMA LeastNumber ==
  ASSUME NEW S \in SUBSET Nat, S # {}
  PROVE  \E m \in S : \A k \in S : m <= k
  <1>1. PICK m \in S : \A k \in S : ~(<<k, m>> \in OpToRel(<, Nat))
    BY WFMin, NatLessThanWellFounded
  <1>2. \A k, l \in Nat : k < l => <<k, l>> \in OpToRel(<, Nat)
    BY DEF OpToRel
  <1>3. \A k \in S : ~(k < m)
    BY <1>1, <1>2
  <1>4. \A k \in S : k \in Nat /\ m \in Nat
    OBVIOUS
  <1> QED BY <1>3, <1>4

\* Induction up to a number, over the set of the numbers something holds of.
LEMMA Climb ==
  ASSUME NEW n \in Nat, NEW S, 0 \in S, \A k \in 1 .. n : k - 1 \in S => k \in S
  PROVE  \A k \in 0 .. n : k \in S
  <1> DEFINE Bad == {k \in 0 .. n : k \notin S}
  <1>1. ASSUME Bad # {} PROVE FALSE
    <2>1. Bad \in SUBSET Nat
      OBVIOUS
    <2>2. PICK m \in Bad : \A k \in Bad : m <= k
      BY <1>1, <2>1, LeastNumber
    <2>3. m \in 1 .. n /\ m - 1 \in 0 .. n /\ ~(m <= m - 1)
      BY <2>2
    <2>4. m - 1 \in S
      BY <2>2, <2>3
    <2> QED BY <2>2, <2>3, <2>4
  <1> QED BY <1>1

LEMMA MinIsLeast ==
  ASSUME NEW S \in SUBSET Nat, S # {}
  PROVE  Min(S) \in S /\ \A k \in S : Min(S) <= k
  BY LeastNumber DEF Min

LEMMA MaxIsGreatest ==
  ASSUME NEW n \in Nat, NEW S \in SUBSET (1 .. n), S # {}
  PROVE  Max(S) \in S /\ \A k \in S : k <= Max(S)
  <1> DEFINE R == {k \in 1 .. n : \A l \in S : l <= k}
  <1>0. PICK one \in S : one \in 1 .. n
    OBVIOUS
  <1>1. R \in SUBSET Nat /\ n \in R
    <2>1. \A l \in S : l \in 1 .. n
      OBVIOUS
    <2>2. n \in 1 .. n
      BY <1>0
    <2> QED BY <2>1, <2>2
  <1>2. PICK m \in R : \A k \in R : m <= k
    BY <1>1, LeastNumber
  <1>3. m \in S
    <2>1. ASSUME m \notin S PROVE FALSE
      <3>1. \A l \in S : l \in 1 .. n /\ l <= m /\ l # m
        BY <1>2, <2>1
      <3>2. m - 1 \in 1 .. n
        BY <1>0, <1>2, <3>1
      <3>3. m - 1 \in R
        BY <3>1, <3>2, <1>2
      <3> QED BY <3>3, <1>2
    <2> QED BY <2>1
  <1>4. \A k \in S : m >= k
    BY <1>2
  <1>5. Max(S) \in S /\ \A k \in S : Max(S) >= k
    BY <1>3, <1>4 DEF Max
  <1>6. \A k \in S : k \in Int
    OBVIOUS
  <1> QED BY <1>5, <1>6

-----------------------------------------------------------------------------
(* The passes over a text.                                                  *)

\* The states a pass goes through.
PreprocessStates(s, unit, text) ==
    CHOOSE f : f = [k \in 0 .. Len(text) |->
                       IF k = 0 THEN s ELSE PreprocessItem(f[k - 1], unit, text[k])]
ParseStates(s, unit) ==
    CHOOSE f : f = [k \in 0 .. Len(s.artifacts[unit].tokens) |->
                       IF k = 0 THEN s
                       ELSE ParseToken(f[k - 1], unit, s.artifacts[unit].tokens[k])]

\* A pass goes from item to item.
LEMMA PreprocessPass ==
  ASSUME NEW s, NEW unit, NEW text, Len(text) \in Nat
  PROVE  /\ PreprocessStates(s, unit, text)[0] = s
         /\ \A k \in 1 .. Len(text) :
               PreprocessStates(s, unit, text)[k]
                   = PreprocessItem(PreprocessStates(s, unit, text)[k - 1], unit, text[k])
         /\ DoPreprocess(s, unit, text) = PreprocessStates(s, unit, text)[Len(text)]
  <1> DEFINE Step(f, k) == IF k = 0 THEN s ELSE PreprocessItem(f[k - 1], unit, text[k])
             Good(m) == \E f : f = [k \in 0 .. m |-> Step(f, k)]
             Bad == {m \in Nat : ~Good(m)}
             pass == CHOOSE f : f = [k \in 0 .. Len(text) |-> Step(f, k)]
  <1>1. ASSUME Bad # {} PROVE FALSE
    <2>1. PICK m \in Bad : \A j \in Bad : m <= j
      BY <1>1, LeastNumber
    <2>2. m # 0
      <3> DEFINE g == [k \in 0 .. 0 |-> s]
      <3>1. g = [k \in 0 .. 0 |-> Step(g, k)]
        OBVIOUS
      <3>2. Good(0)
        BY <3>1
      <3> QED BY <3>2
    <2>3. Good(m - 1)
      <3>1. m - 1 \in Nat /\ ~(m <= m - 1)
        BY <2>2
      <3> QED BY <3>1, <2>1
    <2>4. PICK f : f = [k \in 0 .. m - 1 |-> Step(f, k)]
      BY <2>3
    <2> DEFINE g == [k \in 0 .. m |-> IF k = m THEN Step(f, m) ELSE f[k]]
    <2>5. ASSUME NEW k \in 0 .. m PROVE g[k] = Step(g, k)
      <3>1. k = 0 \/ g[k - 1] = f[k - 1]
        OBVIOUS
      <3>2. Step(g, k) = Step(f, k)
        BY <3>1
      <3>3. CASE k = m
        BY <3>2, <3>3
      <3>4. CASE k # m
        BY <3>2, <3>4, <2>4
      <3> QED BY <3>3, <3>4
    <2>6. g = [k \in 0 .. m |-> Step(g, k)]
      BY <2>5
    <2>7. Good(m)
      BY <2>6
    <2> QED BY <2>7
  <1>2. Good(Len(text))
    <2> HIDE DEF Good
    <2> QED BY <1>1
  <1>3. pass = [k \in 0 .. Len(text) |-> Step(pass, k)]
    BY <1>2
  <1>4. DoPreprocess(s, unit, text) = pass[Len(text)]
    BY DEF DoPreprocess
  <1>6. pass = PreprocessStates(s, unit, text)
    BY DEF PreprocessStates
  <1> HIDE DEF pass
  <1>5. pass[0] = s /\ \A k \in 1 .. Len(text) : pass[k] = PreprocessItem(pass[k - 1], unit, text[k])
    BY <1>3
  <1> QED BY <1>4, <1>5, <1>6

\* The other pass goes from token to token.
LEMMA ParsePass ==
  ASSUME NEW s, NEW unit, Len(s.artifacts[unit].tokens) \in Nat
  PROVE  /\ ParseStates(s, unit)[0] = s
         /\ \A k \in 1 .. Len(s.artifacts[unit].tokens) :
               ParseStates(s, unit)[k]
                   = ParseToken(ParseStates(s, unit)[k - 1], unit, s.artifacts[unit].tokens[k])
         /\ DoParse(s, unit) = ParseStates(s, unit)[Len(s.artifacts[unit].tokens)]
  <1> DEFINE tokens == s.artifacts[unit].tokens
             Step(f, k) == IF k = 0 THEN s ELSE ParseToken(f[k - 1], unit, tokens[k])
             Good(m) == \E f : f = [k \in 0 .. m |-> Step(f, k)]
             Bad == {m \in Nat : ~Good(m)}
             pass == CHOOSE f : f = [k \in 0 .. Len(tokens) |-> Step(f, k)]
  <1>1. ASSUME Bad # {} PROVE FALSE
    <2>1. PICK m \in Bad : \A j \in Bad : m <= j
      BY <1>1, LeastNumber
    <2>2. m # 0
      <3> DEFINE g == [k \in 0 .. 0 |-> s]
      <3>1. g = [k \in 0 .. 0 |-> Step(g, k)]
        OBVIOUS
      <3>2. Good(0)
        BY <3>1
      <3> QED BY <3>2
    <2>3. Good(m - 1)
      <3>1. m - 1 \in Nat /\ ~(m <= m - 1)
        BY <2>2
      <3> QED BY <3>1, <2>1
    <2>4. PICK f : f = [k \in 0 .. m - 1 |-> Step(f, k)]
      BY <2>3
    <2> DEFINE g == [k \in 0 .. m |-> IF k = m THEN Step(f, m) ELSE f[k]]
    <2>5. ASSUME NEW k \in 0 .. m PROVE g[k] = Step(g, k)
      <3>1. k = 0 \/ g[k - 1] = f[k - 1]
        OBVIOUS
      <3>2. Step(g, k) = Step(f, k)
        BY <3>1
      <3>3. CASE k = m
        BY <3>2, <3>3
      <3>4. CASE k # m
        <4>1. k \in 0 .. m - 1 /\ g[k] = f[k]
          BY <3>4
        <4>2. f[k] = Step(f, k)
          BY <2>4, <4>1
        <4> QED BY <3>2, <4>1, <4>2
      <3> QED BY <3>3, <3>4
    <2>6. g = [k \in 0 .. m |-> Step(g, k)]
      BY <2>5
    <2>7. Good(m)
      BY <2>6
    <2> QED BY <2>7
  <1>2. Good(Len(tokens))
    <2> HIDE DEF Good
    <2> QED BY <1>1
  <1>3. pass = [k \in 0 .. Len(tokens) |-> Step(pass, k)]
    BY <1>2
  <1>4. DoParse(s, unit) = pass[Len(tokens)]
    BY DEF DoParse
  <1>6. pass = ParseStates(s, unit)
    BY DEF ParseStates
  <1> HIDE DEF pass
  <1>5. pass[0] = s /\ \A k \in 1 .. Len(tokens) : pass[k] = ParseToken(pass[k - 1], unit, tokens[k])
    BY <1>3
  <1> QED BY <1>4, <1>5, <1>6

-----------------------------------------------------------------------------
(* What the states of a compilation look like.                              *)

Config == [stage : Stages \cup {"Unknown"}, noStdlib : BOOLEAN]
\* The names of texts, and those of the feature macros and their value.
Name == STRING \cup {"GL_core_profile", "1"} \cup {StageMacro(stage) : stage \in Stages \cup {"Unknown"}}

IsTable(f, K, V) ==
    f = [x \in DOMAIN f |-> f[x]] /\ DOMAIN f \subseteq K /\ \A x \in DOMAIN f : f[x] \in V

\* Pointers into the memories own.
Atoms(own) == own \X Name
Decls(own) == own \X (1 .. 3) \X Nat
Token(own) == [op : {"declare", "use"}, atom : Atoms(own)]
Artifact(own) ==
    [buffer : own,
     tokens : Seq(Token(own)),
     tree   : Seq(Decls(own) \cup {NoDecl})]

\* An atom table knows each word by an atom of that word.
IsAtomTable(atoms, own) ==
    IsTable(atoms, Name, Atoms(own)) /\ \A w \in DOMAIN atoms : Word(atoms[w]) = w

\* A state of a compilation that has pointers into the memories own.
StateOwned(s, own) ==
    /\ s = [memory |-> s.memory, preamble |-> s.preamble, config |-> s.config,
            atoms |-> s.atoms, macros |-> s.macros, symbols |-> s.symbols,
            levels |-> s.levels, artifacts |-> s.artifacts]
    /\ s.memory \in own
    /\ s.config \in Config
    /\ IsAtomTable(s.atoms, own)
    /\ IsTable(s.macros, Atoms(own), Atoms(own))
    /\ s.artifacts \in [1 .. 3 -> Artifact(own)]

\* So have the levels of its symbol table.
LevelsOwned(s, own) ==
    /\ s.symbols \in Seq(Nat) /\ s.symbols # <<>>
    /\ s.levels = [k \in DOMAIN s.levels |-> s.levels[k]]
    /\ \A k \in DOMAIN s.symbols : /\ s.symbols[k] \in DOMAIN s.levels
                                   /\ IsTable(s.levels[s.symbols[k]], Name, Decls(own))

\* What the preprocessor leaves alone.
ParseStateSame(s, t) ==
    /\ t.memory = s.memory /\ t.preamble = s.preamble /\ t.config = s.config
    /\ t.symbols = s.symbols /\ t.levels = s.levels
    /\ \A u \in 1 .. 3 : t.artifacts[u].tree = s.artifacts[u].tree

\* What the parser leaves alone.
PreprocessStateSame(s, t) ==
    /\ t.memory = s.memory /\ t.preamble = s.preamble /\ t.config = s.config
    /\ t.symbols = s.symbols /\ t.atoms = s.atoms /\ t.macros = s.macros
    /\ DOMAIN t.levels = DOMAIN s.levels
    /\ \A k \in DOMAIN s.levels : k # Last(s.symbols) => t.levels[k] = s.levels[k]
    /\ \A u \in 1 .. 3 : t.artifacts[u].tokens = s.artifacts[u].tokens

LEMMA AddedToTable ==
  ASSUME NEW f, NEW K, NEW V, IsTable(f, K, V), NEW x \in K, NEW e \in V
  PROVE  /\ IsTable(Added(f, x, e), K, V)
         /\ DOMAIN Added(f, x, e) = DOMAIN f \cup {x}
         /\ \A y \in DOMAIN f : Added(f, x, e)[y] = f[y]
         /\ x \notin DOMAIN f => Added(f, x, e)[x] = e
  BY DEF IsTable, Added

\* Interning makes an atom if there is none, and changes nothing else.
LEMMA InternKeeps ==
  ASSUME NEW own, NEW s, StateOwned(s, own), NEW word \in Name
  PROVE  LET t == Intern(s, word) IN
         /\ StateOwned(t, own) /\ ParseStateSame(s, t)
         /\ t.macros = s.macros /\ t.artifacts = s.artifacts
         /\ DOMAIN t.atoms = DOMAIN s.atoms \cup {word}
         /\ \A w \in DOMAIN s.atoms : t.atoms[w] = s.atoms[w]
         /\ word \notin DOMAIN s.atoms => t.atoms[word] = <<s.memory, word>>
         /\ GetAtom(s, word) = t.atoms[word] /\ t.atoms[word] \in Atoms(own)
  <1> DEFINE atom == <<s.memory, word>>
             t == Intern(s, word)
  <1>1. IsTable(s.atoms, Name, Atoms(own)) /\ \A w \in DOMAIN s.atoms : Word(s.atoms[w]) = w
    BY DEF StateOwned, IsAtomTable
  <1>2. atom \in Atoms(own) /\ Word(atom) = word
    BY DEF StateOwned, Atoms, Word
  <1>3. /\ t = [memory |-> s.memory, preamble |-> s.preamble, config |-> s.config,
                 atoms |-> Added(s.atoms, word, atom), macros |-> s.macros, symbols |-> s.symbols,
                 levels |-> s.levels, artifacts |-> s.artifacts]
        /\ GetAtom(s, word) = t.atoms[word]
    BY DEF Intern, GetAtom, StateOwned
  <1> HIDE DEF t, atom
  <1>4. /\ IsTable(t.atoms, Name, Atoms(own))
        /\ DOMAIN t.atoms = DOMAIN s.atoms \cup {word}
        /\ \A w \in DOMAIN s.atoms : t.atoms[w] = s.atoms[w]
        /\ word \notin DOMAIN s.atoms => t.atoms[word] = atom
    <2>1. t.atoms = Added(s.atoms, word, atom)
      BY <1>3
    <2> HIDE <1>3
    <2> QED BY <1>1, <1>2, <2>1, AddedToTable
  <1>5. IsAtomTable(t.atoms, own)
    BY <1>1, <1>2, <1>4 DEF IsAtomTable
  <1>6. StateOwned(t, own) /\ ParseStateSame(s, t)
    BY <1>3, <1>5 DEF StateOwned, ParseStateSame
  <1>7. t.atoms[word] \in Atoms(own)
    BY <1>4 DEF IsTable
  <1> QED BY <1>3, <1>4, <1>6, <1>7 DEF t, atom

\* A definition interns its words, and counts if it is the first one.
DefineEffect(own, s, word, body, t) ==
    /\ StateOwned(t, own) /\ ParseStateSame(s, t) /\ t.artifacts = s.artifacts
    /\ DOMAIN t.atoms = DOMAIN s.atoms \cup {word, body}
    /\ \A w \in DOMAIN s.atoms : t.atoms[w] = s.atoms[w]
    /\ \A w \in DOMAIN t.atoms \ DOMAIN s.atoms : t.atoms[w] = <<s.memory, w>>
    /\ t.macros = Added(s.macros, t.atoms[word], t.atoms[body])

LEMMA DefineKeeps ==
  ASSUME NEW own, NEW s, StateOwned(s, own), NEW word \in Name, NEW body \in Name
  PROVE  DefineEffect(own, s, word, body, DefineMacro(s, word, body))
  <1> DEFINE t1 == Intern(s, word)
             t2 == Intern(t1, body)
             t  == DefineMacro(s, word, body)
  <1>1. /\ StateOwned(t1, own) /\ ParseStateSame(s, t1)
        /\ t1.macros = s.macros /\ t1.artifacts = s.artifacts
        /\ DOMAIN t1.atoms = DOMAIN s.atoms \cup {word}
        /\ \A w \in DOMAIN s.atoms : t1.atoms[w] = s.atoms[w]
        /\ word \notin DOMAIN s.atoms => t1.atoms[word] = <<s.memory, word>>
    BY InternKeeps
  <1> HIDE DEF t1
  <1>2. /\ StateOwned(t2, own) /\ ParseStateSame(t1, t2)
        /\ t2.macros = t1.macros /\ t2.artifacts = t1.artifacts
        /\ DOMAIN t2.atoms = DOMAIN t1.atoms \cup {body}
        /\ \A w \in DOMAIN t1.atoms : t2.atoms[w] = t1.atoms[w]
        /\ body \notin DOMAIN t1.atoms => t2.atoms[body] = <<t1.memory, body>>
    BY <1>1, InternKeeps
  <1>3. t = [t2 EXCEPT !.macros = Added(@, GetAtom(t2, word), GetAtom(t2, body))]
    BY DEF DefineMacro, t1
  <1> HIDE DEF t2
  <1>4. /\ GetAtom(t2, word) = t2.atoms[word] /\ t2.atoms[word] \in Atoms(own)
        /\ GetAtom(t2, body) = t2.atoms[body] /\ t2.atoms[body] \in Atoms(own)
    <2>1. \A w \in {word, body} : Intern(t2, w).atoms[w] = t2.atoms[w]
      BY <1>1, <1>2, InternKeeps
    <2>2. \A w \in {word, body} : Intern(t2, w).atoms[w] \in Atoms(own) /\ GetAtom(t2, w) = Intern(t2, w).atoms[w]
      BY <1>2, InternKeeps
    <2> QED BY <2>1, <2>2
  <1>5. t = [memory |-> t2.memory, preamble |-> t2.preamble, config |-> t2.config, atoms |-> t2.atoms,
             macros |-> Added(t2.macros, t2.atoms[word], t2.atoms[body]), symbols |-> t2.symbols,
             levels |-> t2.levels, artifacts |-> t2.artifacts]
    BY <1>2, <1>3, <1>4 DEF StateOwned
  <1> HIDE DEF t
  <1>6. IsTable(t.macros, Atoms(own), Atoms(own))
    BY <1>2, <1>4, <1>5, AddedToTable DEF StateOwned
  <1>7. StateOwned(t, own) /\ ParseStateSame(s, t)
    BY <1>1, <1>2, <1>5, <1>6 DEF StateOwned, ParseStateSame
  <1>8. t1.memory = s.memory
    BY <1>1 DEF ParseStateSame
  <1> QED BY <1>1, <1>2, <1>5, <1>7, <1>8 DEF t, DefineEffect

LEMMA AppendToken ==
  ASSUME NEW own, NEW a \in Artifact(own), NEW token \in Token(own)
  PROVE  LET b == [a EXCEPT !.tokens = Append(@, token)] IN
         /\ b \in Artifact(own) /\ b.tokens = Append(a.tokens, token)
         /\ b.tree = a.tree /\ b.buffer = a.buffer
  <1>1. a.tokens \in Seq(Token(own))
    BY DEF Artifact
  <1>2. Append(a.tokens, token) \in Seq(Token(own))
    BY <1>1, AppendProperties
  <1> QED BY <1>2 DEF Artifact

\* What an item of a text does to the state.
ItemEffect(own, s, unit, item, t) ==
    LET taken == item.under = Always \/ IsMacroDefined(s, item.under)
        atom  == t.atoms[item.name]
    IN
    /\ StateOwned(t, own) /\ ParseStateSame(s, t)
    /\ DOMAIN s.atoms \subseteq DOMAIN t.atoms
    /\ \A w \in DOMAIN s.atoms : t.atoms[w] = s.atoms[w]
    /\ \A w \in DOMAIN t.atoms \ DOMAIN s.atoms : t.atoms[w] = <<s.memory, w>>
    /\ item.op = "define" =>
          /\ t.artifacts = s.artifacts
          /\ item.name \in DOMAIN t.atoms /\ item.body \in DOMAIN t.atoms
          /\ t.macros = Added(s.macros, atom, t.atoms[item.body])
    /\ item.op # "define" => t.macros = s.macros
    /\ item.op # "define" /\ ~taken => t.artifacts = s.artifacts
    /\ item.op # "define" /\ taken =>
          /\ item.name \in DOMAIN t.atoms
          /\ \A v \in 1 .. 3 \ {unit} : t.artifacts[v] = s.artifacts[v]
          /\ t.artifacts[unit].tokens =
                Append(s.artifacts[unit].tokens,
                       [op |-> item.op,
                        atom |-> IF atom \in DOMAIN s.macros THEN s.macros[atom] ELSE atom])

LEMMA ItemKeeps ==
  ASSUME NEW own, NEW s, StateOwned(s, own), NEW unit \in 1 .. 3, NEW item \in Item
  PROVE  ItemEffect(own, s, unit, item, PreprocessItem(s, unit, item))
  <1> DEFINE t     == PreprocessItem(s, unit, item)
             taken == item.under = Always \/ IsMacroDefined(s, item.under)
  <1>1. CASE item.op = "define"
    <2>1. item.name \in Name /\ item.body \in Name
      BY <1>1 DEF Item, Name
    <2>2. t = DefineMacro(s, item.name, item.body)
      BY <1>1 DEF PreprocessItem
    <2>3. DefineEffect(own, s, item.name, item.body, t)
      BY <2>1, <2>2, DefineKeeps
    <2> HIDE DEF t
    <2> QED BY <1>1, <2>3 DEF ItemEffect, DefineEffect, t
  <1>2. CASE item.op # "define"
    <2>1. item.op \in {"declare", "use"} /\ item.name \in Name /\ item.under \in Name
      BY <1>2 DEF Item, Name
    <2> DEFINE t1   == IF item.under = Always THEN s ELSE Intern(s, item.under)
               t2   == Intern(t1, item.name)
               here == item.under = Always \/ IsMacroDefined(t1, item.under)
               atom == Expanded(t2, item.name)
    <2>2. t = IF here THEN [t2 EXCEPT !.artifacts[unit].tokens = Append(@, [op |-> item.op, atom |-> atom])] ELSE t1
      BY <2>1 DEF PreprocessItem
    <2>3. /\ StateOwned(t1, own) /\ ParseStateSame(s, t1)
          /\ t1.macros = s.macros /\ t1.artifacts = s.artifacts
          /\ DOMAIN s.atoms \subseteq DOMAIN t1.atoms
          /\ \A w \in DOMAIN s.atoms : t1.atoms[w] = s.atoms[w]
          /\ \A w \in DOMAIN t1.atoms \ DOMAIN s.atoms : t1.atoms[w] = <<s.memory, w>>
      <3>1. CASE item.under = Always
        BY <3>1 DEF ParseStateSame
      <3>2. CASE item.under # Always
        BY <3>2, <2>1, InternKeeps
      <3> QED BY <3>1, <3>2
    <2>4. here <=> taken
      <3>1. CASE item.under = Always
        BY <3>1
      <3>2. CASE item.under # Always
        <4>1. t1 = Intern(s, item.under)
          BY <3>2
        <4>2. GetAtom(s, item.under) = t1.atoms[item.under] /\ item.under \in DOMAIN t1.atoms
          BY <4>1, <2>1, InternKeeps
        <4> HIDE DEF t1
        <4>3. GetAtom(t1, item.under) = t1.atoms[item.under]
          BY <4>2, <2>1, <2>3, InternKeeps
        <4> QED BY <3>2, <4>2, <4>3, <2>3 DEF IsMacroDefined
      <3> QED BY <3>1, <3>2
    <2> HIDE DEF t1
    <2>5. /\ StateOwned(t2, own) /\ ParseStateSame(t1, t2)
          /\ t2.macros = t1.macros /\ t2.artifacts = t1.artifacts
          /\ DOMAIN t2.atoms = DOMAIN t1.atoms \cup {item.name}
          /\ \A w \in DOMAIN t1.atoms : t2.atoms[w] = t1.atoms[w]
          /\ item.name \notin DOMAIN t1.atoms => t2.atoms[item.name] = <<t1.memory, item.name>>
          /\ t2.atoms[item.name] \in Atoms(own)
      BY <2>1, <2>3, InternKeeps
    <2> HIDE DEF t2, t, here
    <2>6. GetAtom(t2, item.name) = t2.atoms[item.name]
      BY <2>1, <2>5, InternKeeps
    <2>7. atom = IF t2.atoms[item.name] \in DOMAIN s.macros THEN s.macros[t2.atoms[item.name]]
                 ELSE t2.atoms[item.name]
      BY <2>3, <2>5, <2>6 DEF Expanded, IsMacroDefined
    <2>8. atom \in Atoms(own)
      <3>1. IsTable(s.macros, Atoms(own), Atoms(own))
        BY DEF StateOwned
      <3> QED BY <2>5, <2>7, <3>1 DEF IsTable
    <2> HIDE DEF atom
    <2>9. CASE ~here
      <3>1. t = t1
        BY <2>2, <2>9
      <3> QED BY <1>2, <2>3, <2>4, <2>9, <3>1 DEF t, ItemEffect
    <2>10. CASE here
      <3> DEFINE token == [op |-> item.op, atom |-> atom]
                 artifact == [t2.artifacts[unit] EXCEPT !.tokens = Append(@, token)]
      <3>1. t = [t2 EXCEPT !.artifacts[unit].tokens = Append(@, token)]
        BY <2>2, <2>10
      <3>2. t2.artifacts \in [1 .. 3 -> Artifact(own)] /\ t2.artifacts[unit] \in Artifact(own)
        BY <2>5 DEF StateOwned
      <3>3. token \in Token(own)
        BY <2>1, <2>8 DEF Token
      <3> HIDE DEF token
      <3>4. artifact \in Artifact(own) /\ artifact.tokens = Append(t2.artifacts[unit].tokens, token)
            /\ artifact.tree = t2.artifacts[unit].tree
        BY <3>2, <3>3, AppendToken
      <3>5. t = [memory |-> t2.memory, preamble |-> t2.preamble, config |-> t2.config,
                 atoms |-> t2.atoms, macros |-> t2.macros, symbols |-> t2.symbols, levels |-> t2.levels,
                 artifacts |-> [t2.artifacts EXCEPT ![unit] = artifact]]
        BY <3>1, <2>5 DEF StateOwned
      <3> HIDE DEF artifact
      <3>6. t.artifacts \in [1 .. 3 -> Artifact(own)] /\ t.artifacts[unit] = artifact
            /\ \A v \in 1 .. 3 \ {unit} : t.artifacts[v] = t2.artifacts[v]
        BY <3>2, <3>4, <3>5
      <3>7. StateOwned(t, own)
        BY <2>5, <3>5, <3>6 DEF StateOwned
      <3>8. ParseStateSame(s, t)
        BY <2>3, <2>5, <3>4, <3>5, <3>6 DEF ParseStateSame
      <3>9. /\ DOMAIN s.atoms \subseteq DOMAIN t.atoms /\ item.name \in DOMAIN t.atoms
            /\ \A w \in DOMAIN s.atoms : t.atoms[w] = s.atoms[w]
            /\ \A w \in DOMAIN t.atoms \ DOMAIN s.atoms : t.atoms[w] = <<s.memory, w>>
            /\ t.macros = s.macros /\ t.atoms[item.name] = t2.atoms[item.name]
        <4>1. t.atoms = t2.atoms /\ t.macros = t2.macros /\ t1.memory = s.memory
          BY <3>5, <2>3 DEF ParseStateSame
        <4> QED BY <4>1, <2>3, <2>5
      <3>10. /\ t.artifacts[unit].tokens =
                  Append(s.artifacts[unit].tokens,
                     [op |-> item.op,
                      atom |-> IF t.atoms[item.name] \in DOMAIN s.macros THEN s.macros[t.atoms[item.name]]
                               ELSE t.atoms[item.name]])
             /\ \A v \in 1 .. 3 \ {unit} : t.artifacts[v] = s.artifacts[v]
        BY <2>3, <2>5, <2>7, <3>4, <3>6, <3>9 DEF token
      <3> QED BY <1>2, <2>4, <2>10, <3>7, <3>8, <3>9, <3>10 DEF t, ItemEffect
    <2> QED BY <2>9, <2>10
  <1> QED BY <1>1, <1>2

LEMMA AppendToTree ==
  ASSUME NEW own, NEW a \in Artifact(own), NEW decl \in Decls(own) \cup {NoDecl}
  PROVE  LET b == [a EXCEPT !.tree = Append(@, decl)] IN
         /\ b \in Artifact(own) /\ b.tree = Append(a.tree, decl)
         /\ b.tokens = a.tokens /\ b.buffer = a.buffer
  <1>1. a.tree \in Seq(Decls(own) \cup {NoDecl})
    BY DEF Artifact
  <1>2. Append(a.tree, decl) \in Seq(Decls(own) \cup {NoDecl})
    BY <1>1, AppendProperties
  <1> QED BY <1>2 DEF Artifact

\* A symbol that is found is one of the levels.
LEMMA FoundSymbol ==
  ASSUME NEW own, NEW s, LevelsOwned(s, own), NEW word
  PROVE  FindSymbol(s, word) \in Decls(own) \cup {NoDecl}
  <1> DEFINE hits == {k \in DOMAIN s.symbols : word \in DOMAIN s.levels[s.symbols[k]]}
  <1>1. CASE hits = {}
    BY <1>1 DEF FindSymbol
  <1>2. CASE hits # {}
    <2>1. DOMAIN s.symbols = 1 .. Len(s.symbols) /\ Len(s.symbols) \in Nat
      BY DEF LevelsOwned
    <2>2. Max(hits) \in hits
      BY <1>2, <2>1, MaxIsGreatest
    <2>3. FindSymbol(s, word) = s.levels[s.symbols[Max(hits)]][word]
      BY <1>2 DEF FindSymbol
    <2> HIDE DEF hits
    <2>4. Max(hits) \in DOMAIN s.symbols /\ word \in DOMAIN s.levels[s.symbols[Max(hits)]]
      BY <2>2 DEF hits
    <2> QED BY <2>3, <2>4 DEF LevelsOwned, IsTable
  <1> QED BY <1>1, <1>2

\* A token is parsed to a node of the tree, and to a symbol if it is declared.
LEMMA TokenOwned ==
  ASSUME NEW own, NEW s, StateOwned(s, own), LevelsOwned(s, own),
         NEW unit \in 1 .. 3, NEW token \in Token(own)
  PROVE  /\ StateOwned(ParseToken(s, unit, token), own)
         /\ LevelsOwned(ParseToken(s, unit, token), own)
         /\ PreprocessStateSame(s, ParseToken(s, unit, token))
  <1> DEFINE t    == ParseToken(s, unit, token)
             word == Word(token.atom)
             decl == <<s.memory, unit, Len(s.artifacts[unit].tree) + 1>>
             last == Last(s.symbols)
             node == IF token.op = "declare" THEN decl ELSE FindSymbol(s, word)
             artifact == [s.artifacts[unit] EXCEPT !.tree = Append(@, node)]
             level == Added(s.levels[last], word, decl)
             table == IF token.op = "declare" THEN [s.levels EXCEPT ![last] = level] ELSE s.levels
  <1>1. s.artifacts \in [1 .. 3 -> Artifact(own)] /\ s.artifacts[unit] \in Artifact(own)
    BY DEF StateOwned
  <1>2. word \in Name
    BY DEF Token, Atoms, Word
  <1>3. decl \in Decls(own)
    <2>1. Len(s.artifacts[unit].tree) \in Nat
      BY <1>1, LenProperties DEF Artifact
    <2> QED BY <2>1 DEF StateOwned, Decls
  <1>4. FindSymbol(s, word) \in Decls(own) \cup {NoDecl}
    BY FoundSymbol
  <1>5. t = [memory |-> s.memory, preamble |-> s.preamble, config |-> s.config,
             atoms |-> s.atoms, macros |-> s.macros, symbols |-> s.symbols,
             levels |-> table, artifacts |-> [s.artifacts EXCEPT ![unit] = artifact]]
    <2>1. CASE token.op = "declare"
      BY <2>1 DEF ParseToken, StateOwned
    <2>2. CASE token.op # "declare"
      BY <2>2 DEF ParseToken, StateOwned
    <2> QED BY <2>1, <2>2
  <1> HIDE DEF t
  <1>6. node \in Decls(own) \cup {NoDecl}
    BY <1>3, <1>4
  <1> HIDE DEF node
  <1>7. /\ artifact \in Artifact(own) /\ artifact.tree = Append(s.artifacts[unit].tree, node)
        /\ artifact.tokens = s.artifacts[unit].tokens
    <2> DEFINE a == s.artifacts[unit]
    <2>1. a \in Artifact(own)
      BY <1>1
    <2> HIDE DEF a
    <2>2. LET b == [a EXCEPT !.tree = Append(@, node)] IN
          b \in Artifact(own) /\ b.tree = Append(a.tree, node) /\ b.tokens = a.tokens
      BY <1>6, <2>1, AppendToTree
    <2> QED BY <2>2 DEF a
  <1> HIDE DEF artifact
  <1>8. /\ t.artifacts \in [1 .. 3 -> Artifact(own)] /\ t.artifacts[unit] = artifact
        /\ \A v \in 1 .. 3 \ {unit} : t.artifacts[v] = s.artifacts[v]
    BY <1>1, <1>5, <1>7
  <1>9. StateOwned(t, own)
    BY <1>5, <1>8 DEF StateOwned
  <1>10. last \in DOMAIN s.levels /\ IsTable(s.levels[last], Name, Decls(own))
    <2>1. Len(s.symbols) \in DOMAIN s.symbols
      BY DEF LevelsOwned
    <2> QED BY <2>1 DEF LevelsOwned, Last
  <1> HIDE DEF last, word, decl
  <1>11. IsTable(level, Name, Decls(own))
    BY <1>2, <1>3, <1>10, AddedToTable
  <1> HIDE DEF level
  <1>12. /\ table = [k \in DOMAIN table |-> table[k]] /\ DOMAIN table = DOMAIN s.levels
         /\ \A k \in DOMAIN s.levels : k # last => table[k] = s.levels[k]
         /\ \A k \in DOMAIN s.levels : table[k] = s.levels[k] \/ table[k] = level
    BY <1>10 DEF LevelsOwned
  <1> HIDE DEF table
  <1>13. LevelsOwned(t, own)
    <2>1. t.symbols = s.symbols /\ t.levels = table
      BY <1>5
    <2> QED BY <2>1, <1>11, <1>12 DEF LevelsOwned
  <1>14. PreprocessStateSame(s, t)
    BY <1>5, <1>7, <1>8, <1>12 DEF PreprocessStateSame, last
  <1> QED BY <1>9, <1>13, <1>14 DEF t

TokenEffect(s, unit, token, t) ==
    LET word == Word(token.atom)
        decl == <<s.memory, unit, Len(s.artifacts[unit].tree) + 1>>
        last == Last(s.symbols)
    IN
    /\ \A v \in 1 .. 3 \ {unit} : t.artifacts[v] = s.artifacts[v]
    /\ t.levels = IF token.op = "declare"
                  THEN [s.levels EXCEPT ![last] = Added(s.levels[last], word, decl)]
                  ELSE s.levels
    /\ t.artifacts[unit].tree =
          Append(s.artifacts[unit].tree, IF token.op = "declare" THEN decl ELSE FindSymbol(s, word))

LEMMA TokenParsed ==
  ASSUME NEW own, NEW s, StateOwned(s, own), LevelsOwned(s, own),
         NEW unit \in 1 .. 3, NEW token \in Token(own)
  PROVE  TokenEffect(s, unit, token, ParseToken(s, unit, token))
  <1> DEFINE t    == ParseToken(s, unit, token)
             word == Word(token.atom)
             decl == <<s.memory, unit, Len(s.artifacts[unit].tree) + 1>>
             last == Last(s.symbols)
             node == IF token.op = "declare" THEN decl ELSE FindSymbol(s, word)
             artifact == [s.artifacts[unit] EXCEPT !.tree = Append(@, node)]
             level == Added(s.levels[last], word, decl)
             table == IF token.op = "declare" THEN [s.levels EXCEPT ![last] = level] ELSE s.levels
  <1>1. s.artifacts \in [1 .. 3 -> Artifact(own)] /\ s.artifacts[unit] \in Artifact(own)
    BY DEF StateOwned
  <1>3. decl \in Decls(own)
    <2>1. Len(s.artifacts[unit].tree) \in Nat
      BY <1>1, LenProperties DEF Artifact
    <2> QED BY <2>1 DEF StateOwned, Decls
  <1>4. FindSymbol(s, word) \in Decls(own) \cup {NoDecl}
    BY FoundSymbol
  <1>5. t = [memory |-> s.memory, preamble |-> s.preamble, config |-> s.config,
             atoms |-> s.atoms, macros |-> s.macros, symbols |-> s.symbols,
             levels |-> table, artifacts |-> [s.artifacts EXCEPT ![unit] = artifact]]
    <2>1. CASE token.op = "declare"
      BY <2>1 DEF ParseToken, StateOwned
    <2>2. CASE token.op # "declare"
      BY <2>2 DEF ParseToken, StateOwned
    <2> QED BY <2>1, <2>2
  <1> HIDE DEF t
  <1>6. node \in Decls(own) \cup {NoDecl}
    BY <1>3, <1>4
  <1> HIDE DEF node
  <1>7. /\ artifact \in Artifact(own) /\ artifact.tree = Append(s.artifacts[unit].tree, node)
        /\ artifact.tokens = s.artifacts[unit].tokens
    <2> DEFINE a == s.artifacts[unit]
    <2>1. a \in Artifact(own)
      BY <1>1
    <2> HIDE DEF a
    <2>2. LET b == [a EXCEPT !.tree = Append(@, node)] IN
          b \in Artifact(own) /\ b.tree = Append(a.tree, node) /\ b.tokens = a.tokens
      BY <1>6, <2>1, AppendToTree
    <2> QED BY <2>2 DEF a
  <1> HIDE DEF artifact, table
  <1>8. /\ t.artifacts \in [1 .. 3 -> Artifact(own)] /\ t.artifacts[unit] = artifact
        /\ \A v \in 1 .. 3 \ {unit} : t.artifacts[v] = s.artifacts[v]
    BY <1>1, <1>5, <1>7
  <1>9. t.levels = table /\ t.artifacts[unit].tree = Append(s.artifacts[unit].tree, node)
    BY <1>5, <1>7, <1>8
  <1> QED BY <1>8, <1>9 DEF t, table, node, TokenEffect

LEMMA ItemOwned ==
  ASSUME NEW own, NEW s, StateOwned(s, own), NEW unit \in 1 .. 3, NEW item \in Item
  PROVE  StateOwned(PreprocessItem(s, unit, item), own) /\ ParseStateSame(s, PreprocessItem(s, unit, item))
  BY ItemKeeps DEF ItemEffect

LEMMA PreprocessKeeps ==
  ASSUME NEW own, NEW s, StateOwned(s, own), NEW unit \in 1 .. 3, NEW text \in Seq(Item)
  PROVE  LET t == DoPreprocess(s, unit, text) IN
         StateOwned(t, own) /\ ParseStateSame(s, t)
  <1> DEFINE n == Len(text)
  <1>0. Len(text) \in Nat
    BY LenProperties
  <1>1. n \in Nat /\ \A k \in 1 .. n : text[k] \in Item
    BY <1>0, ElementOfSeq
  <1> DEFINE f == PreprocessStates(s, unit, text)
  <1>2. /\ f[0] = s
        /\ \A k \in 1 .. n : f[k] = PreprocessItem(f[k - 1], unit, text[k])
        /\ DoPreprocess(s, unit, text) = f[n]
    BY <1>0, PreprocessPass
  <1> HIDE DEF f
  <1> HIDE DEF n
  <1> DEFINE S == {k \in 0 .. n : StateOwned(f[k], own) /\ ParseStateSame(s, f[k])}
  <1>3. 0 \in S
    BY <1>1, <1>2 DEF ParseStateSame
  <1>4. ASSUME NEW k \in 1 .. n, k - 1 \in S PROVE k \in S
    <2>0. StateOwned(f[k - 1], own) /\ f[k] = PreprocessItem(f[k - 1], unit, text[k]) /\ text[k] \in Item
      BY <1>1, <1>2, <1>4
    <2>1. StateOwned(f[k], own) /\ ParseStateSame(f[k - 1], f[k])
      BY <2>0, ItemOwned
    <2>2. ParseStateSame(s, f[k])
      BY <2>1, <1>4 DEF ParseStateSame
    <2> QED BY <2>1, <2>2
  <1> HIDE DEF S
  <1>5. n \in S
    <2>1. n \in Nat
      BY <1>1
    <2>2. \A k \in 1 .. n : k - 1 \in S => k \in S
      BY <1>4
    <2>3. \A k \in 0 .. n : k \in S
      BY <2>1, <2>2, <1>3, Climb
    <2> QED BY <2>1, <2>3
  <1> QED BY <1>2, <1>5 DEF S

LEMMA ParseKeeps ==
  ASSUME NEW own, NEW s, StateOwned(s, own), LevelsOwned(s, own), NEW unit \in 1 .. 3
  PROVE  LET t == DoParse(s, unit) IN
         StateOwned(t, own) /\ LevelsOwned(t, own) /\ PreprocessStateSame(s, t)
  <1> DEFINE seq == s.artifacts[unit].tokens
             n   == Len(seq)
  <1>1. seq \in Seq(Token(own))
    BY DEF StateOwned, Artifact
  <1>2. n \in Nat /\ \A k \in 1 .. n : seq[k] \in Token(own)
    BY <1>1, ElementOfSeq, LenProperties
  <1> DEFINE f == ParseStates(s, unit)
  <1>3. /\ f[0] = s
        /\ \A k \in 1 .. n : f[k] = ParseToken(f[k - 1], unit, seq[k])
        /\ DoParse(s, unit) = f[n]
    BY <1>2, ParsePass
  <1> HIDE DEF f
  <1> HIDE DEF n, seq
  <1> DEFINE Kept(t) == /\ StateOwned(t, own) /\ LevelsOwned(t, own) /\ PreprocessStateSame(s, t)
                            S == {k \in 0 .. n : Kept(f[k])}
  <1>4. 0 \in S
    BY <1>2, <1>3 DEF PreprocessStateSame
  <1>5. ASSUME NEW k \in 1 .. n, k - 1 \in S PROVE k \in S
    <2>1. Kept(f[k - 1])
      BY <1>5
    <2>0. f[k] = ParseToken(f[k - 1], unit, seq[k]) /\ seq[k] \in Token(own)
      BY <1>2, <1>3
    <2>2. StateOwned(f[k], own) /\ LevelsOwned(f[k], own) /\ PreprocessStateSame(f[k - 1], f[k])
      BY <2>0, <2>1, TokenOwned
    <2>3. PreprocessStateSame(s, f[k])
      BY <2>1, <2>2 DEF PreprocessStateSame
    <2> QED BY <2>2, <2>3
  <1> HIDE DEF S
  <1>6. n \in S
    <2>1. n \in Nat
      BY <1>2
    <2>2. \A k \in 1 .. n : k - 1 \in S => k \in S
      BY <1>5
    <2>3. \A k \in 0 .. n : k \in S
      BY <2>1, <2>2, <1>4, Climb
    <2> QED BY <2>1, <2>3
  <1> QED BY <1>3, <1>6 DEF S

-----------------------------------------------------------------------------
(* A compilation.                                                           *)

Owned(s, own) == StateOwned(s, own) /\ LevelsOwned(s, own)

\* What neither pass changes.
SameBase(s, t) ==
    /\ t.memory = s.memory /\ t.preamble = s.preamble /\ t.config = s.config
    /\ t.symbols = s.symbols
    /\ DOMAIN t.levels = DOMAIN s.levels
    /\ \A k \in DOMAIN s.levels : k # Last(s.symbols) => t.levels[k] = s.levels[k]

LEMMA SameBaseTransitive ==
  ASSUME NEW s, NEW t, NEW u, SameBase(s, t), SameBase(t, u)
  PROVE  SameBase(s, u)
  BY DEF SameBase

LEMMA PreprocessOwned ==
  ASSUME NEW own, NEW s, Owned(s, own), NEW unit \in 1 .. 3, NEW text \in Seq(Item)
  PROVE  Owned(DoPreprocess(s, unit, text), own) /\ SameBase(s, DoPreprocess(s, unit, text))
  <1> DEFINE t == DoPreprocess(s, unit, text)
  <1>1. StateOwned(t, own) /\ ParseStateSame(s, t)
    BY PreprocessKeeps DEF Owned
  <1> HIDE DEF t
  <1>2. LevelsOwned(t, own) /\ SameBase(s, t)
    BY <1>1 DEF Owned, LevelsOwned, ParseStateSame, SameBase
  <1> QED BY <1>1, <1>2 DEF Owned, t

LEMMA ParseOwned ==
  ASSUME NEW own, NEW s, Owned(s, own), NEW unit \in 1 .. 3
  PROVE  Owned(DoParse(s, unit), own) /\ SameBase(s, DoParse(s, unit))
  <1> DEFINE t == DoParse(s, unit)
  <1>1. StateOwned(t, own) /\ LevelsOwned(t, own) /\ PreprocessStateSame(s, t)
    BY ParseKeeps DEF Owned
  <1> HIDE DEF t
  <1>2. SameBase(s, t)
    BY <1>1 DEF PreprocessStateSame, SameBase
  <1> QED BY <1>1, <1>2 DEF Owned, t

\* A table, an artifact or a level of some memories is one of more memories.
LEMMA OwnedByMore ==
  ASSUME NEW own, NEW more, own \subseteq more
  PROVE  /\ \A atoms : IsAtomTable(atoms, own) => IsAtomTable(atoms, more)
         /\ \A macros : IsTable(macros, Atoms(own), Atoms(own)) => IsTable(macros, Atoms(more), Atoms(more))
         /\ \A level : IsTable(level, Name, Decls(own)) => IsTable(level, Name, Decls(more))
         /\ Artifact(own) \subseteq Artifact(more)
  <1>1. Atoms(own) \subseteq Atoms(more) /\ Decls(own) \subseteq Decls(more)
    BY DEF Atoms, Decls
  <1>2. Token(own) \subseteq Token(more)
    BY <1>1 DEF Token
  <1>3. Seq(Token(own)) \subseteq Seq(Token(more))
    BY <1>2, SeqMonotonic
  <1>4. Seq(Decls(own) \cup {NoDecl}) \subseteq Seq(Decls(more) \cup {NoDecl})
    <2>1. Decls(own) \cup {NoDecl} \subseteq Decls(more) \cup {NoDecl}
      BY <1>1
    <2> QED BY <2>1, SeqMonotonic
  <1>5. Artifact(own) \subseteq Artifact(more)
    BY <1>3, <1>4 DEF Artifact
  <1>6. \A f, K, V, L, W : IsTable(f, K, V) /\ K \subseteq L /\ V \subseteq W => IsTable(f, L, W)
    BY DEF IsTable
  <1> QED BY <1>1, <1>5, <1>6 DEF IsAtomTable

LEMMA EmptyTable ==
  /\ \A K, V : IsTable(<<>>, K, V)
  /\ \A own : IsAtomTable(<<>>, own)
  <1>1. DOMAIN <<>> = {} /\ <<>> = [x \in DOMAIN <<>> |-> <<>>[x]]
    OBVIOUS
  <1> QED BY <1>1 DEF IsTable, IsAtomTable

LEMMA NewArtifactOwned ==
  ASSUME NEW own, NEW n \in own
  PROVE  NewArtifact(n) \in Artifact(own)
  <1>1. <<>> \in Seq(Token(own)) /\ <<>> \in Seq(Decls(own) \cup {NoDecl})
    OBVIOUS
  <1> QED BY <1>1 DEF NewArtifact, Artifact

\* A compilation from nothing only points into its own memory.
LEMMA FromNothingOwned ==
  ASSUME NEW n \in Nat, n \notin DOMAIN levels, NEW config \in Config
  PROVE  LET s == StateFromNothing(n, config) IN
         /\ Owned(s, {n}) /\ s.memory = n /\ s.preamble = None /\ s.config = config
         /\ s.symbols = <<n>> /\ s.levels = Added(levels, n, <<>>)
         /\ s.artifacts = <<NewArtifact(n), NewArtifact(n), NewArtifact(n)>>
  <1> DEFINE b == [memory |-> n, preamble |-> None, config |-> config,
                   atoms |-> <<>>, macros |-> <<>>,
                   symbols |-> <<n>>, levels |-> Added(levels, n, <<>>),
                   artifacts |-> <<NewArtifact(n), NewArtifact(n), NewArtifact(n)>>]
             stage == StageMacro(config.stage)
             t == DefineMacro(b, "GL_core_profile", "1")
             s == DefineMacro(t, stage, "1")
  <1>1. StateOwned(b, {n})
    <2>1. NewArtifact(n) \in Artifact({n})
      BY NewArtifactOwned
    <2> DEFINE a == NewArtifact(n)
    <2> HIDE DEF a
    <2>2. <<a, a, a>> \in [1 .. 3 -> Artifact({n})]
      BY <2>1 DEF a
    <2> QED BY <2>2, EmptyTable DEF StateOwned, a
  <1>2. LevelsOwned(b, {n})
    <2>1. /\ b.levels = [k \in DOMAIN b.levels |-> b.levels[k]]
          /\ n \in DOMAIN b.levels /\ b.levels[n] = <<>>
      BY DEF Added
    <2>2. b.symbols \in Seq(Nat) /\ b.symbols # <<>> /\ \A k \in DOMAIN b.symbols : b.symbols[k] = n
      OBVIOUS
    <2> HIDE DEF b
    <2> QED BY <2>1, <2>2, EmptyTable DEF LevelsOwned
  <1>3. /\ b.config = config /\ b.memory = n /\ b.preamble = None /\ b.symbols = <<n>>
        /\ b.levels = Added(levels, n, <<>>)
        /\ b.artifacts = <<NewArtifact(n), NewArtifact(n), NewArtifact(n)>>
    OBVIOUS
  <1>4. StateFromNothing(n, config) = DefineFeatureMacros(b)
    BY DEF StateFromNothing
  <1> HIDE DEF b
  <1>5. stage \in Name /\ "1" \in Name /\ "GL_core_profile" \in Name
    <2>1. config.stage \in Stages \cup {"Unknown"}
      BY DEF Config
    <2>2. stage \in Name
      BY <2>1 DEF Name
    <2> HIDE DEF stage
    <2>3. "1" \in Name /\ "GL_core_profile" \in Name
      BY DEF Name
    <2> QED BY <2>2, <2>3
  <1>6. StateOwned(t, {n}) /\ ParseStateSame(b, t) /\ t.artifacts = b.artifacts
    <2>1. DefineEffect({n}, b, "GL_core_profile", "1", t)
      BY <1>1, <1>5, DefineKeeps
    <2> QED BY <2>1 DEF DefineEffect
  <1>7. s = DefineFeatureMacros(b)
    BY <1>3, <1>6 DEF DefineFeatureMacros, ParseStateSame
  <1> HIDE DEF t, stage
  <1>8. StateOwned(s, {n}) /\ ParseStateSame(t, s) /\ s.artifacts = t.artifacts
    <2>1. DefineEffect({n}, t, stage, "1", s)
      BY <1>5, <1>6, DefineKeeps
    <2> QED BY <2>1 DEF DefineEffect
  <1> HIDE DEF s
  <1>9. LevelsOwned(s, {n})
    BY <1>2, <1>6, <1>8 DEF LevelsOwned, ParseStateSame
  <1>10. /\ s.memory = n /\ s.preamble = None /\ s.config = config
         /\ s.symbols = <<n>> /\ s.levels = Added(levels, n, <<>>) /\ s.artifacts = b.artifacts
    BY <1>3, <1>6, <1>8 DEF ParseStateSame
  <1> QED BY <1>3, <1>4, <1>7, <1>8, <1>9, <1>10 DEF Owned

LEMMA AppendPair ==
  ASSUME NEW p, NEW n
  PROVE  Append(<<p>>, n) = <<p, n>>
  <1> DEFINE s == Append(<<p>>, n)
             t == <<p, n>>
  <1>1. <<p>> \in Seq({p, n}) /\ n \in {p, n} /\ t \in Seq({p, n})
    OBVIOUS
  <1>2. /\ s \in Seq({p, n}) /\ Len(s) = 2 /\ s[1] = p /\ s[2] = n
    BY <1>1, AppendProperties
  <1>3. Len(t) = 2 /\ t[1] = p /\ t[2] = n
    OBVIOUS
  <1> HIDE DEF s, t
  <1>4. \A i \in 1 .. Len(s) : s[i] = t[i]
    <2>1. \A i \in 1 .. 2 : i = 1 \/ i = 2
       OBVIOUS
    <2> QED BY <1>2, <1>3, <2>1
  <1>5. s = t BY <1>1, <1>2, <1>3, <1>4, SeqEqual
  <1> QED BY <1>5 DEF s, t

LEMMA AppendThird ==
  ASSUME NEW S, NEW s \in Seq(S), NEW n \in Nat, Len(s) = n, NEW x \in S
  PROVE  Append(s, x) \in [1 .. n + 1 -> S]
  <1>1. Append(s, x) \in Seq(S) /\ Len(Append(s, x)) = Len(s) + 1
    BY AppendProperties
  <1>2. Len(Append(s, x)) = n + 1
    BY <1>1
  <1> DEFINE t == Append(s, x)
  <1> HIDE DEF t
  <1>3. t \in Seq(S) /\ Len(t) = n + 1
    BY <1>1, <1>2 DEF t
  <1>4. t \in [1 .. Len(t) -> S]
    BY <1>3, LenProperties
  <1>5. t \in [1 .. n + 1 -> S]
    BY <1>3, <1>4
  <1> QED BY <1>5 DEF t

\* What a preamble is: all it points to is its own.
PreambleOwned(p) ==
    LET o == preambles[p] IN
    /\ p \in 1 .. compilations
    /\ o.config \in Config /\ o.systemPreamble \in Seq(Item) /\ o.userPreamble \in Seq(Item)
    /\ IsAtomTable(o.atoms, {p})
    /\ IsTable(o.macros, Atoms({p}), Atoms({p}))
    /\ o.artifacts \in Seq(Artifact({p})) /\ Len(o.artifacts) = 2
    /\ o.symbols = <<p>>
    /\ p \in DOMAIN levels /\ IsTable(levels[p], Name, Decls({p}))

\* A compilation on top of a preamble points into that one's memory, too.
LEMMA WithPreambleOwned ==
  ASSUME NEW n \in Nat, n \notin DOMAIN levels, compilations \in Nat, NEW p, PreambleOwned(p)
  PROVE  LET s == StateWithPreamble(n, p) IN
         /\ Owned(s, {n, p}) /\ s.memory = n /\ s.preamble = p /\ s.config = preambles[p].config
         /\ s.symbols = <<p, n>> /\ s.levels = Added(levels, n, <<>>)
         /\ s.artifacts = Append(preambles[p].artifacts, NewArtifact(n))
         /\ s.atoms = preambles[p].atoms /\ s.macros = preambles[p].macros
  <1> DEFINE s == StateWithPreamble(n, p)
             o == preambles[p]
             a == Append(o.artifacts, NewArtifact(n))
  <1>1. /\ o.config \in Config /\ IsAtomTable(o.atoms, {p}) /\ IsTable(o.macros, Atoms({p}), Atoms({p}))
        /\ o.artifacts \in Seq(Artifact({p})) /\ Len(o.artifacts) = 2 /\ o.symbols = <<p>>
        /\ p \in DOMAIN levels /\ IsTable(levels[p], Name, Decls({p})) /\ p \in Nat
    BY DEF PreambleOwned
  <1>2. s = [memory |-> n, preamble |-> p, config |-> o.config, atoms |-> o.atoms, macros |-> o.macros,
             symbols |-> Append(o.symbols, n), levels |-> Added(levels, n, <<>>), artifacts |-> a]
    BY DEF StateWithPreamble
  <1> HIDE DEF s, o
  <1>3. a \in [1 .. 3 -> Artifact({n, p})]
    <2>1. NewArtifact(n) \in Artifact({n, p}) /\ Artifact({p}) \subseteq Artifact({n, p})
      BY NewArtifactOwned, OwnedByMore
    <2>2. o.artifacts \in Seq(Artifact({n, p}))
      BY <1>1, <2>1, SeqMonotonic
    <2> DEFINE S == Artifact({n, p})
               new == NewArtifact(n)
               old == o.artifacts
    <2>3. new \in S /\ old \in Seq(S) /\ Len(old) = 2
      BY <1>1, <2>1, <2>2
    <2> HIDE DEF S, new, old
    <2>4. Append(old, new) \in [1 .. 2 + 1 -> S]
      BY <2>3, AppendThird
    <2> QED BY <2>4 DEF S, new, old
  <1>4. Append(o.symbols, n) = <<p, n>>
    BY <1>1, AppendPair
  <1> HIDE DEF a
  <1>5. StateOwned(s, {n, p})
    <2>1. IsAtomTable(o.atoms, {n, p}) /\ IsTable(o.macros, Atoms({n, p}), Atoms({n, p}))
      BY <1>1, OwnedByMore
    <2> QED BY <1>1, <1>2, <1>3, <2>1 DEF StateOwned
  <1>6. LevelsOwned(s, {n, p})
    <2>1. /\ s.levels = [k \in DOMAIN s.levels |-> s.levels[k]]
          /\ {n, p} \subseteq DOMAIN s.levels /\ s.levels[n] = <<>> /\ s.levels[p] = levels[p]
      BY <1>1, <1>2 DEF Added
    <2>2. s.symbols \in Seq(Nat) /\ s.symbols # <<>> /\ \A k \in DOMAIN s.symbols : s.symbols[k] \in {n, p}
      BY <1>1, <1>2, <1>4
    <2>3. IsTable(s.levels[n], Name, Decls({n, p})) /\ IsTable(s.levels[p], Name, Decls({n, p}))
      BY <1>1, <2>1, EmptyTable, OwnedByMore
    <2> QED BY <2>1, <2>2, <2>3 DEF LevelsOwned
  <1> QED BY <1>2, <1>4, <1>5, <1>6 DEF Owned, s, o, a

-----------------------------------------------------------------------------
(* The inductive invariant: all memory is owned.                            *)

Invoked(known) ==
    [preamble : {None} \cup known, phase : {"setup", "scanned", "used"}, config : Config,
     systemPreamble : Seq(Item), userPreamble : Seq(Item), main : UserTexts \cup {NoText}]

\* The memories a result may point into: its own and that of its preamble.
MemoryOf(r, preamble) == {r} \cup ({preamble} \ {None})

ResultOwned(r) ==
    LET o == results[r] IN
    /\ r \in 1 .. compilations
    /\ o.base = o.preamble /\ o.preamble \in {None} \cup DOMAIN preambles
    /\ IsAtomTable(o.atoms, MemoryOf(r, o.preamble))
    /\ o.artifacts \in [1 .. 3 -> Artifact(MemoryOf(r, o.preamble))]

MemoryOwned ==
    /\ compilations \in Nat
    /\ IsTable(invocations, Clients, Invoked(DOMAIN preambles))
    /\ held \subseteq DOMAIN preambles
    /\ preambles = [p \in DOMAIN preambles |-> preambles[p]]
    /\ \A p \in DOMAIN preambles : PreambleOwned(p)
    /\ results = [r \in DOMAIN results |-> results[r]]
    /\ \A r \in DOMAIN results : ResultOwned(r)
    /\ levels = [k \in DOMAIN levels |-> levels[k]]
    /\ DOMAIN levels \subseteq 1 .. compilations

\* What owns its memory does not dangle.
LEMMA OwnedNeverDangles ==
  ASSUME MemoryOwned
  PROVE  NothingDangles
  <1>1. ASSUME NEW own, 0 \notin own, NEW a \in Artifact(own)
        PROVE  ArtifactPointers(a) \subseteq own
    <2>1. /\ a.buffer \in own /\ a.tokens \in Seq(Token(own)) /\ a.tree \in Seq(Decls(own) \cup {NoDecl})
      BY DEF Artifact
    <2>2. \A k \in DOMAIN a.tokens : a.tokens[k].atom[1] \in own
      <3>1. \A k \in DOMAIN a.tokens : a.tokens[k] \in Token(own)
        BY <2>1, ElementOfSeq, LenProperties
      <3> QED BY <3>1 DEF Token, Atoms
    <2>3. \A k \in DOMAIN a.tree : a.tree[k][1] \in own \cup {None}
      <3>1. \A k \in DOMAIN a.tree : a.tree[k] \in Decls(own) \cup {NoDecl}
        BY <2>1, ElementOfSeq, LenProperties
      <3> QED BY <3>1 DEF Decls, NoDecl
    <2> QED BY <2>1, <2>2, <2>3 DEF ArtifactPointers
  <1>2. ASSUME NEW own, NEW atoms, IsAtomTable(atoms, own)
        PROVE  \A w \in DOMAIN atoms : atoms[w][1] \in own
    BY <1>2 DEF IsAtomTable, IsTable, Atoms
  <1>3. ASSUME NEW p \in LivePreambles
        PROVE  /\ Pointers(preambles[p]) \subseteq LivePreambles
               /\ \A k \in DOMAIN preambles[p].symbols :
                      LevelPointers(preambles[p].symbols[k]) \subseteq LivePreambles
    <2>0. p \in DOMAIN preambles /\ compilations \in Nat
      BY DEF LivePreambles, MemoryOwned
    <2>1. PreambleOwned(p) /\ 0 \notin {p}
      <3>1. PreambleOwned(p)
        BY <2>0 DEF MemoryOwned
      <3>2. p \in 1 .. compilations
        BY <3>1 DEF PreambleOwned
      <3> QED BY <2>0, <3>1, <3>2
    <2> DEFINE o == preambles[p]
    <2>2. /\ IsAtomTable(o.atoms, {p}) /\ o.artifacts \in Seq(Artifact({p})) /\ o.symbols = <<p>>
          /\ IsTable(levels[p], Name, Decls({p}))
      BY <2>1 DEF PreambleOwned
    <2> HIDE DEF o
    <2>3. \A u \in DOMAIN o.artifacts : o.artifacts[u] \in Artifact({p})
      BY <2>2, ElementOfSeq, LenProperties
    <2>4. \A u \in DOMAIN o.artifacts : ArtifactPointers(o.artifacts[u]) \subseteq {p}
      BY <1>1, <2>1, <2>3
    <2>5. Pointers(o) \subseteq {p}
      <3>1. \A w \in DOMAIN o.atoms : o.atoms[w][1] \in {p}
        BY <1>2, <2>2
      <3> QED BY <2>4, <3>1 DEF Pointers
    <2>6. \A k \in DOMAIN o.symbols : LevelPointers(o.symbols[k]) \subseteq {p}
      BY <2>2 DEF LevelPointers, IsTable, Decls
    <2> QED BY <2>5, <2>6 DEF o
  <1>4. ASSUME NEW r \in DOMAIN results
        PROVE  Pointers(results[r]) \subseteq {r} \cup LivePreambles
    <2> DEFINE o == results[r]
               own == MemoryOf(r, o.preamble)
    <2>1. /\ r \in 1 .. compilations
          /\ o.preamble \in {None} \cup DOMAIN preambles
          /\ IsAtomTable(o.atoms, own) /\ o.artifacts \in [1 .. 3 -> Artifact(own)]
      BY DEF MemoryOwned, ResultOwned
    <2>2. own \subseteq {r} \cup LivePreambles
      BY <2>1 DEF MemoryOf, LivePreambles
    <2>3. 0 \notin own
      BY <2>1 DEF MemoryOwned, MemoryOf, None
    <2> HIDE DEF o, own
    <2>4. \A u \in DOMAIN o.artifacts : ArtifactPointers(o.artifacts[u]) \subseteq own
      BY <1>1, <2>1, <2>3
    <2>5. Pointers(o) \subseteq own
      BY <1>2, <2>1, <2>4 DEF Pointers
    <2> QED BY <2>2, <2>5 DEF o
  <1> QED BY <1>3, <1>4 DEF NothingDangles

LEMMA InitOwned == CompileInit => MemoryOwned
  <1> SUFFICES ASSUME CompileInit PROVE MemoryOwned
    OBVIOUS
  <1>1. DOMAIN <<>> = {} /\ <<>> = [x \in DOMAIN <<>> |-> <<>>[x]]
    OBVIOUS
  <1> QED BY <1>1, EmptyTable DEF CompileInit, MemoryOwned

\* Most operations leave alone what was compiled.
LEMMA CompiledStays ==
  ASSUME MemoryOwned, UNCHANGED <<compiled, held>>, IsTable(invocations', Clients, Invoked(DOMAIN preambles))
  PROVE  MemoryOwned'
  <1>1. UNCHANGED <<compilations, preambles, results, levels, held>>
    BY DEF compiled
  <1>2. \A p \in DOMAIN preambles : PreambleOwned(p)'
    BY <1>1 DEF MemoryOwned, PreambleOwned
  <1>3. \A r \in DOMAIN results : ResultOwned(r)'
    BY <1>1 DEF MemoryOwned, ResultOwned
  <1> QED BY <1>1, <1>2, <1>3 DEF MemoryOwned

\* An invocation that is given another value of its kind.
LEMMA InvocationSet ==
  ASSUME NEW known, IsTable(invocations, Clients, Invoked(known)),
         NEW c \in DOMAIN invocations, NEW i \in Invoked(known)
  PROVE  IsTable([invocations EXCEPT ![c] = i], Clients, Invoked(known))
  BY DEF IsTable

LEMMA SystemTextIsText ==
  ASSUME NEW known, NEW i \in Invoked(known)
  PROVE  SystemText(i) \in Seq(Item)
  BY TextAssumption DEF SystemText, Invoked

LEMMA UsedIsInvocation ==
  ASSUME NEW known, NEW i \in Invoked(known)
  PROVE  Used(i) \in Invoked(known) /\ DefaultConfig \in Config
  <1>1. DefaultConfig \in Config
    BY DEF DefaultConfig, Config
  <1>2. <<>> \in Seq(Item)
    OBVIOUS
  <1> QED BY <1>1, <1>2 DEF Used, Invoked

\* Setting up an invocation.
LEMMA SetupOwned ==
  ASSUME MemoryOwned, NEW c \in Clients,
         \/ NewInvocation(c)
         \/ ApplyLanguageConfig(c) \/ SetShaderStage(c) \/ SetNoStdlib(c)
         \/ SetUserPreamble(c) \/ SetMainFile(c) \/ ScanVersionAndExtension(c)
         \/ DestroyInvocation(c)
  PROVE  MemoryOwned'
  <1> DEFINE known == DOMAIN preambles
             i == invocations[c]
  <1>1. IsTable(invocations, Clients, Invoked(known)) /\ held \subseteq known
    BY DEF MemoryOwned
  <1>2. \A p \in known : PreambleOwned(p)
    BY DEF MemoryOwned
  <1>3. c \in DOMAIN invocations => i \in Invoked(known)
    BY <1>1 DEF IsTable
  <1>4. SUFFICES UNCHANGED <<compiled, held>> /\ IsTable(invocations', Clients, Invoked(known))
    BY <1>4, CompiledStays
  <1> HIDE DEF known
  <1>5. ASSUME NEW config \in Config, Configure(c, config)
        PROVE  UNCHANGED <<compiled, held>> /\ IsTable(invocations', Clients, Invoked(known))
    <2>1. c \in DOMAIN invocations /\ UNCHANGED <<compiled, held>>
      BY <1>5 DEF Configure, InSetup, Has
    <2>2. [i EXCEPT !.config = config] \in Invoked(known)
      BY <1>3, <1>5, <2>1 DEF Invoked
    <2>3. invocations' \in {invocations, [invocations EXCEPT ![c] = [i EXCEPT !.config = config]]}
      BY <1>5 DEF Configure
    <2> QED BY <1>1, <2>1, <2>2, <2>3, InvocationSet
  <1>6. CASE NewInvocation(c)
    <2>1. PICK p \in {None} \cup held : invocations' = Added(invocations, c,
               [preamble |-> p, phase |-> "setup",
                config |-> IF p = None THEN DefaultConfig ELSE preambles[p].config,
                systemPreamble |-> <<>>, userPreamble |-> <<>>, main |-> NoText])
      BY <1>6 DEF NewInvocation
    <2> DEFINE config == IF p = None THEN DefaultConfig ELSE preambles[p].config
               new == [preamble |-> p, phase |-> "setup", config |-> config,
                       systemPreamble |-> <<>>, userPreamble |-> <<>>, main |-> NoText]
    <2>2. config \in Config
      <3>1. CASE p = None
        BY <3>1 DEF DefaultConfig, Config
      <3>2. CASE p # None
        <4>1. p \in known
          BY <1>1, <3>2
        <4> QED BY <1>2, <3>2, <4>1 DEF PreambleOwned
      <3> QED BY <3>1, <3>2
    <2> HIDE DEF config
    <2>3. <<>> \in Seq(Item)
      OBVIOUS
    <2>4. new \in Invoked(known)
      BY <1>1, <2>2, <2>3 DEF Invoked
    <2>5. invocations' = Added(invocations, c, new)
      BY <2>1 DEF config
    <2> HIDE DEF new
    <2>6. IsTable(invocations', Clients, Invoked(known))
      BY <1>1, <2>4, <2>5, AddedToTable
    <2> QED BY <1>6, <2>6 DEF NewInvocation
  <1>7. CASE ApplyLanguageConfig(c)
    <2>1. \E config \in LanguageConfigs : Configure(c, config)
      BY <1>7 DEF ApplyLanguageConfig
    <2>2. LanguageConfigs \subseteq Config
      BY DEF LanguageConfigs, Config
    <2> QED BY <1>5, <2>1, <2>2
  <1>8. CASE SetShaderStage(c)
    <2>1. PICK stage \in Stages : Configure(c, [i.config EXCEPT !.stage = stage])
      BY <1>8 DEF SetShaderStage
    <2>2. i.config \in Config
      BY <1>3, <2>1 DEF Configure, InSetup, Has, Invoked
    <2>3. [i.config EXCEPT !.stage = stage] \in Config
      BY <2>2 DEF Config
    <2> QED BY <1>5, <2>1, <2>3
  <1>9. CASE SetNoStdlib(c)
    <2>1. Configure(c, [i.config EXCEPT !.noStdlib = TRUE])
      BY <1>9 DEF SetNoStdlib
    <2>2. i.config \in Config
      BY <1>3, <2>1 DEF Configure, InSetup, Has, Invoked
    <2>3. [i.config EXCEPT !.noStdlib = TRUE] \in Config
      BY <2>2 DEF Config
    <2> QED BY <1>5, <2>1, <2>3
  <1>10. CASE SetUserPreamble(c)
    <2>1. c \in DOMAIN invocations /\ UNCHANGED <<compiled, held>>
      BY <1>10 DEF SetUserPreamble, InSetup, Has
    <2>2. PICK text \in UserPreambles : invocations' = [invocations EXCEPT ![c].userPreamble = text]
      BY <1>10 DEF SetUserPreamble
    <2>3. text \in Seq(Item)
      BY TextAssumption
    <2>4. [i EXCEPT !.userPreamble = text] \in Invoked(known)
      BY <1>3, <2>1, <2>3 DEF Invoked
    <2>5. invocations' = [invocations EXCEPT ![c] = [i EXCEPT !.userPreamble = text]]
      BY <2>2
    <2> QED BY <1>1, <2>1, <2>4, <2>5, InvocationSet
  <1>11. CASE SetMainFile(c)
    <2>1. c \in DOMAIN invocations /\ UNCHANGED <<compiled, held>>
      BY <1>11 DEF SetMainFile, InSetup, Has
    <2>2. PICK text \in UserTexts : invocations' = [invocations EXCEPT ![c].main = text]
      BY <1>11 DEF SetMainFile
    <2>4. [i EXCEPT !.main = text] \in Invoked(known)
      BY <1>3, <2>1 DEF Invoked
    <2>5. invocations' = [invocations EXCEPT ![c] = [i EXCEPT !.main = text]]
      BY <2>2
    <2> QED BY <1>1, <2>1, <2>4, <2>5, InvocationSet
  <1>12. CASE ScanVersionAndExtension(c)
    <2>1. c \in DOMAIN invocations /\ UNCHANGED <<compiled, held>>
      BY <1>12 DEF ScanVersionAndExtension, InSetup, Has
    <2>2. SystemText(i) \in Seq(Item)
      BY <1>3, <2>1, SystemTextIsText
    <2> DEFINE new == [i EXCEPT !.phase = "scanned", !.systemPreamble = SystemText(i)]
    <2>3. new \in Invoked(known)
      BY <1>3, <2>1, <2>2 DEF Invoked
    <2>4. invocations' = [invocations EXCEPT ![c] = new]
      BY <1>12 DEF ScanVersionAndExtension
    <2> QED BY <1>1, <2>1, <2>3, <2>4, InvocationSet
  <1>13. CASE DestroyInvocation(c)
    BY <1>1, <1>13 DEF DestroyInvocation, IsTable
  <1> QED BY <1>6, <1>7, <1>8, <1>9, <1>10, <1>11, <1>12, <1>13

\* The two texts of a preamble are compiled to its own memory.
LEMMA PreambleTablesOwned ==
  ASSUME NEW n \in Nat, n \notin DOMAIN levels, NEW config \in Config,
         NEW system \in Seq(Item), NEW user \in Seq(Item)
  PROVE  LET s0 == StateFromNothing(n, config)
             s  == DoParse(DoPreprocess(s0, SystemPreamble, system), SystemPreamble)
             t  == DoParse(DoPreprocess(s, UserPreamble, user), UserPreamble)
         IN  Owned(t, {n}) /\ SameBase(s0, t)
  <1> DEFINE s0 == StateFromNothing(n, config)
             s1 == DoPreprocess(s0, SystemPreamble, system)
             s2 == DoParse(s1, SystemPreamble)
             s3 == DoPreprocess(s2, UserPreamble, user)
             s4 == DoParse(s3, UserPreamble)
  <1>1. Owned(s0, {n})
    BY FromNothingOwned
  <1> HIDE DEF s0
  <1>2. SystemPreamble \in 1 .. 3 /\ UserPreamble \in 1 .. 3
    BY DEF SystemPreamble, UserPreamble
  <1>3. Owned(s1, {n}) /\ SameBase(s0, s1)
    BY <1>1, <1>2, PreprocessOwned
  <1> HIDE DEF s1
  <1>4. Owned(s2, {n}) /\ SameBase(s1, s2)
    BY <1>2, <1>3, ParseOwned
  <1> HIDE DEF s2
  <1>5. Owned(s3, {n}) /\ SameBase(s2, s3)
    BY <1>2, <1>4, PreprocessOwned
  <1> HIDE DEF s3
  <1>6. Owned(s4, {n}) /\ SameBase(s3, s4)
    BY <1>2, <1>5, ParseOwned
  <1> HIDE DEF s4
  <1>7. SameBase(s0, s4)
    BY <1>3, <1>4, <1>5, <1>6, SameBaseTransitive
  <1> QED BY <1>6, <1>7 DEF s0, s1, s2, s3, s4

LEMMA FirstTwo ==
  ASSUME NEW S, NEW a \in [1 .. 3 -> S]
  PROVE  SubSeq(a, 1, 2) \in Seq(S) /\ Len(SubSeq(a, 1, 2)) = 2
         /\ \A u \in 1 .. 2 : SubSeq(a, 1, 2)[u] = a[u]
  <1>1. a \in Seq(S) /\ Len(a) = 3
    <2>1. a \in [1 .. 3 -> S] /\ 3 \in Nat
      OBVIOUS
    <2> QED BY <2>1, Z3T(20)
  <1>2. 1 \in 1 .. Len(a) + 1 /\ 2 \in 0 .. Len(a)
    BY <1>1
  <1> DEFINE b == SubSeq(a, 1, 2)
  <1>3. /\ b \in Seq(S)
        /\ Len(b) = IF 1 <= 2 THEN 2 - 1 + 1 ELSE 0
        /\ \A i \in 1 .. 2 - 1 + 1 : b[i] = a[1 + i - 1]
    BY <1>1, <1>2, SubSeqProperties
  <1> HIDE DEF b
  <1>4. \A u \in 1 .. 2 : b[u] = a[u]
    <2>1. \A u \in 1 .. 2 : b[u] = a[1 + u - 1] /\ 1 + u - 1 = u
      BY <1>3
    <2> QED BY <2>1
  <1> QED BY <1>3, <1>4 DEF b

LEMMA CompilePreambleOwned ==
  ASSUME MemoryOwned, NEW c \in Clients, CompilePreamble(c)
  PROVE  MemoryOwned'
  <1>0. PICK n : n = compilations + 1
    OBVIOUS
  <1> DEFINE i  == invocations[c]
             known == DOMAIN preambles
             s0 == StateFromNothing(n, i.config)
             s  == DoParse(DoPreprocess(s0, SystemPreamble, SystemText(i)), SystemPreamble)
             t  == DoParse(DoPreprocess(s, UserPreamble, i.userPreamble), UserPreamble)
             o  == [config |-> i.config, systemPreamble |-> SystemText(i),
                    userPreamble |-> i.userPreamble, atoms |-> t.atoms, macros |-> t.macros,
                    symbols |-> t.symbols, artifacts |-> SubSeq(t.artifacts, 1, 2)]
  <1>1. /\ compilations \in Nat /\ n \in Nat
        /\ n \notin DOMAIN levels /\ n \notin known
        /\ 1 .. compilations \subseteq 1 .. n /\ n \in 1 .. n
        /\ \A k \in 1 .. compilations : k # n
    <2>1. compilations \in Nat /\ DOMAIN levels \subseteq 1 .. compilations
      BY DEF MemoryOwned
    <2>2. known \subseteq 1 .. compilations
      BY DEF MemoryOwned, PreambleOwned
    <2> QED BY <1>0, <2>1, <2>2
  <1>2. i \in Invoked(known) /\ c \in DOMAIN invocations
    BY DEF MemoryOwned, IsTable, CompilePreamble, Ready, Has
  <1>3. SystemText(i) \in Seq(Item) /\ i.config \in Config /\ i.userPreamble \in Seq(Item)
    BY <1>2, SystemTextIsText DEF Invoked
  <1>4. Owned(t, {n}) /\ SameBase(s0, t)
    BY <1>1, <1>3, PreambleTablesOwned
  <1>5. s0.symbols = <<n>> /\ s0.levels = Added(levels, n, <<>>)
    BY <1>1, <1>3, FromNothingOwned
  <1>6. /\ preambles' = Added(preambles, n, o) /\ levels' = t.levels
        /\ compilations' = n /\ held' = held \cup {n}
        /\ invocations' = [invocations EXCEPT ![c] = Used(i)] /\ results' = results
    BY <1>0 DEF CompilePreamble
  <1> HIDE DEF s0, t, known, i
  <1>7. /\ t.symbols = <<n>> /\ DOMAIN t.levels = DOMAIN levels \cup {n}
        /\ \A k \in DOMAIN levels : t.levels[k] = levels[k]
    <2>1. t.symbols = <<n>> /\ DOMAIN t.levels = DOMAIN s0.levels
          /\ \A k \in DOMAIN s0.levels : k # Last(<<n>>) => t.levels[k] = s0.levels[k]
      BY <1>4, <1>5 DEF SameBase
    <2>2. Last(<<n>>) = n
      BY DEF Last
    <2> QED BY <1>1, <1>5, <2>1, <2>2 DEF Added
  <1>8. IsTable(t.levels[n], Name, Decls({n})) /\ t.levels = [k \in DOMAIN t.levels |-> t.levels[k]]
    BY <1>4, <1>7 DEF Owned, LevelsOwned
  <1>9. IsAtomTable(t.atoms, {n}) /\ IsTable(t.macros, Atoms({n}), Atoms({n}))
        /\ t.artifacts \in [1 .. 3 -> Artifact({n})]
    BY <1>4 DEF Owned, StateOwned
  <1>10. SubSeq(t.artifacts, 1, 2) \in Seq(Artifact({n})) /\ Len(SubSeq(t.artifacts, 1, 2)) = 2
    BY <1>9, FirstTwo
  <1> DEFINE known2 == DOMAIN preambles'
  <1>11. /\ known2 = known \cup {n} /\ preambles'[n] = o
         /\ \A p \in known : preambles'[p] = preambles[p]
         /\ preambles' = [p \in known2 |-> preambles'[p]]
    BY <1>1, <1>6 DEF Added, known
  <1>12. PreambleOwned(n)'
    <2>1. /\ o.config \in Config /\ o.systemPreamble \in Seq(Item) /\ o.userPreamble \in Seq(Item)
          /\ IsAtomTable(o.atoms, {n}) /\ IsTable(o.macros, Atoms({n}), Atoms({n}))
          /\ o.artifacts \in Seq(Artifact({n})) /\ Len(o.artifacts) = 2 /\ o.symbols = <<n>>
      BY <1>3, <1>7, <1>9, <1>10
    <2> HIDE DEF o
    <2>2. n \in DOMAIN levels' /\ IsTable(levels'[n], Name, Decls({n})) /\ n \in 1 .. compilations'
      BY <1>1, <1>6, <1>7, <1>8
    <2>3. preambles'[n] = o
      BY <1>11
    <2> DEFINE v == preambles'[n]
    <2>4. /\ v.config \in Config /\ v.systemPreamble \in Seq(Item) /\ v.userPreamble \in Seq(Item)
          /\ IsAtomTable(v.atoms, {n}) /\ IsTable(v.macros, Atoms({n}), Atoms({n}))
          /\ v.artifacts \in Seq(Artifact({n})) /\ Len(v.artifacts) = 2 /\ v.symbols = <<n>>
      BY <2>1, <2>3
    <2> QED BY <2>2, <2>4, Zenon DEF PreambleOwned
  <1> HIDE DEF o
  <1>13. ASSUME NEW p \in known PROVE PreambleOwned(p)'
    <2>1. PreambleOwned(p)
      BY DEF MemoryOwned, known
    <2>2. p \in DOMAIN levels /\ levels'[p] = levels[p] /\ p \in DOMAIN levels'
      BY <1>6, <1>7, <2>1 DEF PreambleOwned
    <2> QED BY <1>1, <1>6, <1>11, <2>1, <2>2 DEF PreambleOwned
  <1>14. IsTable(invocations', Clients, Invoked(known2))
    <2>1. IsTable(invocations, Clients, Invoked(known))
      BY DEF MemoryOwned, known
    <2>2. Invoked(known) \subseteq Invoked(known2)
      BY <1>11 DEF Invoked
    <2>3. IsTable(invocations, Clients, Invoked(known2))
      BY <2>1, <2>2 DEF IsTable
    <2>4. Used(i) \in Invoked(known2)
      BY <1>2, <2>2, UsedIsInvocation
    <2> HIDE DEF known2
    <2> QED BY <1>2, <1>6, <2>3, <2>4, InvocationSet
  <1>15. ASSUME NEW r \in DOMAIN results PROVE ResultOwned(r)'
    <2>1. ResultOwned(r)
      BY DEF MemoryOwned
    <2> QED BY <1>1, <1>6, <1>11, <2>1 DEF ResultOwned, known
  <1>16. held' \subseteq known2
    BY <1>6, <1>11 DEF MemoryOwned, known
  <1>17. DOMAIN levels' \subseteq 1 .. compilations' /\ levels' = [k \in DOMAIN levels' |-> levels'[k]]
    BY <1>1, <1>6, <1>7, <1>8 DEF MemoryOwned
  <1>18. results' = [r \in DOMAIN results' |-> results'[r]]
    BY <1>6 DEF MemoryOwned
  <1>19. \A p \in known2 : PreambleOwned(p)'
    <2>1. known2 = known \cup {n}
      BY <1>11
    <2> HIDE DEF known2
    <2> QED BY <2>1, <1>12, <1>13, Zenon
  <1>20. \A r \in DOMAIN results' : ResultOwned(r)'
    BY <1>6, <1>15
  <1>21. compilations' \in Nat
    BY <1>1, <1>6
  <1>22. preambles' = [p \in DOMAIN preambles' |-> preambles'[p]]
    BY <1>11
  <1> QED BY <1>14, <1>16, <1>17, <1>18, <1>19, <1>20, <1>21, <1>22 DEF MemoryOwned

\* A level goes from the state to nothing when the compilation ends.
LEMMA MainFileOwned ==
  ASSUME MemoryOwned, NEW n, n = compilations + 1, NEW i \in Invoked(DOMAIN preambles), i.main # NoText
  PROVE  LET p == Preprocessed(i, n)
         IN  \A s \in {p, Parsed(i, p)} :
                /\ Owned(s, MemoryOf(n, i.preamble)) /\ s.preamble = i.preamble
                /\ DOMAIN s.levels = DOMAIN levels \cup {n}
                /\ \A k \in DOMAIN levels : s.levels[k] = levels[k]
  <1> DEFINE own == MemoryOf(n, i.preamble)
             p == Preprocessed(i, n)
             q == Parsed(i, p)
  <1>1. n \in Nat /\ n \notin DOMAIN levels
    BY DEF MemoryOwned
  <1>2. i.config \in Config /\ SystemText(i) \in Seq(Item) /\ i.userPreamble \in Seq(Item) /\ i.main \in Seq(Item)
    BY SystemTextIsText, TextAssumption DEF Invoked
  <1>3. SystemPreamble \in 1 .. 3 /\ UserPreamble \in 1 .. 3 /\ UserFile \in 1 .. 3
    BY DEF SystemPreamble, UserPreamble, UserFile
  <1> DEFINE Good(s, base) == /\ Owned(s, own) /\ SameBase(base, s)
             base == IF i.preamble = None THEN StateFromNothing(n, i.config)
                     ELSE StateWithPreamble(n, i.preamble)
  <1>4. /\ Owned(base, own) /\ base.preamble = i.preamble
        /\ Last(base.symbols) = n /\ base.levels = Added(levels, n, <<>>)
    <2>1. CASE i.preamble = None
      <3>1. own = {n}
        BY <2>1 DEF MemoryOf
      <3> DEFINE s == StateFromNothing(n, i.config)
      <3>2. /\ Owned(s, {n}) /\ s.preamble = None /\ s.symbols = <<n>>
            /\ s.levels = Added(levels, n, <<>>)
        BY <1>1, <1>2, FromNothingOwned
      <3> HIDE DEF s
      <3>3. Last(<<n>>) = n
        BY DEF Last
      <3>4. base = s
        BY <2>1 DEF s
      <3> QED BY <2>1, <3>1, <3>2, <3>3, <3>4
    <2>2. CASE i.preamble # None
      <3>1. own = {n, i.preamble} /\ PreambleOwned(i.preamble) /\ compilations \in Nat
        BY <2>2 DEF MemoryOf, MemoryOwned, Invoked
      <3> DEFINE s == StateWithPreamble(n, i.preamble)
      <3>2. /\ Owned(s, {n, i.preamble}) /\ s.preamble = i.preamble /\ s.symbols = <<i.preamble, n>>
            /\ s.levels = Added(levels, n, <<>>)
        BY <1>1, <3>1, WithPreambleOwned
      <3> HIDE DEF s
      <3>3. Last(<<i.preamble, n>>) = n
        BY DEF Last
      <3>4. base = s
        BY <2>2 DEF s
      <3> QED BY <2>2, <3>1, <3>2, <3>3, <3>4
    <2> QED BY <2>1, <2>2
  <1> HIDE DEF base, own
  <1>5. ASSUME NEW s, Good(s, base), NEW unit \in 1 .. 3
        PROVE  /\ \A text \in Seq(Item) : Good(DoPreprocess(s, unit, text), base)
               /\ Good(DoParse(s, unit), base)
    <2>1. Owned(s, own) /\ SameBase(base, s)
      BY <1>5
    <2>2. \A text \in Seq(Item) : Owned(DoPreprocess(s, unit, text), own) /\ SameBase(s, DoPreprocess(s, unit, text))
      BY <2>1, PreprocessOwned
    <2>3. Owned(DoParse(s, unit), own) /\ SameBase(s, DoParse(s, unit))
      BY <2>1, ParseOwned
    <2> QED BY <2>1, <2>2, <2>3, SameBaseTransitive
  <1>6. Good(base, base)
    BY <1>4 DEF SameBase
  <1>7. Good(p, base)
    <2>1. CASE i.preamble # None
      <3>1. p = DoPreprocess(base, UserFile, i.main)
        BY <2>1 DEF Preprocessed, base
      <3> QED BY <1>2, <1>3, <1>5, <1>6, <3>1
    <2>2. CASE i.preamble = None
      <3> DEFINE s == DoPreprocess(base, SystemPreamble, SystemText(i))
                 t == DoPreprocess(s, UserPreamble, i.userPreamble)
      <3>1. p = DoPreprocess(t, UserFile, i.main)
        BY <2>2 DEF Preprocessed, base
      <3>2. Good(s, base)
        BY <1>2, <1>3, <1>5, <1>6
      <3> HIDE DEF s
      <3>3. Good(t, base)
        BY <1>2, <1>3, <1>5, <3>2
      <3> HIDE DEF t, Good, p
      <3>4. Good(DoPreprocess(t, UserFile, i.main), base)
        BY <1>2, <1>3, <1>5, <3>3
      <3> QED BY <3>1, <3>4
    <2> QED BY <2>1, <2>2
  <1> HIDE DEF p
  <1>8. Good(q, base)
    <2>1. CASE i.preamble # None
      <3>1. q = DoParse(p, UserFile)
        BY <2>1 DEF Parsed
      <3> QED BY <1>3, <1>5, <1>7, <3>1
    <2>2. CASE i.preamble = None
      <3> DEFINE s == DoParse(p, SystemPreamble)
                 t == DoParse(s, UserPreamble)
      <3>1. q = DoParse(t, UserFile)
        BY <2>2 DEF Parsed
      <3>2. Good(s, base)
        BY <1>3, <1>5, <1>7
      <3> HIDE DEF s
      <3>3. Good(t, base)
        BY <1>3, <1>5, <3>2
      <3> HIDE DEF t, Good, q
      <3>4. Good(DoParse(t, UserFile), base)
        BY <1>3, <1>5, <3>3
      <3> QED BY <3>1, <3>4
    <2> QED BY <2>1, <2>2
  <1> HIDE DEF q
  <1>9. ASSUME NEW s \in {p, q}
        PROVE  /\ Owned(s, own) /\ s.preamble = i.preamble
               /\ DOMAIN s.levels = DOMAIN levels \cup {n}
               /\ \A k \in DOMAIN levels : s.levels[k] = levels[k]
    <2>1. Owned(s, own) /\ SameBase(base, s)
      BY <1>7, <1>8
    <2>2. DOMAIN base.levels = DOMAIN levels \cup {n} /\ \A k \in DOMAIN levels : base.levels[k] = levels[k] /\ k # n
      BY <1>1, <1>4 DEF Added
    <2> QED BY <1>4, <2>1, <2>2 DEF SameBase
  <1> QED BY <1>9 DEF p, q, own

LEMMA CompileMainFileOwned ==
  ASSUME MemoryOwned, NEW c \in Clients, CompileMainFile(c)
  PROVE  MemoryOwned'
  <1>0. PICK n : n = compilations + 1
    OBVIOUS
  <1> DEFINE i  == invocations[c]
             known == DOMAIN preambles
             texts == Texts(i)
  <1>1. /\ n \in Nat /\ n \notin DOMAIN levels /\ n \notin DOMAIN results
        /\ 1 .. compilations \subseteq 1 .. n /\ n \in 1 .. n /\ DOMAIN levels \subseteq 1 .. compilations
    <2>1. compilations \in Nat /\ DOMAIN levels \subseteq 1 .. compilations
      BY DEF MemoryOwned
    <2>2. \A r \in DOMAIN results : r \in 1 .. compilations
      BY DEF MemoryOwned, ResultOwned
    <2> QED BY <1>0, <2>1, <2>2
  <1>2. i \in Invoked(known) /\ c \in DOMAIN invocations /\ i.main # NoText
    BY DEF MemoryOwned, IsTable, CompileMainFile, Ready, Has
  <1>3. PICK s \in {Preprocessed(i, n), Parsed(i, Preprocessed(i, n))} :
           /\ results' = Added(results, n, CreateCompileResult(s, texts))
           /\ levels' = [k \in DOMAIN s.levels \ {n} |-> s.levels[k]]
    <2>1. \E mode \in {"ParseOnly", "PreprocessOnly"} :
             LET p == Preprocessed(i, n)
                 s == IF mode = "ParseOnly" THEN Parsed(i, p) ELSE p
             IN  /\ results' = Added(results, n, CreateCompileResult(s, Texts(i)))
                 /\ levels' = [k \in DOMAIN s.levels \ {n} |-> s.levels[k]]
      BY <1>0 DEF CompileMainFile
    <2> QED BY <2>1
  <1>4. /\ compilations' = n /\ preambles' = preambles /\ held' = held
        /\ invocations' = [invocations EXCEPT ![c] = Used(i)]
    BY <1>0 DEF CompileMainFile
  <1> DEFINE own == MemoryOf(n, i.preamble)
  <1>5. /\ Owned(s, own) /\ s.preamble = i.preamble
        /\ DOMAIN s.levels = DOMAIN levels \cup {n}
        /\ \A k \in DOMAIN levels : s.levels[k] = levels[k]
    BY <1>0, <1>2, MainFileOwned
  <1>6. i.preamble \in {None} \cup known
    BY <1>2 DEF Invoked
  <1> HIDE DEF i, known, texts
  <1>7. levels' = levels
    <2>1. levels = [k \in DOMAIN levels |-> levels[k]]
      BY DEF MemoryOwned
    <2> QED BY <1>1, <1>3, <1>5, <2>1
  <1> DEFINE o == CreateCompileResult(s, texts)
  <1>8. /\ o.base = o.preamble /\ o.preamble \in {None} \cup known
        /\ IsAtomTable(o.atoms, MemoryOf(n, o.preamble))
        /\ o.artifacts \in [1 .. 3 -> Artifact(MemoryOf(n, o.preamble))]
    BY <1>5, <1>6 DEF CreateCompileResult, Owned, StateOwned
  <1> HIDE DEF o
  <1>9. /\ DOMAIN results' = DOMAIN results \cup {n} /\ results'[n] = o
        /\ \A r \in DOMAIN results : results'[r] = results[r]
        /\ results' = [r \in DOMAIN results' |-> results'[r]]
    BY <1>1, <1>3 DEF Added, o
  <1>10. ResultOwned(n)'
    BY <1>1, <1>4, <1>8, <1>9 DEF ResultOwned, known
  <1>11. ASSUME NEW r \in DOMAIN results PROVE ResultOwned(r)'
    <2>1. ResultOwned(r)
      BY DEF MemoryOwned
    <2> QED BY <1>1, <1>4, <1>9, <2>1 DEF ResultOwned
  <1>12. ASSUME NEW p \in DOMAIN preambles PROVE PreambleOwned(p)'
    <2>1. PreambleOwned(p)
      BY DEF MemoryOwned
    <2> QED BY <1>1, <1>4, <1>7, <2>1 DEF PreambleOwned
  <1>13. IsTable(invocations', Clients, Invoked(known))
    <2>1. IsTable(invocations, Clients, Invoked(known))
      BY DEF MemoryOwned, known
    <2>2. Used(i) \in Invoked(known)
      BY <1>2, UsedIsInvocation
    <2> QED BY <1>2, <1>4, <2>1, <2>2, InvocationSet
  <1>14. \A r \in DOMAIN results' : ResultOwned(r)'
    <2>1. DOMAIN results' = DOMAIN results \cup {n}
      BY <1>9
    <2> QED BY <1>10, <1>11, <2>1
  <1>15. \A p \in DOMAIN preambles' : PreambleOwned(p)'
    BY <1>4, <1>12
  <1>16. /\ compilations' \in Nat /\ held' \subseteq DOMAIN preambles'
         /\ preambles' = [p \in DOMAIN preambles' |-> preambles'[p]]
         /\ levels' = [k \in DOMAIN levels' |-> levels'[k]]
         /\ DOMAIN levels' \subseteq 1 .. compilations'
    BY <1>1, <1>4, <1>7 DEF MemoryOwned
  <1>17. IsTable(invocations', Clients, Invoked(DOMAIN preambles'))
    BY <1>4, <1>13 DEF known
  <1>18. results' = [r \in DOMAIN results' |-> results'[r]]
    BY <1>9
  <1> QED BY <1>14, <1>15, <1>16, <1>17, <1>18 DEF MemoryOwned

LEMMA NextOwned ==
  ASSUME MemoryOwned, CompileNext \/ UNCHANGED compileVars
  PROVE  MemoryOwned'
  <1>1. ASSUME NEW c \in Clients, CompilePreamble(c) PROVE MemoryOwned'
    BY <1>1, CompilePreambleOwned
  <1>2. ASSUME NEW c \in Clients, CompileMainFile(c) PROVE MemoryOwned'
    BY <1>2, CompileMainFileOwned
  <1>3. ASSUME NEW c \in Clients,
               \/ NewInvocation(c)
               \/ ApplyLanguageConfig(c) \/ SetShaderStage(c) \/ SetNoStdlib(c)
               \/ SetUserPreamble(c) \/ SetMainFile(c) \/ ScanVersionAndExtension(c)
               \/ DestroyInvocation(c)
        PROVE  MemoryOwned'
    BY <1>3, SetupOwned
  <1>4. CASE ReleasePreamble
    <2>1. UNCHANGED <<compilations, preambles, results, levels, invocations>> /\ held' \subseteq held
      BY <1>4 DEF ReleasePreamble, compiled
    <2>2. \A p \in DOMAIN preambles : PreambleOwned(p)'
      BY <2>1 DEF MemoryOwned, PreambleOwned
    <2>3. \A r \in DOMAIN results : ResultOwned(r)'
      BY <2>1 DEF MemoryOwned, ResultOwned
    <2> QED BY <2>1, <2>2, <2>3 DEF MemoryOwned
  <1>5. CASE DestroyResult
    <2>1. /\ UNCHANGED <<compilations, preambles, levels, invocations, held>>
          /\ DOMAIN results' \subseteq DOMAIN results
          /\ \A r \in DOMAIN results' : results'[r] = results[r]
          /\ results' = [r \in DOMAIN results' |-> results'[r]]
      BY <1>5 DEF DestroyResult
    <2>2. \A p \in DOMAIN preambles : PreambleOwned(p)'
      BY <2>1 DEF MemoryOwned, PreambleOwned
    <2>3. ASSUME NEW r \in DOMAIN results' PROVE ResultOwned(r)'
      <3>1. ResultOwned(r)
        BY <2>1 DEF MemoryOwned
      <3> QED BY <2>1, <3>1 DEF ResultOwned
    <2> QED BY <2>1, <2>2, <2>3 DEF MemoryOwned
  <1>6. CASE UNCHANGED compileVars
    <2>1. UNCHANGED <<compilations, preambles, results, levels, invocations, held>>
      BY <1>6 DEF compileVars
    <2>2. UNCHANGED <<compiled, held>> /\ IsTable(invocations', Clients, Invoked(DOMAIN preambles))
      BY <2>1 DEF compiled, MemoryOwned
    <2> QED BY <2>2, CompiledStays
  <1>7. CASE CompileNext
    BY <1>1, <1>2, <1>3, <1>4, <1>5, <1>7 DEF CompileNext
  <1> QED BY <1>6, <1>7

\* Every table, artifact and level points into the memory of its compilation and,
\* for a result, of the preamble it keeps.  (CompilerInvocationState, AtomTable,
\* CreatePreamble, CreateCompileResult)
THEOREM CompilationsOwnMemory == CompileSpec => []MemoryOwned
  <1>1. MemoryOwned /\ [CompileNext]_compileVars => MemoryOwned'
    BY NextOwned
  <1> QED BY <1>1, InitOwned, PTL DEF CompileSpec

\* Whatever lives only points into what lives, for any texts and any number of
\* compilations.  (CreateCompileResult, CreatePreamble, AtomTable, SymbolTable)
THEOREM NothingEverDangles == CompileSpec => []NothingDangles
  BY CompilationsOwnMemory, OwnedNeverDangles, PTL
-----------------------------------------------------------------------------
(* What the texts of a compilation, read as one, mean.                      *)

Entry == [unit : 1 .. 3, item : Item]

LEMMA EntryOf ==
  ASSUME NEW text \in Seq(Entry), NEW i \in 1 .. Len(text)
  PROVE  /\ text[i].unit \in 1 .. 3 /\ text[i].item \in Item
         /\ Len(text) \in Nat /\ i \in Nat
  <1>1. text[i] \in Entry /\ Len(text) \in Nat
    BY ElementOfSeq, LenProperties
  <1> QED BY <1>1 DEF Entry

\* The definitions before the next item.
LEMMA DefinitionsStep ==
  ASSUME NEW text, NEW i \in Nat, i # 0, NEW word
  PROVE  /\ DefinitionsBefore(text, i, word) \in SUBSET (1 .. i - 1)
         /\ DefinitionsBefore(text, i + 1, word) =
               DefinitionsBefore(text, i, word)
                  \cup (IF text[i].item.op = "define" /\ text[i].item.name = word THEN {i} ELSE {})
  BY DEF DefinitionsBefore

LEMMA MinSame ==
  ASSUME NEW S \in SUBSET Nat, NEW m \in S, \A k \in S : m <= k
  PROVE  Min(S) = m
  <1>1. Min(S) \in S /\ \A k \in S : Min(S) <= k
    BY MinIsLeast
  <1>2. Min(S) \in Nat /\ m \in Nat /\ Min(S) <= m /\ m <= Min(S)
    BY <1>1
  <1> QED BY <1>2

\* Only the first definition of a word that is no feature macro matters.
LEMMA ReplacementStep ==
  ASSUME NEW config, NEW text, NEW i \in Nat, i # 0, NEW word
  PROVE  LET defines == text[i].item.op = "define" /\ text[i].item.name = word
         IN  /\ IsDefinedBefore(config, text, i + 1, word) <=>
                   IsDefinedBefore(config, text, i, word) \/ defines
             /\ IsDefinedBefore(config, text, i, word) \/ ~defines =>
                   Replacement(config, text, i + 1, word) = Replacement(config, text, i, word)
             /\ ~IsDefinedBefore(config, text, i, word) =>
                   Replacement(config, text, i, word) = word
             /\ ~IsDefinedBefore(config, text, i, word) /\ defines =>
                   Replacement(config, text, i + 1, word) = text[i].item.body
  <1> DEFINE D == DefinitionsBefore(text, i, word)
             E == DefinitionsBefore(text, i + 1, word)
             defines == text[i].item.op = "define" /\ text[i].item.name = word
  <1>1. D \in SUBSET (1 .. i - 1) /\ E = D \cup (IF defines THEN {i} ELSE {})
    BY DefinitionsStep
  <1>2. /\ IsDefinedBefore(config, text, i, word) <=> word \in FeatureMacros(config) \/ D # {}
        /\ IsDefinedBefore(config, text, i + 1, word) <=> word \in FeatureMacros(config) \/ E # {}
        /\ Replacement(config, text, i, word) =
              IF word \in FeatureMacros(config) THEN "1" ELSE IF D = {} THEN word ELSE text[Min(D)].item.body
        /\ Replacement(config, text, i + 1, word) =
              IF word \in FeatureMacros(config) THEN "1" ELSE IF E = {} THEN word ELSE text[Min(E)].item.body
    BY DEF IsDefinedBefore, Replacement
  <1> HIDE DEF D, E, defines
  <1>3. CASE ~defines
    <2>1. E = D
      BY <1>1, <1>3
    <2> QED BY <1>2, <1>3, <2>1 DEF defines
  <1>4. CASE defines /\ D # {}
    <2>1. Min(D) \in D /\ \A k \in D : Min(D) <= k
      <3>1. D \in SUBSET Nat
        BY <1>1
      <3> QED BY <1>4, <3>1, MinIsLeast
    <2>2. E \in SUBSET Nat /\ Min(D) \in E /\ \A k \in E : Min(D) <= k
      <3>1. Min(D) \in 1 .. i - 1
        BY <1>1, <2>1
      <3>2. \A k \in E : k \in D \/ k = i
        BY <1>1
      <3> QED BY <1>1, <2>1, <3>1, <3>2
    <2>3. Min(E) = Min(D)
      BY <2>2, MinSame
    <2>4. E # {}
      BY <2>2
    <2> QED BY <1>2, <1>4, <2>3, <2>4 DEF defines
  <1>5. CASE defines /\ D = {}
    <2>1. E = {i}
      BY <1>1, <1>5
    <2>2. Min(E) = i
      BY <2>1, MinSame
    <2>3. E # {}
      BY <2>1
    <2> QED BY <1>2, <1>5, <2>2, <2>3 DEF defines
  <1> QED BY <1>3, <1>4, <1>5

\* Nothing is defined before the text but the feature macros.
LEMMA NothingBefore ==
  ASSUME NEW config, NEW text, NEW word
  PROVE  /\ IsDefinedBefore(config, text, 1, word) <=> word \in FeatureMacros(config)
         /\ word \in FeatureMacros(config) => Replacement(config, text, 1, word) = "1"
  <1>1. DefinitionsBefore(text, 1, word) = {}
    BY DEF DefinitionsBefore
  <1> QED BY <1>1 DEF IsDefinedBefore, Replacement

\* A unit has one more token, or not.
LEMMA MeantTokensStep ==
  ASSUME NEW config, NEW text, NEW i \in Nat, i # 0, NEW u
  PROVE  LET before == MeantTokens(config, text, u, i - 1)
             after  == MeantTokens(config, text, u, i)
         IN  /\ IsFiniteSet(before) /\ Cardinality(before) \in Nat /\ Cardinality(after) \in Nat
             /\ ~(text[i].unit = u /\ IsMeant(config, text, i)) =>
                   after = before /\ Cardinality(after) = Cardinality(before)
             /\ text[i].unit = u /\ IsMeant(config, text, i) =>
                   /\ Cardinality(after) = Cardinality(before) + 1
                   /\ TokenIndex(config, text, i) = Cardinality(before) + 1
  <1> DEFINE before == MeantTokens(config, text, u, i - 1)
             after  == MeantTokens(config, text, u, i)
  <1>1. /\ after = before \cup (IF text[i].unit = u /\ IsMeant(config, text, i) THEN {i} ELSE {})
        /\ before \subseteq 1 .. i - 1 /\ after \subseteq 1 .. i
    BY DEF MeantTokens
  <1>2. IsFiniteSet(1 .. i - 1) /\ IsFiniteSet(1 .. i)
    BY FS_Interval
  <1>3. i \notin before
    BY <1>1
  <1>4. TokenIndex(config, text, i) = Cardinality(MeantTokens(config, text, text[i].unit, i))
    BY DEF TokenIndex
  <1> HIDE DEF before, after
  <1>5. IsFiniteSet(before) /\ IsFiniteSet(after)
    BY <1>1, <1>2, FS_Subset
  <1>6. Cardinality(before) \in Nat /\ Cardinality(after) \in Nat
    BY <1>5, FS_CardinalityType
  <1>7. CASE text[i].unit = u /\ IsMeant(config, text, i)
    <2>1. after = before \cup {i}
      BY <1>1, <1>7
    <2>2. Cardinality(after) = Cardinality(before) + 1
      BY <1>3, <1>5, <2>1, FS_AddElement
    <2>3. TokenIndex(config, text, i) = Cardinality(after)
      BY <1>4, <1>7 DEF after
    <2> QED BY <1>5, <1>6, <1>7, <2>2, <2>3 DEF before, after
  <1>8. CASE ~(text[i].unit = u /\ IsMeant(config, text, i))
    <2>1. after = before
      BY <1>1, <1>8
    <2> QED BY <1>5, <1>6, <1>8, <2>1 DEF before, after
  <1> QED BY <1>7, <1>8

\* The tokens of an index are counted among those up to a later one.
LEMMA TokenIndexBounds ==
  ASSUME NEW config, NEW text, NEW i \in Nat, NEW j \in 1 .. i, IsMeant(config, text, j)
  PROVE  TokenIndex(config, text, j) \in 1 .. Cardinality(MeantTokens(config, text, text[j].unit, i))
  <1> DEFINE S == MeantTokens(config, text, text[j].unit, j)
             T == MeantTokens(config, text, text[j].unit, i)
  <1>1. S \subseteq T /\ T \subseteq 1 .. i /\ j \in S
    BY DEF MeantTokens
  <1>2. TokenIndex(config, text, j) = Cardinality(S)
    BY DEF TokenIndex
  <1> HIDE DEF S, T
  <1>3. IsFiniteSet(T)
    <2>1. IsFiniteSet(1 .. i)
      BY FS_Interval
    <2> QED BY <1>1, <2>1, FS_Subset
  <1>4. IsFiniteSet(S) /\ Cardinality(S) <= Cardinality(T)
    BY <1>1, <1>3, FS_Subset
  <1>5. Cardinality(S) \in Nat /\ Cardinality(T) \in Nat /\ Cardinality(S) # 0
    BY <1>1, <1>3, <1>4, FS_CardinalityType, FS_EmptySet
  <1> QED BY <1>2, <1>4, <1>5 DEF T

-----------------------------------------------------------------------------
(* What a text means, and what the preprocessor makes of it.                *)

\* A word has one atom.
Known(atoms, atom) == Word(atom) \in DOMAIN atoms /\ atoms[Word(atom)] = atom

\* The words that are macros after index i.
Defined(config, text, i) ==
    FeatureMacros(config)
        \cup {text[j].item.name : j \in {k \in 1 .. i : text[k].item.op = "define"}}

MacrosMeant(atoms, macros, config, text, i) ==
    /\ \A a \in DOMAIN macros :
           /\ Known(atoms, a) /\ Known(atoms, macros[a])
           /\ IsDefinedBefore(config, text, i + 1, Word(a))
           /\ Word(macros[a]) = Replacement(config, text, i + 1, Word(a))
    /\ \A w \in Defined(config, text, i) : w \in DOMAIN atoms /\ atoms[w] \in DOMAIN macros

TokensMeant(atoms, artifacts, units, config, text, i) ==
    /\ \A u \in units :
           /\ Len(artifacts[u].tokens) = Cardinality(MeantTokens(config, text, u, i))
           /\ \A k \in DOMAIN artifacts[u].tokens : Known(atoms, artifacts[u].tokens[k].atom)
    /\ \A j \in 1 .. i : IsMeant(config, text, j) =>
           LET token == artifacts[text[j].unit].tokens[TokenIndex(config, text, j)]
           IN  token.op = text[j].item.op /\ Word(token.atom) = MeantWord(config, text, j)

PreprocessedTo(s, text, i) ==
    /\ MacrosMeant(s.atoms, s.macros, s.config, text, i)
    /\ TokensMeant(s.atoms, s.artifacts, 1 .. 3, s.config, text, i)

LEMMA DefinedAre ==
  ASSUME NEW config, NEW text, NEW i \in Nat, NEW word
  PROVE  word \in Defined(config, text, i) <=> IsDefinedBefore(config, text, i + 1, word)
  BY DEF Defined, IsDefinedBefore, DefinitionsBefore

\* A macro is found by the word, interned or not.
LEMMA MacroFound ==
  ASSUME NEW own, NEW s, StateOwned(s, own), NEW text, NEW i \in Nat,
         MacrosMeant(s.atoms, s.macros, s.config, text, i), NEW word \in Name
  PROVE  /\ IsMacroDefined(s, word) <=> IsDefinedBefore(s.config, text, i + 1, word)
         /\ <<s.memory, word>> \in DOMAIN s.macros => word \in DOMAIN s.atoms
         /\ word \in DOMAIN s.atoms =>
               (s.atoms[word] \in DOMAIN s.macros <=> IsDefinedBefore(s.config, text, i + 1, word))
  <1> DEFINE t == Intern(s, word)
  <1>1. /\ \A w \in DOMAIN s.atoms : t.atoms[w] = s.atoms[w]
        /\ word \notin DOMAIN s.atoms => t.atoms[word] = <<s.memory, word>>
        /\ GetAtom(s, word) = t.atoms[word]
    BY InternKeeps
  <1> HIDE DEF t
  <1>2. \A w \in DOMAIN s.atoms : Word(s.atoms[w]) = w
    BY DEF StateOwned, IsAtomTable
  <1>3. Word(<<s.memory, word>>) = word
    BY DEF Word
  <1>4. <<s.memory, word>> \in DOMAIN s.macros => word \in DOMAIN s.atoms
    BY <1>3 DEF MacrosMeant, Known
  <1>5. word \in DOMAIN s.atoms =>
               (s.atoms[word] \in DOMAIN s.macros <=> IsDefinedBefore(s.config, text, i + 1, word))
    BY <1>2, DefinedAre DEF MacrosMeant
  <1>6. IsDefinedBefore(s.config, text, i + 1, word) => word \in DOMAIN s.atoms
    BY DefinedAre DEF MacrosMeant
  <1> QED BY <1>1, <1>4, <1>5, <1>6 DEF IsMacroDefined

\* A definition means what the text says.
LEMMA DefineMeant ==
  ASSUME NEW own, NEW s, StateOwned(s, own), NEW text \in Seq(Entry), NEW i \in 1 .. Len(text),
         MacrosMeant(s.atoms, s.macros, s.config, text, i - 1),
         NEW t, StateOwned(t, own), t.config = s.config, t.memory = s.memory,
         \A w \in DOMAIN s.atoms : w \in DOMAIN t.atoms /\ t.atoms[w] = s.atoms[w],
         \A w \in DOMAIN t.atoms \ DOMAIN s.atoms : t.atoms[w] = <<s.memory, w>>,
         text[i].item.op = "define" =>
               /\ text[i].item.name \in DOMAIN t.atoms /\ text[i].item.body \in DOMAIN t.atoms
               /\ t.macros = Added(s.macros, t.atoms[text[i].item.name], t.atoms[text[i].item.body]),
         text[i].item.op # "define" => t.macros = s.macros
  PROVE  MacrosMeant(t.atoms, t.macros, t.config, text, i)
  <1> DEFINE item == text[i].item
             config == s.config
  <1>1. item \in Item /\ i \in Nat /\ i # 0 /\ i - 1 \in Nat /\ (i - 1) + 1 = i
    BY EntryOf
  <1>2. \A w \in DOMAIN t.atoms : Word(t.atoms[w]) = w
    BY DEF StateOwned, IsAtomTable
  <1>3. ASSUME NEW a \in DOMAIN s.macros
        PROVE  /\ Known(t.atoms, a) /\ Known(t.atoms, s.macros[a])
               /\ IsDefinedBefore(config, text, i, Word(a))
               /\ IsDefinedBefore(config, text, i + 1, Word(a))
               /\ Word(s.macros[a]) = Replacement(config, text, i + 1, Word(a))
    <2>1. /\ Known(s.atoms, a) /\ Known(s.atoms, s.macros[a])
          /\ IsDefinedBefore(config, text, i, Word(a))
          /\ Word(s.macros[a]) = Replacement(config, text, i, Word(a))
      BY <1>1, <1>3 DEF MacrosMeant
    <2>2. Known(t.atoms, a) /\ Known(t.atoms, s.macros[a])
      BY <2>1 DEF Known
    <2> QED BY <1>1, <2>1, <2>2, ReplacementStep
  <1>4. ASSUME NEW w \in Defined(config, text, i - 1)
        PROVE  w \in DOMAIN t.atoms /\ t.atoms[w] \in DOMAIN s.macros
    BY <1>4 DEF MacrosMeant
  <1>5. \A w : w \in Defined(config, text, i) <=>
                   w \in Defined(config, text, i - 1) \/ (item.op = "define" /\ item.name = w)
    <2> TAKE w
    <2>1. /\ w \in Defined(config, text, i) <=> IsDefinedBefore(config, text, i + 1, w)
          /\ w \in Defined(config, text, i - 1) <=> IsDefinedBefore(config, text, i, w)
      BY <1>1, DefinedAre
    <2> QED BY <1>1, <2>1, ReplacementStep
  <1>6. CASE item.op # "define"
    <2>1. t.macros = s.macros
      BY <1>6
    <2> QED BY <1>3, <1>4, <1>5, <1>6, <2>1 DEF MacrosMeant
  <1>7. CASE item.op = "define"
    <2> DEFINE key == t.atoms[item.name]
               body == t.atoms[item.body]
    <2>1. /\ item.name \in DOMAIN t.atoms /\ item.body \in DOMAIN t.atoms
          /\ t.macros = Added(s.macros, key, body)
      BY <1>7
    <2>2. Word(key) = item.name /\ Word(body) = item.body /\ Known(t.atoms, key) /\ Known(t.atoms, body)
      BY <1>2, <2>1 DEF Known
    <2> HIDE DEF key, body
    <2>3. /\ DOMAIN t.macros = DOMAIN s.macros \cup {key}
          /\ \A a \in DOMAIN s.macros : t.macros[a] = s.macros[a]
          /\ key \notin DOMAIN s.macros => t.macros[key] = body
      BY <2>1 DEF Added
    <2>4. IsDefinedBefore(config, text, i + 1, item.name)
      BY <1>1, <1>7, ReplacementStep
    <2>5. ASSUME key \notin DOMAIN s.macros
          PROVE  Word(t.macros[key]) = Replacement(config, text, i + 1, item.name)
      <3>1. ~IsDefinedBefore(config, text, i, item.name)
        <4>1. item.name \in Defined(config, text, i - 1) <=> IsDefinedBefore(config, text, (i - 1) + 1, item.name)
          BY <1>1, DefinedAre
        <4> QED BY <1>1, <1>4, <2>5, <4>1 DEF key
      <3>2. Replacement(config, text, i + 1, item.name) = item.body
        BY <1>1, <1>7, <3>1, ReplacementStep
      <3> QED BY <2>2, <2>3, <2>5, <3>2
    <2>6. ASSUME NEW a \in DOMAIN t.macros
          PROVE  /\ Known(t.atoms, a) /\ Known(t.atoms, t.macros[a])
                 /\ IsDefinedBefore(config, text, i + 1, Word(a))
                 /\ Word(t.macros[a]) = Replacement(config, text, i + 1, Word(a))
      <3>1. CASE a \in DOMAIN s.macros
        BY <1>3, <2>3, <3>1
      <3>2. CASE a \notin DOMAIN s.macros
        <4>1. a = key /\ t.macros[key] = body
          BY <2>3, <3>2
        <4> QED BY <2>2, <2>4, <2>5, <3>2, <4>1
      <3> QED BY <3>1, <3>2
    <2>7. ASSUME NEW w \in Defined(config, text, i)
          PROVE  w \in DOMAIN t.atoms /\ t.atoms[w] \in DOMAIN t.macros
      <3>1. CASE w \in Defined(config, text, i - 1)
        BY <1>4, <2>3, <3>1
      <3>2. CASE w = item.name
        BY <2>1, <2>3, <3>2 DEF key
      <3> QED BY <1>5, <2>7, <3>1, <3>2
    <2> QED BY <2>6, <2>7 DEF MacrosMeant
  <1> QED BY <1>6, <1>7

\* A token stands for an item that is not skipped.
LEMMA ItemMeant ==
  ASSUME NEW own, NEW s, StateOwned(s, own), NEW text \in Seq(Entry), NEW i \in 1 .. Len(text),
         NEW unit \in 1 .. 3, text[i].unit = unit, NEW item \in Item, text[i].item = item,
         PreprocessedTo(s, text, i - 1)
  PROVE  PreprocessedTo(PreprocessItem(s, unit, item), text, i)
  <1> DEFINE config == s.config
             t == PreprocessItem(s, unit, item)
             taken == item.under = Always \/ IsMacroDefined(s, item.under)
             atom == t.atoms[item.name]
             word == IF atom \in DOMAIN s.macros THEN s.macros[atom] ELSE atom
             new == [op |-> item.op, atom |-> word]
             old == s.artifacts[unit].tokens
  <1>1. i \in Nat /\ i # 0 /\ i - 1 \in Nat /\ (i - 1) + 1 = i
    BY EntryOf
  <1>0. ItemEffect(own, s, unit, item, t)
    BY ItemKeeps
  <1>2. /\ StateOwned(t, own) /\ ParseStateSame(s, t)
        /\ DOMAIN s.atoms \subseteq DOMAIN t.atoms
        /\ \A w \in DOMAIN s.atoms : t.atoms[w] = s.atoms[w]
        /\ \A w \in DOMAIN t.atoms \ DOMAIN s.atoms : t.atoms[w] = <<s.memory, w>>
        /\ item.op = "define" =>
               /\ t.artifacts = s.artifacts
               /\ item.name \in DOMAIN t.atoms /\ item.body \in DOMAIN t.atoms
               /\ t.macros = Added(s.macros, t.atoms[item.name], t.atoms[item.body])
        /\ item.op # "define" => t.macros = s.macros
        /\ item.op # "define" /\ ~taken => t.artifacts = s.artifacts
        /\ item.op # "define" /\ taken =>
               /\ item.name \in DOMAIN t.atoms
               /\ \A v \in 1 .. 3 \ {unit} : t.artifacts[v] = s.artifacts[v]
               /\ t.artifacts[unit].tokens = Append(old, new)
    BY <1>0 DEF ItemEffect
  <1>3. t.config = config /\ t.memory = s.memory
    BY <1>2 DEF ParseStateSame
  <1>4. /\ MacrosMeant(s.atoms, s.macros, config, text, i - 1)
        /\ TokensMeant(s.atoms, s.artifacts, 1 .. 3, config, text, i - 1)
    BY DEF PreprocessedTo
  <1>5. item.op # "define" => item.op \in {"declare", "use"} /\ item.under \in Name /\ item.name \in Name
    BY <1>1 DEF Item, Name
  <1>6. IsMeant(config, text, i) <=> item.op # "define" /\ taken
    <2>1. CASE item.op = "define"
      BY <2>1 DEF IsMeant
    <2>2. CASE item.op # "define"
      <3>1. IsMacroDefined(s, item.under) <=> IsDefinedBefore(config, text, (i - 1) + 1, item.under)
        BY <1>1, <1>4, <1>5, <2>2, MacroFound
      <3> QED BY <1>1, <1>5, <2>2, <3>1 DEF IsMeant
    <2> QED BY <2>1, <2>2
  <1> HIDE DEF t, taken
  <1>7. MacrosMeant(t.atoms, t.macros, t.config, text, i)
    BY <1>2, <1>3, <1>4, DefineMeant
  <1>8. \A a : Known(s.atoms, a) => Known(t.atoms, a)
    BY <1>2 DEF Known
  <1>9. \A u \in 1 .. 3 :
           /\ Len(s.artifacts[u].tokens) = Cardinality(MeantTokens(config, text, u, i - 1))
           /\ \A k \in DOMAIN s.artifacts[u].tokens : Known(t.atoms, s.artifacts[u].tokens[k].atom)
    BY <1>4, <1>8 DEF TokensMeant
  <1>10. \A j \in 1 .. i - 1 : IsMeant(config, text, j) =>
           LET token == s.artifacts[text[j].unit].tokens[TokenIndex(config, text, j)]
           IN  token.op = text[j].item.op /\ Word(token.atom) = MeantWord(config, text, j)
    BY <1>4 DEF TokensMeant
  <1>11. CASE ~IsMeant(config, text, i)
    <2>1. t.artifacts = s.artifacts
      BY <1>2, <1>6, <1>11
    <2>2. \A u : Cardinality(MeantTokens(config, text, u, i)) = Cardinality(MeantTokens(config, text, u, i - 1))
      BY <1>1, <1>11, MeantTokensStep
    <2>3. \A j \in 1 .. i : j \in 1 .. i - 1 \/ j = i
      BY <1>1
    <2>4. TokensMeant(t.atoms, t.artifacts, 1 .. 3, config, text, i)
      BY <1>9, <1>10, <1>11, <2>1, <2>2, <2>3 DEF TokensMeant
    <2> QED BY <1>3, <1>7, <2>4 DEF PreprocessedTo, t
  <1>12. CASE IsMeant(config, text, i)
    <2>1. /\ item.name \in DOMAIN t.atoms /\ item.name \in Name
          /\ \A v \in 1 .. 3 \ {unit} : t.artifacts[v] = s.artifacts[v]
          /\ t.artifacts[unit].tokens = Append(old, new)
      BY <1>2, <1>5, <1>6, <1>12
    <2>2. Word(atom) = item.name
      BY <1>2, <2>1 DEF StateOwned, IsAtomTable
    <2>3. Known(t.atoms, word) /\ Word(word) = MeantWord(config, text, i)
      <3>1. CASE atom \in DOMAIN s.macros
        <4>1. /\ Known(s.atoms, s.macros[atom])
              /\ Word(s.macros[atom]) = Replacement(config, text, (i - 1) + 1, Word(atom))
          BY <1>4, <3>1 DEF MacrosMeant
        <4> QED BY <1>1, <1>8, <2>2, <3>1, <4>1 DEF MeantWord
      <3>2. CASE atom \notin DOMAIN s.macros
        <4>1. ~IsDefinedBefore(config, text, i, item.name)
          <5>1. ASSUME IsDefinedBefore(config, text, i, item.name) PROVE FALSE
            <6>1. item.name \in Defined(config, text, i - 1)
              <7>1. item.name \in Defined(config, text, i - 1) <=> IsDefinedBefore(config, text, (i - 1) + 1, item.name)
                BY <1>1, DefinedAre
              <7> QED BY <1>1, <5>1, <7>1
            <6>2. item.name \in DOMAIN s.atoms /\ s.atoms[item.name] \in DOMAIN s.macros
              BY <1>4, <6>1 DEF MacrosMeant
            <6> QED BY <1>2, <3>2, <6>2
          <5> QED BY <5>1
        <4>2. Replacement(config, text, i, item.name) = item.name
          BY <4>1 DEF IsDefinedBefore, Replacement
        <4> QED BY <2>1, <2>2, <3>2, <4>2 DEF MeantWord, Known
      <3> QED BY <3>1, <3>2
    <2> HIDE DEF atom, word
    <2>4. new.op = item.op /\ new.atom = word
      OBVIOUS
    <2> DEFINE S == Token(own) \cup {new}
    <2>5. old \in Seq(S) /\ new \in S
      <3>1. old \in Seq(Token(own))
        BY <1>1 DEF StateOwned, Artifact
      <3>2. Seq(Token(own)) \subseteq Seq(S)
        <4>1. Token(own) \subseteq S
          OBVIOUS
        <4> HIDE DEF S
        <4> QED BY <4>1, SeqMonotonic
      <3> QED BY <3>1, <3>2
    <2> DEFINE app == Append(old, new)
    <2> HIDE DEF S, new, old
    <2>6. /\ app \in Seq(S) /\ Len(app) = Len(old) + 1 /\ Len(old) \in Nat
          /\ \A k \in 1 .. Len(old) : app[k] = old[k]
          /\ app[Len(old) + 1] = new
          /\ DOMAIN app = 1 .. Len(old) + 1 /\ DOMAIN old = 1 .. Len(old)
      <3>1. /\ app \in Seq(S) /\ Len(app) = Len(old) + 1
            /\ \A k \in 1 .. Len(old) : app[k] = old[k]
            /\ app[Len(old) + 1] = new
        BY <2>5, AppendProperties
      <3> HIDE DEF app
      <3> QED BY <2>5, <3>1, LenProperties
    <2> HIDE DEF app
    <2>7. t.artifacts[unit].tokens = app
      BY <2>1 DEF app
    <2>8. Len(old) = Cardinality(MeantTokens(config, text, unit, i - 1))
      BY <1>1, <1>9 DEF old
    <2>9. /\ Cardinality(MeantTokens(config, text, unit, i)) = Len(old) + 1
          /\ TokenIndex(config, text, i) = Len(old) + 1
      <3>1. text[i].unit = unit /\ IsMeant(config, text, i)
        BY <1>12
      <3> QED BY <1>1, <2>8, <3>1, MeantTokensStep, SMTT(20)
    <2>10. ASSUME NEW u \in 1 .. 3
           PROVE /\ Len(t.artifacts[u].tokens) = Cardinality(MeantTokens(config, text, u, i))
                 /\ \A k \in DOMAIN t.artifacts[u].tokens : Known(t.atoms, t.artifacts[u].tokens[k].atom)
      <3>1. CASE u = unit
        <4>1. \A k \in DOMAIN app : Known(t.atoms, app[k].atom)
          <5>1. \A k \in DOMAIN old : Known(t.atoms, old[k].atom)
            BY <1>1, <1>9 DEF old
          <5>2. \A k \in DOMAIN app : k \in 1 .. Len(old) \/ k = Len(old) + 1
            BY <2>6
          <5> QED BY <2>3, <2>4, <2>6, <5>1, <5>2
        <4> QED BY <2>6, <2>7, <2>9, <3>1, <4>1
      <3>2. CASE u # unit
        <4>1. Cardinality(MeantTokens(config, text, u, i)) = Cardinality(MeantTokens(config, text, u, i - 1))
          BY <1>1, <3>2, MeantTokensStep
        <4> QED BY <1>9, <2>1, <3>2, <4>1
      <3> QED BY <3>1, <3>2
    <2>11. ASSUME NEW j \in 1 .. i, IsMeant(config, text, j)
           PROVE  LET token == t.artifacts[text[j].unit].tokens[TokenIndex(config, text, j)]
                  IN  token.op = text[j].item.op /\ Word(token.atom) = MeantWord(config, text, j)
      <3>1. CASE j = i
        BY <2>3, <2>4, <2>6, <2>7, <2>9, <3>1
      <3>2. CASE j # i
        <4>1. j \in 1 .. i - 1 /\ text[j].unit \in 1 .. 3
          <5>1. j \in 1 .. Len(text)
            BY EntryOf
          <5> QED BY <1>1, <3>2, <5>1, EntryOf
        <4>2. TokenIndex(config, text, j) \in 1 .. Cardinality(MeantTokens(config, text, text[j].unit, i - 1))
          BY <1>1, <2>11, <4>1, TokenIndexBounds
        <4>3. LET token == s.artifacts[text[j].unit].tokens[TokenIndex(config, text, j)]
              IN  token.op = text[j].item.op /\ Word(token.atom) = MeantWord(config, text, j)
          BY <1>10, <2>11, <4>1
        <4>4. CASE text[j].unit = unit
          <5>1. TokenIndex(config, text, j) \in 1 .. Len(old)
            BY <2>8, <4>2, <4>4
          <5> QED BY <2>6, <2>7, <4>3, <4>4, <5>1 DEF old
        <4>5. CASE text[j].unit # unit
          BY <2>1, <4>1, <4>3, <4>5
        <4> QED BY <4>4, <4>5
      <3> QED BY <3>1, <3>2
    <2>12. TokensMeant(t.atoms, t.artifacts, 1 .. 3, config, text, i)
      BY <2>10, <2>11 DEF TokensMeant
    <2> QED BY <1>3, <1>7, <2>12 DEF PreprocessedTo, t
  <1> QED BY <1>11, <1>12

\* What a text has at the place of a unit.
Holds(text, lo, unit, part) ==
    /\ lo \in Nat /\ Len(part) \in Nat /\ lo + Len(part) <= Len(text)
    /\ \A k \in 1 .. Len(part) : text[lo + k] = [unit |-> unit, item |-> part[k]]

\* Preprocessing a unit.
LEMMA UnitPreprocessed ==
  ASSUME NEW own, NEW s, StateOwned(s, own), NEW text \in Seq(Entry),
         NEW lo, NEW unit \in 1 .. 3, NEW part \in Seq(Item), Holds(text, lo, unit, part),
         PreprocessedTo(s, text, lo)
  PROVE  PreprocessedTo(DoPreprocess(s, unit, part), text, lo + Len(part))
  <1> DEFINE n == Len(part)
             f == PreprocessStates(s, unit, part)
  <1>1. /\ lo \in Nat /\ n \in Nat /\ Len(text) \in Nat /\ lo + n <= Len(text)
        /\ \A k \in 1 .. n : text[lo + k].unit = unit /\ text[lo + k].item = part[k]
        /\ \A k \in 1 .. n : part[k] \in Item
    <2>1. Len(text) \in Nat /\ Len(part) \in Nat /\ \A k \in 1 .. n : part[k] \in Item
      BY ElementOfSeq, LenProperties
    <2>2. lo \in Nat /\ lo + n <= Len(text) /\ \A k \in 1 .. n : text[lo + k] = [unit |-> unit, item |-> part[k]]
      BY DEF Holds
    <2>3. \A k \in 1 .. n : text[lo + k].unit = unit /\ text[lo + k].item = part[k]
      <3> SUFFICES ASSUME NEW k \in 1 .. n PROVE text[lo + k].unit = unit /\ text[lo + k].item = part[k]
        OBVIOUS
      <3>1. text[lo + k] = [unit |-> unit, item |-> part[k]]
        BY <2>2
      <3> QED BY <3>1
    <2> QED BY <2>1, <2>2, <2>3
  <1>2. /\ f[0] = s
        /\ \A k \in 1 .. n : f[k] = PreprocessItem(f[k - 1], unit, part[k])
        /\ DoPreprocess(s, unit, part) = f[n]
    BY <1>1, PreprocessPass
  <1> HIDE DEF f, n
  <1> DEFINE S == {k \in 0 .. n : StateOwned(f[k], own) /\ PreprocessedTo(f[k], text, lo + k)}
  <1>3. 0 \in S
    BY <1>1, <1>2
  <1>4. ASSUME NEW k \in 1 .. n, k - 1 \in S PROVE k \in S
    <2>1. /\ StateOwned(f[k - 1], own) /\ PreprocessedTo(f[k - 1], text, lo + (k - 1))
          /\ f[k] = PreprocessItem(f[k - 1], unit, part[k])
      BY <1>2, <1>4
    <2> DEFINE i == lo + k
    <2>2. i \in 1 .. Len(text) /\ lo + (k - 1) = i - 1 /\ text[i].unit = unit /\ text[i].item = part[k]
      BY <1>1
    <2>3. StateOwned(f[k], own)
      BY <1>1, <2>1, ItemOwned
    <2> HIDE DEF i
    <2>4. PreprocessedTo(f[k - 1], text, i - 1)
      BY <2>1, <2>2
    <2>5. PreprocessedTo(PreprocessItem(f[k - 1], unit, part[k]), text, i)
      BY <1>1, <2>1, <2>2, <2>4, ItemMeant
    <2> QED BY <2>1, <2>2, <2>3, <2>5 DEF i
  <1> HIDE DEF S
  <1>5. n \in S
    <2>1. n \in Nat
      BY <1>1
    <2>2. \A k \in 0 .. n : k \in S
      BY <2>1, <1>3, <1>4, Climb
    <2> QED BY <2>1, <2>2
  <1> QED BY <1>2, <1>5 DEF S, n

-----------------------------------------------------------------------------
(* What the declarations of a text mean, and what the parser makes of them. *)

\* The declarations of a word at the indices after lo up to hi.
Declared(config, text, lo, hi, word) ==
    {j \in lo + 1 .. hi : /\ IsMeant(config, text, j) /\ text[j].item.op = "declare"
                          /\ MeantWord(config, text, j) = word}

PlaceOf(config, text, j) == <<text[j].unit, TokenIndex(config, text, j)>>

LevelMeant(level, config, text, lo, hi) ==
    /\ \A w \in DOMAIN level :
           /\ Declared(config, text, lo, hi, w) # {}
           /\ <<level[w][2], level[w][3]>> = PlaceOf(config, text, Min(Declared(config, text, lo, hi, w)))
    /\ \A j \in lo + 1 .. hi : IsMeant(config, text, j) /\ text[j].item.op = "declare" =>
           MeantWord(config, text, j) \in DOMAIN level

TreesMeant(artifacts, units, config, text, i, base) ==
    /\ \A u \in units : Len(artifacts[u].tree) = Cardinality(MeantTokens(config, text, u, i))
    /\ \A j \in 1 .. i : IsMeant(config, text, j) =>
           LET decl == artifacts[text[j].unit].tree[TokenIndex(config, text, j)]
           IN  <<decl[2], decl[3]>> = MeantDecl(config, text, j, base)

\* The level of the compilation has the declarations after index lo, that of the
\* preamble those before.
ParsedTo(s, text, i, base, lo) ==
    /\ TreesMeant(s.artifacts, 1 .. 3, s.config, text, i, base)
    /\ lo \in 0 .. i /\ base # s.memory
    /\ s.symbols = IF base = None THEN <<s.memory>> ELSE <<base, s.memory>>
    /\ LevelMeant(s.levels[s.memory], s.config, text, lo, i)
    /\ base # None => LevelMeant(s.levels[base], s.config, text, 0, lo)

\* The main file is what comes after the preamble.
MainAfter(text, base, lo) ==
    IF base = None THEN lo = 0
    ELSE \A j \in 1 .. Len(text) : text[j].unit = UserFile <=> j > lo

LEMMA DeclaredStep ==
  ASSUME NEW config, NEW text, NEW i \in Nat, NEW lo \in Nat, lo <= i - 1, NEW word
  PROVE  /\ Declared(config, text, lo, i - 1, word) \in SUBSET (lo + 1 .. i - 1)
         /\ Declared(config, text, lo, i, word) =
               Declared(config, text, lo, i - 1, word)
                  \cup (IF /\ IsMeant(config, text, i) /\ text[i].item.op = "declare"
                           /\ MeantWord(config, text, i) = word
                        THEN {i} ELSE {})
  BY DEF Declared

\* The first declaration stays the first one.
LEMMA FirstDeclared ==
  ASSUME NEW config, NEW text, NEW i \in Nat, NEW lo \in Nat, lo <= i - 1, NEW word,
         Declared(config, text, lo, i - 1, word) # {}
  PROVE  /\ Declared(config, text, lo, i, word) # {}
         /\ Min(Declared(config, text, lo, i, word)) = Min(Declared(config, text, lo, i - 1, word))
  <1> DEFINE D == Declared(config, text, lo, i - 1, word)
             E == Declared(config, text, lo, i, word)
  <1>1. D \in SUBSET (lo + 1 .. i - 1) /\ D \subseteq E /\ \A j \in E : j \in D \/ j = i
    BY DEF Declared
  <1>2. D # {}
    OBVIOUS
  <1> HIDE DEF D, E
  <1>3. D \in SUBSET Nat
    BY <1>1
  <1>4. Min(D) \in D /\ \A k \in D : Min(D) <= k
    BY <1>2, <1>3, MinIsLeast
  <1>5. E \in SUBSET Nat /\ Min(D) \in E /\ \A k \in E : Min(D) <= k
    <2>1. Min(D) \in lo + 1 .. i - 1
      BY <1>1, <1>4
    <2> QED BY <1>1, <1>3, <1>4, <2>1
  <1>6. Min(E) = Min(D) /\ E # {}
    BY <1>5, MinSame
  <1> QED BY <1>6 DEF D, E

\* A declaration goes to the level unless its name is there.
LEMMA DeclarationMeant ==
  ASSUME NEW config, NEW text, NEW i \in Nat, NEW lo \in Nat, lo <= i - 1,
         NEW level, LevelMeant(level, config, text, lo, i - 1),
         IsMeant(config, text, i), text[i].item.op = "declare",
         NEW decl, <<decl[2], decl[3]>> = PlaceOf(config, text, i),
         NEW word, word = MeantWord(config, text, i)
  PROVE  LevelMeant(Added(level, word, decl), config, text, lo, i)
  <1> DEFINE after == Added(level, word, decl)
  <1>1. /\ DOMAIN after = DOMAIN level \cup {word}
        /\ \A w \in DOMAIN level : after[w] = level[w]
        /\ word \notin DOMAIN level => after[word] = decl
    BY DEF Added
  <1>2. /\ \A w \in DOMAIN level :
              /\ Declared(config, text, lo, i - 1, w) # {}
              /\ <<level[w][2], level[w][3]>> = PlaceOf(config, text, Min(Declared(config, text, lo, i - 1, w)))
        /\ \A j \in lo + 1 .. i - 1 : IsMeant(config, text, j) /\ text[j].item.op = "declare" =>
              MeantWord(config, text, j) \in DOMAIN level
    BY DEF LevelMeant
  <1> HIDE DEF after
  <1>3. ASSUME NEW w \in DOMAIN level
        PROVE  /\ Declared(config, text, lo, i, w) # {}
               /\ <<after[w][2], after[w][3]>> = PlaceOf(config, text, Min(Declared(config, text, lo, i, w)))
    BY <1>1, <1>2, FirstDeclared
  <1>4. ASSUME word \notin DOMAIN level
        PROVE  /\ Declared(config, text, lo, i, word) # {}
               /\ <<after[word][2], after[word][3]>> = PlaceOf(config, text, Min(Declared(config, text, lo, i, word)))
    <2>1. Declared(config, text, lo, i - 1, word) = {}
      BY <1>2, <1>4 DEF Declared
    <2>2. Declared(config, text, lo, i, word) = {i}
      BY <2>1, DeclaredStep
    <2>3. Min({i}) = i
      BY MinSame
    <2> QED BY <1>1, <1>4, <2>2, <2>3
  <1>5. \A j \in lo + 1 .. i : IsMeant(config, text, j) /\ text[j].item.op = "declare" =>
              MeantWord(config, text, j) \in DOMAIN after
    <2>1. \A j \in lo + 1 .. i : j \in lo + 1 .. i - 1 \/ j = i
      OBVIOUS
    <2> QED BY <1>1, <1>2, <2>1
  <1>6. \A w \in DOMAIN after :
              /\ Declared(config, text, lo, i, w) # {}
              /\ <<after[w][2], after[w][3]>> = PlaceOf(config, text, Min(Declared(config, text, lo, i, w)))
    BY <1>1, <1>3, <1>4
  <1> QED BY <1>5, <1>6 DEF LevelMeant, after

\* Whatever else there is changes no level.
LEMMA NothingDeclared ==
  ASSUME NEW config, NEW text, NEW i \in Nat, NEW lo \in Nat, lo <= i - 1,
         NEW level, LevelMeant(level, config, text, lo, i - 1),
         ~(IsMeant(config, text, i) /\ text[i].item.op = "declare")
  PROVE  LevelMeant(level, config, text, lo, i)
  <1>1. ASSUME NEW w PROVE Declared(config, text, lo, i, w) = Declared(config, text, lo, i - 1, w)
    <2>1. \A j : j \in lo + 1 .. i <=> j \in lo + 1 .. i - 1 \/ j = i
      OBVIOUS
    <2> QED BY <2>1 DEF Declared
  <1>2. \A j \in lo + 1 .. i : j \in lo + 1 .. i - 1 \/ j = i
    OBVIOUS
  <1> QED BY <1>1, <1>2 DEF LevelMeant

\* The last level that knows a word has its symbol.
LEMMA SymbolFound ==
  ASSUME NEW s, NEW word
  PROVE  /\ \A n : s.symbols = <<n>> =>
               FindSymbol(s, word) = IF word \in DOMAIN s.levels[n] THEN s.levels[n][word] ELSE NoDecl
         /\ \A p, n : s.symbols = <<p, n>> =>
               FindSymbol(s, word) = IF word \in DOMAIN s.levels[n] THEN s.levels[n][word]
                                     ELSE IF word \in DOMAIN s.levels[p] THEN s.levels[p][word] ELSE NoDecl
  <1> DEFINE hits == {k \in DOMAIN s.symbols : word \in DOMAIN s.levels[s.symbols[k]]}
  <1>0. FindSymbol(s, word) = IF hits = {} THEN NoDecl ELSE s.levels[s.symbols[Max(hits)]][word]
    BY DEF FindSymbol
  <1>1. ASSUME NEW n, s.symbols = <<n>>
        PROVE  FindSymbol(s, word) = IF word \in DOMAIN s.levels[n] THEN s.levels[n][word] ELSE NoDecl
    <2>1. DOMAIN s.symbols = {1} /\ s.symbols[1] = n
      BY <1>1
    <2>2. CASE word \in DOMAIN s.levels[n]
      <3>1. hits = {1}
        BY <2>1, <2>2
      <3>2. Max({1}) = 1
        <4>1. {1} \in SUBSET (1 .. 1) /\ {1} # {} /\ 1 \in Nat
          OBVIOUS
        <4>2. Max({1}) \in {1}
          BY <4>1, MaxIsGreatest
        <4> QED BY <4>2
      <3> HIDE DEF hits
      <3> QED BY <1>0, <2>1, <2>2, <3>1, <3>2
    <2>3. CASE word \notin DOMAIN s.levels[n]
      <3>1. hits = {}
        BY <2>1, <2>3
      <3> HIDE DEF hits
      <3> QED BY <1>0, <2>3, <3>1
    <2> QED BY <2>2, <2>3
  <1>2. ASSUME NEW p, NEW n, s.symbols = <<p, n>>
        PROVE  FindSymbol(s, word) = IF word \in DOMAIN s.levels[n] THEN s.levels[n][word]
                                     ELSE IF word \in DOMAIN s.levels[p] THEN s.levels[p][word] ELSE NoDecl
    <2>1. DOMAIN s.symbols = {1, 2} /\ s.symbols[1] = p /\ s.symbols[2] = n
      BY <1>2
    <2>2. hits \in SUBSET (1 .. 2)
      BY <2>1
    <2>3. hits # {} => Max(hits) \in hits /\ \A k \in hits : k <= Max(hits)
      <3>1. 2 \in Nat
        OBVIOUS
      <3> HIDE DEF hits
      <3> QED BY <2>2, <3>1, MaxIsGreatest
    <2>4. /\ 1 \in hits <=> word \in DOMAIN s.levels[p]
          /\ 2 \in hits <=> word \in DOMAIN s.levels[n]
      BY <2>1
    <2>8. \A k \in hits : k = 1 \/ k = 2
      BY <2>2
    <2> HIDE DEF hits
    <2>5. CASE 2 \in hits
      <3>1. Max(hits) = 2
        <4>1. Max(hits) \in {1, 2} /\ 2 <= Max(hits)
          BY <2>3, <2>5, <2>8
        <4> QED BY <4>1
      <3> QED BY <1>0, <2>1, <2>4, <2>5, <3>1
    <2>6. CASE 2 \notin hits /\ 1 \in hits
      <3>1. Max(hits) = 1
        BY <2>3, <2>6, <2>8
      <3> QED BY <1>0, <2>1, <2>4, <2>6, <3>1
    <2>7. CASE 2 \notin hits /\ 1 \notin hits
      <3>1. hits = {}
        BY <2>2, <2>7
      <3> QED BY <1>0, <2>4, <2>7, <3>1
    <2> QED BY <2>5, <2>6, <2>7
  <1> QED BY <1>1, <1>2

\* A use refers to what the text says.
LEMMA UseMeant ==
  ASSUME NEW s, NEW text \in Seq(Entry), NEW i \in 1 .. Len(text), NEW base, NEW lo,
         ParsedTo(s, text, i - 1, base, lo), MainAfter(text, base, lo),
         IsMeant(s.config, text, i), text[i].item.op # "declare",
         NEW decl, decl = FindSymbol(s, MeantWord(s.config, text, i))
  PROVE  <<decl[2], decl[3]>> = MeantDecl(s.config, text, i, base)
  <1> DEFINE config == s.config
             word == MeantWord(config, text, i)
             all == Declared(config, text, 0, i - 1, word)
             own == Declared(config, text, lo, i - 1, word)
             old == Declared(config, text, 0, lo, word)
             decls == MeantDecls(config, text, i, base)
             level == s.levels[s.memory]
             below == s.levels[base]
  <1>1. i \in Nat /\ i - 1 \in Nat /\ Len(text) \in Nat /\ lo \in 0 .. i - 1 /\ i - 1 <= Len(text)
    BY EntryOf DEF ParsedTo
  <1>2. /\ s.symbols = IF base = None THEN <<s.memory>> ELSE <<base, s.memory>>
        /\ LevelMeant(level, config, text, lo, i - 1)
        /\ base # None => LevelMeant(below, config, text, 0, lo)
    BY DEF ParsedTo
  <1>3. decl = IF word \in DOMAIN level THEN level[word]
               ELSE IF base # None /\ word \in DOMAIN below THEN below[word] ELSE NoDecl
    <2>1. CASE base = None
      <3>1. s.symbols = <<s.memory>>
        BY <1>2, <2>1
      <3> QED BY <2>1, <3>1, SymbolFound
    <2>2. CASE base # None
      <3>1. s.symbols = <<base, s.memory>>
        BY <1>2, <2>2
      <3> QED BY <2>2, <3>1, SymbolFound
    <2> QED BY <2>1, <2>2
  <1>4. /\ word \in DOMAIN level <=> own # {}
        /\ word \in DOMAIN level => <<level[word][2], level[word][3]>> = PlaceOf(config, text, Min(own))
    <2>1. \A j \in own : /\ j \in lo + 1 .. i - 1 /\ IsMeant(config, text, j)
                         /\ text[j].item.op = "declare" /\ MeantWord(config, text, j) = word
      BY DEF Declared
    <2>2. own # {} => word \in DOMAIN level
      <3> HIDE DEF own, level, config
      <3> QED BY <1>2, <2>1 DEF LevelMeant
    <2> QED BY <1>2, <2>2 DEF LevelMeant
  <1>5. base # None =>
           /\ word \in DOMAIN below <=> old # {}
           /\ word \in DOMAIN below => <<below[word][2], below[word][3]>> = PlaceOf(config, text, Min(old))
    <2>1. \A j \in old : /\ j \in 0 + 1 .. lo /\ IsMeant(config, text, j)
                         /\ text[j].item.op = "declare" /\ MeantWord(config, text, j) = word
      BY DEF Declared
    <2>2. base # None /\ old # {} => word \in DOMAIN below
      <3> HIDE DEF old, below, config
      <3> QED BY <1>2, <2>1 DEF LevelMeant
    <2> QED BY <1>2, <2>2 DEF LevelMeant
  <1>6. /\ own \subseteq all /\ old \subseteq all
        /\ \A j \in all : j \in old \/ j \in own
        /\ \A j \in all : j \in 1 .. Len(text)
    BY <1>1 DEF Declared
  <1>7. decls = IF base # None /\ own # {} THEN own ELSE all
    <2>1. all = {j \in 1 .. i - 1 : /\ IsMeant(config, text, j) /\ text[j].item.op = "declare"
                                    /\ MeantWord(config, text, j) = word}
      BY DEF Declared
    <2>2. base # None => own = {j \in all : text[j].unit = UserFile}
      <3>1. base # None => \A j \in 1 .. Len(text) : text[j].unit = UserFile <=> j > lo
        BY DEF MainAfter
      <3>2. \A j \in all : j \in own <=> j > lo
        BY <1>1 DEF Declared
      <3> QED BY <1>6, <3>1, <3>2
    <2>3. decls = IF base # None /\ {j \in all : text[j].unit = UserFile} # {}
                  THEN {j \in all : text[j].unit = UserFile} ELSE all
      BY <2>1 DEF MeantDecls
    <2> HIDE DEF own, all, decls
    <2> QED BY <2>2, <2>3
  <1>8. MeantDecl(config, text, i, base) =
           IF decls = {} THEN <<None, None>> ELSE PlaceOf(config, text, Min(decls))
    BY DEF MeantDecl, PlaceOf
  <1>9. base = None => all = own
    BY DEF MainAfter
  <1>10. NoDecl[2] = None /\ NoDecl[3] = None
    BY DEF NoDecl
  <1> HIDE DEF own, old, all, decls, level, below, word
  <1>11. CASE own # {}
    <2>1. decls = own
      BY <1>7, <1>9, <1>11
    <2>2. decl = level[word]
      BY <1>3, <1>4, <1>11
    <2> QED BY <1>4, <1>8, <1>11, <2>1, <2>2
  <1>12. CASE own = {} /\ old # {} /\ base # None
    <2>1. decls = old
      BY <1>6, <1>7, <1>12
    <2>2. decl = below[word]
      BY <1>3, <1>4, <1>5, <1>12
    <2> QED BY <1>5, <1>8, <1>12, <2>1, <2>2
  <1>13. CASE own = {} /\ (old = {} \/ base = None)
    <2>1. decls = {}
      BY <1>6, <1>7, <1>9, <1>13
    <2>2. decl = NoDecl
      BY <1>3, <1>4, <1>5, <1>13
    <2> QED BY <1>8, <1>10, <2>1, <2>2
  <1> QED BY <1>11, <1>12, <1>13

\* An index without a token has no effect.
LEMMA SkippedMeant ==
  ASSUME NEW s, NEW text \in Seq(Entry), NEW i \in 1 .. Len(text), NEW base, NEW lo,
         ParsedTo(s, text, i - 1, base, lo), ~IsMeant(s.config, text, i)
  PROVE  ParsedTo(s, text, i, base, lo)
  <1> DEFINE config == s.config
  <1>1. i \in Nat /\ i # 0 /\ i - 1 \in Nat /\ lo \in 0 .. i - 1 /\ lo \in Nat /\ lo \in 0 .. i /\ lo <= i - 1
    BY EntryOf DEF ParsedTo
  <1>2. \A u : Cardinality(MeantTokens(config, text, u, i)) = Cardinality(MeantTokens(config, text, u, i - 1))
    BY <1>1, MeantTokensStep
  <1>3. \A j \in 1 .. i : j \in 1 .. i - 1 \/ j = i
    BY <1>1
  <1>4. TreesMeant(s.artifacts, 1 .. 3, config, text, i, base)
    BY <1>2, <1>3 DEF ParsedTo, TreesMeant
  <1>5. LevelMeant(s.levels[s.memory], config, text, lo, i)
    <2>1. LevelMeant(s.levels[s.memory], config, text, lo, i - 1)
      BY DEF ParsedTo
    <2> QED BY <1>1, <2>1, NothingDeclared
  <1> QED BY <1>1, <1>4, <1>5 DEF ParsedTo

\* A token is parsed to what it means.
LEMMA TokenMeant ==
  ASSUME NEW own, NEW s, StateOwned(s, own), LevelsOwned(s, own),
         NEW text \in Seq(Entry), NEW i \in 1 .. Len(text), NEW base, NEW lo,
         ParsedTo(s, text, i - 1, base, lo), MainAfter(text, base, lo),
         IsMeant(s.config, text, i), NEW unit \in 1 .. 3, text[i].unit = unit,
         NEW token \in Token(own), token.op = text[i].item.op,
         Word(token.atom) = MeantWord(s.config, text, i)
  PROVE  ParsedTo(ParseToken(s, unit, token), text, i, base, lo)
  <1> DEFINE config == s.config
             t == ParseToken(s, unit, token)
             word == Word(token.atom)
             old == s.artifacts[unit].tree
             decl == <<s.memory, unit, Len(old) + 1>>
             node == IF token.op = "declare" THEN decl ELSE FindSymbol(s, word)
             last == Last(s.symbols)
  <1>0. TokenEffect(s, unit, token, t) /\ PreprocessStateSame(s, t)
    BY TokenParsed, TokenOwned
  <1>1. i \in Nat /\ i # 0 /\ i - 1 \in Nat /\ lo \in 0 .. i - 1 /\ lo \in Nat /\ lo \in 0 .. i /\ lo <= i - 1
    BY EntryOf DEF ParsedTo
  <1>2. /\ \A v \in 1 .. 3 \ {unit} : t.artifacts[v] = s.artifacts[v]
        /\ t.levels = IF token.op = "declare"
                      THEN [s.levels EXCEPT ![last] = Added(s.levels[last], word, decl)]
                      ELSE s.levels
        /\ t.artifacts[unit].tree = Append(old, node)
    BY <1>0 DEF TokenEffect
  <1>3. /\ t.config = config /\ t.memory = s.memory /\ t.symbols = s.symbols
        /\ DOMAIN t.levels = DOMAIN s.levels
    BY <1>0 DEF PreprocessStateSame
  <1> HIDE DEF t
  <1>4. last = s.memory /\ last \in DOMAIN s.levels
    <2>1. s.symbols = <<s.memory>> \/ s.symbols = <<base, s.memory>>
      BY DEF ParsedTo
    <2>2. Last(<<s.memory>>) = s.memory /\ Last(<<base, s.memory>>) = s.memory
      BY DEF Last
    <2>3. \E k \in DOMAIN s.symbols : s.symbols[k] = s.memory
      <3>1. CASE s.symbols = <<s.memory>>
        <4>1. 1 \in DOMAIN s.symbols /\ s.symbols[1] = s.memory
          BY <3>1
        <4> QED BY <4>1
      <3>2. CASE s.symbols = <<base, s.memory>>
        <4>1. 2 \in DOMAIN s.symbols /\ s.symbols[2] = s.memory
          BY <3>2
        <4> QED BY <4>1
      <3> QED BY <2>1, <3>1, <3>2
    <2> QED BY <2>1, <2>2, <2>3 DEF LevelsOwned
  <1>5. /\ TreesMeant(s.artifacts, 1 .. 3, config, text, i - 1, base)
        /\ base # s.memory
        /\ s.symbols = IF base = None THEN <<s.memory>> ELSE <<base, s.memory>>
        /\ LevelMeant(s.levels[s.memory], config, text, lo, i - 1)
        /\ base # None => LevelMeant(s.levels[base], config, text, 0, lo)
    BY DEF ParsedTo
  <1>6. old \in Seq(Decls(own) \cup {NoDecl})
    BY DEF StateOwned, Artifact
  <1>7. Len(old) = Cardinality(MeantTokens(config, text, unit, i - 1)) /\ Len(old) \in Nat
    BY <1>5, <1>6, LenProperties DEF TreesMeant
  <1>8. /\ Cardinality(MeantTokens(config, text, unit, i)) = Len(old) + 1
        /\ TokenIndex(config, text, i) = Len(old) + 1
        /\ \A u \in 1 .. 3 \ {unit} :
              Cardinality(MeantTokens(config, text, u, i)) = Cardinality(MeantTokens(config, text, u, i - 1))
    <2>1. text[i].unit = unit /\ IsMeant(config, text, i)
      OBVIOUS
    <2>2. /\ Cardinality(MeantTokens(config, text, unit, i)) = Cardinality(MeantTokens(config, text, unit, i - 1)) + 1
          /\ TokenIndex(config, text, i) = Cardinality(MeantTokens(config, text, unit, i - 1)) + 1
      BY <1>1, <2>1, MeantTokensStep
    <2>3. ASSUME NEW u \in 1 .. 3 \ {unit}
          PROVE  Cardinality(MeantTokens(config, text, u, i)) = Cardinality(MeantTokens(config, text, u, i - 1))
      <3>1. text[i].unit # u
        OBVIOUS
      <3> QED BY <1>1, <3>1, MeantTokensStep
    <2> QED BY <1>7, <2>2, <2>3
  <1>9. <<decl[2], decl[3]>> = PlaceOf(config, text, i)
    BY <1>8 DEF PlaceOf
  <1>10. <<node[2], node[3]>> = MeantDecl(config, text, i, base)
    <2>1. CASE token.op = "declare"
      <3>1. Min({i}) = i /\ {i} # {}
        BY <1>1, MinSame
      <3>2. MeantDecl(config, text, i, base) = PlaceOf(config, text, i)
        BY <2>1, <3>1 DEF MeantDecl, PlaceOf
      <3> QED BY <1>9, <2>1, <3>2
    <2>2. CASE token.op # "declare"
      BY <2>2, UseMeant
    <2> QED BY <2>1, <2>2
  <1> HIDE DEF node, decl
  <1> DEFINE app == Append(old, node)
             S == Decls(own) \cup {NoDecl} \cup {node}
  <1>11. /\ Len(app) = Len(old) + 1
         /\ \A k \in 1 .. Len(old) : app[k] = old[k]
         /\ app[Len(old) + 1] = node
    <2>1. old \in Seq(S) /\ node \in S
      <3>1. Decls(own) \cup {NoDecl} \subseteq S
        OBVIOUS
      <3>2. Seq(Decls(own) \cup {NoDecl}) \subseteq Seq(S)
        <4> HIDE DEF S
        <4> QED BY <3>1, SeqMonotonic
      <3> QED BY <1>6, <3>2
    <2> HIDE DEF S, old
    <2> QED BY <2>1, AppendProperties
  <1> HIDE DEF app
  <1>12. t.artifacts[unit].tree = app
    BY <1>2 DEF app
  <1>13. \A u \in 1 .. 3 : Len(t.artifacts[u].tree) = Cardinality(MeantTokens(config, text, u, i))
    <2> TAKE u \in 1 .. 3
    <2>1. CASE u = unit
      BY <1>8, <1>11, <1>12, <2>1
    <2>2. CASE u # unit
      BY <1>2, <1>5, <1>8, <2>2 DEF TreesMeant
    <2> QED BY <2>1, <2>2
  <1>14. ASSUME NEW j \in 1 .. i, IsMeant(config, text, j)
         PROVE  LET d == t.artifacts[text[j].unit].tree[TokenIndex(config, text, j)]
                IN  <<d[2], d[3]>> = MeantDecl(config, text, j, base)
    <2>1. CASE j = i
      BY <1>8, <1>10, <1>11, <1>12, <2>1
    <2>2. CASE j # i
      <3>1. j \in 1 .. i - 1 /\ text[j].unit \in 1 .. 3
        <4>1. j \in 1 .. Len(text)
          BY EntryOf
        <4> QED BY <1>1, <2>2, <4>1, EntryOf
      <3>2. TokenIndex(config, text, j) \in 1 .. Cardinality(MeantTokens(config, text, text[j].unit, i - 1))
        BY <1>1, <1>14, <3>1, TokenIndexBounds
      <3>3. LET d == s.artifacts[text[j].unit].tree[TokenIndex(config, text, j)]
            IN  <<d[2], d[3]>> = MeantDecl(config, text, j, base)
        BY <1>5, <1>14, <3>1 DEF TreesMeant
      <3>4. CASE text[j].unit = unit
        <4>1. TokenIndex(config, text, j) \in 1 .. Len(old)
          BY <1>7, <3>2, <3>4
        <4>2. app[TokenIndex(config, text, j)] = old[TokenIndex(config, text, j)]
          BY <1>11, <4>1
        <4> QED BY <1>12, <3>3, <3>4, <4>2
      <3>5. CASE text[j].unit # unit
        <4>1. t.artifacts[text[j].unit] = s.artifacts[text[j].unit]
          BY <1>2, <3>1, <3>5
        <4> QED BY <3>3, <4>1
      <3> QED BY <3>4, <3>5
    <2> QED BY <2>1, <2>2
  <1>15. TreesMeant(t.artifacts, 1 .. 3, config, text, i, base)
    BY <1>13, <1>14 DEF TreesMeant
  <1>16. LevelMeant(t.levels[s.memory], config, text, lo, i)
    <2>1. CASE token.op = "declare"
      <3>1. t.levels[s.memory] = Added(s.levels[s.memory], word, decl)
        BY <1>2, <1>4, <2>1
      <3>2. word = MeantWord(config, text, i)
        OBVIOUS
      <3> HIDE DEF word
      <3>3. LevelMeant(Added(s.levels[s.memory], word, decl), config, text, lo, i)
        BY <1>1, <1>5, <1>9, <2>1, <3>2, DeclarationMeant
      <3> QED BY <3>1, <3>3
    <2>2. CASE token.op # "declare"
      <3>1. t.levels = s.levels
        BY <1>2, <2>2
      <3>2. LevelMeant(s.levels[s.memory], config, text, lo, i)
        BY <1>1, <1>5, <2>2, NothingDeclared
      <3> QED BY <3>1, <3>2
    <2> QED BY <2>1, <2>2
  <1>17. base # None => LevelMeant(t.levels[base], config, text, 0, lo)
    <2>1. base # None => t.levels[base] = s.levels[base]
      BY <1>2, <1>4, <1>5
    <2> QED BY <1>5, <2>1
  <1> QED BY <1>1, <1>3, <1>5, <1>15, <1>16, <1>17 DEF ParsedTo, t

\* A unit is at its place and nowhere else.
PlacedAt(text, at, unit, n) ==
    /\ at \in Nat /\ n \in Nat /\ at + n <= Len(text)
    /\ \A j \in 1 .. Len(text) : text[j].unit = unit <=> j \in at + 1 .. at + n

\* Parsing a unit whose tokens are all there.
LEMMA UnitParsed ==
  ASSUME NEW own, NEW s, Owned(s, own), NEW text \in Seq(Entry),
         NEW at, NEW unit \in 1 .. 3, NEW n, PlacedAt(text, at, unit, n),
         NEW m \in at + n .. Len(text), PreprocessedTo(s, text, m),
         NEW base, NEW lo, ParsedTo(s, text, at, base, lo), MainAfter(text, base, lo)
  PROVE  ParsedTo(DoParse(s, unit), text, at + n, base, lo)
  <1> DEFINE config == s.config
             tokens == s.artifacts[unit].tokens
             f == ParseStates(s, unit)
             C(k) == Cardinality(MeantTokens(config, text, unit, at + k))
  <1>1. /\ at \in Nat /\ n \in Nat /\ at + n <= Len(text) /\ Len(text) \in Nat /\ m \in Nat
        /\ \A j \in 1 .. Len(text) : text[j].unit = unit <=> j \in at + 1 .. at + n
    BY LenProperties DEF PlacedAt
  <1>2. tokens \in Seq(Token(own)) /\ Len(tokens) \in Nat /\ \A k \in 1 .. Len(tokens) : tokens[k] \in Token(own)
    <2>1. tokens \in Seq(Token(own))
      BY DEF Owned, StateOwned, Artifact
    <2> QED BY <2>1, ElementOfSeq, LenProperties
  <1>3. /\ f[0] = s
        /\ \A k \in 1 .. Len(tokens) : f[k] = ParseToken(f[k - 1], unit, tokens[k])
        /\ DoParse(s, unit) = f[Len(tokens)]
    BY <1>2, ParsePass
  <1> HIDE DEF f
  <1>4. /\ Len(tokens) = Cardinality(MeantTokens(config, text, unit, m))
        /\ \A j \in 1 .. m : IsMeant(config, text, j) =>
              LET token == s.artifacts[text[j].unit].tokens[TokenIndex(config, text, j)]
              IN  token.op = text[j].item.op /\ Word(token.atom) = MeantWord(config, text, j)
    BY DEF PreprocessedTo, TokensMeant
  <1>5. C(0) = 0
    <2>1. MeantTokens(config, text, unit, at + 0) = {}
      BY <1>1 DEF MeantTokens
    <2> QED BY <2>1, FS_EmptySet
  <1>6. C(n) = Len(tokens)
    <2>1. MeantTokens(config, text, unit, at + n) = MeantTokens(config, text, unit, m)
      BY <1>1 DEF MeantTokens
    <2> QED BY <1>4, <2>1
  <1>7. ASSUME NEW k \in 1 .. n
        PROVE  LET i == at + k IN
               /\ i \in 1 .. Len(text) /\ i \in 1 .. m /\ i \in Nat /\ i # 0 /\ i - 1 = at + (k - 1)
               /\ text[i].unit = unit
               /\ ~IsMeant(config, text, i) => C(k) = C(k - 1)
               /\ IsMeant(config, text, i) =>
                     /\ C(k) = C(k - 1) + 1 /\ TokenIndex(config, text, i) = C(k)
                     /\ C(k) \in 1 .. Len(tokens)
    <2> DEFINE i == at + k
    <2>1. i \in 1 .. Len(text) /\ i \in 1 .. m /\ i \in Nat /\ i # 0 /\ i - 1 = at + (k - 1) /\ text[i].unit = unit
      BY <1>1
    <2> DEFINE before == Cardinality(MeantTokens(config, text, unit, i - 1))
               after  == Cardinality(MeantTokens(config, text, unit, i))
    <2>2. C(k) = after /\ C(k - 1) = before
      BY <2>1
    <2> HIDE DEF i
    <2>3. ~IsMeant(config, text, i) => after = before
      BY <2>1, MeantTokensStep
    <2>4. ASSUME IsMeant(config, text, i)
          PROVE  after = before + 1 /\ TokenIndex(config, text, i) = before + 1
      BY <2>1, <2>4, MeantTokensStep
    <2>5. ASSUME IsMeant(config, text, i)
          PROVE  TokenIndex(config, text, i) \in 1 .. Len(tokens)
      <3>1. TokenIndex(config, text, i) \in 1 .. Cardinality(MeantTokens(config, text, text[i].unit, m))
        BY <1>1, <2>1, <2>5, TokenIndexBounds
      <3> QED BY <1>4, <2>1, <3>1
    <2> HIDE DEF C, before, after
    <2> QED BY <2>1, <2>2, <2>3, <2>4, <2>5 DEF i
  <1> HIDE DEF C
  <1> DEFINE Kept(t) == Owned(t, own) /\ PreprocessStateSame(s, t)
             S == {k \in 0 .. n : Kept(f[C(k)]) /\ ParsedTo(f[C(k)], text, at + k, base, lo)}
  <1>8. 0 \in S
    BY <1>1, <1>3, <1>5 DEF PreprocessStateSame
  <1>9. ASSUME NEW k \in 1 .. n, k - 1 \in S PROVE k \in S
    <2> DEFINE i == at + k
               t == f[C(k - 1)]
    <2>1. /\ Owned(t, own) /\ PreprocessStateSame(s, t)
          /\ ParsedTo(t, text, at + (k - 1), base, lo)
      BY <1>9
    <2>2. /\ i \in 1 .. Len(text) /\ i \in 1 .. m /\ i \in Nat /\ i # 0 /\ i - 1 = at + (k - 1)
          /\ text[i].unit = unit
          /\ ~IsMeant(config, text, i) => C(k) = C(k - 1)
          /\ IsMeant(config, text, i) =>
                /\ C(k) = C(k - 1) + 1 /\ TokenIndex(config, text, i) = C(k)
                /\ C(k) \in 1 .. Len(tokens)
      BY <1>7
    <2>3. t.config = config
      BY <2>1 DEF PreprocessStateSame
    <2> HIDE DEF i, t, config
    <2>4. ParsedTo(t, text, i - 1, base, lo)
      BY <2>1, <2>2
    <2>5. CASE ~IsMeant(config, text, i)
      <3>1. ParsedTo(t, text, i, base, lo)
        BY <2>2, <2>3, <2>4, <2>5, SkippedMeant
      <3> QED BY <2>1, <2>2, <2>5, <3>1 DEF i, t
    <2>6. CASE IsMeant(config, text, i)
      <3> DEFINE token == tokens[C(k)]
      <3>1. token \in Token(own) /\ token.op = text[i].item.op /\ Word(token.atom) = MeantWord(config, text, i)
        <4>1. LET token2 == s.artifacts[text[i].unit].tokens[TokenIndex(config, text, i)]
              IN  token2.op = text[i].item.op /\ Word(token2.atom) = MeantWord(config, text, i)
          BY <1>4, <2>2, <2>6
        <4> QED BY <1>2, <2>2, <2>6, <4>1
      <3>2. f[C(k)] = ParseToken(t, unit, token)
        <4>1. C(k) \in 1 .. Len(tokens) /\ C(k) - 1 = C(k - 1)
          <5>1. C(k - 1) \in Int
            BY <2>2, MeantTokensStep, <2>6 DEF C, i
          <5> QED BY <2>2, <2>6, <5>1
        <4> QED BY <1>3, <4>1 DEF t
      <3> HIDE DEF token
      <3>3. ParsedTo(ParseToken(t, unit, token), text, i, base, lo)
        BY <2>1, <2>2, <2>3, <2>4, <2>6, <3>1, TokenMeant DEF Owned
      <3>4. Owned(ParseToken(t, unit, token), own) /\ PreprocessStateSame(t, ParseToken(t, unit, token))
        BY <2>1, <3>1, TokenOwned DEF Owned
      <3>5. PreprocessStateSame(s, ParseToken(t, unit, token))
        BY <2>1, <3>4 DEF PreprocessStateSame
      <3> QED BY <3>2, <3>3, <3>4, <3>5 DEF i
    <2> QED BY <2>5, <2>6
  <1> HIDE DEF S
  <1>10. n \in S
    <2>1. n \in Nat
      BY <1>1
    <2>2. \A k \in 0 .. n : k \in S
      BY <2>1, <1>8, <1>9, Climb
    <2> QED BY <2>1, <2>2
  <1> QED BY <1>3, <1>6, <1>10 DEF S

\* Each pass leaves alone what the other one makes.
LEMMA ParsedKept ==
  ASSUME NEW s, NEW t, ParseStateSame(s, t), NEW text \in Seq(Entry), NEW i \in 0 .. Len(text),
         NEW base, NEW lo, ParsedTo(s, text, i, base, lo)
  PROVE  ParsedTo(t, text, i, base, lo)
  <1>1. /\ t.memory = s.memory /\ t.config = s.config /\ t.symbols = s.symbols /\ t.levels = s.levels
        /\ \A u \in 1 .. 3 : t.artifacts[u].tree = s.artifacts[u].tree
    BY DEF ParseStateSame
  <1>2. \A j \in 1 .. i : text[j].unit \in 1 .. 3
    <2>1. \A j \in 1 .. i : j \in 1 .. Len(text)
      BY LenProperties
    <2> QED BY <2>1, EntryOf
  <1>3. TreesMeant(t.artifacts, 1 .. 3, t.config, text, i, base)
    BY <1>1, <1>2 DEF ParsedTo, TreesMeant
  <1> QED BY <1>1, <1>3 DEF ParsedTo

LEMMA PreprocessedKept ==
  ASSUME NEW s, NEW t, PreprocessStateSame(s, t), NEW text \in Seq(Entry), NEW i \in 0 .. Len(text),
         PreprocessedTo(s, text, i)
  PROVE  PreprocessedTo(t, text, i)
  <1>1. /\ t.config = s.config /\ t.atoms = s.atoms /\ t.macros = s.macros
        /\ \A u \in 1 .. 3 : t.artifacts[u].tokens = s.artifacts[u].tokens
    BY DEF PreprocessStateSame
  <1>2. \A j \in 1 .. i : text[j].unit \in 1 .. 3
    <2>1. \A j \in 1 .. i : j \in 1 .. Len(text)
      BY LenProperties
    <2> QED BY <2>1, EntryOf
  <1> QED BY <1>1, <1>2 DEF PreprocessedTo, TokensMeant

-----------------------------------------------------------------------------
(* The texts of a compilation.                                              *)

LEMMA OfUnitIs ==
  ASSUME NEW texts, NEW u \in 1 .. 3, texts[u] \in Seq(Item)
  PROVE  /\ OfUnit(texts, u) \in Seq(Entry) /\ Len(OfUnit(texts, u)) = Len(texts[u])
         /\ \A k \in 1 .. Len(texts[u]) : OfUnit(texts, u)[k] = [unit |-> u, item |-> texts[u][k]]
  <1> DEFINE part == texts[u]
             n == Len(part)
             b == [k \in 1 .. n |-> [unit |-> u, item |-> part[k]]]
  <1>1. n \in Nat /\ DOMAIN part = 1 .. n /\ \A k \in 1 .. n : part[k] \in Item
    BY ElementOfSeq, LenProperties
  <1>2. OfUnit(texts, u) = b
    BY <1>1 DEF OfUnit
  <1> HIDE DEF n, part
  <1>3. \A k \in 1 .. n : [unit |-> u, item |-> part[k]] \in Entry
    BY <1>1 DEF Entry
  <1>4. b \in Seq(Entry) /\ Len(b) = n
    <2>1. n \in Nat
      BY <1>1
    <2> QED BY <1>3, <2>1, Z3T(20)
  <1> QED BY <1>2, <1>4 DEF n, part

LEMMA OneTextShape ==
  ASSUME NEW a \in Seq(Item), NEW b \in Seq(Item), NEW c \in Seq(Item)
  PROVE  LET text == OneText(<<a, b, c>>)
             m    == Len(a) + Len(b)
         IN  /\ text \in Seq(Entry) /\ Len(text) = m + Len(c)
             /\ Holds(text, 0, SystemPreamble, a) /\ PlacedAt(text, 0, SystemPreamble, Len(a))
             /\ Holds(text, Len(a), UserPreamble, b) /\ PlacedAt(text, Len(a), UserPreamble, Len(b))
             /\ Holds(text, m, UserFile, c) /\ PlacedAt(text, m, UserFile, Len(c))
             /\ \A base : MainAfter(text, base, IF base = None THEN 0 ELSE m)
  <1> DEFINE texts == <<a, b, c>>
             x == OfUnit(texts, 1)
             y == OfUnit(texts, 2)
             z == OfUnit(texts, 3)
             text == OneText(texts)
             la == Len(a)
             lb == Len(b)
             lc == Len(c)
             m == la + lb
             xy == x \o y
  <1>1. texts[1] = a /\ texts[2] = b /\ texts[3] = c
    OBVIOUS
  <1>2. la \in Nat /\ lb \in Nat /\ lc \in Nat
    BY LenProperties
  <1>3. /\ x \in Seq(Entry) /\ Len(x) = la /\ \A k \in 1 .. la : x[k] = [unit |-> 1, item |-> a[k]]
        /\ y \in Seq(Entry) /\ Len(y) = lb /\ \A k \in 1 .. lb : y[k] = [unit |-> 2, item |-> b[k]]
        /\ z \in Seq(Entry) /\ Len(z) = lc /\ \A k \in 1 .. lc : z[k] = [unit |-> 3, item |-> c[k]]
    <2> HIDE DEF texts
    <2>1. /\ x \in Seq(Entry) /\ Len(x) = Len(texts[1]) /\ \A k \in 1 .. Len(texts[1]) : x[k] = [unit |-> 1, item |-> texts[1][k]]
      BY <1>1, OfUnitIs
    <2>2. /\ y \in Seq(Entry) /\ Len(y) = Len(texts[2]) /\ \A k \in 1 .. Len(texts[2]) : y[k] = [unit |-> 2, item |-> texts[2][k]]
      BY <1>1, OfUnitIs
    <2>3. /\ z \in Seq(Entry) /\ Len(z) = Len(texts[3]) /\ \A k \in 1 .. Len(texts[3]) : z[k] = [unit |-> 3, item |-> texts[3][k]]
      BY <1>1, OfUnitIs
    <2> HIDE DEF x, y, z
    <2> QED BY <1>1, <2>1, <2>2, <2>3
  <1>4. text = xy \o z
    BY DEF OneText, SystemPreamble, UserPreamble, UserFile
  <1> HIDE DEF x, y, z, text, la, lb, lc
  <1>5. /\ xy \in Seq(Entry) /\ Len(xy) = m /\ m \in Nat
        /\ \A k \in 1 .. la : xy[k] = x[k]
        /\ \A k \in 1 .. lb : xy[la + k] = y[k]
    <2>1. /\ x \o y \in Seq(Entry) /\ Len(x \o y) = Len(x) + Len(y)
          /\ \A k \in 1 .. Len(x) + Len(y) : (x \o y)[k] = IF k <= Len(x) THEN x[k] ELSE y[k - Len(x)]
      BY <1>3, ConcatProperties
    <2> QED BY <1>2, <1>3, <2>1
  <1> HIDE DEF xy
  <1>6. /\ text \in Seq(Entry) /\ Len(text) = m + lc
        /\ \A k \in 1 .. m : text[k] = xy[k]
        /\ \A k \in 1 .. lc : text[m + k] = z[k]
    <2>1. /\ xy \o z \in Seq(Entry) /\ Len(xy \o z) = Len(xy) + Len(z)
          /\ \A k \in 1 .. Len(xy) + Len(z) : (xy \o z)[k] = IF k <= Len(xy) THEN xy[k] ELSE z[k - Len(xy)]
      <3>1. xy \in Seq(Entry) /\ z \in Seq(Entry)
        BY <1>3, <1>5
      <3> QED BY <3>1, ConcatProperties
    <2> QED BY <1>2, <1>3, <1>4, <1>5, <2>1, SMTT(20)
  <1>7. /\ \A k \in 1 .. la : text[k] = [unit |-> 1, item |-> a[k]]
        /\ \A k \in 1 .. lb : text[la + k] = [unit |-> 2, item |-> b[k]]
        /\ \A k \in 1 .. lc : text[m + k] = [unit |-> 3, item |-> c[k]]
    <2>1. ASSUME NEW k \in 1 .. la PROVE text[k] = [unit |-> 1, item |-> a[k]]
      <3>1. k \in 1 .. m
        BY <1>2
      <3> QED BY <1>3, <1>5, <1>6, <3>1
    <2>2. ASSUME NEW k \in 1 .. lb PROVE text[la + k] = [unit |-> 2, item |-> b[k]]
      <3>1. la + k \in 1 .. m
        BY <1>2
      <3> QED BY <1>3, <1>5, <1>6, <3>1
    <2> QED BY <1>3, <1>6, <2>1, <2>2
  <1>8. \A j \in 1 .. Len(text) : text[j].unit = IF j <= la THEN 1 ELSE IF j <= m THEN 2 ELSE 3
    <2> SUFFICES ASSUME NEW j \in 1 .. m + lc
                 PROVE  text[j].unit = IF j <= la THEN 1 ELSE IF j <= m THEN 2 ELSE 3
      BY <1>6
    <2>1. CASE j <= la
      <3>1. j \in 1 .. la
        BY <1>2, <2>1
      <3>2. text[j] = [unit |-> 1, item |-> a[j]]
        BY <1>7, <3>1
      <3> QED BY <2>1, <3>2
    <2>2. CASE ~(j <= la) /\ j <= m
      <3> DEFINE k == j - la
      <3>1. k \in 1 .. lb /\ la + k = j
        BY <1>2, <2>2
      <3> HIDE DEF k
      <3>2. text[la + k] = [unit |-> 2, item |-> b[k]]
        BY <1>7, <3>1
      <3> QED BY <2>2, <3>1, <3>2
    <2>3. CASE ~(j <= m)
      <3> DEFINE k == j - m
      <3>1. k \in 1 .. lc /\ m + k = j /\ ~(j <= la)
        BY <1>2, <2>3
      <3> HIDE DEF k
      <3>2. text[m + k] = [unit |-> 3, item |-> c[k]]
        BY <1>7, <3>1
      <3> QED BY <2>3, <3>1, <3>2
    <2> QED BY <2>1, <2>2, <2>3
  <1>9. /\ Holds(text, 0, SystemPreamble, a) /\ Holds(text, la, UserPreamble, b) /\ Holds(text, m, UserFile, c)
    <2>1. \A k \in 1 .. la : 0 + k = k
      BY <1>2
    <2>2. Holds(text, 0, SystemPreamble, a)
      BY <1>2, <1>6, <1>7, <2>1 DEF Holds, SystemPreamble, la
    <2>3. Holds(text, la, UserPreamble, b)
      BY <1>2, <1>6, <1>7 DEF Holds, UserPreamble, lb
    <2>4. Holds(text, m, UserFile, c)
      BY <1>2, <1>6, <1>7 DEF Holds, UserFile, lc
    <2> QED BY <2>2, <2>3, <2>4
  <1>10. PlacedAt(text, 0, SystemPreamble, la)
    BY <1>2, <1>6, <1>8 DEF PlacedAt, SystemPreamble
  <1>11. PlacedAt(text, la, UserPreamble, lb)
    BY <1>2, <1>6, <1>8 DEF PlacedAt, UserPreamble
  <1>12. PlacedAt(text, m, UserFile, lc)
    BY <1>2, <1>6, <1>8 DEF PlacedAt, UserFile
  <1>13. \A base : MainAfter(text, base, IF base = None THEN 0 ELSE m)
    <2>1. \A j \in 1 .. Len(text) : text[j].unit = UserFile <=> j > m
      <3> SUFFICES ASSUME NEW j \in 1 .. Len(text) PROVE text[j].unit = UserFile <=> j > m
        OBVIOUS
      <3>1. text[j].unit = IF j <= la THEN 1 ELSE IF j <= m THEN 2 ELSE 3
        BY <1>8
      <3>2. j \in Int
        BY <1>2, <1>6
      <3> QED BY <1>2, <3>1, <3>2 DEF UserFile
    <2> QED BY <2>1 DEF MainAfter
  <1> QED BY <1>6, <1>9, <1>10, <1>11, <1>12, <1>13 DEF text, la, lb, lc

UnitAt(text, at, unit, part) ==
    Holds(text, at, unit, part) /\ PlacedAt(text, at, unit, Len(part))

\* Where the three texts are.
TextShape(text, a, b, c) ==
    LET m == Len(a) + Len(b)
    IN  /\ text \in Seq(Entry) /\ Len(text) = m + Len(c)
        /\ Len(a) \in Nat /\ Len(b) \in Nat /\ Len(c) \in Nat /\ m \in Nat
        /\ UnitAt(text, 0, SystemPreamble, a)
        /\ UnitAt(text, Len(a), UserPreamble, b)
        /\ UnitAt(text, m, UserFile, c)
        /\ MainAfter(text, None, 0)
        /\ \A base : base # None => MainAfter(text, base, m)
        /\ \A j \in 1 .. Len(text) : text[j].unit = UserFile <=> j > m
        /\ \A j \in 1 .. m : text[j].unit \in 1 .. 2

LEMMA ShapeOfText ==
  ASSUME NEW a \in Seq(Item), NEW b \in Seq(Item), NEW c \in Seq(Item)
  PROVE  TextShape(OneText(<<a, b, c>>), a, b, c)
  <1> DEFINE text == OneText(<<a, b, c>>)
             m == Len(a) + Len(b)
  <1>1. /\ text \in Seq(Entry) /\ Len(text) = m + Len(c)
        /\ Holds(text, 0, SystemPreamble, a) /\ PlacedAt(text, 0, SystemPreamble, Len(a))
        /\ Holds(text, Len(a), UserPreamble, b) /\ PlacedAt(text, Len(a), UserPreamble, Len(b))
        /\ Holds(text, m, UserFile, c) /\ PlacedAt(text, m, UserFile, Len(c))
        /\ \A base : MainAfter(text, base, IF base = None THEN 0 ELSE m)
    BY OneTextShape
  <1>2. Len(a) \in Nat /\ Len(b) \in Nat /\ Len(c) \in Nat
    BY LenProperties
  <1>3. m \in Nat
    <2> DEFINE x == Len(a)
               y == Len(b)
    <2>1. m = x + y /\ x \in Nat /\ y \in Nat
      BY <1>2
    <2> HIDE DEF x, y, m
    <2> QED BY <2>1
  <1> HIDE DEF text
  <1>4. /\ MainAfter(text, None, 0)
        /\ \A base : base # None => MainAfter(text, base, m)
    <2>1. None = None
      OBVIOUS
    <2> HIDE DEF m
    <2> QED BY <1>1
  <1> HIDE DEF m
  <1>5. \A j \in 1 .. Len(text) : text[j].unit = UserFile <=> j > m
    <2>1. MainAfter(text, 1, m)
      BY <1>4 DEF None
    <2> QED BY <2>1 DEF MainAfter, None
  <1>6. \A j \in 1 .. m : text[j].unit \in 1 .. 2
    <2> TAKE j \in 1 .. m
    <2>1. j \in 1 .. Len(text) /\ ~(j > m)
      BY <1>1, <1>2, <1>3
    <2>2. text[j].unit \in 1 .. 3 /\ text[j].unit # 3
      BY <1>1, <1>5, <2>1, EntryOf DEF UserFile
    <2> QED BY <2>2
  <1> QED BY <1>1, <1>2, <1>3, <1>4, <1>5, <1>6 DEF TextShape, UnitAt, text, m

-----------------------------------------------------------------------------
(* A compilation means what its text says.                                  *)

\* The passes over a unit, which may come in any order that respects the text.
LEMMA UnitPasses ==
  ASSUME NEW own, NEW s, Owned(s, own), NEW text \in Seq(Entry),
         NEW at, NEW unit \in 1 .. 3, NEW part \in Seq(Item),
         Holds(text, at, unit, part), PlacedAt(text, at, unit, Len(part)),
         NEW base, NEW lo, MainAfter(text, base, lo), NEW m \in 0 .. Len(text), NEW d \in 0 .. Len(text),
         PreprocessedTo(s, text, m), ParsedTo(s, text, d, base, lo)
  PROVE  /\ m = at =>
               LET t == DoPreprocess(s, unit, part) IN
               /\ Owned(t, own)
               /\ PreprocessedTo(t, text, at + Len(part)) /\ ParsedTo(t, text, d, base, lo)
         /\ d = at /\ at + Len(part) <= m =>
               LET t == DoParse(s, unit) IN
               /\ Owned(t, own)
               /\ PreprocessedTo(t, text, m) /\ ParsedTo(t, text, at + Len(part), base, lo)
  <1>1. ASSUME m = at
        PROVE  LET t == DoPreprocess(s, unit, part) IN
               /\ Owned(t, own)
               /\ PreprocessedTo(t, text, at + Len(part)) /\ ParsedTo(t, text, d, base, lo)
    <2> DEFINE t == DoPreprocess(s, unit, part)
    <2>1. Owned(t, own)
      BY PreprocessOwned
    <2>2. ParseStateSame(s, t)
      BY PreprocessKeeps DEF Owned
    <2>3. PreprocessedTo(t, text, at + Len(part))
      BY <1>1, UnitPreprocessed DEF Owned
    <2> HIDE DEF t
    <2>4. ParsedTo(t, text, d, base, lo)
      BY <2>2, ParsedKept
    <2> QED BY <2>1, <2>3, <2>4 DEF t
  <1>2. ASSUME d = at, at + Len(part) <= m
        PROVE  LET t == DoParse(s, unit) IN
               /\ Owned(t, own)
               /\ PreprocessedTo(t, text, m) /\ ParsedTo(t, text, at + Len(part), base, lo)
    <2> DEFINE t == DoParse(s, unit)
               n == Len(part)
    <2>1. Owned(t, own)
      BY ParseOwned
    <2>2. PreprocessStateSame(s, t)
      BY ParseKeeps DEF Owned
    <2>3. m \in at + n .. Len(text) /\ ParsedTo(s, text, at, base, lo)
      <3>1. at \in Nat /\ n \in Nat /\ m \in Nat /\ Len(text) \in Nat
        BY LenProperties DEF Holds
      <3> QED BY <1>2, <3>1
    <2> HIDE DEF n
    <2>4. PlacedAt(text, at, unit, n)
      BY DEF n
    <2>5. ParsedTo(t, text, at + n, base, lo)
      BY <2>3, <2>4, UnitParsed
    <2> HIDE DEF t
    <2>6. PreprocessedTo(t, text, m)
      BY <2>2, PreprocessedKept
    <2> QED BY <2>1, <2>5, <2>6 DEF t, n
  <1> QED BY <1>1, <1>2

LEMMA NothingMeant ==
  ASSUME NEW config, NEW text, NEW u
  PROVE  Cardinality(MeantTokens(config, text, u, 0)) = 0
  <1>1. MeantTokens(config, text, u, 0) = {}
    BY DEF MeantTokens
  <1> QED BY <1>1, FS_EmptySet

LEMMA NothingDeclaredYet ==
  ASSUME NEW config, NEW text, NEW lo \in Nat
  PROVE  LevelMeant(<<>>, config, text, lo, lo)
  <1>1. DOMAIN <<>> = {}
    OBVIOUS
  <1>2. lo + 1 .. lo = {}
    OBVIOUS
  <1> QED BY <1>1, <1>2 DEF LevelMeant

\* Before its text a compilation from nothing only has the feature macros.
LEMMA FromNothingMeant ==
  ASSUME NEW n \in Nat, n # 0, n \notin DOMAIN levels, NEW config \in Config, NEW text \in Seq(Entry)
  PROVE  LET s == StateFromNothing(n, config)
         IN  PreprocessedTo(s, text, 0) /\ ParsedTo(s, text, 0, None, 0)
  <1> DEFINE b == [memory |-> n, preamble |-> None, config |-> config,
                   atoms |-> <<>>, macros |-> <<>>,
                   symbols |-> <<n>>, levels |-> Added(levels, n, <<>>),
                   artifacts |-> <<NewArtifact(n), NewArtifact(n), NewArtifact(n)>>]
             core  == "GL_core_profile"
             one   == "1"
             stage == StageMacro(config.stage)
             t == DefineMacro(b, core, one)
             s == DefineMacro(t, stage, one)
             z == StateFromNothing(n, config)
  <1>1. /\ Owned(z, {n}) /\ z.memory = n /\ z.config = config
        /\ z.symbols = <<n>> /\ z.levels = Added(levels, n, <<>>)
        /\ z.artifacts = <<NewArtifact(n), NewArtifact(n), NewArtifact(n)>>
    BY FromNothingOwned
  <1>2. StateOwned(b, {n})
    <2>1. NewArtifact(n) \in Artifact({n})
      BY NewArtifactOwned
    <2> DEFINE a == NewArtifact(n)
    <2> HIDE DEF a
    <2>2. <<a, a, a>> \in [1 .. 3 -> Artifact({n})]
      BY <2>1 DEF a
    <2> QED BY <2>2, EmptyTable DEF StateOwned, a
  <1>3. b.config = config /\ b.macros = <<>>
    OBVIOUS
  <1>4. z = DefineFeatureMacros(b)
    BY DEF StateFromNothing
  <1> HIDE DEF b, z
  <1>5. stage \in Name /\ one \in Name /\ core \in Name
    <2>1. config.stage \in Stages \cup {"Unknown"}
      BY DEF Config
    <2>2. stage \in Name
      BY <2>1 DEF Name
    <2> HIDE DEF stage
    <2>3. "1" \in Name /\ "GL_core_profile" \in Name
      BY DEF Name
    <2> QED BY <2>2, <2>3
  <1>6. /\ StateOwned(t, {n}) /\ ParseStateSame(b, t)
        /\ DOMAIN t.atoms = DOMAIN b.atoms \cup {core, one}
        /\ t.macros = Added(b.macros, t.atoms[core], t.atoms[one])
    <2>1. DefineEffect({n}, b, core, one, t)
      BY <1>2, <1>5, DefineKeeps
    <2> HIDE DEF t
    <2> QED BY <2>1 DEF DefineEffect
  <1>7. z = s
    BY <1>3, <1>4, <1>6 DEF DefineFeatureMacros, ParseStateSame
  <1> HIDE DEF t
  <1>8. /\ StateOwned(s, {n})
        /\ DOMAIN s.atoms = DOMAIN t.atoms \cup {stage, one}
        /\ \A w \in DOMAIN t.atoms : s.atoms[w] = t.atoms[w]
        /\ s.macros = Added(t.macros, s.atoms[stage], s.atoms[one])
    <2>1. DefineEffect({n}, t, stage, one, s)
      BY <1>5, <1>6, DefineKeeps
    <2> HIDE DEF s, stage, one
    <2> QED BY <2>1 DEF DefineEffect
  <1>9. FeatureMacros(config) = {core, stage}
    BY DEF FeatureMacros
  <1> HIDE DEF s, core, one, stage
  <1>10. \A w \in DOMAIN s.atoms : Word(s.atoms[w]) = w
    BY <1>8 DEF StateOwned, IsAtomTable
  <1>11. /\ core \in DOMAIN s.atoms /\ stage \in DOMAIN s.atoms /\ one \in DOMAIN s.atoms
         /\ t.macros = Added(<<>>, s.atoms[core], s.atoms[one])
    BY <1>3, <1>6, <1>8
  <1>12. /\ DOMAIN s.macros = {s.atoms[core], s.atoms[stage]}
         /\ \A a \in DOMAIN s.macros : s.macros[a] = s.atoms[one]
    <2>1. DOMAIN <<>> = {}
      OBVIOUS
    <2>2. DOMAIN t.macros = {s.atoms[core]} /\ t.macros[s.atoms[core]] = s.atoms[one]
      BY <1>11, <2>1 DEF Added
    <2> QED BY <1>8, <2>2 DEF Added
  <1>13. MacrosMeant(s.atoms, s.macros, config, text, 0)
    <2>1. ASSUME NEW a \in DOMAIN s.macros
          PROVE  /\ Known(s.atoms, a) /\ Known(s.atoms, s.macros[a])
                 /\ IsDefinedBefore(config, text, 0 + 1, Word(a))
                 /\ Word(s.macros[a]) = Replacement(config, text, 0 + 1, Word(a))
      <3>1. PICK w \in {core, stage} : a = s.atoms[w]
        BY <1>12
      <3>2. Word(a) = w /\ w \in FeatureMacros(config)
        BY <1>9, <1>10, <1>11, <3>1
      <3>3. IsDefinedBefore(config, text, 1, w) /\ Replacement(config, text, 1, w) = "1"
        BY <3>2, NothingBefore
      <3>4. s.macros[a] = s.atoms[one] /\ Word(s.atoms[one]) = one
        BY <1>10, <1>11, <1>12
      <3> QED BY <1>11, <3>1, <3>2, <3>3, <3>4 DEF Known, one
    <2>2. ASSUME NEW w \in Defined(config, text, 0)
          PROVE  w \in DOMAIN s.atoms /\ s.atoms[w] \in DOMAIN s.macros
      <3>1. w \in {core, stage}
        BY <1>9 DEF Defined
      <3> QED BY <1>11, <1>12, <3>1
    <2> QED BY <2>1, <2>2 DEF MacrosMeant
  <1>14. \A u \in 1 .. 3 : z.artifacts[u].tokens = <<>> /\ z.artifacts[u].tree = <<>>
    <2>1. \A u \in 1 .. 3 : z.artifacts[u] = NewArtifact(n)
      <3> DEFINE a == NewArtifact(n)
      <3> HIDE DEF a
      <3>1. \A u \in 1 .. 3 : <<a, a, a>>[u] = a
        OBVIOUS
      <3> QED BY <1>1, <3>1 DEF a
    <2> QED BY <2>1 DEF NewArtifact
  <1>15. Len(<<>>) = 0 /\ DOMAIN <<>> = {} /\ 1 .. 0 = {}
    OBVIOUS
  <1>16. PreprocessedTo(z, text, 0)
    <2>1. TokensMeant(z.atoms, z.artifacts, 1 .. 3, config, text, 0)
      BY <1>14, <1>15, NothingMeant DEF TokensMeant
    <2> QED BY <1>1, <1>7, <1>13, <2>1 DEF PreprocessedTo
  <1>17. ParsedTo(z, text, 0, None, 0)
    <2>1. TreesMeant(z.artifacts, 1 .. 3, config, text, 0, None)
      BY <1>14, <1>15, NothingMeant DEF TreesMeant
    <2>2. z.levels[n] = <<>>
      BY <1>1 DEF Added
    <2>3. LevelMeant(<<>>, config, text, 0, 0)
      BY NothingDeclaredYet
    <2>4. 0 \in 0 .. 0 /\ None # n
      BY DEF None
    <2> QED BY <1>1, <2>1, <2>2, <2>3, <2>4 DEF ParsedTo
  <1> QED BY <1>16, <1>17 DEF z

\* What a preamble is to any main file: the start of the text.
PreambleMeant(p) ==
    LET o == preambles[p]
        m == Len(o.systemPreamble) + Len(o.userPreamble)
    IN  \A main \in UserTexts :
            LET text == OneText(<<o.systemPreamble, o.userPreamble, main>>)
            IN  /\ MacrosMeant(o.atoms, o.macros, o.config, text, m)
                /\ TokensMeant(o.atoms, o.artifacts, 1 .. 2, o.config, text, m)
                /\ TreesMeant(o.artifacts, 1 .. 2, o.config, text, m, None)
                /\ LevelMeant(levels[p], o.config, text, 0, m)

\* A declaration of a preamble refers to the same one on its own and under a main file.
LEMMA PreambleDecl ==
  ASSUME NEW config, NEW text \in Seq(Entry), NEW m \in Nat, m <= Len(text), NEW base,
         \A j \in 1 .. Len(text) : text[j].unit = UserFile <=> j > m,
         NEW j \in 1 .. m
  PROVE  MeantDecl(config, text, j, base) = MeantDecl(config, text, j, None)
  <1> DEFINE decls == {k \in 1 .. j - 1 : /\ IsMeant(config, text, k) /\ text[k].item.op = "declare"
                                          /\ MeantWord(config, text, k) = MeantWord(config, text, j)}
  <1>1. \A k \in decls : text[k].unit # UserFile
    <2>1. \A k \in decls : k \in 1 .. Len(text) /\ ~(k > m)
      BY LenProperties
    <2> QED BY <2>1
  <1>2. {k \in decls : text[k].unit = UserFile} = {}
    BY <1>1
  <1>3. /\ MeantDecls(config, text, j, base) =
              IF base # None /\ {k \in decls : text[k].unit = UserFile} # {}
              THEN {k \in decls : text[k].unit = UserFile} ELSE decls
        /\ MeantDecls(config, text, j, None) = decls
    BY DEF MeantDecls
  <1> HIDE DEF decls
  <1>4. MeantDecls(config, text, j, base) = MeantDecls(config, text, j, None)
    BY <1>2, <1>3
  <1> QED BY <1>4 DEF MeantDecl

\* A compilation on top of a preamble goes on where that one ended.
LEMMA WithPreambleMeant ==
  ASSUME NEW n \in Nat, n \notin DOMAIN levels, compilations \in Nat,
         NEW p, p # None, p # n, PreambleOwned(p), PreambleMeant(p), NEW main \in UserTexts
  PROVE  LET s == StateWithPreamble(n, p)
             o == preambles[p]
             m == Len(o.systemPreamble) + Len(o.userPreamble)
             text == OneText(<<o.systemPreamble, o.userPreamble, main>>)
         IN  PreprocessedTo(s, text, m) /\ ParsedTo(s, text, m, p, m)
  <1> DEFINE s == StateWithPreamble(n, p)
             o == preambles[p]
             m == Len(o.systemPreamble) + Len(o.userPreamble)
             text == OneText(<<o.systemPreamble, o.userPreamble, main>>)
             new == NewArtifact(n)
  <1>1. /\ s.memory = n /\ s.config = o.config /\ s.symbols = <<p, n>>
        /\ s.levels = Added(levels, n, <<>>) /\ s.artifacts = Append(o.artifacts, new)
        /\ s.atoms = o.atoms /\ s.macros = o.macros
    <2>1. o.symbols = <<p>>
      BY DEF PreambleOwned
    <2>2. Append(<<p>>, n) = <<p, n>>
      BY AppendPair
    <2>3. s = [memory |-> n, preamble |-> p, config |-> o.config, atoms |-> o.atoms, macros |-> o.macros,
               symbols |-> Append(o.symbols, n), levels |-> Added(levels, n, <<>>),
               artifacts |-> Append(o.artifacts, new)]
      BY DEF StateWithPreamble
    <2> HIDE DEF s, o, new
    <2> QED BY <2>1, <2>2, <2>3
  <1>2. /\ o.systemPreamble \in Seq(Item) /\ o.userPreamble \in Seq(Item)
        /\ o.artifacts \in Seq(Artifact({p})) /\ Len(o.artifacts) = 2 /\ p \in DOMAIN levels
    BY DEF PreambleOwned
  <1>3. main \in Seq(Item)
    BY TextAssumption
  <1>4. /\ MacrosMeant(o.atoms, o.macros, o.config, text, m)
        /\ TokensMeant(o.atoms, o.artifacts, 1 .. 2, o.config, text, m)
        /\ TreesMeant(o.artifacts, 1 .. 2, o.config, text, m, None)
        /\ LevelMeant(levels[p], o.config, text, 0, m)
    BY DEF PreambleMeant
  <1> HIDE DEF s, o
  <1>5. /\ text \in Seq(Entry) /\ Len(text) = m + Len(main) /\ MainAfter(text, p, m)
    <2>1. TextShape(text, o.systemPreamble, o.userPreamble, main)
      BY <1>2, <1>3, ShapeOfText
    <2> HIDE DEF text
    <2> QED BY <2>1 DEF TextShape
  <1>6. m \in Nat /\ m <= Len(text) /\ Len(main) \in Nat
    <2>1. Len(o.systemPreamble) \in Nat /\ Len(o.userPreamble) \in Nat /\ Len(main) \in Nat
      BY <1>2, <1>3, LenProperties
    <2> DEFINE x == Len(o.systemPreamble)
               y == Len(o.userPreamble)
    <2>a. m = x + y
      OBVIOUS
    <2> HIDE DEF x, y, m
    <2>2. m \in Nat
      <3>1. x \in Nat /\ y \in Nat
        BY <2>1 DEF x, y
      <3> QED BY <2>a, <3>1
    <2> QED BY <1>5, <2>1, <2>2
  <1>7. \A j \in 1 .. Len(text) : text[j].unit = UserFile <=> j > m
    BY <1>5 DEF MainAfter
  <1> HIDE DEF m, text
  <1>8. /\ \A u \in 1 .. 2 : s.artifacts[u] = o.artifacts[u]
        /\ s.artifacts[3] = new
    <2> DEFINE S == Artifact({p}) \cup {new}
               old == o.artifacts
    <2>1. old \in Seq(S) /\ new \in S /\ Len(old) = 2
      <3>1. Artifact({p}) \subseteq S
        OBVIOUS
      <3> HIDE DEF S
      <3>2. Seq(Artifact({p})) \subseteq Seq(S)
        BY <3>1, SeqMonotonic
      <3> QED BY <1>2, <3>2 DEF S
    <2> HIDE DEF S, old, new
    <2>a. old \in Seq(S) /\ new \in S
      BY <2>1
    <2>2. /\ \A u \in 1 .. Len(old) : Append(old, new)[u] = old[u]
          /\ Append(old, new)[Len(old) + 1] = new
      BY <2>a, AppendProperties
    <2>3. \A u \in 1 .. 2 : Append(old, new)[u] = old[u]
      BY <2>1, <2>2
    <2>4. Append(old, new)[3] = new
      BY <2>1, <2>2
    <2> QED BY <1>1, <2>3, <2>4 DEF old
  <1>9. new.tokens = <<>> /\ new.tree = <<>> /\ Len(<<>>) = 0 /\ DOMAIN <<>> = {}
    BY DEF NewArtifact
  <1> HIDE DEF new
  <1>10. Cardinality(MeantTokens(o.config, text, 3, m)) = 0
    <2>1. MeantTokens(o.config, text, 3, m) = {}
      <3>1. \A j \in 1 .. m : j \in 1 .. Len(text) /\ ~(j > m)
        BY <1>5, <1>6, LenProperties
      <3> QED BY <1>7, <3>1 DEF MeantTokens, UserFile
    <2> QED BY <2>1, FS_EmptySet
  <1>11. \A j \in 1 .. m : text[j].unit \in 1 .. 2
    <2> TAKE j \in 1 .. m
    <2>1. j \in 1 .. Len(text) /\ ~(j > m)
      BY <1>6
    <2>2. text[j].unit \in 1 .. 3 /\ text[j].unit # 3
      BY <1>5, <1>7, <2>1, EntryOf DEF UserFile
    <2> QED BY <2>2
  <1>12. \A u \in 1 .. 3 : u \in 1 .. 2 \/ u = 3
    OBVIOUS
  <1>13. TokensMeant(s.atoms, s.artifacts, 1 .. 3, s.config, text, m)
    <2>1. ASSUME NEW u \in 1 .. 3
          PROVE  /\ Len(s.artifacts[u].tokens) = Cardinality(MeantTokens(o.config, text, u, m))
                 /\ \A k \in DOMAIN s.artifacts[u].tokens : Known(s.atoms, s.artifacts[u].tokens[k].atom)
      <3>1. CASE u \in 1 .. 2
        BY <1>1, <1>4, <1>8, <3>1 DEF TokensMeant
      <3>2. CASE u = 3
        BY <1>8, <1>9, <1>10, <3>2
      <3> QED BY <1>12, <3>1, <3>2
    <2>2. \A j \in 1 .. m : IsMeant(o.config, text, j) =>
             LET token == s.artifacts[text[j].unit].tokens[TokenIndex(o.config, text, j)]
             IN  token.op = text[j].item.op /\ Word(token.atom) = MeantWord(o.config, text, j)
      BY <1>4, <1>8, <1>11 DEF TokensMeant
    <2> QED BY <1>1, <2>1, <2>2 DEF TokensMeant
  <1>14. TreesMeant(s.artifacts, 1 .. 3, s.config, text, m, p)
    <2>1. ASSUME NEW u \in 1 .. 3
          PROVE  Len(s.artifacts[u].tree) = Cardinality(MeantTokens(o.config, text, u, m))
      <3>1. CASE u \in 1 .. 2
        BY <1>1, <1>4, <1>8, <3>1 DEF TreesMeant
      <3>2. CASE u = 3
        BY <1>8, <1>9, <1>10, <3>2
      <3> QED BY <1>12, <3>1, <3>2
    <2>2. ASSUME NEW j \in 1 .. m, IsMeant(o.config, text, j)
          PROVE  LET decl == s.artifacts[text[j].unit].tree[TokenIndex(o.config, text, j)]
                 IN  <<decl[2], decl[3]>> = MeantDecl(o.config, text, j, p)
      <3>1. LET decl == o.artifacts[text[j].unit].tree[TokenIndex(o.config, text, j)]
            IN  <<decl[2], decl[3]>> = MeantDecl(o.config, text, j, None)
        BY <1>4, <2>2 DEF TreesMeant
      <3>2. MeantDecl(o.config, text, j, p) = MeantDecl(o.config, text, j, None)
        BY <1>5, <1>6, <1>7, PreambleDecl, SMTT(20)
      <3>3. s.artifacts[text[j].unit] = o.artifacts[text[j].unit]
        BY <1>8, <1>11
      <3> QED BY <3>1, <3>2, <3>3
    <2> QED BY <1>1, <2>1, <2>2 DEF TreesMeant
  <1>15. s.levels[n] = <<>> /\ s.levels[p] = levels[p]
    BY <1>1, <1>2 DEF Added
  <1>16. LevelMeant(<<>>, s.config, text, m, m)
    BY <1>6, NothingDeclaredYet
  <1>17. PreprocessedTo(s, text, m)
    BY <1>1, <1>4, <1>13 DEF PreprocessedTo
  <1>18. ParsedTo(s, text, m, p, m)
    BY <1>1, <1>4, <1>6, <1>14, <1>15, <1>16 DEF ParsedTo
  <1> QED BY <1>17, <1>18 DEF s, o, m, text

-----------------------------------------------------------------------------
(* What a result is.                                                        *)

\* What CompiledAsOneText says of a result.
ResultMeant(o, text) ==
    /\ AtomsAgree(o)
    /\ \A u \in 1 .. 3 :
           /\ Len(o.artifacts[u].tokens) = Cardinality(MeantTokens(o.config, text, u, Len(text)))
           /\ Len(o.artifacts[u].tree) \in {0, Len(o.artifacts[u].tokens)}
    /\ \A i \in DOMAIN text : IsMeant(o.config, text, i) =>
           LET a == o.artifacts[text[i].unit]
               k == TokenIndex(o.config, text, i)
           IN  /\ a.tokens[k].op = text[i].item.op
               /\ Word(a.tokens[k].atom) = MeantWord(o.config, text, i)
               /\ a.tree # <<>> =>
                      <<a.tree[k][2], a.tree[k][3]>> = MeantDecl(o.config, text, i, o.base)

\* A unit is parsed as a whole or not at all.
UnitsWhole(text, d) ==
    \A i, j \in 1 .. Len(text) : text[i].unit = text[j].unit => (i <= d <=> j <= d)

LEMMA WholeUnit ==
  ASSUME NEW config, NEW text \in Seq(Entry), NEW d \in 0 .. Len(text), UnitsWhole(text, d), NEW u
  PROVE  /\ \/ MeantTokens(config, text, u, d) = {}
            \/ MeantTokens(config, text, u, d) = MeantTokens(config, text, u, Len(text))
         /\ \A i \in 1 .. Len(text) : text[i].unit = u /\ ~(i <= d) =>
                MeantTokens(config, text, u, d) = {}
  <1>1. Len(text) \in Nat
    BY LenProperties
  <1>2. MeantTokens(config, text, u, d) = {j \in MeantTokens(config, text, u, Len(text)) : j <= d}
    BY <1>1 DEF MeantTokens
  <1>3. \A i, j \in MeantTokens(config, text, u, Len(text)) : i <= d <=> j <= d
    BY DEF MeantTokens, UnitsWhole
  <1>4. ASSUME NEW i \in 1 .. Len(text), text[i].unit = u, ~(i <= d)
        PROVE  MeantTokens(config, text, u, d) = {}
    <2>1. \A j \in MeantTokens(config, text, u, Len(text)) : ~(j <= d)
      BY <1>4 DEF MeantTokens, UnitsWhole
    <2> QED BY <1>2, <2>1
  <1>5. \/ MeantTokens(config, text, u, d) = {}
        \/ MeantTokens(config, text, u, d) = MeantTokens(config, text, u, Len(text))
    BY <1>2, <1>3
  <1> QED BY <1>4, <1>5

LEMMA ResultIsMeant ==
  ASSUME NEW own, NEW s, Owned(s, own), NEW text \in Seq(Entry), NEW d \in 0 .. Len(text),
         UnitsWhole(text, d), NEW lo, NEW texts,
         PreprocessedTo(s, text, Len(text)), ParsedTo(s, text, d, s.preamble, lo)
  PROVE  ResultMeant(CreateCompileResult(s, texts), text)
  <1> DEFINE o == CreateCompileResult(s, texts)
             config == s.config
             N == Len(text)
  <1>1. o.artifacts = s.artifacts /\ o.config = config /\ o.base = s.preamble
    BY DEF CreateCompileResult
  <1>2. s.artifacts \in [1 .. 3 -> Artifact(own)]
    BY DEF Owned, StateOwned
  <1>3. N \in Nat /\ DOMAIN text = 1 .. N
    BY LenProperties
  <1>4. /\ TokensMeant(s.atoms, s.artifacts, 1 .. 3, config, text, N)
        /\ TreesMeant(s.artifacts, 1 .. 3, config, text, d, s.preamble)
    BY DEF PreprocessedTo, ParsedTo
  <1> HIDE DEF o, config, N
  <1>5. AtomsAgree(o)
    <2> DEFINE atoms == UNION {{o.artifacts[u].tokens[k].atom : k \in DOMAIN o.artifacts[u].tokens} : u \in 1 .. 3}
    <2>1. \A a \in atoms : Known(s.atoms, a)
      <3>1. ASSUME NEW a \in atoms
            PROVE  Known(s.atoms, a)
        <4>1. PICK u \in 1 .. 3 : a \in {o.artifacts[u].tokens[k].atom : k \in DOMAIN o.artifacts[u].tokens}
          BY <3>1
        <4>2. PICK k \in DOMAIN o.artifacts[u].tokens : a = o.artifacts[u].tokens[k].atom
          BY <4>1
        <4> QED BY <1>1, <1>4, <4>2 DEF TokensMeant
      <3> QED BY <3>1
    <2> HIDE DEF atoms
    <2>2. \A a, b \in atoms : Word(a) = Word(b) => a = b
      BY <2>1 DEF Known
    <2> QED BY <2>2 DEF AtomsAgree, atoms
  <1>6. ASSUME NEW u \in 1 .. 3
        PROVE  /\ Len(o.artifacts[u].tokens) = Cardinality(MeantTokens(config, text, u, N))
               /\ Len(o.artifacts[u].tree) \in {0, Len(o.artifacts[u].tokens)}
    <2>1. /\ Len(s.artifacts[u].tokens) = Cardinality(MeantTokens(config, text, u, N))
          /\ Len(s.artifacts[u].tree) = Cardinality(MeantTokens(config, text, u, d))
      BY <1>4 DEF TokensMeant, TreesMeant
    <2>2. \/ MeantTokens(config, text, u, d) = {}
          \/ MeantTokens(config, text, u, d) = MeantTokens(config, text, u, N)
      BY WholeUnit DEF N
    <2>3. Cardinality({}) = 0
      BY FS_EmptySet
    <2> QED BY <1>1, <2>1, <2>2, <2>3
  <1>7. ASSUME NEW i \in 1 .. N, IsMeant(config, text, i)
        PROVE  LET a == o.artifacts[text[i].unit]
                   k == TokenIndex(config, text, i)
               IN  /\ a.tokens[k].op = text[i].item.op
                   /\ Word(a.tokens[k].atom) = MeantWord(config, text, i)
                   /\ a.tree # <<>> =>
                          <<a.tree[k][2], a.tree[k][3]>> = MeantDecl(config, text, i, s.preamble)
    <2> DEFINE a == s.artifacts[text[i].unit]
               k == TokenIndex(config, text, i)
    <2>1. a.tokens[k].op = text[i].item.op /\ Word(a.tokens[k].atom) = MeantWord(config, text, i)
      BY <1>4, <1>7 DEF TokensMeant
    <2>2. ASSUME a.tree # <<>>
          PROVE  <<a.tree[k][2], a.tree[k][3]>> = MeantDecl(config, text, i, s.preamble)
      <3>1. text[i].unit \in 1 .. 3
        BY <1>7, EntryOf DEF N
      <3>2. a.tree \in Seq(Decls(own) \cup {NoDecl})
        <4>1. a \in Artifact(own)
          BY <1>2, <3>1
        <4> HIDE DEF a
        <4> QED BY <4>1 DEF Artifact
      <3>3. Len(a.tree) = Cardinality(MeantTokens(config, text, text[i].unit, d))
        BY <1>4, <3>1 DEF TreesMeant
      <3>4. i <= d
        <4>1. SUFFICES ASSUME ~(i <= d) PROVE FALSE
          OBVIOUS
        <4>2. MeantTokens(config, text, text[i].unit, d) = {}
          BY <1>7, <4>1, WholeUnit DEF N
        <4>3. Len(a.tree) = 0
          BY <3>3, <4>2, FS_EmptySet
        <4> HIDE DEF a
        <4> QED BY <2>2, <3>2, <4>3, EmptySeq
      <3>5. i \in 1 .. d
        BY <1>3, <3>4
      <3> QED BY <1>4, <1>7, <3>5 DEF TreesMeant
    <2> QED BY <1>1, <2>1, <2>2
  <1> QED BY <1>1, <1>3, <1>5, <1>6, <1>7 DEF ResultMeant, N, config, o

-----------------------------------------------------------------------------
(* The inductive invariant: what is compiled is what was meant.             *)
TextMeant ==
    /\ MemoryOwned
    /\ \A p \in DOMAIN preambles : PreambleMeant(p)
    /\ \A r \in DOMAIN results : ResultMeant(results[r], OneText(results[r].texts))

LEMMA MeantIsOneText == TextMeant => CompiledAsOneText
  BY DEF TextMeant, ResultMeant, CompiledAsOneText

LEMMA InitMeant == CompileInit => TextMeant
  BY InitOwned DEF TextMeant, CompileInit

-----------------------------------------------------------------------------
(* Passes, one after the other.                                             *)
Passed(s, own, text, m, d, base, lo) ==
    /\ m \in 0 .. Len(text) /\ d \in 0 .. Len(text)
    /\ Owned(s, own) /\ PreprocessedTo(s, text, m) /\ ParsedTo(s, text, d, base, lo)

LEMMA UnitIsPreprocessed ==
  ASSUME NEW own, NEW s, NEW text \in Seq(Entry), NEW at, NEW unit \in 1 .. 3, NEW part \in Seq(Item),
         UnitAt(text, at, unit, part), NEW base, NEW lo, MainAfter(text, base, lo), NEW d,
         Passed(s, own, text, at, d, base, lo)
  PROVE  Passed(DoPreprocess(s, unit, part), own, text, at + Len(part), d, base, lo)
  <1> DEFINE t == DoPreprocess(s, unit, part)
  <1>1. /\ Holds(text, at, unit, part) /\ PlacedAt(text, at, unit, Len(part))
        /\ at \in 0 .. Len(text) /\ d \in 0 .. Len(text)
        /\ Owned(s, own) /\ PreprocessedTo(s, text, at) /\ ParsedTo(s, text, d, base, lo)
    BY DEF UnitAt, Passed
  <1>2. Owned(t, own) /\ PreprocessedTo(t, text, at + Len(part)) /\ ParsedTo(t, text, d, base, lo)
    BY <1>1, UnitPasses
  <1>3. at + Len(part) \in 0 .. Len(text)
    <2>1. Len(text) \in Nat
      BY LenProperties
    <2> QED BY <1>1, <2>1 DEF Holds
  <1> HIDE DEF t
  <1> QED BY <1>1, <1>2, <1>3 DEF Passed, t

LEMMA UnitIsParsed ==
  ASSUME NEW own, NEW s, NEW text \in Seq(Entry), NEW at, NEW unit \in 1 .. 3, NEW part \in Seq(Item),
         UnitAt(text, at, unit, part), NEW base, NEW lo, MainAfter(text, base, lo),
         NEW m, at + Len(part) <= m, Passed(s, own, text, m, at, base, lo)
  PROVE  Passed(DoParse(s, unit), own, text, m, at + Len(part), base, lo)
  <1> DEFINE t == DoParse(s, unit)
  <1>1. /\ Holds(text, at, unit, part) /\ PlacedAt(text, at, unit, Len(part))
        /\ at \in 0 .. Len(text) /\ m \in 0 .. Len(text)
        /\ Owned(s, own) /\ PreprocessedTo(s, text, m) /\ ParsedTo(s, text, at, base, lo)
    BY DEF UnitAt, Passed
  <1>2. Owned(t, own) /\ PreprocessedTo(t, text, m) /\ ParsedTo(t, text, at + Len(part), base, lo)
    BY <1>1, UnitPasses
  <1>3. at + Len(part) \in 0 .. Len(text)
    <2>1. Len(text) \in Nat
      BY LenProperties
    <2> QED BY <1>1, <2>1 DEF Holds
  <1> HIDE DEF t
  <1> QED BY <1>1, <1>2, <1>3 DEF Passed, t

\* The passes that make a preamble.
LEMMA PreamblePasses ==
  ASSUME NEW n \in Nat, n # 0, n \notin DOMAIN levels, NEW config \in Config,
         NEW a \in Seq(Item), NEW b \in Seq(Item), NEW c \in Seq(Item)
  PROVE  LET s0 == StateFromNothing(n, config)
             s  == DoParse(DoPreprocess(s0, SystemPreamble, a), SystemPreamble)
             t  == DoParse(DoPreprocess(s, UserPreamble, b), UserPreamble)
             m  == Len(a) + Len(b)
         IN  Passed(t, {n}, OneText(<<a, b, c>>), m, m, None, 0)
  <1> DEFINE text == OneText(<<a, b, c>>)
             s0 == StateFromNothing(n, config)
             s1 == DoPreprocess(s0, SystemPreamble, a)
             s2 == DoParse(s1, SystemPreamble)
             s3 == DoPreprocess(s2, UserPreamble, b)
             s4 == DoParse(s3, UserPreamble)
             x == Len(a)
             m == Len(a) + Len(b)
  <1>1. TextShape(text, a, b, c)
    BY ShapeOfText
  <1> HIDE DEF text
  <1>2. /\ text \in Seq(Entry) /\ x \in Nat /\ Len(text) \in Nat
        /\ UnitAt(text, 0, SystemPreamble, a) /\ UnitAt(text, x, UserPreamble, b)
        /\ MainAfter(text, None, 0)
    <2>1. text \in Seq(Entry)
      BY <1>1 DEF TextShape
    <2>2. Len(text) \in Nat
      BY <2>1, LenProperties
    <2> QED BY <1>1, <2>1, <2>2 DEF TextShape
  <1>3. SystemPreamble \in 1 .. 3 /\ UserPreamble \in 1 .. 3
    BY DEF SystemPreamble, UserPreamble
  <1>4. Passed(s0, {n}, text, 0, 0, None, 0)
    <2>1. Owned(s0, {n})
      BY FromNothingOwned
    <2>2. PreprocessedTo(s0, text, 0) /\ ParsedTo(s0, text, 0, None, 0)
      BY <1>2, FromNothingMeant
    <2> HIDE DEF s0
    <2>3. 0 \in 0 .. Len(text)
      BY <1>2
    <2> QED BY <2>1, <2>2, <2>3 DEF Passed
  <1> HIDE DEF s0
  <1>5. 0 + Len(a) = x /\ x + Len(b) = m /\ 0 + Len(a) <= x /\ x + Len(b) <= m
    <2>1. Len(a) \in Nat /\ Len(b) \in Nat
      BY LenProperties
    <2> DEFINE y == Len(b)
    <2>2. m = x + y /\ x \in Nat /\ y \in Nat /\ Len(a) = x /\ Len(b) = y
      BY <2>1
    <2> HIDE DEF x, y, m
    <2> QED BY <2>2
  <1>6. Passed(s1, {n}, text, x, 0, None, 0)
    <2>1. Passed(s1, {n}, text, 0 + Len(a), 0, None, 0)
      BY <1>2, <1>3, <1>4, UnitIsPreprocessed
    <2> HIDE DEF s1, x
    <2> QED BY <1>5, <2>1
  <1> HIDE DEF s1
  <1>7. Passed(s2, {n}, text, x, x, None, 0)
    <2>1. Passed(s2, {n}, text, x, 0 + Len(a), None, 0)
      BY <1>2, <1>3, <1>5, <1>6, UnitIsParsed
    <2> HIDE DEF s2, x
    <2> QED BY <1>5, <2>1
  <1> HIDE DEF s2
  <1>8. Passed(s3, {n}, text, m, x, None, 0)
    <2>1. Passed(s3, {n}, text, x + Len(b), x, None, 0)
      BY <1>2, <1>3, <1>7, UnitIsPreprocessed
    <2> HIDE DEF s3, x, m
    <2> QED BY <1>5, <2>1
  <1> HIDE DEF s3
  <1>9. Passed(s4, {n}, text, m, m, None, 0)
    <2>1. Passed(s4, {n}, text, m, x + Len(b), None, 0)
      BY <1>2, <1>3, <1>5, <1>8, UnitIsParsed
    <2> HIDE DEF s4, x, m
    <2> QED BY <1>5, <2>1
  <1> HIDE DEF s4
  <1> QED BY <1>9 DEF s0, s1, s2, s3, s4, text, m

\* What a compilation leaves as a preamble is the start of every text with it.
LEMMA PreambleIsMeant ==
  ASSUME NEW t, NEW own, t.artifacts \in [1 .. 3 -> Artifact(own)],
         NEW a \in Seq(Item), NEW b \in Seq(Item), NEW c \in Seq(Item),
         NEW m, m = Len(a) + Len(b), NEW text, text = OneText(<<a, b, c>>),
         Passed(t, own, text, m, m, None, 0)
  PROVE  /\ MacrosMeant(t.atoms, t.macros, t.config, text, m)
         /\ TokensMeant(t.atoms, SubSeq(t.artifacts, 1, 2), 1 .. 2, t.config, text, m)
         /\ TreesMeant(SubSeq(t.artifacts, 1, 2), 1 .. 2, t.config, text, m, None)
         /\ LevelMeant(t.levels[t.memory], t.config, text, 0, m)
  <1>1. TextShape(text, a, b, c)
    BY ShapeOfText
  <1>2. \A j \in 1 .. m : text[j].unit \in 1 .. 2
    BY <1>1 DEF TextShape
  <1>3. \A u \in 1 .. 2 : u \in 1 .. 3 /\ SubSeq(t.artifacts, 1, 2)[u] = t.artifacts[u]
    BY FirstTwo
  <1>4. /\ MacrosMeant(t.atoms, t.macros, t.config, text, m)
        /\ TokensMeant(t.atoms, t.artifacts, 1 .. 3, t.config, text, m)
        /\ TreesMeant(t.artifacts, 1 .. 3, t.config, text, m, None)
        /\ LevelMeant(t.levels[t.memory], t.config, text, 0, m)
    BY DEF Passed, PreprocessedTo, ParsedTo
  <1> DEFINE two == SubSeq(t.artifacts, 1, 2)
  <1> HIDE DEF two
  <1>5. \A u \in 1 .. 2 : u \in 1 .. 3 /\ two[u] = t.artifacts[u]
    BY <1>3 DEF two
  <1>6. TokensMeant(t.atoms, two, 1 .. 2, t.config, text, m)
    BY <1>2, <1>4, <1>5 DEF TokensMeant
  <1>7. TreesMeant(two, 1 .. 2, t.config, text, m, None)
    BY <1>2, <1>4, <1>5 DEF TreesMeant
  <1> QED BY <1>4, <1>6, <1>7 DEF two

LEMMA CompilePreambleMeant ==
  ASSUME TextMeant, NEW c \in Clients, CompilePreamble(c)
  PROVE  TextMeant'
  <1>0. PICK n : n = compilations + 1
    OBVIOUS
  <1> DEFINE i  == invocations[c]
             known == DOMAIN preambles
             system == SystemText(i)
             user == i.userPreamble
             s0 == StateFromNothing(n, i.config)
             s  == DoParse(DoPreprocess(s0, SystemPreamble, system), SystemPreamble)
             t  == DoParse(DoPreprocess(s, UserPreamble, user), UserPreamble)
             o  == [config |-> i.config, systemPreamble |-> system,
                    userPreamble |-> user, atoms |-> t.atoms, macros |-> t.macros,
                    symbols |-> t.symbols, artifacts |-> SubSeq(t.artifacts, 1, 2)]
             m  == Len(system) + Len(user)
  <1>1. /\ MemoryOwned /\ MemoryOwned'
        /\ \A p \in known : PreambleMeant(p)
        /\ \A r \in DOMAIN results : ResultMeant(results[r], OneText(results[r].texts))
    BY CompilePreambleOwned DEF TextMeant
  <1>2. n \in Nat /\ n # 0 /\ n \notin DOMAIN levels /\ n \notin known
    <2>1. compilations \in Nat /\ DOMAIN levels \subseteq 1 .. compilations
      BY <1>1 DEF MemoryOwned
    <2>2. known \subseteq 1 .. compilations
      BY <1>1 DEF MemoryOwned, PreambleOwned
    <2> QED BY <1>0, <2>1, <2>2
  <1>3. i \in Invoked(known)
    BY <1>1 DEF MemoryOwned, IsTable, CompilePreamble, Ready, Has
  <1>4. system \in Seq(Item) /\ i.config \in Config /\ user \in Seq(Item)
    BY <1>3, SystemTextIsText DEF Invoked
  <1>5. Owned(t, {n}) /\ SameBase(s0, t)
    BY <1>2, <1>4, PreambleTablesOwned
  <1>6. s0.memory = n /\ s0.config = i.config /\ s0.symbols = <<n>> /\ s0.levels = Added(levels, n, <<>>)
    BY <1>2, <1>4, FromNothingOwned
  <1>7. \A main \in UserTexts : main \in Seq(Item)
    BY TextAssumption
  <1>8. \A main \in UserTexts : Passed(t, {n}, OneText(<<system, user, main>>), m, m, None, 0)
    BY <1>2, <1>4, <1>7, PreamblePasses
  <1>9. /\ preambles' = Added(preambles, n, o) /\ levels' = t.levels /\ results' = results
    BY <1>0 DEF CompilePreamble
  <1> HIDE DEF s0, t, known, i, system, user
  <1>10. /\ t.memory = n /\ t.config = i.config /\ t.artifacts \in [1 .. 3 -> Artifact({n})]
         /\ \A k \in DOMAIN levels : t.levels[k] = levels[k]
    <2>1. t.memory = n /\ t.config = i.config
      BY <1>5, <1>6 DEF SameBase
    <2>2. \A k \in DOMAIN s0.levels : k # Last(<<n>>) => t.levels[k] = s0.levels[k]
      BY <1>5, <1>6 DEF SameBase
    <2>3. Last(<<n>>) = n
      BY DEF Last
    <2>4. \A k \in DOMAIN levels : t.levels[k] = levels[k]
      BY <1>2, <1>6, <2>2, <2>3 DEF Added
    <2>5. t.artifacts \in [1 .. 3 -> Artifact({n})]
      BY <1>5 DEF Owned, StateOwned
    <2> QED BY <2>1, <2>4, <2>5
  <1>11. ASSUME NEW main \in UserTexts
         PROVE  LET text == OneText(<<system, user, main>>)
                IN  /\ MacrosMeant(o.atoms, o.macros, o.config, text, m)
                    /\ TokensMeant(o.atoms, o.artifacts, 1 .. 2, o.config, text, m)
                    /\ TreesMeant(o.artifacts, 1 .. 2, o.config, text, m, None)
                    /\ LevelMeant(t.levels[n], o.config, text, 0, m)
    <2> DEFINE text == OneText(<<system, user, main>>)
    <2>1. main \in Seq(Item) /\ Passed(t, {n}, text, m, m, None, 0)
      BY <1>7, <1>8
    <2> HIDE DEF o
    <2>2. /\ MacrosMeant(t.atoms, t.macros, t.config, text, m)
          /\ TokensMeant(t.atoms, SubSeq(t.artifacts, 1, 2), 1 .. 2, t.config, text, m)
          /\ TreesMeant(SubSeq(t.artifacts, 1, 2), 1 .. 2, t.config, text, m, None)
          /\ LevelMeant(t.levels[t.memory], t.config, text, 0, m)
      <3> HIDE DEF m, text
      <3> QED BY <1>4, <1>10, <2>1, PreambleIsMeant DEF m, text
    <2> HIDE DEF m, text
    <2>3. /\ o.atoms = t.atoms /\ o.macros = t.macros /\ o.config = t.config
          /\ o.artifacts = SubSeq(t.artifacts, 1, 2)
      BY <1>10 DEF o
    <2> QED BY <1>10, <2>2, <2>3 DEF text
  <1>12. o.systemPreamble = system /\ o.userPreamble = user
    OBVIOUS
  <1> HIDE DEF o
  <1>13. /\ DOMAIN preambles' = known \cup {n} /\ preambles'[n] = o
         /\ \A p \in known : preambles'[p] = preambles[p]
    BY <1>2, <1>9 DEF Added, known
  <1>14. PreambleMeant(n)'
    <2>1. /\ (preambles[n])' = o /\ (levels[n])' = t.levels[n]
      BY <1>9, <1>13
    <2> QED BY <1>11, <1>12, <2>1 DEF PreambleMeant, m
  <1>15. ASSUME NEW p \in known PROVE PreambleMeant(p)'
    <2>1. p \in DOMAIN levels
      BY <1>1 DEF MemoryOwned, PreambleOwned, known
    <2>2. preambles'[p] = preambles[p] /\ levels'[p] = levels[p]
      BY <1>9, <1>10, <1>13, <2>1
    <2>3. PreambleMeant(p)
      BY <1>1
    <2> QED BY <2>2, <2>3 DEF PreambleMeant
  <1>16. \A p \in DOMAIN preambles' : PreambleMeant(p)'
    BY <1>13, <1>14, <1>15
  <1>17. \A r \in DOMAIN results' : ResultMeant(results'[r], OneText(results'[r].texts))
    BY <1>1, <1>9
  <1> QED BY <1>1, <1>16, <1>17 DEF TextMeant

\* A result of a text that is parsed up to d is what the text says.
LEMMA PassedIsMeant ==
  ASSUME NEW own, NEW s, NEW a \in Seq(Item), NEW b \in Seq(Item), NEW c \in Seq(Item),
         NEW text, text = OneText(<<a, b, c>>), NEW d, d \in {0, Len(a) + Len(b), Len(text)},
         NEW lo, Passed(s, own, text, Len(text), d, s.preamble, lo)
  PROVE  ResultMeant(CreateCompileResult(s, <<a, b, c>>), text)
  <1>1. TextShape(text, a, b, c)
    BY ShapeOfText
  <1>2. /\ text \in Seq(Entry) /\ Len(a) + Len(b) \in Nat
        /\ \A j \in 1 .. Len(text) : text[j].unit = UserFile <=> j > Len(a) + Len(b)
    BY <1>1 DEF TextShape
  <1>3. /\ d \in 0 .. Len(text) /\ Owned(s, own)
        /\ PreprocessedTo(s, text, Len(text)) /\ ParsedTo(s, text, d, s.preamble, lo)
    BY DEF Passed
  <1>4. UnitsWhole(text, d)
    <2>1. CASE d = 0
      BY <2>1 DEF UnitsWhole
    <2>2. CASE d = Len(text)
      <3>1. Len(text) \in Nat
        BY <1>2, LenProperties
      <3> QED BY <2>2, <3>1 DEF UnitsWhole
    <2>3. CASE d = Len(a) + Len(b)
      <3>1. \A j \in 1 .. Len(text) : text[j].unit = UserFile <=> ~(j <= d)
        <4>1. \A j \in 1 .. Len(text) : text[j].unit = UserFile <=> j > d
          BY <1>2, <2>3
        <4>2. d \in Nat
          BY <1>2, <2>3
        <4> QED BY <4>1, <4>2
      <3> QED BY <3>1 DEF UnitsWhole
    <2> QED BY <2>1, <2>2, <2>3
  <1> QED BY <1>2, <1>3, <1>4, ResultIsMeant

\* The main file and the preambles compiled together.
LEMMA AltogetherMeant ==
  ASSUME NEW n \in Nat, n # 0, n \notin DOMAIN levels, NEW config \in Config,
         NEW a \in Seq(Item), NEW b \in Seq(Item), NEW c \in Seq(Item)
  PROVE  LET s0 == StateFromNothing(n, config)
             s1 == DoPreprocess(s0, SystemPreamble, a)
             s2 == DoPreprocess(s1, UserPreamble, b)
             s3 == DoPreprocess(s2, UserFile, c)
             t1 == DoParse(s3, SystemPreamble)
             t2 == DoParse(t1, UserPreamble)
             t3 == DoParse(t2, UserFile)
             text == OneText(<<a, b, c>>)
         IN  /\ Passed(s3, {n}, text, Len(text), 0, None, 0)
             /\ Passed(t3, {n}, text, Len(text), Len(text), None, 0)
  <1> DEFINE s0 == StateFromNothing(n, config)
             s1 == DoPreprocess(s0, SystemPreamble, a)
             s2 == DoPreprocess(s1, UserPreamble, b)
             s3 == DoPreprocess(s2, UserFile, c)
             t1 == DoParse(s3, SystemPreamble)
             t2 == DoParse(t1, UserPreamble)
             t3 == DoParse(t2, UserFile)
             text == OneText(<<a, b, c>>)
             x == Len(a)
             m == Len(a) + Len(b)
             N == Len(text)
  <1>1. TextShape(text, a, b, c)
    BY ShapeOfText
  <1> HIDE DEF text
  <1>2. /\ text \in Seq(Entry) /\ x \in Nat /\ N \in Nat
        /\ UnitAt(text, 0, SystemPreamble, a) /\ UnitAt(text, x, UserPreamble, b)
        /\ UnitAt(text, m, UserFile, c) /\ MainAfter(text, None, 0)
    <2>1. text \in Seq(Entry)
      BY <1>1 DEF TextShape
    <2>2. Len(text) \in Nat
      BY <2>1, LenProperties
    <2> QED BY <1>1, <2>1, <2>2 DEF TextShape
  <1>3. SystemPreamble \in 1 .. 3 /\ UserPreamble \in 1 .. 3 /\ UserFile \in 1 .. 3
    BY DEF SystemPreamble, UserPreamble, UserFile
  <1>4. Passed(s0, {n}, text, 0, 0, None, 0)
    <2>1. Owned(s0, {n})
      BY FromNothingOwned
    <2>2. PreprocessedTo(s0, text, 0) /\ ParsedTo(s0, text, 0, None, 0)
      BY <1>2, FromNothingMeant
    <2> HIDE DEF s0
    <2>3. 0 \in 0 .. Len(text)
      BY <1>2
    <2> QED BY <2>1, <2>2, <2>3 DEF Passed
  <1> HIDE DEF s0
  <1>5. /\ 0 + Len(a) = x /\ x + Len(b) = m /\ m + Len(c) = N
        /\ 0 + Len(a) <= N /\ x + Len(b) <= N /\ m + Len(c) <= N
    <2>1. Len(a) \in Nat /\ Len(b) \in Nat /\ Len(c) \in Nat /\ N = m + Len(c)
      BY <1>1 DEF TextShape
    <2> DEFINE y == Len(b)
               z == Len(c)
    <2>2. m = x + y /\ x \in Nat /\ y \in Nat /\ z \in Nat /\ Len(a) = x /\ Len(b) = y /\ Len(c) = z /\ N = m + z
      BY <2>1
    <2> HIDE DEF x, y, z, m, N
    <2> QED BY <2>2
  <1> HIDE DEF N
  <1>6. Passed(s1, {n}, text, x, 0, None, 0)
    <2>1. Passed(s1, {n}, text, 0 + Len(a), 0, None, 0)
      BY <1>2, <1>3, <1>4, UnitIsPreprocessed
    <2> HIDE DEF s1, x
    <2> QED BY <1>5, <2>1
  <1> HIDE DEF s1
  <1>7. Passed(s2, {n}, text, m, 0, None, 0)
    <2>1. Passed(s2, {n}, text, x + Len(b), 0, None, 0)
      BY <1>2, <1>3, <1>6, UnitIsPreprocessed
    <2> HIDE DEF s2, x, m
    <2> QED BY <1>5, <2>1
  <1> HIDE DEF s2
  <1>8. Passed(s3, {n}, text, N, 0, None, 0)
    <2>1. Passed(s3, {n}, text, m + Len(c), 0, None, 0)
      BY <1>2, <1>3, <1>7, UnitIsPreprocessed
    <2> HIDE DEF s3, m
    <2> QED BY <1>5, <2>1
  <1> HIDE DEF s3
  <1>9. Passed(t1, {n}, text, N, x, None, 0)
    <2>1. Passed(t1, {n}, text, N, 0 + Len(a), None, 0)
      BY <1>2, <1>3, <1>5, <1>8, UnitIsParsed
    <2> HIDE DEF t1, x
    <2> QED BY <1>5, <2>1
  <1> HIDE DEF t1
  <1>10. Passed(t2, {n}, text, N, m, None, 0)
    <2>1. Passed(t2, {n}, text, N, x + Len(b), None, 0)
      BY <1>2, <1>3, <1>5, <1>9, UnitIsParsed
    <2> HIDE DEF t2, x, m
    <2> QED BY <1>5, <2>1
  <1> HIDE DEF t2
  <1>11. Passed(t3, {n}, text, N, N, None, 0)
    <2>1. Passed(t3, {n}, text, N, m + Len(c), None, 0)
      BY <1>2, <1>3, <1>5, <1>10, UnitIsParsed
    <2> HIDE DEF t3, m
    <2> QED BY <1>5, <2>1
  <1> HIDE DEF t3
  <1> QED BY <1>8, <1>11 DEF s0, s1, s2, s3, t1, t2, t3, text, N

\* The main file compiled on top of a preamble.
LEMMA OnPreambleMeant ==
  ASSUME NEW n \in Nat, n \notin DOMAIN levels, compilations \in Nat,
         NEW p, p # None, p # n, PreambleOwned(p), PreambleMeant(p), NEW c \in UserTexts
  PROVE  LET a == preambles[p].systemPreamble
             b == preambles[p].userPreamble
             s1 == DoPreprocess(StateWithPreamble(n, p), UserFile, c)
             t1 == DoParse(s1, UserFile)
             text == OneText(<<a, b, c>>)
             m == Len(a) + Len(b)
         IN  /\ Passed(s1, {n, p}, text, Len(text), m, p, m)
             /\ Passed(t1, {n, p}, text, Len(text), Len(text), p, m)
  <1> DEFINE a == preambles[p].systemPreamble
             b == preambles[p].userPreamble
             s0 == StateWithPreamble(n, p)
             s1 == DoPreprocess(s0, UserFile, c)
             t1 == DoParse(s1, UserFile)
             text == OneText(<<a, b, c>>)
             m == Len(a) + Len(b)
             N == Len(text)
  <1>1. a \in Seq(Item) /\ b \in Seq(Item) /\ c \in Seq(Item)
    BY TextAssumption DEF PreambleOwned
  <1>2. PreprocessedTo(s0, text, m) /\ ParsedTo(s0, text, m, p, m)
    BY WithPreambleMeant
  <1>3. Owned(s0, {n, p})
    BY WithPreambleOwned
  <1> HIDE DEF a, b
  <1>4. TextShape(text, a, b, c)
    BY <1>1, ShapeOfText
  <1> HIDE DEF text, s0
  <1>5. /\ text \in Seq(Entry) /\ m \in Nat /\ N = m + Len(c) /\ Len(c) \in Nat
        /\ UnitAt(text, m, UserFile, c) /\ MainAfter(text, p, m)
    BY <1>4 DEF TextShape
  <1> HIDE DEF m
  <1>6. m \in 0 .. N /\ m + Len(c) <= N
    <2> HIDE DEF N
    <2> QED BY <1>5
  <1>7. Passed(s0, {n, p}, text, m, m, p, m)
    BY <1>2, <1>3, <1>6 DEF Passed
  <1>8. UserFile \in 1 .. 3
    BY DEF UserFile
  <1>9. Passed(s1, {n, p}, text, N, m, p, m)
    <2>1. Passed(s1, {n, p}, text, m + Len(c), m, p, m)
      BY <1>1, <1>5, <1>7, <1>8, UnitIsPreprocessed
    <2> HIDE DEF s1, N
    <2> QED BY <1>5, <2>1
  <1> HIDE DEF s1
  <1>10. Passed(t1, {n, p}, text, N, N, p, m)
    <2>1. Passed(t1, {n, p}, text, N, m + Len(c), p, m)
      BY <1>1, <1>5, <1>6, <1>8, <1>9, UnitIsParsed
    <2> HIDE DEF t1, N
    <2> QED BY <1>5, <2>1
  <1> HIDE DEF t1
  <1> QED BY <1>9, <1>10 DEF a, b, s0, s1, t1, text, m, N

LEMMA MainFileMeant ==
  ASSUME TextMeant, NEW n, n = compilations + 1, NEW i \in Invoked(DOMAIN preambles), i.main # NoText
  PROVE  \A s \in {Preprocessed(i, n), Parsed(i, Preprocessed(i, n))} :
            ResultMeant(CreateCompileResult(s, Texts(i)), OneText(Texts(i)))
  <1>1. MemoryOwned /\ \A p \in DOMAIN preambles : PreambleMeant(p) /\ PreambleOwned(p)
    BY DEF TextMeant, MemoryOwned
  <1>2. n \in Nat /\ n # 0 /\ n \notin DOMAIN levels /\ compilations \in Nat
    BY <1>1 DEF MemoryOwned
  <1>3. /\ i.config \in Config /\ SystemText(i) \in Seq(Item) /\ i.userPreamble \in Seq(Item)
        /\ i.main \in UserTexts /\ i.main \in Seq(Item)
    BY SystemTextIsText, TextAssumption DEF Invoked
  <1> DEFINE p == Preprocessed(i, n)
             q == Parsed(i, p)
  <1>4. p.preamble = i.preamble /\ q.preamble = i.preamble
    BY <1>1, MainFileOwned
  <1>5. CASE i.preamble = None
    <2> DEFINE a == SystemText(i)
               b == i.userPreamble
               c == i.main
               text == OneText(<<a, b, c>>)
    <2>1. Texts(i) = <<a, b, c>>
      BY <1>5 DEF Texts
    <2>2. /\ Passed(p, {n}, text, Len(text), 0, None, 0)
          /\ Passed(q, {n}, text, Len(text), Len(text), None, 0)
      <3>1. /\ p = DoPreprocess(DoPreprocess(DoPreprocess(StateFromNothing(n, i.config), SystemPreamble, a),
                                             UserPreamble, b), UserFile, c)
            /\ q = DoParse(DoParse(DoParse(p, SystemPreamble), UserPreamble), UserFile)
        BY <1>5 DEF Preprocessed, Parsed
      <3> QED BY <1>2, <1>3, <3>1, AltogetherMeant
    <2>3. a \in Seq(Item) /\ b \in Seq(Item) /\ c \in Seq(Item)
      BY <1>3
    <2> HIDE DEF p, q, a, b, c
    <2>4. ResultMeant(CreateCompileResult(p, <<a, b, c>>), text)
      BY <1>4, <1>5, <2>2, <2>3, PassedIsMeant
    <2>5. ResultMeant(CreateCompileResult(q, <<a, b, c>>), text)
      BY <1>4, <1>5, <2>2, <2>3, PassedIsMeant
    <2> QED BY <2>1, <2>4, <2>5 DEF p, q
  <1>6. CASE i.preamble # None
    <2> DEFINE k == i.preamble
               a == preambles[k].systemPreamble
               b == preambles[k].userPreamble
               c == i.main
               text == OneText(<<a, b, c>>)
               m == Len(a) + Len(b)
    <2>1. Texts(i) = <<a, b, c>>
      BY <1>6 DEF Texts
    <2>2. k \in DOMAIN preambles /\ k # None /\ k # n
      <3>1. k \in DOMAIN preambles
        BY <1>6 DEF Invoked
      <3>2. k \in 1 .. compilations
        BY <1>1, <3>1 DEF PreambleOwned
      <3> QED BY <1>2, <1>6, <3>1, <3>2
    <2>3. /\ Passed(p, {n, k}, text, Len(text), m, k, m)
          /\ Passed(q, {n, k}, text, Len(text), Len(text), k, m)
      <3>1. /\ p = DoPreprocess(StateWithPreamble(n, k), UserFile, c)
            /\ q = DoParse(p, UserFile)
        BY <1>6 DEF Preprocessed, Parsed
      <3>2. PreambleMeant(k) /\ PreambleOwned(k)
        BY <1>1, <2>2
      <3> QED BY <1>2, <1>3, <2>2, <3>1, <3>2, OnPreambleMeant
    <2>4. a \in Seq(Item) /\ b \in Seq(Item) /\ c \in Seq(Item)
      BY <1>1, <1>3, <2>2 DEF PreambleOwned
    <2> HIDE DEF p, q, a, b, c, k
    <2>5. ResultMeant(CreateCompileResult(p, <<a, b, c>>), text)
      BY <1>4, <2>3, <2>4, PassedIsMeant DEF k
    <2>6. ResultMeant(CreateCompileResult(q, <<a, b, c>>), text)
      BY <1>4, <2>3, <2>4, PassedIsMeant DEF k
    <2> QED BY <2>1, <2>5, <2>6 DEF p, q
  <1> QED BY <1>5, <1>6

LEMMA CompileMainFileMeant ==
  ASSUME TextMeant, NEW c \in Clients, CompileMainFile(c)
  PROVE  TextMeant'
  <1>0. PICK n : n = compilations + 1
    OBVIOUS
  <1> DEFINE i == invocations[c]
             texts == Texts(i)
  <1>1. /\ MemoryOwned /\ MemoryOwned'
        /\ \A p \in DOMAIN preambles : PreambleMeant(p)
        /\ \A r \in DOMAIN results : ResultMeant(results[r], OneText(results[r].texts))
    BY CompileMainFileOwned DEF TextMeant
  <1>2. i \in Invoked(DOMAIN preambles) /\ i.main # NoText
    BY <1>1 DEF MemoryOwned, IsTable, CompileMainFile, Ready, Has
  <1>3. n \notin DOMAIN levels /\ n \notin DOMAIN results
    <2>1. compilations \in Nat /\ DOMAIN levels \subseteq 1 .. compilations
      BY <1>1 DEF MemoryOwned
    <2>2. \A r \in DOMAIN results : r \in 1 .. compilations
      BY <1>1 DEF MemoryOwned, ResultOwned
    <2> QED BY <1>0, <2>1, <2>2
  <1>4. PICK s \in {Preprocessed(i, n), Parsed(i, Preprocessed(i, n))} :
           /\ results' = Added(results, n, CreateCompileResult(s, texts))
           /\ levels' = [k \in DOMAIN s.levels \ {n} |-> s.levels[k]]
    <2>1. \E mode \in {"ParseOnly", "PreprocessOnly"} :
             LET p == Preprocessed(i, n)
                 s == IF mode = "ParseOnly" THEN Parsed(i, p) ELSE p
             IN  /\ results' = Added(results, n, CreateCompileResult(s, Texts(i)))
                 /\ levels' = [k \in DOMAIN s.levels \ {n} |-> s.levels[k]]
      BY <1>0 DEF CompileMainFile
    <2> QED BY <2>1
  <1>5. ResultMeant(CreateCompileResult(s, texts), OneText(texts))
    BY <1>0, <1>2, MainFileMeant
  <1>6. /\ DOMAIN s.levels = DOMAIN levels \cup {n}
        /\ \A k \in DOMAIN levels : s.levels[k] = levels[k]
    BY <1>0, <1>1, <1>2, MainFileOwned
  <1>7. preambles' = preambles
    BY DEF CompileMainFile
  <1> DEFINE o == CreateCompileResult(s, texts)
  <1>8. o.texts = texts
    BY DEF CreateCompileResult
  <1> HIDE DEF i, texts, o
  <1>9. levels' = levels
    <2>1. levels = [k \in DOMAIN levels |-> levels[k]]
      BY <1>1 DEF MemoryOwned
    <2> QED BY <1>3, <1>4, <1>6, <2>1
  <1>10. /\ DOMAIN results' = DOMAIN results \cup {n} /\ results'[n] = o
         /\ \A r \in DOMAIN results : results'[r] = results[r]
    BY <1>3, <1>4 DEF Added, o
  <1>11. \A p \in DOMAIN preambles' : PreambleMeant(p)'
    <2>1. ASSUME NEW p \in DOMAIN preambles PROVE PreambleMeant(p)'
      <3>1. PreambleMeant(p)
        BY <1>1
      <3> QED BY <1>7, <1>9, <3>1 DEF PreambleMeant
    <2> QED BY <1>7, <2>1
  <1>12. \A r \in DOMAIN results' : ResultMeant(results'[r], OneText(results'[r].texts))
    BY <1>1, <1>5, <1>8, <1>10 DEF o
  <1> QED BY <1>1, <1>11, <1>12 DEF TextMeant

\* Nothing else compiles.
LEMMA MeantStays ==
  ASSUME TextMeant, MemoryOwned', UNCHANGED <<preambles, levels>>,
         DOMAIN results' \subseteq DOMAIN results,
         \A r \in DOMAIN results' : results'[r] = results[r]
  PROVE  TextMeant'
  <1>1. \A p \in DOMAIN preambles' : PreambleMeant(p)'
    <2>1. ASSUME NEW p \in DOMAIN preambles PROVE PreambleMeant(p)'
      <3>1. PreambleMeant(p)
        BY DEF TextMeant
      <3> QED BY <3>1 DEF PreambleMeant
    <2> QED BY <2>1
  <1>2. \A r \in DOMAIN results' : ResultMeant(results'[r], OneText(results'[r].texts))
    BY DEF TextMeant
  <1> QED BY <1>1, <1>2 DEF TextMeant

LEMMA NextMeant ==
  ASSUME TextMeant, CompileNext \/ UNCHANGED compileVars
  PROVE  TextMeant'
  <1>1. MemoryOwned'
    BY NextOwned DEF TextMeant
  <1>2. ASSUME NEW c \in Clients, CompilePreamble(c) PROVE TextMeant'
    BY <1>2, CompilePreambleMeant
  <1>3. ASSUME NEW c \in Clients, CompileMainFile(c) PROVE TextMeant'
    BY <1>3, CompileMainFileMeant
  <1>4. ASSUME NEW c \in Clients,
               \/ NewInvocation(c)
               \/ ApplyLanguageConfig(c) \/ SetShaderStage(c) \/ SetNoStdlib(c)
               \/ SetUserPreamble(c) \/ SetMainFile(c) \/ ScanVersionAndExtension(c)
               \/ DestroyInvocation(c)
        PROVE  TextMeant'
    <2>1. UNCHANGED <<preambles, levels, results>>
      BY <1>4 DEF NewInvocation, ApplyLanguageConfig, SetShaderStage, SetNoStdlib, Configure,
                  SetUserPreamble, SetMainFile, ScanVersionAndExtension, DestroyInvocation, compiled
    <2> QED BY <1>1, <2>1, MeantStays
  <1>5. CASE ReleasePreamble
    <2>1. UNCHANGED <<preambles, levels, results>>
      BY <1>5 DEF ReleasePreamble, compiled
    <2> QED BY <1>1, <2>1, MeantStays
  <1>6. CASE DestroyResult
    <2>1. /\ UNCHANGED <<preambles, levels>> /\ DOMAIN results' \subseteq DOMAIN results
          /\ \A r \in DOMAIN results' : results'[r] = results[r]
      BY <1>6 DEF DestroyResult
    <2> QED BY <1>1, <2>1, MeantStays
  <1>7. CASE UNCHANGED compileVars
    <2>1. UNCHANGED <<preambles, levels, results>>
      BY <1>7 DEF compileVars
    <2> QED BY <1>1, <2>1, MeantStays
  <1>8. CASE CompileNext
    BY <1>2, <1>3, <1>4, <1>5, <1>6, <1>8 DEF CompileNext
  <1> QED BY <1>7, <1>8

\* Whatever is compiled, a preamble or a result, is what its texts mean when they
\* are read as one.  (Preprocessor, Parser, StateWithPreamble, CreatePreamble,
\* CreateCompileResult)
THEOREM TextsAreMeant == CompileSpec => []TextMeant
  <1>1. TextMeant /\ [CompileNext]_compileVars => TextMeant'
    BY NextMeant
  <1> QED BY <1>1, InitMeant, PTL DEF CompileSpec

\* A result has the tokens and the declarations of the preambles and the main file
\* compiled as one text, for any texts and any number of compilations that share a
\* preamble.  (CompileMainFile, CompilePreamble, AtomTable::GetAtom)
THEOREM AlwaysCompiledAsOneText == CompileSpec => []CompiledAsOneText
  BY TextsAreMeant, MeantIsOneText, PTL
=============================================================================
