---------------------------- MODULE MCTokenizer ----------------------------
(***************************************************************************)
(* Editing sessions over small alphabets, one for each part of the lexical *)
(* grammar.  A short text is edited anywhere, a longer one at its end, and *)
(* the session starts over once the two sides no longer agree.             *)
(***************************************************************************)
EXTENDS Tokenizer

CONSTANT Anywhere   \* up to this length, edits are made at every place

\* An alphabet and how long its texts grow.
MCAlphabets ==
    { [units |-> {"/", "*", "\\", "LF", "a"}, length |-> 6],
      [units |-> {"/", "*", "#"}, length |-> 7],
      [units |-> {"0", "x", "e", ".", "+"}, length |-> 6],
      [units |-> {"<", "=", "&", "!"}, length |-> 5],
      [units |-> {"#", "i", "<", ">", "LF", "quote"}, length |-> 5],
      [units |-> {"a", "SP", "LF", "CR", "\\", "L2", "L4", "C"}, length |-> 5] }

MCUnits == UNION {a.units : a \in MCAlphabets}
MCWholes == {<<>>}
MCInserted ==
    {<<>>, <<"L2", "C">>, <<"L4", "C", "C", "C">>, <<"CR", "LF">>} \cup {<<u>> : u \in MCUnits \ {"L2", "L4", "C", "CR"}}

MCEdit ==
    /\ server = client
    /\ \E begin \in IF Len(client) <= Anywhere THEN Places(client) ELSE {Len(client) + 1} :
       \E end \in begin .. Len(client) + 1, a \in MCAlphabets :
       \E new \in {new \in MCInserted : ToSet(new) \subseteq a.units /\ Len(client) + Len(new) <= a.length} :
           /\ ToSet(client) \subseteq a.units
           /\ Edit(begin, end, new)

MCInit == TextInit
MCNext == ReplaceWhole \/ MCEdit
MCSpec == MCInit /\ [][MCNext]_textVars
=============================================================================
