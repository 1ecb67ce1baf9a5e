----------------------------- MODULE MCParser -----------------------------
(***************************************************************************)
(* The instance of Parser: five programs that between them use every       *)
(* parsing function, and the tokens the user types into them.              *)
(***************************************************************************)
EXTENDS Presentation

Statements ==
    <<"struct", "S", "{", "int", "a", ";", "}", ";", "S", "f", "(", "int", "a", ")",
      "{", "if", "(", "a", ")", "{", "a", "=", "a", "+", "1", "*", "b", ";", "}",
      "else", "return", "S", "(", "a", ")", ".", "b", ";", "}", "int", "b", ";", "eof">>

Loops ==
    <<"void", "f", "(", ")", "{", "for", "(", "int", "a", "=", "1", ";", "a", "<", "b",
      ";", "a", "++", ")", "{", "b", "+=", "a", ";", "}", "while", "(", "g", "(", "a",
      ",", "1", ")", ")", "b", "=", "a", "?", "1", ":", "b", ";", "}", "vec2", "g", ";",
      "eof">>

Lists ==
    <<"int", "a", "=", "{", "1", ",", "{", "b", "}", "}", ";", "void", "f", "(", "int", "g",
      "[", "1", "]", ")", "{", "int", "b", "[", "1", "]", "=", "{", "g", "[", "1", "]", ",", "1",
      "}", ";", "do", "{", "a", "[", "1", "]", "=", "b", ";", "}", "while", "(", "b", ")", ";",
      "}", "int", "g", ";", "eof">>

Blocks ==
    <<"uniform", "T", "{", "int", "a", ";", "}", "b", ";", "layout", "(", "a", "=", "1",
      ",", "b", ")", "in", ";", "precision", "highp", "int", ";", "in", "a", ";",
      "void", "f", "(", ")", "{", "switch", "(", "a", ")", "{", "case", "1", ":",
      "break", ";", "default", ":", "g", "(", ")", ";", "}", "}", "int", "S", ";",
      "eof">>

\* Names that hide one another.
Scopes ==
    <<"int", "a", ";", "int", "g", "(", "int", ",", "int", "b", ")", ";", "void", "f", "(",
      "int", "b", ")", "{", "a", "=", "b", ";", "{", "int", "a", "=", "b", ";", "a", "=", "g",
      "(", "g", "(", "1", ",", "b", ")", ",", "b", ")", ";", "}", "for", "(", "int", "b", "=",
      "1", ";", ";", ")", "a", "=", "b", ";", "g", "(", "b", "+", "a", ",", "a", ")", ";", "}",
      "eof">>

\* Two edits of a small program.
Small == <<"void", "f", "(", ")", "{", "a", ";", "}", "eof">>

\* One expression statement of four operands for each choice of operators.
Operators == {"||", "^^", "&&", "|", "^", "&", "==", "<", "<<", "+", "-", "*", "/"}
Expressions ==
    {<<"void", "f", "(", ")", "{", "a", "=", "a", x, "1", y, "b", z, "1", ";", "}", "eof">> :
        x \in Operators, y \in Operators, z \in Operators}

MCPrograms ==
    [text : {Small}, edits : {2}]
    \cup [text : {Statements, Loops, Lists, Blocks, Scopes}, edits : {1}]
    \cup [text : Expressions, edits : {0}]
MCEditTokens == {"(", ")", "[", "]", "{", "}", ";", ",", "=", "*", ":", "a", "S", "int", "struct",
                 "const", "layout", "if", "case", "else", "?"}
=============================================================================
