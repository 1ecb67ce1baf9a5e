---------------------------- MODULE DocumentText ----------------------------
(***************************************************************************)
(* The text of a document on both sides of the protocol: the client edits  *)
(* its copy and sends each edit as a range of positions and a new text,    *)
(* the server applies it to the bytes it keeps (ApplySourceChange).        *)
(*                                                                         *)
(* A text is a sequence of UTF-8 code units.  "LF" and "CR" end lines, "L2"*)
(* and "L4" are the first units of characters of two and four units, "C"   *)
(* is a unit that continues one; any other unit is a character of ASCII.   *)
(* A position counts lines and, on its line, code units: of UTF-16 in the  *)
(* protocol, of UTF-8 in ApplySourceChange.                                *)
(***************************************************************************)
EXTENDS Integers, Sequences, FiniteSets

CONSTANTS
    Units,      \* the code units of texts
    Wholes,     \* what the client may replace the whole document by
    Inserted    \* what it may type or paste

ASSUME TextAssumption == Wholes \subseteq Seq(Units) /\ Inserted \subseteq Seq(Units)

VARIABLES
    client,     \* the text the user sees
    server,     \* the buffer of the BackgroundCompilation
    shifted     \* an edit since the last whole text was behind a wide character

textVars == <<client, server, shifted>>

-----------------------------------------------------------------------------
\* The places of a text: before each unit, and at the end.
Places(text) == 1 .. Len(text) + 1

\* A place between two characters.  "CR" "LF" is one end of a line.
IsBoundary(text, i) ==
    i <= Len(text) => /\ text[i] # "C"
                      /\ ~(text[i] = "LF" /\ i > 1 /\ text[i - 1] = "CR")

Line(text, i) == Cardinality({k \in 1 .. i - 1 : text[k] = "LF"})

\* The units before a place on its line.
OnLine(text, i) == {k \in 1 .. i - 1 : \A j \in k .. i - 1 : text[j] # "LF"}

\* A character takes one unit of UTF-16, or two when it takes four of UTF-8.
LspPosition(text, i) ==
    [line |-> Line(text, i),
     character |-> Cardinality({k \in OnLine(text, i) : text[k] # "C"})
                     + Cardinality({k \in OnLine(text, i) : text[k] = "L4"})]

\* cur in ApplySourceChange when index is at the place.  Mutant: the end of a
\* line does not reset the character.
PositionUnreset(text, i) == [line |-> Line(text, i), character |-> i - 1 - Line(text, i)]
BytePosition(text, i) == [line |-> Line(text, i), character |-> Cardinality(OnLine(text, i))]

AtOrAfter(p, q) == p.line > q.line \/ (p.line = q.line /\ p.character >= q.character)

\* Where the loop stops that starts at `from`.
FirstPlace(text, from, position) ==
    LET Stops(i) == i = Len(text) + 1 \/ AtOrAfter(BytePosition(text, i), position)
    IN  CHOOSE i \in from .. Len(text) + 1 : Stops(i) /\ \A j \in from .. i - 1 : ~Stops(j)

Replaced(text, begin, end, new) == SubSeq(text, 1, begin - 1) \o new \o SubSeq(text, end, Len(text))

ApplySourceChange(text, start, end, new) ==
    LET indexBegin == FirstPlace(text, 1, start)
        indexEnd   == FirstPlace(text, indexBegin, end)
    IN  Replaced(text, indexBegin, indexEnd, new)

-----------------------------------------------------------------------------
TextInit ==
    /\ client \in Wholes
    /\ server = client
    /\ shifted = FALSE

\* The units before the place on its line are ASCII.
IsPlain(text, i) == \A k \in OnLine(text, i) : text[k] \notin {"L2", "L4", "C"}

\* A change without a range.
ReplaceWhole ==
    /\ client' \in Wholes
    /\ server' = client'
    /\ shifted' = FALSE

Edit(begin, end, new) ==
    /\ begin <= end /\ IsBoundary(client, begin) /\ IsBoundary(client, end)
    /\ client' = Replaced(client, begin, end, new)
    /\ server' = ApplySourceChange(server, LspPosition(client, begin), LspPosition(client, end), new)
    /\ shifted' = (shifted \/ ~IsPlain(client, begin) \/ ~IsPlain(client, end))

TextNext ==
    \/ ReplaceWhole
    \/ \E begin, end \in Places(client), new \in Inserted : Edit(begin, end, new)

TextSpec == TextInit /\ [][TextNext]_textVars

-----------------------------------------------------------------------------
\* However a user types, deletes and pastes, over any number of lines and in
\* the middle of others, the server compiles the text the user sees, as long as
\* no edit had a character outside ASCII before it on its line.
PlainEditsMirrored == ~shifted => server = client

\* "LSP requires utf-16 code units" (Tokenizer.h:32), which positions are
\* counted in everywhere but in ApplySourceChange: the server compiles the text
\* the user sees.  Does not hold.
EditsMirrored == server = client
=============================================================================
