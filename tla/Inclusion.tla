----------------------------- MODULE Inclusion -----------------------------
(***************************************************************************)
(* The preprocessing of a main file together with the headers it includes. *)
(* Every file is preprocessed by a PreprocessStateMachine of its own, with *)
(* its own state, conditionals and pending comments, while all of them     *)
(* append to one stream of tokens, comments and file ranges.  A directive  *)
(* is handled when the first token of a later line arrives: that token is  *)
(* kept while an included file is read, and dispatched afterwards.  The    *)
(* module also has the files a SourceManager opens, the #version and       *)
(* #extension directives with the LanguageConfig collected from them, and  *)
(* the comments that describe a declaration (QueryCommentDescription).     *)
(*                                                                         *)
(* A text is a sequence of lines, a line a sequence of tokens; the last    *)
(* line is the one no newline ends.  The tail of #if is the value of its   *)
(* condition; Conditionals has the other conditional directives, and       *)
(* MacroExpansion what happens to a token between a state machine and the  *)
(* output, where here it is output as it is.                               *)
(***************************************************************************)
EXTENDS Integers, Sequences, FiniteSets, SequencesExt, FiniteSetsExt

CONSTANTS
    MainTexts,       \* the texts of the main file
    Disks,           \* the texts of the headers on disk: functions on canonical paths
    Canonical,       \* header name -> its canonical path in each include directory
    KnownExtensions, \* the extensions ParseExtensionName knows
    NoPath,          \* the path does not exist
    MaxIncludeDepth  \* CompilerConfig::maxIncludeDepth

\* A text has a line, and "eof" stands for its end.
FileTexts == Seq(Seq(STRING \ {"eof"})) \ {<<>>}

ASSUME FileAssumption ==
    /\ MaxIncludeDepth \in Nat
    /\ MainTexts \subseteq FileTexts
    /\ \A d \in Disks : NoPath \notin DOMAIN d /\ \A path \in DOMAIN d : d[path] \in FileTexts
    /\ \A name \in DOMAIN Canonical : Canonical[name] \in Seq(Range(Canonical[name]))

VARIABLES
    disk,      \* what is on disk
    entries,   \* SourceManager: the opened files, in the order of their FileIDs
    lookup,    \* SourceManager: path -> FileID, 0 is invalid
    canonical, \* SourceManager: canonical path -> FileID
    stack,     \* the state machines, that of the main file first
    tokens, comments, files,  \* PreprocessedTokens
    config     \* the LanguageConfig the callback collects

sources == <<disk, entries, lookup, canonical>>
fileVars == <<disk, entries, lookup, canonical, stack, tokens, comments, files, config>>

NoFile == 0
MainFile == 1
Top == stack[Len(stack)]

-----------------------------------------------------------------------------
(***************************************************************************)
(* The SourceManager.  A path is an include directory and a header name;   *)
(* two paths may be one file, which is opened once.                        *)
(***************************************************************************)
CanonicalPath(path) == Canonical[path[2]][path[1]]

Stored(map, key, value) == [k \in DOMAIN map \cup {key} |-> IF k = key THEN value ELSE map[k]]

\* What OpenFromFile leaves behind.
Opened(src, path) ==
    LET file == CanonicalPath(path)
        next == Len(src.entries) + 1
    IN  IF path \in DOMAIN src.lookup THEN src
        ELSE IF file = NoPath THEN [src EXCEPT !.lookup = Stored(@, path, NoFile)]
        ELSE IF file \in DOMAIN src.canonical
        THEN [src EXCEPT !.lookup = Stored(@, path, src.canonical[file])]
        ELSE IF file \notin DOMAIN disk
        THEN [src EXCEPT !.lookup = Stored(@, path, NoFile), !.canonical = Stored(@, file, NoFile)]
        ELSE [entries   |-> Append(src.entries, [path |-> file, text |-> disk[file]]),
              lookup    |-> Stored(src.lookup, path, next),
              canonical |-> Stored(src.canonical, file, next)]

\* The include directories are searched in order, up to the first hit.
Tries(src, name) ==
    LET upTo[i \in 0 .. Len(Canonical[name])] ==
            IF i = 0 THEN [src |-> src, file |-> NoFile]
            ELSE LET before == upTo[i - 1]
                     now    == Opened(before.src, <<i, name>>)
                 IN  IF before.file # NoFile THEN before
                     ELSE [src |-> now, file |-> now.lookup[<<i, name>>]]
    IN  upTo
Search(src, name) == Tries(src, name)[Len(Canonical[name])]

Manager == [entries |-> entries, lookup |-> lookup, canonical |-> canonical]

-----------------------------------------------------------------------------
(***************************************************************************)
(* The state machine of a file, and the tokens it is fed.  Lines and       *)
(* columns count from 0.                                                   *)
(***************************************************************************)
NewMachine(file, depth, expansion, firstToken, firstComment) ==
    [file |-> file, line |-> 0, column |-> 0,
     state |-> "Default", directive |-> <<>>,
     conditionals |-> <<>>, skipped |-> 0,
     pending |-> <<>>, attachmentLine |-> 0,
     depth |-> depth, expansion |-> expansion,
     redirected |-> <<>>, ended |-> FALSE,
     beginToken |-> firstToken, beginComment |-> firstComment]

FileInit ==
    /\ disk \in Disks
    /\ entries = <<>> /\ lookup = <<>> /\ canonical = <<>>
    /\ stack = <<>>
    /\ tokens = <<>> /\ comments = <<>> /\ files = <<>>
    /\ config = [version |-> "460", profile |-> "core", extensions |-> {}]

\* SetMainFileFromBuffer, and DoPreprocess of the file.
StartMainFile ==
    /\ entries = <<>>
    /\ \E text \in MainTexts : entries' = <<[path |-> NoPath, text |-> text]>>
    /\ stack' = <<NewMachine(MainFile, 0, <<>>, 0, 0)>>
    /\ UNCHANGED <<disk, lookup, canonical, tokens, comments, files, config>>

Text(m) == entries[m.file].text

\* The lines that have a token from the position of the tokenizer on.
LinesLeft(m) ==
    {l \in m.line .. Len(Text(m)) - 1 :
        Len(Text(m)[l + 1]) > IF l = m.line THEN m.column ELSE 0}

Lex(m) ==
    IF LinesLeft(m) = {}
    THEN [text |-> "eof", file |-> m.file, line |-> Len(Text(m)) - 1,
          column |-> Len(Text(m)[Len(Text(m))]), first |-> TRUE]
    ELSE LET l == Min(LinesLeft(m))
             c == IF l = m.line THEN m.column ELSE 0
         IN  [text |-> Text(m)[l + 1][c + 1], file |-> m.file, line |-> l,
              column |-> c, first |-> c = 0]

Advance(m) == LET t == Lex(m) IN [m EXCEPT !.line = t.line, !.column = t.column + 1]

IsComment(t) == t.text = "//"
IsEof(t) == t.text = "eof"
IsDirectiveHash(t) == t.text = "#" /\ t.first

InActive(m) == m.conditionals = <<>> \/ Last(m.conditionals)

\* In an inactive region the tokenizer only hands over what opens a directive.
IsFed(m, t) == m.state # "Inactive" \/ IsDirectiveHash(t) \/ IsEof(t)

-----------------------------------------------------------------------------
(***************************************************************************)
(* Pending comments are output before the token that follows them is       *)
(* dispatched, with the lines of the tokens around them.                   *)
(***************************************************************************)
\* Mutant: the line of the token before is not kept.
CommentWithoutFront(m, t, comment) ==
    [file |-> comment.file, line |-> comment.line, column |-> comment.column,
     frontAttachmentLine |-> t.line, backAttachmentLine |-> t.line,
     nextTokenIndex |-> Len(tokens)]

OutputCommentToken(m, t, comment) ==
    [file |-> comment.file, line |-> comment.line, column |-> comment.column,
     frontAttachmentLine |-> m.attachmentLine, backAttachmentLine |-> t.line,
     nextTokenIndex |-> Len(tokens)]

FlushedComments(m, t) ==
    comments \o [i \in DOMAIN m.pending |-> OutputCommentToken(m, t, m.pending[i])]

Flushed(m, t) == [m EXCEPT !.pending = <<>>, !.attachmentLine = t.line]

\* OutputToken, which is always given the spelled range.
OutputToken(t) ==
    [text |-> t.text, file |-> t.file, line |-> t.line, column |-> t.column,
     expanded |-> <<t.line, t.column>>]

\* The states Default and Inactive.
IsOutput(m, t) == m.state = "Default" /\ ~IsDirectiveHash(t) /\ ~IsEof(t)

AcceptOnText(m, t) ==
    CASE IsEof(t)           -> [m EXCEPT !.ended = TRUE]
      [] IsDirectiveHash(t) -> [m EXCEPT !.state = "ExpectDirective", !.directive = <<>>]
      [] OTHER              -> m

Output(m, t) == IF IsOutput(m, t) THEN Append(tokens, OutputToken(t)) ELSE tokens

-----------------------------------------------------------------------------
(***************************************************************************)
(* The directives: their name and tail, after the #.                       *)
(***************************************************************************)
Arg(d, i) == IF Len(d) > i THEN d[i + 1].text ELSE "none"
DirectiveName(d) == Arg(d, 0)

HandleIfDirective(m) ==
    IF InActive(m) THEN [m EXCEPT !.conditionals = Append(@, Arg(m.directive, 1) = "1")]
    ELSE [m EXCEPT !.skipped = @ + 1]

HandleEndifDirective(m) ==
    IF m.skipped > 0 THEN [m EXCEPT !.skipped = @ - 1]
    ELSE IF m.conditionals = <<>> THEN m
    ELSE [m EXCEPT !.conditionals = Front(@)]

HandleConditional(m) ==
    CASE DirectiveName(m.directive) = "if"    -> HandleIfDirective(m)
      [] DirectiveName(m.directive) = "endif" -> HandleEndifDirective(m)
      [] OTHER                       -> m

Versions == {"110", "120", "130", "140", "150", "330", "400", "410", "420",
             "430", "440", "450", "460"}
Profiles == {"core", "compatibility", "es"}
Behaviors == {"enable", "require", "warn", "disable"}

GetDefaultProfile(version) ==
    IF version \in {"110", "120", "130", "140", "150"} THEN "compatibility" ELSE "core"

\* OnVersionDirective, if the directive is well formed.
HandleVersionDirective(c, d) ==
    IF Arg(d, 1) \in Versions /\ (Len(d) = 2 \/ Arg(d, 2) \in Profiles)
    THEN [c EXCEPT !.version = Arg(d, 1),
                   !.profile = IF Len(d) = 2 THEN GetDefaultProfile(Arg(d, 1)) ELSE Arg(d, 2)]
    ELSE c

\* OnExtensionDirective, if the directive is well formed.
HandleExtensionDirective(c, d) ==
    IF /\ Arg(d, 1) \in KnownExtensions
       /\ Arg(d, 2) = ":"
       /\ Arg(d, 3) \in {"enable", "require"}
    THEN [c EXCEPT !.extensions = @ \cup {Arg(d, 1)}]
    ELSE c

HandleConfig(c, d) ==
    CASE DirectiveName(d) = "version"   -> HandleVersionDirective(c, d)
      [] DirectiveName(d) = "extension" -> HandleExtensionDirective(c, d)
      [] OTHER                 -> c

\* The directives that are read to the end of their line.
IsRead(m, name) == InActive(m) \/ name \in {"if", "endif"}

AcceptOnExpectDirective(m, t) ==
    [m EXCEPT !.directive = Append(@, t),
              !.state = IF IsRead(m, t.text) THEN "ExpectDirectiveTail" ELSE "Inactive"]

AcceptOnExpectDirectiveTail(m, t) == [m EXCEPT !.directive = Append(@, t)]

InDirective(m) == m.state \in {"ExpectDirective", "ExpectDirectiveTail"}
EndsDirective(m, t) == InDirective(m) /\ (t.first \/ IsEof(t))

\* Mutant: the depth limit is off by one.
TriesOneDeeper(m) ==
    /\ DirectiveName(m.directive) = "include"
    /\ m.depth <= MaxIncludeDepth
    /\ Len(m.directive) > 1 /\ Arg(m.directive, 1) \in DOMAIN Canonical

\* Inclusion is tried, to a limited depth, with the header in the include paths.
TriesInclude(m) ==
    /\ DirectiveName(m.directive) = "include"
    /\ m.depth < MaxIncludeDepth
    /\ Len(m.directive) > 1 /\ Arg(m.directive, 1) \in DOMAIN Canonical

\* TransitionToDefaultState or TransitionToInactiveState.
AfterDirective(m) == [m EXCEPT !.state = IF InActive(m) THEN "Default" ELSE "Inactive"]

-----------------------------------------------------------------------------
(***************************************************************************)
(* FeedPPToken.                                                            *)
(***************************************************************************)
Replaced(m) == [stack EXCEPT ![Len(stack)] = m]

FeedComment ==
    LET t == Lex(Top)
    IN  /\ IsComment(t) /\ IsFed(Top, t)
        /\ stack' = Replaced([Advance(Top) EXCEPT !.pending = Append(@, t)])
        /\ UNCHANGED <<sources, tokens, comments, files, config>>

\* The tokenizer's loop drops the token.
SkipInactive ==
    /\ ~IsFed(Top, Lex(Top))
    /\ stack' = Replaced(Advance(Top))
    /\ UNCHANGED <<sources, tokens, comments, files, config>>

FeedText ==
    LET t == Lex(Top)
        m == Flushed(Advance(Top), t)
    IN  /\ ~IsComment(t) /\ IsFed(Top, t) /\ ~InDirective(Top)
        /\ comments' = FlushedComments(Top, t)
        /\ tokens' = Output(m, t)
        /\ stack' = Replaced(AcceptOnText(m, t))
        /\ UNCHANGED <<sources, files, config>>

FeedDirectiveToken ==
    LET t == Lex(Top)
        m == Flushed(Advance(Top), t)
    IN  /\ ~IsComment(t) /\ InDirective(Top) /\ ~EndsDirective(Top, t)
        /\ comments' = FlushedComments(Top, t)
        /\ stack' = Replaced(IF m.state = "ExpectDirective"
                             THEN AcceptOnExpectDirective(m, t)
                             ELSE AcceptOnExpectDirectiveTail(m, t))
        /\ UNCHANGED <<sources, tokens, files, config>>

\* A directive other than an #include that opens a file.
EndDirective ==
    LET t       == Lex(Top)
        m       == Flushed(Advance(Top), t)
        handled == AfterDirective(HandleConditional(m))
        found   == Search(Manager, Arg(m.directive, 1))
    IN  /\ ~IsComment(t) /\ EndsDirective(Top, t)
        /\ IF TriesInclude(m)
           THEN /\ found.file = NoFile
                /\ lookup' = found.src.lookup /\ canonical' = found.src.canonical
           ELSE UNCHANGED <<lookup, canonical>>
        /\ config' = HandleConfig(config, m.directive)
        /\ comments' = FlushedComments(Top, t)
        /\ tokens' = Output(handled, t)
        /\ stack' = Replaced(AcceptOnText(handled, t))
        /\ UNCHANGED <<disk, entries, files>>

\* An included file gets a state machine; the includer keeps the token.
EnterInclude ==
    LET t     == Lex(Top)
        m     == Flushed(Advance(Top), t)
        found == Search(Manager, Arg(m.directive, 1))
        name  == m.directive[2]
        range == IF m.expansion # <<>> THEN m.expansion ELSE <<name.line, name.column>>
    IN  /\ ~IsComment(t) /\ EndsDirective(Top, t) /\ TriesInclude(m)
        /\ found.file # NoFile
        /\ entries' = found.src.entries
        /\ lookup' = found.src.lookup /\ canonical' = found.src.canonical
        /\ comments' = FlushedComments(Top, t)
        /\ stack' = Append(Replaced([m EXCEPT !.redirected = <<t>>]),
                           NewMachine(found.file, m.depth + 1, range,
                                      Len(tokens), Len(comments')))
        /\ UNCHANGED <<disk, tokens, files, config>>

\* The PreprocessedFile of a state machine that has seen the end of its file.
FileRange(m, tokenCount) ==
    [file |-> m.file, beginToken |-> m.beginToken, endToken |-> tokenCount,
     beginComment |-> m.beginComment, endComment |-> Len(comments)]

\* Back in the includer, whose directive is now handled.
LeaveFile ==
    LET outer == stack[Len(stack) - 1]
        t     == outer.redirected[1]
        m     == AfterDirective([outer EXCEPT !.redirected = <<>>])
    IN  /\ Len(stack) > 1 /\ Top.ended
        /\ files' = Append(files, FileRange(Top, Len(tokens)))
        /\ tokens' = Output(m, t)
        /\ stack' = Append(SubSeq(stack, 1, Len(stack) - 2), AcceptOnText(m, t))
        /\ UNCHANGED <<sources, comments, config>>

\* The end of the main file is a token of its own.
Finish ==
    /\ Len(stack) = 1 /\ Top.ended
    /\ tokens' = Append(tokens, OutputToken(Lex(Top)))
    /\ files' = Append(files, FileRange(Top, Len(tokens')))
    /\ stack' = <<>>
    /\ UNCHANGED <<sources, comments, config>>

Reading == stack # <<>> /\ ~Top.ended
Ended == entries # <<>> /\ stack = <<>>
Halted == Ended /\ UNCHANGED fileVars

FileNext ==
    \/ StartMainFile
    \/ Reading /\ (\/ FeedComment \/ SkipInactive \/ FeedText
                   \/ FeedDirectiveToken \/ EndDirective \/ EnterInclude)
    \/ LeaveFile
    \/ Finish
    \/ Halted

FileSpec == FileInit /\ [][FileNext]_fileVars

-----------------------------------------------------------------------------
(***************************************************************************)
(* QueryCommentDescription: the comments shown with the declaration made   *)
(* of the tokens from index b on and before index e.  Indices count from   *)
(* 0.  Comments are found by their nextTokenIndex in a binary search.      *)
(***************************************************************************)
ExpandedLine(i) == tokens[i + 1].expanded[1]

LookupPreceedingComment(i) == {c \in ToSet(comments) : c.nextTokenIndex = i}

TrailingComments(b, e) ==
    {c \in LookupPreceedingComment(e) :
        /\ ExpandedLine(b) = ExpandedLine(e - 1)
        /\ c.line = ExpandedLine(e - 1)
        /\ c.backAttachmentLine # c.line}

PreceedingComments(b) ==
    {c \in LookupPreceedingComment(b) :
        /\ c.backAttachmentLine = ExpandedLine(b)
        /\ c.frontAttachmentLine # c.line}

QueryCommentDescription(b, e) ==
    IF TrailingComments(b, e) # {} THEN TrailingComments(b, e) ELSE PreceedingComments(b)

-----------------------------------------------------------------------------
(***************************************************************************)
(* What inclusion means: an #include stands for the text of the header,    *)
(* where the text of a file is selected by the conditionals of that file.  *)
(* The main file has no path.                                              *)
(***************************************************************************)
IsDirectiveLine(line) == line # <<>> /\ line[1] = "#"

\* A token behind a comment is not the first of its line: it does not end a
\* directive, nor begin one, and belongs to the directive above.
Continues(line) == line = <<>> \/ line[1] = "//"
Extends(text, i, k) == IsDirectiveLine(text[i]) /\ \A l \in i + 1 .. k : Continues(text[l])
IsSwallowed(text, k) == \E i \in 1 .. k - 1 : Extends(text, i, k)

\* The places up to place n of a sequence that have a member of a set, in order.
PlacesOf(set, seq) ==
    LET upTo[n \in 0 .. Len(seq)] ==
            IF n = 0 THEN <<>>
            ELSE IF seq[n] \in set THEN Append(upTo[n - 1], n) ELSE upTo[n - 1]
    IN  upTo

\* What a line, up to column c, has beside comments.
Spelled(line, c) ==
    LET columns == PlacesOf(STRING \ {"//"}, line)[c]
    IN  [n \in DOMAIN columns |-> line[columns[n]]]

\* The directive at line i, up to line k: what follows the # in its line and in
\* the lines it swallows.
DirectiveTo(text, i) ==
    LET upTo[k \in i .. Len(text)] ==
            IF k = i THEN Tail(Spelled(text[i], Len(text[i])))
            ELSE IF Extends(text, i, k) THEN upTo[k - 1] \o Spelled(text[k], Len(text[k]))
            ELSE upTo[k - 1]
    IN  upTo
Directive(text, i) == DirectiveTo(text, i)[Len(text)]
IsDirective(text, i, name) ==
    IsDirectiveLine(text[i]) /\ Directive(text, i) # <<>> /\ Directive(text, i)[1] = name

IsTrue(text, i) == Len(Directive(text, i)) > 1 /\ Directive(text, i)[2] = "1"

\* The conditionals opened and not closed in the lines from j to k.
Balance(text, j, k) ==
    Cardinality({l \in j .. k : IsDirective(text, l, "if")})
        - Cardinality({l \in j .. k : IsDirective(text, l, "endif")})

IsSelected(text, i) ==
    \A j \in 1 .. i - 1 :
        IsDirective(text, j, "if") /\ ~IsTrue(text, j)
            => \E k \in j .. i - 1 : Balance(text, j, k) = 0

\* The file a header name stands for, in the first directory that has it.
Resolved(onDisk, name) ==
    LET hits == {i \in DOMAIN Canonical[name] : Canonical[name][i] \in DOMAIN onDisk}
    IN  IF hits = {} THEN NoPath ELSE Canonical[name][Min(hits)]

NamesHeader(directive) == Len(directive) > 1 /\ directive[2] \in DOMAIN Canonical

TokenItems(path, line, i, c) ==
    LET columns == PlacesOf(STRING \ {"//"}, line)[c]
    IN  [n \in DOMAIN columns |-> [kind |-> "token", what |-> <<path, i - 1, columns[n] - 1>>]]

\* A line stands for tokens, for a directive, or for the items of a header.
LineItems(path, text, i, headers) ==
    LET directive == Directive(text, i)
    IN  IF ~IsSelected(text, i) \/ IsSwallowed(text, i) THEN <<>>
        ELSE IF IsDirective(text, i, "include")
        THEN IF NamesHeader(directive) THEN headers[directive[2]] ELSE <<>>
        ELSE IF IsDirectiveLine(text[i]) THEN <<[kind |-> "directive", what |-> directive]>>
        ELSE TokenItems(path, text[i], i, Len(text[i]))

\* What a text stands for up to line i.
ItemsTo(path, text, headers) ==
    LET upTo[i \in 0 .. Len(text)] ==
            IF i = 0 THEN <<>> ELSE upTo[i - 1] \o LineItems(path, text, i, headers)
    IN  upTo
Items(path, text, headers) == ItemsTo(path, text, headers)[Len(text)]

\* What the headers stand for if d files may be included in one another.
Included(onDisk) ==
    LET upTo[d \in 0 .. MaxIncludeDepth] ==
            IF d = 0 THEN [name \in DOMAIN Canonical |-> <<>>]
            ELSE [name \in DOMAIN Canonical |->
                    LET path == Resolved(onDisk, name)
                    IN  IF path = NoPath THEN <<>> ELSE Items(path, onDisk[path], upTo[d - 1])]
    IN  upTo

MeantItems == Items(NoPath, entries[MainFile].text, Included(disk)[MaxIncludeDepth])

IsToken(item) == item.kind = "token"
TokensOf(items) ==
    LET places == PlacesOf({item \in Range(items) : IsToken(item)}, items)[Len(items)]
    IN  [n \in DOMAIN places |-> items[places[n]].what]

\* What follows a #version or a #extension is not looked at.
IsVersion(item) ==
    /\ item.kind = "directive" /\ Len(item.what) > 1
    /\ item.what[1] = "version" /\ item.what[2] \in Versions
    /\ Len(item.what) > 2 => item.what[3] \in Profiles
Enables(item, extension) ==
    /\ item.kind = "directive" /\ Len(item.what) > 3
    /\ item.what[1] = "extension" /\ item.what[2] = extension
    /\ item.what[3] = ":" /\ item.what[4] \in {"enable", "require"}

\* The version and the extensions of a sequence of items.
MeantVersion(items) ==
    LET versions == {i \in DOMAIN items : IsVersion(items[i])}
    IN  IF versions = {} THEN "460" ELSE items[Max(versions)].what[2]
MeantExtensions(items) ==
    {x \in KnownExtensions : \E i \in DOMAIN items : Enables(items[i], x)}

Position(t) == <<entries[t.file].path, t.line, t.column>>

-----------------------------------------------------------------------------
(***************************************************************************)
(* Properties.                                                             *)
(***************************************************************************)

Innermost(ranges) == files[Min(ranges)].file
RangesTellFiles ==
    /\ \A k \in DOMAIN tokens :
           tokens[k].file = Innermost({i \in DOMAIN files :
               files[i].beginToken < k /\ k <= files[i].endToken})
    /\ \A k \in DOMAIN comments :
           comments[k].file = Innermost({i \in DOMAIN files :
               files[i].beginComment < k /\ k <= files[i].endComment})

ConfigIsMeant ==
    /\ config.version = MeantVersion(MeantItems)
    /\ config.extensions = MeantExtensions(MeantItems)

OneEntryPerFile ==
    /\ \A i, j \in DOMAIN entries : entries[i].path = entries[j].path => i = j
    /\ \A path \in DOMAIN lookup :
           lookup[path] # NoFile => entries[lookup[path]].path = CanonicalPath(path)

\* What preprocessing leaves is what nested inclusion stands for.  The tokens are
\* those, in their order: conditionals do not leak from a file into another, a
\* header that includes itself ends at the depth limit, and the token that ended
\* an #include comes after the header.  The innermost PreprocessedFile around the
\* index of a token or a comment is of the file it is spelled in.  The
\* configuration is that of the last #version and of the #extensions anywhere.
\* A file is one FileID, whatever paths it is included by.
\* (HandleIncludeDirective, PreprocessSourceFile, OnVersionDirective, OpenFromFile)
OutputIsInclusion ==
    Ended =>
        LET meant == TokensOf(MeantItems)
        IN  /\ Len(tokens) = Len(meant) + 1
            /\ \A i \in DOMAIN meant : Position(tokens[i]) = meant[i]
            /\ RangesTellFiles
            /\ ConfigIsMeant
            /\ OneEntryPerFile

\* Where the tokens of a file other than comments are, and its comments.
TextPositions(file) ==
    UNION {{l} \X (0 .. Len(entries[file].text[l + 1]) - 1) : l \in 0 .. Len(entries[file].text) - 1}
IsCommentAt(file, p) == entries[file].text[p[1] + 1][p[2] + 1] = "//"
Before(p, q) == p[1] < q[1] \/ (p[1] = q[1] /\ p[2] < q[2])

\* The comments above a position, or before it in its line, that nothing
\* separates from it and that nothing but comments precedes in their line.
CommentsAbove(file, p) ==
    {q \in TextPositions(file) :
        /\ IsCommentAt(file, q) /\ Before(q, p)
        /\ \A r \in TextPositions(file) :
               Before(r, p) /\ (Before(q, r) \/ r[1] = q[1]) => IsCommentAt(file, r)}

\* The comments that end the line of a position.
CommentsAfter(file, p) ==
    {q \in TextPositions(file) :
        /\ q[1] = p[1] /\ Before(p, q)
        /\ \A r \in TextPositions(file) : r[1] = p[1] /\ Before(p, r) => IsCommentAt(file, r)}

Declarations == {d \in (0 .. Len(tokens) - 2) \X (1 .. Len(tokens) - 1) :
                    d[1] < d[2] /\ d[2] <= d[1] + 2 /\ tokens[d[1] + 1].file = tokens[d[2]].file}
TokenAt(i) == <<tokens[i].line, tokens[i].column>>
CommentAt(c) == <<c.line, c.column>>

CommentsSorted ==
    /\ \A i \in 1 .. Len(comments) - 1 :
           comments[i].nextTokenIndex <= comments[i + 1].nextTokenIndex
    /\ \A i \in DOMAIN comments : comments[i].nextTokenIndex < Len(tokens)

\* A comment of its own file that is shown with a declaration is one that ends
\* its line or stands above it with nothing in between: attachment lines and
\* token indices together never reach over code, directives or regions.  And the
\* comments can be searched by their nextTokenIndex, which never goes down while
\* files are entered and left.  (FeedPPToken, QueryCommentDescription)
DescribedByAdjacent ==
    Ended =>
        /\ CommentsSorted
        /\ \A d \in Declarations : \A c \in QueryCommentDescription(d[1], d[2]) :
               c.file = tokens[d[2]].file =>
                   \/ CommentAt(c) \in CommentsAfter(c.file, TokenAt(d[2]))
                   \/ CommentAt(c) \in CommentsAbove(c.file, TokenAt(d[1] + 1))

-----------------------------------------------------------------------------
(***************************************************************************)
(* What comments in the code say and the code does not do.                 *)
(***************************************************************************)

\* "The text range in which the token expanded into the main file": a token of
\* a header is expanded on the line of the #include.  The range passed to the
\* state machine of the header is not used: OutputToken is given the spelled one.
ExpandedIntoMainFile ==
    Ended => \A k \in DOMAIN tokens :
        tokens[k].file # MainFile =>
            LET l == tokens[k].expanded[1]
            IN  /\ l < Len(entries[MainFile].text)
                /\ IsDirective(entries[MainFile].text, l + 1, "include")

\* "If the token is the first token of a line, this flag is set to true": the
\* tokens of a directive are on one line.  A token behind a block comment is not
\* flagged, and is taken into the directive of a line above.
DirectiveEndsWithLine ==
    \A i \in DOMAIN stack :
        \A k \in DOMAIN stack[i].directive : stack[i].directive[k].line = stack[i].directive[1].line

\* "occupies the entire line(s)": a comment on a line of its own describes the
\* declaration on the next line, unless one that ends its line does.
LineCommentDescribes ==
    Ended => \A d \in Declarations : \A c \in ToSet(comments) :
        /\ c.file = tokens[d[1] + 1].file
        /\ tokens[d[1] + 1].column = 0 /\ c.line = tokens[d[1] + 1].line - 1
        /\ entries[c.file].text[c.line + 1] = <<"//">>
        /\ TrailingComments(d[1], d[2]) = {}
        => c \in QueryCommentDescription(d[1], d[2])

\* "no preprocessor lines in between": no #include, nor the end of a header,
\* comes between a declaration and a comment that is shown with it.
DescribedFromOwnFile ==
    Ended => \A d \in Declarations : \A c \in QueryCommentDescription(d[1], d[2]) :
        c.file = tokens[d[1] + 1].file

\* "Scanning should end at the first non-comment, non-preprocessor token": a
\* #version or #extension behind it has no effect.
ScanEndsAtText ==
    Ended => LET text  == {i \in DOMAIN MeantItems : IsToken(MeantItems[i])}
                 start == IF text = {} THEN MeantItems ELSE SubSeq(MeantItems, 1, Min(text) - 1)
             IN  config.version = MeantVersion(start)

\* "we always regard an EOF in its own line": a comment that ends the line of a
\* declaration is shown with it on the last line of a file too.
LastLineComment ==
    Ended => \A d \in Declarations : \A q \in CommentsAfter(tokens[d[2]].file, TokenAt(d[2])) :
        tokens[d[1] + 1].line = tokens[d[2]].line
            => \E c \in QueryCommentDescription(d[1], d[2]) : CommentAt(c) = q
=============================================================================
