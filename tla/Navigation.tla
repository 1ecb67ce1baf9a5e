----------------------------- MODULE Navigation -----------------------------
(***************************************************************************)
(* The features that move about in a document: go to definition, find      *)
(* references, hover, the outline (document symbols) and the folding       *)
(* ranges.  Locations are tokens.  Only declarations of the document       *)
(* itself are found, and macros and header names are left out.             *)
(***************************************************************************)
EXTENDS LanguageQuery

-----------------------------------------------------------------------------
(***************************************************************************)
(* HandleDefinition: the token that names the declaration.  For a block    *)
(* that is its instance, which the code does not test for (without one it  *)
(* reads through an empty optional).                                       *)
(***************************************************************************)
\* Mutant: a block is defined where its own name is.
NameOfDecl(decl) == decl.name

DeclToken(decl) == IF decl.kind = "InterfaceBlockDecl" THEN decl.decl ELSE decl.name

DeclOfSymbol(info, symbol) ==
    IF symbol = NoSymbol THEN NoNode ELSE DeclById(info, symbol[1].decl)
HandleDefinition(info, position) ==
    {DeclToken(DeclOfSymbol(info, QuerySymbolByPosition(info, position)))} \ {0}

-----------------------------------------------------------------------------
(***************************************************************************)
(* CollectReferenceVisitor.  A type is a reference to the struct it is,    *)
(* and not to the one an array of it is made of; a struct's own definition *)
(* has a type without a name, which is in no file.                         *)
(***************************************************************************)
Refers(node, id) ==
    CASE node.kind = "QualType" -> StructOf(node.type) = id /\ GetStructDecl(node) = <<>>
      [] OTHER -> /\ node.kind \in {"NameAccessExpr", "FieldAccessExpr", "FunctionCallExpr"}
                  /\ node.decl = id
DeclaredHere(node, id) == node.kind \in DeclKinds /\ DeclId(node) = id

CollectReferences(info, id, includeDeclaration) ==
    IF id = 0 THEN {}
    ELSE {node.name : node \in {n \in Nodes(info) : Refers(n, id)}}
         \cup {DeclToken(node) :
                 node \in {n \in Nodes(info) : /\ includeDeclaration
                                               /\ DeclaredHere(n, id)
                                               /\ DeclToken(n) # 0}}
HandleReferences(info, position, includeDeclaration) ==
    LET IdOf(symbol) == IF symbol = NoSymbol THEN 0 ELSE symbol[1].decl
    IN CollectReferences(info, IdOf(QuerySymbolByPosition(info, position)), includeDeclaration)

-----------------------------------------------------------------------------
(***************************************************************************)
(* CreateHoverContentForAstSymbol: what is shown of the symbol at a        *)
(* position, its kind, its type where it has one, and whether it is        *)
(* unknown.  The text of its declaration is left out.                      *)
(***************************************************************************)
HoverType(symbol) ==
    LET owner == symbol.owner IN
    CASE owner.kind \in {"QualType", "StructDecl", "TypeQualifierSeq"} -> <<>>
      [] owner.kind = "InterfaceBlockDecl" ->
             IF symbol.type = "BlockInstance" THEN <<owner.type>> ELSE <<>>
      [] OTHER -> <<owner.type>>

HoverContent(symbol, decl) ==
    [type |-> symbol.type,
     symbolType |-> HoverType(symbol),
     parameters |-> IF symbol.type = "Function" /\ decl.kind = "FunctionDecl"
                    THEN Len(GetParams(decl)) ELSE 0,
     unknown |-> symbol.decl = 0 /\ symbol.type \notin {"Swizzle", "LayoutQualifier"}]
CollectHover(info, position) ==
    LET Contents(found) ==
            [k \in DOMAIN found |-> HoverContent(found[k], DeclById(info, found[k].decl))]
    IN Contents(QuerySymbolByPosition(info, position))

-----------------------------------------------------------------------------
(***************************************************************************)
(* HandleDocumentSymbol: the names of the global declarations, in the      *)
(* order of the text.  Members of a struct and of a block with an instance *)
(* are children of it.                                                     *)
(***************************************************************************)
FieldNames(decl) ==
    FlattenSeq([m \in DOMAIN GetMembers(decl) |->
        LET declarators == GetDeclarators(GetMembers(decl)[m])
        IN [k \in DOMAIN declarators |-> declarators[k].name]])

\* tryAddSymbol: only an identifier is a symbol.
TryAddDocumentSymbol(token, kind, children) ==
    IF token = 0 THEN <<>>
    ELSE <<[token |-> token, kind |-> kind, children |-> SelectSeq(children, LAMBDA c : c # 0)]>>

SymbolsOfDecl(decl) ==
    CASE decl.kind = "FunctionDecl" -> TryAddDocumentSymbol(decl.name, "Function", <<>>)
      [] decl.kind = "VariableDecl" ->
             LET struct == GetStructDecl(GetQualType(decl))
                 declarators == GetDeclarators(decl)
             IN FlattenSeq([k \in DOMAIN struct |->
                    TryAddDocumentSymbol(struct[k].name, "Struct", FieldNames(struct[k]))])
                \o FlattenSeq([k \in DOMAIN declarators |->
                    TryAddDocumentSymbol(declarators[k].name, "Variable", <<>>)])
      [] decl.kind = "InterfaceBlockDecl" ->
             IF decl.decl # 0 THEN TryAddDocumentSymbol(decl.decl, "Variable", FieldNames(decl))
             ELSE FlattenSeq([k \in DOMAIN FieldNames(decl) |->
                      TryAddDocumentSymbol(FieldNames(decl)[k], "Variable", <<>>)])
      [] OTHER -> <<>>

HandleDocumentSymbol(info) ==
    LET decls == info.tree.kids
    IN SortSeq(FlattenSeq([k \in DOMAIN decls |-> SymbolsOfDecl(decls[k])]),
               LAMBDA x, y : x.token < y.token)

-----------------------------------------------------------------------------
(* FoldingRangeCollector.  A range over several tokens is one over several *)
(* lines: each token has a line of its own.                                *)
HandleFoldingRange(info) ==
    {range \in {LookupExpandedTextRange(node) :
                    node \in {n \in Nodes(info) :
                        n.kind \in {"CompoundStmt", "StructDecl", "InterfaceBlockDecl"}}} :
        range.start + 2 < range.end}

-----------------------------------------------------------------------------
\* The symbols that have a declaration the features agree on: not those the search
\* does not reach, nor a block, whose name and whose instance are one declaration.
Agreeing ==
    {s \in Symbols : s.decl # 0 /\ s.type # "Block" /\ ~Unreached(s.token)}
\* An array of a struct is no reference to it, though its name leads there.
NamesArray(s) == s.owner.kind = "QualType" /\ s.owner.type.shape = "array"

\* Ranges to fold are inside one another or apart.
FoldsNest ==
    \A r, q \in HandleFoldingRange(Info) :
        \/ r.end <= q.start \/ q.end <= r.start
        \/ r.start <= q.start /\ q.end <= r.end
        \/ q.start <= r.start /\ r.end <= q.end

Outlined == {HandleDocumentSymbol(Info)[k].token : k \in DOMAIN HandleDocumentSymbol(Info)}

HoverTypeAt(token) == CollectHover(Info, TokenStart(token))[1].symbolType
\* The names, each with where it leads.
Leads ==
    UNION {{[name |-> s.token, array |-> NamesArray(s), to |-> d] :
                d \in HandleDefinition(Info, TokenStart(s.token))} : s \in Agreeing}
ReferencesAgree(lead, leads, references) ==
    /\ lead.to \in references
    /\ lead.array \/ lead.name \in references
    /\ \A r \in references :
          Unreached(r) \/ {x.to : x \in {y \in leads : y.name = r}} = {lead.to}

IsGlobal(token) ==
    \E decl \in DeclsOf(Info) : DeclToken(decl) = token /\ decl.scope = "Global"

\* From every name in a program without errors, the features that find its declaration
\* by ways of their own agree: the definition has that name and is among the references;
\* the name is one of them, and every other one leads to the same definition; the name
\* has the type that is shown at its declaration; the outline has the definition of a
\* name of the global scope; and what can be folded nests.
NavigationAgrees ==
    Clean => FoldsNest /\ LET leads == Leads  outlined == Outlined IN
        \A lead \in leads :
            /\ text[lead.to] = text[lead.name]
            /\ ReferencesAgree(lead, leads, HandleReferences(Info, TokenStart(lead.name), TRUE))
            /\ Unreached(lead.to) \/ HoverTypeAt(lead.name) = HoverTypeAt(lead.to)
            /\ IsGlobal(lead.to) => lead.to \in outlined
=============================================================================
