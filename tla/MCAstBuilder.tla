---------------------------- MODULE MCAstBuilder ----------------------------
(* Types and overloads for the checks of AstBuilder.                        *)
EXTENDS AstBuilder

MCLeafTypes == {Error}
    \cup {GetScalarType(k) : k \in {"bool", "int", "uint", "float", "double", "int64", "uint64", "int8", "uint16", "float16"}}
    \cup {Vector("bool", 2), Vector("int", 2), Vector("float", 2), Vector("float", 3), Vector("double", 3)}
    \cup {Matrix("float", 2, 2), Matrix("float", 3, 2), Matrix("float", 2, 3), Matrix("double", 3, 2), Matrix("double", 2, 3)}
    \cup {ArrayOf(IntType, 0), StructOf(<<IntType, Vector("float", 2)>>)}

In(t) == [type |-> t, isInput |-> TRUE, isOutput |-> FALSE]
Out(t) == [type |-> t, isInput |-> FALSE, isOutput |-> TRUE]
InOut(t) == [type |-> t, isInput |-> TRUE, isOutput |-> TRUE]
Takes(params) == [params |-> params, ret |-> params[1].type]

Uint == GetScalarType("uint")
Float == GetScalarType("float")
Double == GetScalarType("double")

MCSignatures == {
    Takes(<<In(IntType)>>), Takes(<<In(Uint)>>), Takes(<<In(Float)>>), Takes(<<In(Double)>>), Takes(<<Out(Float)>>),
    Takes(<<In(GetScalarType("int64"))>>), Takes(<<In(GetScalarType("float16"))>>), Takes(<<In(Vector("float", 2))>>),
    Takes(<<In(IntType), In(Float)>>), Takes(<<In(Float), In(IntType)>>), Takes(<<In(Double), In(Double)>>),
    Takes(<<In(Float), Out(Double)>>), Takes(<<InOut(Float), In(Uint)>>)}

MCPreambles == {<<>>, <<Takes(<<In(Float)>>), Takes(<<In(Vector("float", 2))>>)>>}
=============================================================================
