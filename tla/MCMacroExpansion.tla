-------------------------- MODULE MCMacroExpansion --------------------------
(* An instance of MacroExpansion: an object-like macro, a macro with one    *)
(* parameter and one with two, each with several definitions.               *)
EXTENDS MacroExpansion

Object(body) == [name |-> "O", isFunctionLike |-> FALSE, params |-> <<>>, body |-> body]
Unary(body) == [name |-> "F", isFunctionLike |-> TRUE, params |-> <<"A">>, body |-> body]
Binary(body) == [name |-> "P", isFunctionLike |-> TRUE, params |-> <<"A", "B">>, body |-> body]

MCDefinitions ==
    { Object(<<<<"O">>, <<"x">>>>),
      Object(<<<<"F">>, <<"(">>, <<"O">>, <<")">>>>),
      Object(<<<<"F">>>>),
      Unary(<<<<"F">>, <<"(">>, <<"A">>, <<")">>, <<"O">>>>),
      Unary(<<<<"A", "x">>>>),
      Binary(<<<<"A", "B">>>>),
      Binary(<<<<"B">>, <<"A">>>>),
      Binary(<<<<"F">>, <<"(">>, <<"A">>, <<")">>>>) }

MCPasted(texts) ==
    IF Len(texts) = 1 THEN texts[1] ELSE IF texts = <<"x", "x">> THEN "O" ELSE "y"
=============================================================================
