-------------------------------- MODULE MCRegex ----------------------------------
(***************************************************************************)
(* Instance of RegexCache: expressions that are globs, an expression of    *)
(* one's own in brackets, one that does not compile, and ones at the limit *)
(* of the buffer, which is of twelve characters here.                         *)
(***************************************************************************)
EXTENDS RegexCache

MCChars == {"a", "b", "/", "^", "$", "\\", ".", "*", "+", "?", "(", ")", "[", "]"}

(* a+  /a*/  (a                                                            *)
MCExprs == {<<"a", "+">>, <<"/", "a", "*", "/">>, <<"(", "a">>}

(* ******  ?.b  /  ^aaaaaaaaaaaa and the empty one                         *)
MCOthers ==
    {<<"*", "*", "*", "*", "*", "*">>, <<"?", ".", "b">>, <<"/">>, <<>>,
     <<"^">> \o [i \in 1..12 |-> "a"]}

MCStrs == {<<>>, <<"a">>, <<"a", "a">>, <<"(", "a">>, <<"b", ".", "b">>}

MCFew == {<<"a">>, <<"b">>, <<"a", "b">>}
MCOne == {<<"a">>}
==================================================================================
