------------------------------ MODULE MCLuaPush ------------------------------
(***************************************************************************)
(* LuaPush with two objects of up to two fields, which may contain each    *)
(* other or themselves.                                                    *)
(***************************************************************************)
EXTENDS LuaPush

CONSTANTS x, y, p, f, a, b

Field1 == [name : {a}, value : {x, y, p, f, Nil}]
Field2 == [name : {b}, value : {y, f, Nil}]

MCContents == {<<>>} \cup {<<e>> : e \in Field1} \cup {<<e, g>> : e \in Field1, g \in Field2}

MCLeftovers == {<<>>, <<p>>, <<Old>>, <<Old, p>>}
=============================================================================
