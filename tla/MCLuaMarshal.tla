---------------------------- MODULE MCLuaMarshal ----------------------------
(***************************************************************************)
(* LuaMarshal with two tables, which may be empty, contain each other or   *)
(* themselves, and the keys 1, "1" and true.                               *)
(***************************************************************************)
EXTENDS LuaMarshal

CONSTANTS t1, t2, p, half, s, f, o, one, str, odd

MCNameOf == [k \in Keys |-> IF k = odd THEN NoName ELSE str]

Entry == [key : Keys, value : {s, t1, t2}]

\* Up to two entries with distinct keys.
MCContents ==
  {<<>>} \cup {<<e>> : e \in Entry}
    \cup {<<d[1], d[2]>> : d \in {c \in Entry \X Entry : c[1].key # c[2].key}}

MCGivens == {<<t1>>, <<t1, t2>>, <<f, t1>>, <<p, half, s, o>>, <<half, t1>>}
=============================================================================
