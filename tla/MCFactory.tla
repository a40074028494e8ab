----------------------------- MODULE MCFactory -----------------------------
(***************************************************************************)
(* Factory with a library that two paths lead to, one that lacks a symbol, *)
(* and a path to nothing.                                                  *)
(***************************************************************************)
EXTENDS Factory, TLC

CONSTANTS t1, t2, lua, broken, pLua, pAlias, pBroken, pNone, i1, co

MCImage == pLua :> lua @@ pAlias :> lua @@ pBroken :> broken @@ pNone :> Missing

MCNameOf == lua :> "Lua" @@ broken :> "Js"
=============================================================================
