----------------------------- MODULE MCReaddir -----------------------------
(* Small instances of Readdir: names whose padding differs, listings longer *)
(* than a page (in bytes, and in entries), and two changes at any place.    *)
EXTENDS Readdir, FiniteSets, TLC

CONSTANTS a, b, c, d

MCNameLen == (a :> 1) @@ (b :> 255) @@ (c :> 4) @@ (d :> 2)
(* One within some listing, one past all, one that an int makes negative.  *)
MCCookies == {1, 9, CookieMod - 1}
OrdersOf(s) == {q \in [1 .. Cardinality(s) -> s] : IsInjective(q)}
MCDirs == UNION {OrdersOf(s) : s \in {{}, {a}, {a, b, c}}}
=============================================================================
