------------------------------ MODULE MCLuaGen ------------------------------
(* Programs for the generational collector: tables, one that has a finalizer   *)
(* and a weak one; a closure with its upvalue; a coroutine.                    *)
EXTENDS LuaGen, TLC
CONSTANTS t, e, x, d, w, f, u, c
MCKind == (t :> "table") @@ (e :> "table") @@ (x :> "table") @@ (d :> "table") @@ (w :> "weak")
          @@ (f :> "closure") @@ (u :> "upval") @@ (c :> "thread")
Tables == Permutations({t, e, x})
MCPrograms == {{t, d}, {c, d}, {w, d}, {t, w}, {f, u, t}, {t, e, x}}
=============================================================================
