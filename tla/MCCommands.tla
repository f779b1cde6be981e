----------------------------- MODULE MCCommands -----------------------------
(***************************************************************************)
(* Two items i1 and i2 that share the prefix p, a worn item w, ids for new *)
(* items, two profile fields, an operator, a stranger and the wishes that  *)
(* take the handlers through all their branches.                           *)
(***************************************************************************)
EXTENDS Commands

CONSTANTS op, i1, i2, w, n1, u1, u2, p, f1, f2, v1, v2

MCIds == {i1, i2, w, n1, u1, u2}
MCWardrobe == {i1, i2, w}
MCWorn == {w}
MCNames == {i1, i2, w, p}
MCMatching == [n \in MCNames |-> IF n = p THEN {i1, i2} ELSE {n}]
MCFields == {f1, f2}

Nothing == [f \in MCFields |-> Unset]
Plain == [by |-> op, kind |-> "list", name |-> NoItem, item |-> NoItem, field |-> "none",
          newId |-> NoItem, quality |-> "good", writes |-> Nothing]

Forget(name, item)       == [Plain EXCEPT !.kind = "forget", !.name = name, !.item = item]
Edit(name, item, field)  == [Forget(name, item) EXCEPT !.kind = "edit", !.field = field]
Set(kind, x, y)          == [Plain EXCEPT !.kind = kind, !.writes = [f \in MCFields |-> IF f = f1 THEN x ELSE y]]

CONSTANTS add, list, forget, hide, rename, overflow, set, setBad, boot, blank, stranger

MCTasks == {add, list, forget, hide, rename, overflow, set, setBad, boot,
            blank, stranger}
MCWish == [t \in MCTasks |->
    CASE t = add        -> [Plain EXCEPT !.kind = "add"]
      [] t = list       -> Plain
      [] t = forget     -> Forget(p, i1)
      [] t = hide       -> Edit(p, i2, "deleted_at")
      [] t = rename     -> [Edit(i1, i1, "id") EXCEPT !.newId = n1]
      [] t = overflow   -> [Edit(i2, i2, "text") EXCEPT !.quality = "oversize"]
      [] t = set        -> Set("set", v1, Unset)
      [] t = setBad     -> [Set("set", Unset, v1) EXCEPT !.quality = "bad"]
      [] t = boot       -> Set("bootstrap", v2, v2)
      [] t = blank      -> [Plain EXCEPT !.kind = "bootstrap"]
      [] t = stranger   -> [Forget(i2, i2) EXCEPT !.by = "stranger"]]
=============================================================================
