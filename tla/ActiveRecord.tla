----------------------------- MODULE ActiveRecord -----------------------------
(***************************************************************************)
(* What the controllers use of the ORM (external to the repository): a     *)
(* record read from its table is an object that remembers the row as it    *)
(* was read; `save` and `update` write only the columns whose value in     *)
(* memory differs from the value remembered (a partial write), and write   *)
(* them whatever the row holds by then: no table has a lock_version        *)
(* column and no transaction spans a read and a later write.               *)
(***************************************************************************)

(* SELECT: the object of a row just read. *)
Loaded(row) == [attr |-> row, orig |-> row]

(* The objects of rows drawn from the set Row. *)
Objects(Row) == [attr : Row, orig : Row]

(* Has column c a new value in memory? *)
Dirty(obj, c) == obj.attr[c] # obj.orig[c]

(* UPDATE: the row after the dirty columns of obj are written into it. *)
Written(row, obj) ==
    [c \in DOMAIN row |-> IF Dirty(obj, c) THEN obj.attr[c] ELSE row[c]]

(* The object after a save: nothing is dirty any more. *)
Clean(obj) == [obj EXCEPT !.orig = obj.attr]
===============================================================================
