---- MODULE MCGeneration ----
(* Small instances of Generation: one file, two tasks, one request. *)
EXTENDS Generation

CONSTANTS f1, t1, t2, r1

OneFile    == {f1}
TwoTasks   == {t1, t2}
OneRequest == {r1}
TwoPaths   == {1, 2}
====
