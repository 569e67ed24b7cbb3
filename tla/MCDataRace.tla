----------------------------- MODULE MCDataRace -----------------------------
(* Small programs for DataRace: three threads, one mutex, one variable.    *)
EXTENDS DataRace, TLC

(* The threads other than the initial one, and the values of pthread_t, are interchangeable. *)
Symmetry == Permutations(Thread \ {Main}) \union Permutations(PthreadT)

(* No property says anything of a run in which a parent has overtaken the FORK of its child. *)
NotOvertaken == ~overtaken
====
