------------------------- MODULE MCMigrationLifecycle -------------------------
(* Model values of the TLC runs of MigrationLifecycle.                      *)
EXTENDS MigrationLifecycle, TLC

CONSTANTS m1, m2, t1, t2, t3, w1, w2, c1, c2, d0, d1

OneMigration == {m1}
TwoMigrations == {m1, m2}
OneTask == {t1}
TwoTasks == {t1, t2}
ThreeTasks == {t1, t2, t3}
OneWorker == {w1}
TwoWorkers == {w1, w2}
OneClient == {c1}
TwoClients == {c1, c2}
OneDisk == {d0}
TwoDisks == {d0, d1}

(* Processes, tasks and rows are interchangeable: nothing orders them.      *)
Symmetry == Permutations(Migrations) \cup Permutations(Tasks)
            \cup Permutations(Workers) \cup Permutations(Clients)

=============================================================================
