--------------------------- MODULE MCConversionGroup ---------------------------
(* Model values of the TLC runs of ConversionGroup.                         *)
EXTENDS ConversionGroup, TLC

CONSTANTS j1, j2, j3, w1, w2, c1

TwoJobs == {j1, j2}
ThreeJobs == {j1, j2, j3}
OneJob == {j1}
NoJob == {}
OneWorker == {w1}
TwoWorkers == {w1, w2}
OneClient == {c1}

(* Workers are interchangeable, and so are the jobs of one tool.            *)
Symmetry == Permutations(Workers)
            \cup {f \in Permutations(Jobs) :
                     \A j \in Jobs : (f[j] \in Passthrough) = (j \in Passthrough)}

=============================================================================
