---------------------------- MODULE MCMonitoring ----------------------------
EXTENDS Monitoring

CONSTANTS s1, s2, e1, c1, g1, g2, r1, r2

\* Runs are interchangeable, so r2 begins only beside r1; and they are on one
\* of the systems, the other one being there for the writer to read.
MCNext ==
    /\ Next
    /\ run'[r2] # run[r2] /\ run[r2] = NoWork => run[r1] # NoWork
    /\ \A r \in Runs : run'[r] # NoWork => run'[r].sys = s1
MCSpec == Init /\ [][MCNext]_vars /\ Fairness
=============================================================================
