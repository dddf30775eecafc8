------------------------------ MODULE MCNotices ------------------------------
EXTENDS Notices, TLC

CONSTANTS w1, g1, j1, j2

\* Bound: of the two wakes and two jobs that the constants allow, three in one behaviour.
ThreeNotices == Len(log) + Cardinality({j \in Jobs : status[j] # "none"}) <= 3
=============================================================================
