---------------------------- MODULE MCAlpacaBroker ----------------------------
EXTENDS AlpacaBroker

CONSTANTS x1, x2, o1, t1

OneOrderTwice == [x \in {x1, x2} |-> o1]

Pairs == {{x1, x2}, {t1}}
=============================================================================
