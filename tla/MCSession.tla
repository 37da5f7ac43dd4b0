----------------------------- MODULE MCSession -----------------------------
EXTENDS Session, TLC

CONSTANTS p1, p2, c1, c2

MCAttempts == {<<c1, p1>>, <<c2, p1>>, <<c2, p2>>}
=============================================================================
