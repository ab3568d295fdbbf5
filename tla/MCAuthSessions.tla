-------------------------- MODULE MCAuthSessions ---------------------------
(* Instances of AuthSessions for TLC.                                      *)
EXTENDS AuthSessions, TLC

CONSTANTS u1, u2, p1, p2, p3

NoUser     == {}
OneUser    == {u1}
TwoProcs   == {p1, p2}
ThreeProcs == {p1, p2, p3}

ProcSymmetry == Permutations(Proc)
=============================================================================
