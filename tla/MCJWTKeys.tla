----------------------------- MODULE MCJWTKeys -----------------------------
(* Instances of JWTKeys for TLC.                                           *)
EXTENDS JWTKeys, TLC

CONSTANTS m1, m2, p1, p2, p3

OneManager  == {m1}
TwoManagers == {m1, m2}
TwoProcs    == {p1, p2}
ThreeProcs  == {p1, p2, p3}

AllAtOne == [p \in Proc |-> m1]
OneEach  == [p \in Proc |-> IF p = p1 THEN m1 ELSE m2]

(* Goroutines of one manager are alike ...                                 *)
AnyProc == Permutations(Proc)

(* ... and so are two managers with a goroutine each.                      *)
AnyManager ==
  {f \in Permutations({p1, p2, m1, m2}) :
     {f[p1], f[p2]} = {p1, p2} /\ (f[p1] = p1 <=> f[m1] = m1)}
=============================================================================
