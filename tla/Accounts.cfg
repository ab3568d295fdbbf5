CONSTANTS
 u1 = u1
 u2 = u2
 mail1 = mail1
 mail2 = mail2
 s1 = s1
 s2 = s2
 None = None
 User = {u1, u2}
 Email = {mail1, mail2}
 Subject = {s1, s2}
 Req = {1, 2}
 MaxId = 3
 MaxAttempts = 2
 Setups <- MCSetups
 Worlds <- MCWorlds
 Factor = {f1, f2}
 Challenge = {c1, c2}
 Session = {x1}
 Call = {k1, k2}
 MaxMFAAttempts = 2
 MaxChallenges = 1
 MaxStep = 1
 NoRow = NoRow
 Gone = Gone
SYMMETRY Symmetry
SPECIFICATION MCSpec
INVARIANTS
 CodesOpenOnce
 VerifiedMeansProven
 SessionsLandHome
PROPERTIES
  MethodsAreGuarded
 SignupDisabledCreatesNobody
CHECK_DEADLOCK FALSE
