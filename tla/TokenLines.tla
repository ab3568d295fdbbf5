----------------------------- MODULE TokenLines -----------------------------
(***************************************************************************)
(* What refresh tokens promise: each issued token opens a line; rotating   *)
(* replaces the line's current token by a new one; a line is closed for    *)
(* good; and a token that was replaced, or whose line was closed, is spent *)
(* for ever.                                                               *)
(***************************************************************************)
EXTENDS Naturals

CONSTANT MaxToken

VARIABLES cur,    \* the current token of each line, NoId if not open
          spent   \* tokens that will not be current again

Token == 1..MaxToken
NoId  == 0

LTypeOK == /\ cur \in [Token -> Token \cup {NoId}]
           /\ spent \subseteq Token

(* A token not used yet.                                                   *)
Fresh(n) == n \notin spent /\ \A l \in Token : cur[l] # n

Init == /\ cur \in [Token -> Token \cup {NoId}]
        /\ \A l \in Token : cur[l] \in {NoId, l}
        /\ spent = {}

Open(n) == /\ UNCHANGED spent
           /\ Fresh(n)
           /\ cur' = [cur EXCEPT ![n] = n]

(* Replace the current token of line l by a fresh one.                     *)
Rotate(l) == /\ cur[l] # NoId /\ Fresh(cur'[l]) /\ cur'[l] # NoId
             /\ cur' = [cur EXCEPT ![l] = cur'[l]]
             /\ spent' = spent \cup {cur[l]}

(* Close the lines of S.                                                   *)
Close(S) == /\ \A l \in S : cur[l] # NoId
            /\ cur' = [l \in Token |-> IF l \in S THEN NoId ELSE cur[l]]
            /\ spent' = spent \cup {cur[l] : l \in S}

(* A token that was never current is given up.                             *)
Discard(n) == Fresh(n) /\ spent' = spent \cup {n} /\ UNCHANGED cur

(* A step opens a line, or spends tokens.                                  *)
Next == \/ \E n \in Token : Open(n)
        \/ /\ spent' # spent
           /\ \/ \E n \in Token : Discard(n)
              \/ \E l \in Token : Rotate(l)
              \/ \E S \in SUBSET Token : Close(S)

Spec == Init /\ [][Next]_<<cur, spent>>
=============================================================================
