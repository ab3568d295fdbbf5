----------------------------- MODULE MCFileWatch -----------------------------
(* A project of two nested pattern directories that may not exist yet, a   *)
(* link into a third, and a main file that is itself a link into a fourth. *)
EXTENDS FileWatch

TheDirs == {"/", "x", "y", "o", "m"}
TheParent == [d \in TheDirs \ {"/"} |-> IF d = "y" THEN "x" ELSE "/"]
TheFragments == {"f", "g", "l", "r"}
TheDirOf == [f \in TheFragments \cup {"main", "env"} |->
               CASE f \in {"f", "g"} -> "y" [] f = "r" -> "o" [] f = "main" -> "m" [] OTHER -> "/"]
TheTarget == [l \in {"l"} |-> "r"]
TheDisplay == <<"l", "r", "f", "g">>
ThePatterns == {"link", "others", "deep"}
ThePatDir == [p \in ThePatterns |-> CASE p = "link" -> "/" [] p = "others" -> "o" [] OTHER -> "y"]
ThePatFiles == [p \in ThePatterns |-> CASE p = "link" -> {"l"} [] p = "others" -> {"r"} [] OTHER -> {"f", "g"}]
==============================================================================
