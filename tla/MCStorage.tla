------------------------------ MODULE MCStorage ------------------------------
(* Two requests on two objects of two buckets in three configurations; or,   *)
(* with no operation in use, the listings of a bucket of up to six names.    *)
EXTENDS Storage, Listing, TLC
CONSTANTS k1, k2, u1, u2, b1, b2

MCBucketOf(k) == IF k = k1 THEN b1 ELSE b2
Setup(ops, public, all, own, grants) ==
  [ops |-> ops, public |-> public, all |-> (b1 :> all @@ b2 :> {}), own |-> (b1 :> own @@ b2 :> own), grants |-> grants]
Minted(for, by) == [for |-> for, key |-> k1, by |-> by, upsert |-> FALSE, epoch |-> 0]
MCSetups == {
  Setup({"upload", "remove", "move", "copy", "get", "signMany"}, {}, {"select"}, {"insert", "update", "delete", "select"}, {}),
  Setup({"upload", "move", "copy", "empty", "get", "presign"}, {b1}, {}, {}, {}),
  Setup({"signUpload", "uploadSigned", "sign", "get", "rotate", "upload"}, {},
        {"insert"}, {"insert", "select", "update"}, {Minted("upload", u1)}),
  Setup({}, {}, {}, {}, {}) }
NoRows == k1 :> None @@ k2 :> None
MCStocks == { NoRows, [NoRows EXCEPT ![k1] = [owner |-> u1, ver |-> 0]] }

a == lowerA
A == upperA
s == slash
MCUniverse == { <<a>>, <<A>>, <<a, s, a>>, <<a, s, zero>>, <<a, zero>>, <<A, s, a>> }
MCTimeOf(n) == IF Len(n) = 3 THEN 1 ELSE 2
MCQueries == [match : {<<>>, <<a>>, <<a, s>>}, fold : BOOLEAN, desc : BOOLEAN, byTime : BOOLEAN,
              caseFold : {FALSE}, limit : {1, 2}]

MCInit == /\ SInit /\ LInit
          /\ conf.ops = {} => rows = NoRows
          /\ conf.ops # {} => names = {} /\ query = CHOOSE q \in Queries : TRUE
MCNext == \/ conf.ops # {} /\ SNext /\ UNCHANGED lvars
          \/ conf.ops = {} /\ LNext /\ UNCHANGED svars
MCSpec == MCInit /\ [][MCNext]_<<svars, lvars>> /\ SFair
=============================================================================
