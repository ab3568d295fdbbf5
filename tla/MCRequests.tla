---------------------------- MODULE MCRequests ----------------------------
(* The traffic the API is checked under: every pair of a choice of requests *)
(* on one row or two, on one connection or two; pages over the edges of the *)
(* integers; and requests around a reload.                                  *)
EXTENDS Requests, TLC
CONSTANTS q1, q2, k1, k2, u1, u2, c1, c2

Token(valid, sub, role) == [is |-> "token", valid |-> valid, sub |-> sub, role |-> role]
Plain(is) == [is |-> is, valid |-> FALSE, sub |-> None, role |-> ""]
Of(u) == Token(TRUE, u, "authenticated")
Base ==
  [kind |-> "list", method |-> "GET", apikey |-> "publishable", bearer |-> Of(u1), profile |-> "", strict |-> FALSE,
   accept |-> << >>, query |-> "ok", keys |-> {k1, k2}, owner |-> u1, resolution |-> "",
   singular |-> FALSE, max |-> NoLimit, dry |-> FALSE, count |-> FALSE, page |-> << >>, fn |-> "none",
   sql |-> << >>, table |-> "notes"]
Nothing == [Base EXCEPT !.kind = "nothing"]
As(kind, method) == [Base EXCEPT !.kind = kind, !.method = method]
List == Base
Create == [As("create", "POST") EXCEPT !.keys = {k2}]
Put == As("upsert", "PUT")
Patch == As("update", "PATCH")
Delete == As("delete", "DELETE")
Call(f) == [As("rpc", "POST") EXCEPT !.fn = f]
Editor(sql) == [As("query", "POST") EXCEPT !.sql = sql, !.apikey = "secret", !.bearer = Plain("none")]
Secret(a) == [a EXCEPT !.apikey = "secret", !.bearer = Plain("none")]
By(a, bearer) == [a EXCEPT !.bearer = bearer]

Functions ==
  [f \in {"touch", "peek", "stale", "adopt", "void"} |->
    [volatility |-> IF f \in {"touch", "adopt"} THEN "volatile" ELSE "stable", auth |-> f = "touch",
     args |-> IF f = "peek" THEN 1 ELSE IF f = "stale" THEN 2 ELSE 0,
     body |-> IF f \in {"touch", "stale"} THEN "write" ELSE "read", sets |-> IF f = "adopt" THEN u1 ELSE None,
     category |-> IF f = "void" THEN "void" ELSE IF f = "adopt" THEN "scalar" ELSE "setof"]]
Version(tables, schemas, max) == [tables |-> tables, schemas |-> schemas, max |-> max, rpc |-> Functions]
AllConfigs == <<Version({"notes"}, {}, 0), Version({"notes", "tags"}, {"app"}, 2)>>

Busy ==
  <<List, [List EXCEPT !.count = TRUE, !.singular = TRUE], By(List, Plain("publishable")),
   By(List, Token(TRUE, u2, "")), Secret([List EXCEPT !.accept = <<"plan", "json">>]),
   Create, [Create EXCEPT !.owner = u2], [Create EXCEPT !.resolution = "merge", !.keys = {k1, k2}],
   [Create EXCEPT !.resolution = "ignore", !.keys = {k1, k2}, !.singular = TRUE],
   Put, Secret([Put EXCEPT !.owner = u2]), Patch, [Patch EXCEPT !.max = 1], [Patch EXCEPT !.singular = TRUE],
   [Patch EXCEPT !.dry = TRUE], Delete, [Delete EXCEPT !.singular = TRUE, !.max = 1], By(Delete, Of(u2)),
   Call("touch"), [Call("touch") EXCEPT !.singular = TRUE], [Call("peek") EXCEPT !.method = "GET", !.count = TRUE],
   Call("stale"), Call("adopt"), Editor(<<"write", "commit", "fail">>), Editor(<<"write", "read">>)>>
Refusable ==
  UNION {{[a EXCEPT !.apikey = "none"], [a EXCEPT !.apikey = "bogus"], [a EXCEPT !.profile = "app"],
          [a EXCEPT !.strict = TRUE], [a EXCEPT !.query = "unknown"], [a EXCEPT !.query = "missing"],
          [a EXCEPT !.query = "single"], [a EXCEPT !.query = "keyless"],
          By(a, Plain("none")), By(a, Token(FALSE, u1, "authenticated")), By(a, Token(TRUE, u1, "service_role")),
          By(a, Token(TRUE, None, "authenticated")), By(a, Plain("secret")), Secret(a),
          [a EXCEPT !.table = "gone"], [a EXCEPT !.method = IF @ = "GET" \/ a.kind = "rpc" THEN "HEAD" ELSE @]} :
         a \in {List, Create, Put, Patch, Delete, Call("peek"), Call("touch"), Call("stale"), Call("none"),
                 Call("void")}}
  \cup UNION {{[a EXCEPT !.accept = accept], Secret([a EXCEPT !.accept = accept])} :
                 a \in {List, Patch, Call("peek")},
                 accept \in {<<"plan">>, <<"odd">>, <<"odd", "json">>, <<"json", "plan">>, <<"wal">>, <<"odd", "plan">>}}
Buffers == {<< >>, <<"write">>, <<"commit", "write">>, <<"commit">>, <<"fail">>, <<"read">>}
Optional(f, S) == {<< >>} \cup {f :> x : x \in S}
Pages == {o @@ l @@ r : o \in Optional("offset", {MinInt, -1, 0, 1, MaxInt, MaxInt + 2}),
                        l \in Optional("limit", {MinInt, -1, 0, 1, 2, MaxInt, MaxInt + 2}),
                        r \in Optional("range", {<<0, 0>>, <<1, Open>>, <<2, 1>>, <<1, MaxInt + 1>>, <<MaxInt + 2, Open>>})}
Paged == {[a EXCEPT !.page = p] : a \in {List, [List EXCEPT !.method = "HEAD", !.count = TRUE],
                                          [Call("peek") EXCEPT !.method = "GET"], Put, Patch}, p \in Pages}
Reloaded == {[List EXCEPT !.table = t] : t \in {"notes", "tags"}} \cup {[Create EXCEPT !.table = "tags"], Call("peek")}

Scene(a, b, pool, mode, last) == [asks |-> q1 :> a @@ q2 :> b, pool |-> pool, mode |-> mode, last |-> last]
AllScenes ==
  {Scene(Busy[p[1]], Busy[p[2]], pool, "readwrite", 1) :
     p \in {d \in (1..Len(Busy)) \X (1..Len(Busy)) : d[1] <= d[2]}, pool \in {{c1}, {c1, c2}}}
  \cup {Scene(a, Nothing, {c1}, "readwrite", 1) : a \in Refusable}
  \cup {Scene(Editor(s), Nothing, {c1}, m, 1) : s \in Buffers, m \in {"readonly", "disabled"}}
  \cup {Scene(a, Nothing, {c1}, "readwrite", 2) : a \in Paged}
  \cup {Scene(a, b, {c1}, "readwrite", 2) : a, b \in Reloaded}
OneRowOrTwo == {[k \in Key |-> u1], [k \in Key |-> IF k = k1 THEN u1 ELSE Gone], [k \in Key |-> IF k = k1 THEN u1 ELSE u2]}
=============================================================================
