------------------------------- MODULE MCRules -------------------------------
(* The documents the rules are tried on: a small valid one, and families   *)
(* that depart from it in one section.                                     *)
EXTENDS Rules

Field(name, type) ==
  [name |-> name, type |-> type, pk |-> FALSE, fk |-> << >>, onDelete |-> "", dflt |-> "", auto |-> FALSE,
   immutable |-> FALSE, enum |-> FALSE, uniq |-> FALSE, from |-> "", stray |-> {}]
Id == [Field("id", "bigserial") EXCEPT !.pk = TRUE]
Table(fields) ==
  [schema |-> "", from |-> "", timestamps |-> FALSE, fields |-> fields, idx |-> << >>, rlsEnabled |-> "on",
   rls |-> << >>]
Policy(ops, type, using, check) ==
  [ops |-> ops, type |-> type, using |-> using, check |-> check, owner |-> ""]
Rpc == [body |-> "select", returns |-> <<"", "void">>, lang |-> "sql", vol |-> "", sec |-> "",
        args |-> <<[name |-> "x", type |-> "int"]>>, set |-> << >>, category |-> ""]
Code == [runtime |-> "node", file |-> "f.js", timeout |-> ""]
W == <<"w">>

A == Table(<<Id, Field("f", "text")>>)
B == Table(<<Id, Field("code", "text")>>)
Base ==
  [version |-> 1, unknown |-> FALSE, include |-> FALSE, expandErrors |-> {},
   text |-> [p \in {"github", "apple"} \X {"client_id", "client_secret"}
             \cup {<<"email", "api_key">>, <<"storage", "bucket">>} |-> "jwt"],
   oauth |-> {}, email |-> "plain", templates |-> {}, emailProvider |-> None, storageProvider |-> None,
   tables |-> [t \in {"a", "b"} |-> IF t = "a" THEN A ELSE B],
   storage |-> << >>, rpc |-> << >>, functions |-> << >>]

WithField(f) == [Base EXCEPT !.tables["a"].fields = <<Id, f>>]

References ==
  {<<"">>, <<"x">>, <<"b", "id">>, <<"b", "code">>, <<"b", "nope">>, <<"a", "id">>, <<"a", "f">>,
   <<"app", "b", "id">>, <<"auth", "users", "id">>, <<"auth", "users", "email">>,
   <<"auth", "users", "created_at">>, <<"auth", "mfa_factors", "id">>, <<"auth", "one_time_tokens", "id">>,
   <<"auth", "audit", "id">>, <<"storage", "objects", "id">>, <<"storage", "objects", "name">>,
   <<"auht", "users", "id">>, <<"ext", "t", "id">>, <<"users", "id">>, <<"app", "t", "id">>}
Index(cols, uniq, method, where) == [cols |-> cols, uniq |-> uniq, method |-> method, where |-> where]
Bs == {B, [B EXCEPT !.schema = "app"], [B EXCEPT !.fields[2].uniq = TRUE], [B EXCEPT !.fields[2].pk = TRUE],
       [B EXCEPT !.fields[2].pk = TRUE, !.idx = <<Index(<<"code">>, TRUE, "btree", "")>>],
       [B EXCEPT !.idx = <<Index(<<"code">>, TRUE, "btree", "")>>],
       [B EXCEPT !.idx = <<Index(<<"code">>, TRUE, "btree", "id")>>],
       [B EXCEPT !.idx = <<Index(<<"code">>, FALSE, "btree", "x")>>],
       [B EXCEPT !.fields[2].fk = <<"a", "id">>, !.fields[2].type = ""],
       [B EXCEPT !.fields[2].fk = <<"auth", "users", "id">>, !.fields[2].type = "", !.fields[2].uniq = TRUE],
       [B EXCEPT !.fields[1].type = "uuid"]}
Keys ==
  {[WithField([Field("f", type) EXCEPT !.fk = fk]) EXCEPT !.tables["b"] = b, !.email = email] :
     fk \in References, type \in {"", "text", "uuid", "bigint"}, b \in Bs, email \in {None, "plain"}}

Fields ==
  {WithField([Field("f", type) EXCEPT !.dflt = d, !.enum = e]) :
     type \in {"", "text", "bigint", "uuid", "timestamptz", "json", "double", "banana"},
     d \in {"", "word", "now()", "uuid_v7()", "auth.uid()", "auth.role()", "drop()"}, e \in BOOLEAN}
  \cup {WithField([Field(name, type) EXCEPT !.from = from, !.auto = auto, !.immutable = imm]) :
          name \in {"id", "f", "Bad"}, type \in {"text", "timestamptz"}, from \in {"", "table"}, auto \in BOOLEAN,
          imm \in BOOLEAN}
  \cup {WithField([Field("f", "bigint") EXCEPT !.fk = <<"b", "id">>, !.onDelete = d, !.stray = s]) :
          d \in {"", "set null", "cascade", "never"}, s \in SUBSET {"ref", "on_delete"}}
Uniques ==
  {WithField([Field("f", type) EXCEPT !.uniq = u, !.pk = k]) :
     type \in {"text", "jsonb", "json", "double"}, u \in BOOLEAN, k \in BOOLEAN}
Shapes ==
  {[Base EXCEPT !.tables["a"].schema = s, !.tables["a"].fields = fields, !.tables["a"].from = from,
                !.tables["a"].timestamps = ts] :
     s \in {"", "app", "auth", "Bad"}, from \in {"", "table"}, ts \in BOOLEAN,
     fields \in {<< >>, <<Field("f", "text")>>, <<Id, Field("created_at", "timestamptz")>>, <<Id>>}}
  \cup {[Base EXCEPT !.tables = [t \in {n} |-> Table(<< >>)]] : n \in {"users", "table", "a"}}
Indexes ==
  {[Base EXCEPT !.tables["a"].idx = <<Index(cols, uniq, method, "")>>, !.tables["a"].fields[2].type = type] :
     type \in {"text", "jsonb", "json", "double"}, cols \in {<< >>, <<"f">>, <<"f", "id">>, <<"nope">>}, uniq \in BOOLEAN, method \in {"btree", "hash", "gin", "odd"}}

Policies ==
  {[Base EXCEPT !.tables["a"].rls = <<Policy(ops, type, using, check)>>] :
     ops \in SUBSET allRLSOps \cup {{"truncate"}}, type \in {"", "permissive", "restrictive", "odd"},
     using \in {<< >>, W}, check \in {<< >>, W}}
  \cup {[Base EXCEPT !.tables["a"].rls = <<Policy({"select"}, "", e, << >>)>>] :
          e \in UNION {[1..n -> {"w", "and", "cmp", "(", ")"}] : n \in 1..4}
                \cup {<<" ">>, <<"w", " ">>, <<"'">>, <<"w", ";">>, <<"create", "w">>}}
  \cup {[Base EXCEPT !.tables["a"].rls = <<[Policy(ops, "", using, << >>) EXCEPT !.owner = o]>>,
                     !.tables["a"].fields[2].type = type, !.tables["a"].rlsEnabled = on] :
          o \in {"", "f", "nope", "Bad"}, ops \in {{}, {"insert"}, {"select", "update"}}, using \in {<< >>, W},
          type \in {"text", "uuid"}, on \in {"on", "off", "unset"}}

BucketPolicies ==
  {Policy({"select"}, "", W, << >>), Policy({"insert"}, "", << >>, W), Policy({"update"}, "", W, << >>),
   Policy({"select", "update"}, "restrictive", W, << >>), Policy({"update"}, "restrictive", << >>, W),
   [Policy({}, "", << >>, << >>) EXCEPT !.owner = "uploaded_by"]}
Seqs == {<< >>} \cup {<<p>> : p \in BucketPolicies} \cup (BucketPolicies \X BucketPolicies)
Bucket(rls, size) == [rls |-> rls, size |-> size]
Buckets ==
  {[Base EXCEPT !.storageProvider = "local",
                !.storage = [b \in {"p", "q"} |-> Bucket(IF b = "p" THEN r1 ELSE r2, "")]] :
     r1 \in Seqs, r2 \in {<< >>} \cup {<<p>> : p \in BucketPolicies}}
  \cup {[Base EXCEPT !.storageProvider = sp, !.text[<<"storage", "bucket">>] = v, !.emailProvider = ep,
                     !.text[<<"email", "api_key">>] = v, !.email = em,
                     !.storage = [b \in names |-> Bucket(<<[Policy({}, "", << >>, << >>) EXCEPT !.owner = "f"]>>, size)]] :
          sp \in {None, "s3", "gcs"}, v \in {"", "$set", "$own"}, ep \in {None, "resend", "smtp"},
          em \in {"plain", "verify"}, names \in {{}, {"p"}, {"public", "v1"}, {"Bad"}}, size \in {"2MB", "big"}}
  \cup {[Base EXCEPT !.storageProvider = sp, !.storage = [b \in {"p"} |-> Bucket(<< >>, "")]] : sp \in {None, "local"}}

Texts == {"", "word", "jwt", "stale", "$set", "$dflt", "$own", "$other"}
Secrets ==
  {[Base EXCEPT !.oauth = {p}, !.text[<<p, "client_id">>] = id, !.text[<<p, "client_secret">>] = secret] :
     p \in {"github", "apple"}, id \in Texts, secret \in Texts}
  \cup {[Base EXCEPT !.templates = {[name |-> n, subject |-> sub, body |-> b, file |-> f]}] :
          n \in {"reset", "odd"}, sub \in {"", "word"}, b \in BOOLEAN, f \in BOOLEAN}
Others ==
  {[Base EXCEPT !.version = v, !.unknown = u, !.include = i] : v \in {1, 2}, u \in BOOLEAN, i \in BOOLEAN}
  \cup {[Base EXCEPT !.rpc = [f \in {n} |-> [Rpc EXCEPT !.body = b, !.lang = l, !.returns = r]]] :
          n \in {"f", "Bad"}, b \in {"", "select", "begin", "create function", "$ub$", "f()"},
          l \in {"", "sql", "c"}, r \in {"", "setof", "table"} \X {"", "void", "int", "a", "t", "two words", "a;b"} \ {<<"table", "void">>}}
  \cup {[Base EXCEPT !.rpc = [f \in {"f"} |-> [Rpc EXCEPT !.vol = v, !.sec = s, !.args = args, !.set = set]]] :
          v \in {"stable", "odd"}, s \in {"definer", "odd"},
          args \in {<< >>, <<Rpc.args[1], Rpc.args[1]>>, <<[name |-> "Bad", type |-> ""]>>,
                    <<[name |-> "y", type |-> ""]>>, <<[name |-> "y", type |-> "a;b"]>>,
                    <<[name |-> "y", type |-> "b"]>>, <<[name |-> "y", type |-> "t"]>>},
          set \in {<< >>, [k \in {"search_path"} |-> "ok"], [k \in {"work_mem"} |-> "out of range"],
                   [k \in {"role"} |-> "ok"]}}
  \cup {[Base EXCEPT !.functions = [f \in {n} |-> [runtime |-> r, file |-> file, timeout |-> t]]] :
          n \in {"f", "-f"}, r \in {"", "node", "deno"}, file \in {"", "f.js", "gone.js"}, t \in {"", "30s", "soon"}}

AllDrafts ==
  Keys \cup Fields \cup Uniques \cup Shapes \cup Indexes \cup Policies \cup Buckets \cup Secrets \cup Others
AllModes == {"serve", "dev"}
==============================================================================
