------------------------------- MODULE Rules -------------------------------
(***************************************************************************)
(* What becomes of one configuration document: its environment references  *)
(* and shorthands (internal/config/loader.go, shorthand.go), its rules     *)
(* (validate.go, sqlcheck.go), and what Postgres says to the statements    *)
(* the first migration makes of it.                                        *)
(*                                                                         *)
(* A document is [version, unknown, include, text, oauth, email,           *)
(* templates, emailProvider, storageProvider, tables, storage, rpc,        *)
(* functions].  text holds the values that may name an environment         *)
(* variable: "$set" is in the environment, "$dflt" has a default, "$own"   *)
(* is an unset INSTANCEZ_ENV_ name and "$other" any other unset name.      *)
(* An SQL expression is its sequence of tokens: "w" a word, "and" for both *)
(* Boolean words, "cmp" a comparison, " " blanks and comments, "'" a quote *)
(* that never closes.  An index's condition is the column it is about; a   *)
(* function's return type is <<kind, type>>: <<"", "int">> is int,         *)
(* <<"setof", "t">> is setof t and <<"table", "t">> is table(c t).         *)
(* An error is <<path, message>>; the path is a tuple.                     *)
(***************************************************************************)
EXTENDS Naturals, Sequences, FiniteSets
LOCAL INSTANCE SequencesExt
LOCAL INSTANCE Functions
LOCAL P == INSTANCE Planner

CONSTANTS Drafts,     \* the documents
          Modes       \* of {"serve", "dev"}: who reads them
VARIABLES doc, mode, stage, cfg, missing, blanked, errs, refused
vars == <<doc, mode, stage, cfg, missing, blanked, errs, refused>>

None == "none"
When(cond, path, msg) == IF cond THEN {<<path, msg>>} ELSE {}
Over(S, Errors(_)) == UNION {Errors(x) : x \in S}

(***************************************************************************)
(* Reading.                                                                *)
(***************************************************************************)
Unset == {"$own", "$other"}
Lookup(v) == CASE v = "$set" -> "jwt" [] v = "$dflt" -> "word" [] OTHER -> v
interpolateEnvVars(text) ==
  [text |-> [p \in DOMAIN text |-> Lookup(text[p])], blanked |-> {},
   missing |-> {p \in DOMAIN text : text[p] \in Unset}]

interpolateLocal(text) ==
  [text |-> [p \in DOMAIN text |-> IF text[p] = "$own" THEN "" ELSE Lookup(text[p])],
   blanked |-> {p \in DOMAIN text : text[p] = "$own"},
   missing |-> {p \in DOMAIN text : text[p] = "$other"}]
interpolateEnvVarsLenient(text) ==
  [text |-> [p \in DOMAIN text |-> IF text[p] \in Unset THEN "placeholder" ELSE Lookup(text[p])],
   blanked |-> {}, missing |-> {}]

FieldNames(t) == {t.fields[i].name : i \in DOMAIN t.fields}
GetField(t, c) == t.fields[CHOOSE i \in DOMAIN t.fields : t.fields[i].name = c]
EffectiveSchema(t) == IF t.schema = "" THEN "public" ELSE t.schema
PrimaryKeyColumns(t) == {f.name : f \in {g \in Range(t.fields) : g.pk}}

ParseFKReference(ref) ==
  CASE Len(ref) = 2 -> <<"public", ref[1], ref[2]>> [] Len(ref) = 3 -> ref [] OTHER -> << >>

integers == {"bigserial", "bigint", "serial", "integer", "smallint"}
Normalize(type) ==
  CASE type = "bigserial" -> "bigint" [] type = "serial" -> "integer" [] OTHER -> type
typeClass(type) == IF type \in integers THEN "integer" ELSE Normalize(type)
FKCompatible(a, b) == typeClass(a) = typeClass(b)

(* The type of an untyped key is that of the column at the end of its      *)
(* references, the schema of which nobody looks at; known is the one       *)
(* target [table, cols] that is not declared.                              *)
NoTarget == [table |-> None, cols |-> << >>]
EffectiveType(tables, field, known) ==
  LET ref(f) == ParseFKReference(f.fk)
      isKnown(r) == r[2] = known.table /\ r[3] \in DOMAIN known.cols
      declared(r) == r[2] \in DOMAIN tables /\ r[3] \in FieldNames(tables[r[2]])
      next(f) == IF f.type # "" \/ ref(f) = << >> \/ ref(f) = <<"auth", "users", "id">> THEN f
                 ELSE IF isKnown(ref(f)) THEN [f EXCEPT !.type = known.cols[ref(f)[3]], !.fk = << >>]
                 ELSE IF declared(ref(f)) THEN GetField(tables[ref(f)[2]], ref(f)[3])
                 ELSE f
      last == FoldLeft(LAMBDA f, i : next(f), field, <<1, 2, 3, 4>>)
  IN  IF field.type # "" \/ field.fk = << >> THEN field.type
      ELSE IF last.type = "" THEN IF ref(last) = <<"auth", "users", "id">> THEN "uuid" ELSE "bigint"
      ELSE IF last.type \in integers THEN "bigint" ELSE Normalize(last.type)

OwnerExpr == <<"w", "cmp", "w", "(", ")">>
allRLSOps == {"select", "insert", "update", "delete"}
BadNames == {"Bad", "table"}
validateIdent(path, name) == When(name \in BadNames, path, "identifier")

expandOwner(p, path, fits) ==
  IF p.owner = "" THEN [pol |-> p, errs |-> {}]
  ELSE IF p.using # << >> \/ p.check # << >> THEN [pol |-> p, errs |-> {<<path, "owner combined">>}]
  ELSE IF p.owner \in BadNames THEN [pol |-> p, errs |-> validateIdent(path, p.owner)]
  ELSE IF ~fits THEN [pol |-> p, errs |-> {<<path, "owner column">>}]
  ELSE LET ops == IF p.ops = {} THEN allRLSOps ELSE p.ops
       IN  [pol |-> [p EXCEPT !.ops = ops, !.owner = "",
                       !.using = IF ops \cap {"select", "update", "delete"} # {} THEN OwnerExpr ELSE << >>,
                       !.check = IF ops \cap {"insert", "update"} # {} THEN OwnerExpr ELSE << >>],
            errs |-> {}]
expandTimestamps(t) ==
  LET stamp(name, auto) == [name |-> name, type |-> "timestamptz", pk |-> FALSE, fk |-> << >>, onDelete |-> "",
                            dflt |-> "now()", auto |-> auto, immutable |-> FALSE, enum |-> FALSE,
                            uniq |-> FALSE, from |-> "", stray |-> {}]
  IN  IF ~t.timestamps \/ {"created_at", "updated_at"} \cap FieldNames(t) # {} THEN t
      ELSE [t EXCEPT !.timestamps = FALSE,
                     !.fields = @ \o <<stamp("created_at", FALSE), stamp("updated_at", TRUE)>>]

ExpandShorthands(d) ==
  LET stamped == [t \in DOMAIN d.tables |-> expandTimestamps(d.tables[t])]
      ofTable(t, i) ==
        LET p == stamped[t].rls[i] IN
        expandOwner(p, <<"tables", t, "rls", i, "owner">>,
                    /\ p.owner \in FieldNames(stamped[t])
                    /\ EffectiveType(d.tables, GetField(stamped[t], p.owner), NoTarget) = "uuid")
      ofBucket(b, i) ==
        expandOwner(d.storage[b].rls[i], <<"storage", b, "rls", i, "owner">>,
                    d.storage[b].rls[i].owner = "uploaded_by")
  IN  [d EXCEPT
         !.tables = [t \in DOMAIN stamped |->
                       [stamped[t] EXCEPT !.rls = [i \in DOMAIN @ |-> ofTable(t, i).pol]]],
         !.storage = [b \in DOMAIN @ |->
                       [@[b] EXCEPT !.rls = [i \in DOMAIN @ |-> ofBucket(b, i).pol]]],
         !.expandErrors =
              When(d.include, <<"include">>, "local files only")
              \cup Over(DOMAIN stamped, LAMBDA t : When(stamped[t].timestamps, <<"tables", t, "timestamps">>, "field is there"))
              \cup Over(DOMAIN stamped, LAMBDA t : Over(DOMAIN stamped[t].rls, LAMBDA i : ofTable(t, i).errs))
              \cup Over(DOMAIN d.storage, LAMBDA b : Over(DOMAIN d.storage[b].rls, LAMBDA i : ofBucket(b, i).errs))]

normalizeOnDelete(v) == IF v = "set null" THEN "set_null" ELSE v
validOnDelete == {"cascade", "restrict", "set_null"}
classifyRPCReturn(type) ==
  CASE type[1] = "" /\ type[2] \in {"", "void"}                -> "void"
    [] type[1] = "table" \/ (type[1] = "setof" /\ type[2] # "") -> "setof"
    [] OTHER                                                    -> "scalar"
Default(v, dflt) == IF v = "" THEN dflt ELSE v
applyDefaults(d, dev) ==
  LET e == ExpandShorthands(d) IN
  [e EXCEPT
     !.storageProvider = IF dev /\ DOMAIN d.storage # {} /\ @ = None THEN "local" ELSE @,
     !.tables = [t \in DOMAIN @ |-> [@[t] EXCEPT !.fields =
                   [i \in DOMAIN @ |-> [@[i] EXCEPT !.onDelete =
                      IF normalizeOnDelete(@) \in validOnDelete THEN normalizeOnDelete(@) ELSE @]]]],
     !.rpc = [f \in DOMAIN @ |-> [@[f] EXCEPT !.lang = Default(@, "plpgsql"), !.vol = Default(@, "volatile"),
                                              !.sec = Default(@, "invoker"),
                                              !.category = classifyRPCReturn(d.rpc[f].returns)]]]

(***************************************************************************)
(* SQL expressions.                                                        *)
(***************************************************************************)
unbalanced(e) ==
  \/ \E n \in DOMAIN e : Cardinality({i \in 1..n : e[i] = "("}) < Cardinality({i \in 1..n : e[i] = ")"})
  \/ Cardinality({i \in DOMAIN e : e[i] = "("}) # Cardinality({i \in DOMAIN e : e[i] = ")"})
checkTokens(e) ==
  CASE e = << >> -> "empty"
    [] Head(e) = "and" -> "starts with and"
    [] Last(e) = "and" -> "ends with and"
    [] \E i \in 2..Len(e) : e[i-1] = e[i] /\ e[i] \in {"cmp", "and"} -> "doubled"
    [] OTHER -> ""
checkSQLExpr(e) ==
  CASE "'" \in Range(e) -> "unterminated"
    [] unbalanced(e) -> "unbalanced"
    [] OTHER -> checkTokens(SelectSeq(e, LAMBDA tok : tok # " "))

validateRLSExpr(path, e) ==
  IF e = << >> THEN {}
  ELSE IF ";" \in Range(e) THEN {<<path, "semicolon">>}
  ELSE IF Head(e) = "create" THEN {<<path, "create">>}
  ELSE When(checkSQLExpr(e) # "", path, "sql")

(* Postgres checks updated rows against using when there is no with_check. *)
withCheckSatisfiedByAutoFill(p) == "update" \in p.ops /\ "insert" \notin p.ops /\ p.using # << >>
validateRLSPolicy(path, p) ==
  LET hasSelectOrDelete == p.ops \cap {"select", "delete"} # {}
      hasInsert == "insert" \in p.ops
      hasUpdate == "update" \in p.ops
      hasUsing == p.using # << >>
      hasWithCheck == p.check # << >>
      usingSatisfiedByAutoFill ==
        hasUpdate /\ ~hasSelectOrDelete /\ hasWithCheck /\ p.type = "restrictive"
      needsUsing == hasSelectOrDelete \/ hasUpdate
      needsWithCheck == hasInsert \/ hasUpdate
  IN     When(p.ops = {}, path \o <<"operations">>, "none")
    \cup When(~(p.ops \subseteq allRLSOps), path \o <<"operations">>, "unknown")
    \cup When(p.type \notin {"", "permissive", "restrictive"}, path \o <<"type">>, "unknown")
    \cup validateRLSExpr(path \o <<"using">>, p.using)
    \cup validateRLSExpr(path \o <<"with_check">>, p.check)
    \cup When(hasUsing /\ ~needsUsing, path \o <<"using">>, "no effect")
    \cup When(hasWithCheck /\ ~needsWithCheck, path \o <<"with_check">>, "no effect")
    \cup When(needsUsing /\ ~hasUsing /\ ~usingSatisfiedByAutoFill, path \o <<"using">>, "required")
    \cup When(needsWithCheck /\ ~hasWithCheck /\ ~withCheckSatisfiedByAutoFill(p), path \o <<"with_check">>, "required")
validateRLS(path, rls) == Over(DOMAIN rls, LAMBDA i : validateRLSPolicy(path \o <<"rls", i>>, rls[i]))

(***************************************************************************)
(* The rules, section by section.                                          *)
(***************************************************************************)
validateProviders(c) ==
     When(c.emailProvider \notin {None, "resend", "ses"}, <<"providers", "email", "type">>, "unknown")
  \cup When(c.emailProvider \in {"resend", "ses"} /\ c.text[<<"email", "api_key">>] = "",
            <<"providers", "email", "api_key">>, "required")
  \cup When(c.storageProvider \notin {None, "s3", "local"}, <<"providers", "storage", "type">>, "unknown")
  \cup When(c.storageProvider = "s3" /\ c.text[<<"storage", "bucket">>] = "",
            <<"providers", "storage", "bucket">>, "required")
validateProviderRequirements(c) ==
     When(DOMAIN c.storage # {} /\ c.storageProvider = None, <<"providers", "storage">>, "required")
  \cup When(c.email = "verify" /\ c.emailProvider = None, <<"providers", "email">>, "required")

idTokenOnlyProviders == {"google", "apple"}
validateAppleSecret(secret) ==
  When(secret \notin {"", "placeholder", "jwt", "stale"}, <<"auth", "oauth", "apple", "client_secret">>, "not a JWT")
appleSecretWarning(secret) ==
  When(secret = "stale", <<"auth", "oauth", "apple", "client_secret">>, "expired")
validateTemplate(m) ==
  LET path == <<"auth", "email", "templates", m.name>> IN
  IF m.name \notin {"verification", "magiclink", "reset"} THEN {<<path, "unknown">>}
  ELSE When(m.subject = "", path, "subject") \cup When(m.body = m.file, path, "one of body and body_file")
validateAuth(c, local) ==
  LET path(p, key) == <<"auth", "oauth", p, key>>
      secret(p) == c.text[<<p, "client_secret">>]
  IN     Over(c.templates, validateTemplate)
    \cup Over(c.oauth, LAMBDA p :
              When(c.text[<<p, "client_id">>] = "", path(p, "client_id"), "required")
         \cup When(secret(p) = "" /\ ~local /\ p \notin idTokenOnlyProviders, path(p, "client_secret"), "required")
         \cup IF p = "apple" THEN validateAppleSecret(secret(p)) ELSE {})

(* A type is its name; brackets and lengths are dropped.                   *)
ColumnTypes == integers \cup {"uuid", "text", "timestamptz", "jsonb", "json", "double"}
validateFieldType(path, type) == When(type \notin ColumnTypes, path \o <<"type">>, "unknown")
allowedDefaults == {"now()", "uuid_v7()"}
authDefaultFits(dflt, type) ==
  CASE dflt = "auth.uid()" -> type = "uuid" [] dflt = "auth.role()" -> type = "text" [] OTHER -> TRUE
validateDefault(path, dflt, type) ==
  IF dflt \in {"", "word"} THEN {}
  ELSE IF dflt \notin allowedDefaults \cup {"auth.uid()", "auth.role()"} THEN {<<path, "default not allowed">>}
  ELSE When(~authDefaultFits(dflt, type), path, "default does not fit")

validateField(tables, t, i) ==
  LET f == tables[t].fields[i]
      path == <<"tables", t, "fields", f.name>>
      fkPath == path \o <<"foreign_key">>
  IN     When(\E j \in 1..(i-1) : tables[t].fields[j].name = f.name, <<"tables", t, "fields[]", i>>, "duplicate")
    \cup validateIdent(path, f.name) \cup validateIdent(path \o <<"renamed_from">>, f.from)
    \cup When(f.auto /\ f.type # "timestamptz", path \o <<"auto_updated_at">>, "type")
    \cup When(f.auto /\ f.immutable, path \o <<"immutable">>, "auto_updated_at")
    \cup When(f.fk = << >> /\ f.type = "", path, "type required")
    \cup (IF f.type # "" THEN validateFieldType(path, f.type) ELSE {})
    \cup validateDefault(path, f.dflt, EffectiveType(tables, f, NoTarget))
    \cup When(f.fk = <<"">>, fkPath \o <<"references">>, "required")
    \cup When(f.fk \notin {<< >>, <<"">>} /\ ParseFKReference(f.fk) = << >>, fkPath \o <<"references">>, "malformed")
    \cup When(f.fk # << >> /\ f.onDelete \notin validOnDelete \cup {""}, fkPath \o <<"on_delete">>, "unknown")
    \cup When(f.enum /\ f.type \notin {"", "text"}, path \o <<"enum">>, "text only")
validateIndex(t, tab, i) ==
  LET x == tab.idx[i]
      path == <<"tables", t, "indexes", i>>
  IN     When(x.cols = << >>, path, "no column")
    \cup When(x.method \notin {"btree", "hash", "gin"}, path \o <<"method">>, "unknown")
    \cup When(x.uniq /\ x.method \in {"hash", "gin"}, path \o <<"method">>, "unique")
    \cup When(x.method = "hash" /\ Len(x.cols) > 1, path \o <<"method">>, "one column")
    \cup When(~(Range(x.cols) \subseteq FieldNames(tab)), path, "column not found")
validateTable(tables, t) ==
  LET tab == tables[t]
      path == <<"tables", t>>
      names == validateIdent(path, t) \cup validateIdent(path \o <<"renamed_from">>, tab.from)
               \cup validateIdent(path \o <<"schema">>, tab.schema)
  IN  names \cup
      IF tab.schema \in {"auth", "storage"} THEN {<<path \o <<"schema">>, "reserved">>}
      ELSE IF tab.fields = << >> /\ t # "users" THEN {<<path, "no fields">>}
      ELSE    Over(DOMAIN tab.fields, LAMBDA i : validateField(tables, t, i))
         \cup When(PrimaryKeyColumns(tab) = {} /\ t # "users", path, "no primary key")
         \cup Over(DOMAIN tab.idx, LAMBDA i : validateIndex(t, tab, i))
         \cup When(tab.rlsEnabled = "off" /\ tab.rls # << >>, path \o <<"rls_enabled">>, "off with policies")
         \cup validateRLS(path, tab.rls)
validateTables(tables) == Over(DOMAIN tables, LAMBDA t : validateTable(tables, t))

reservedBucketNames == {"public", "sign"}
validateStorage(storage) ==
  Over(DOMAIN storage, LAMBDA b :
         (IF b \in BadNames THEN validateIdent(<<"storage", b>>, b)
          ELSE When(b \in reservedBucketNames \cup {"v1"}, <<"storage", b>>, "reserved"))
    \cup validateRLS(<<"storage", b>>, storage[b].rls)
    \cup When(storage[b].size \notin {"", "2MB"}, <<"storage", b, "max_size">>, "malformed"))

(* A body by how it starts; a return type by its kind.                     *)
validateRPCBody(path, fn) ==
     When(fn.body = "", path, "required") \cup When(fn.body = "$ub$", path, "reserved tag")
  \cup When(fn.body = "create function", path, "wrapper")
  \cup When(fn.lang = "sql" /\ fn.body = "begin", path, "transaction control")
  \cup When(fn.lang = "sql" /\ fn.body \notin {"", "begin", "select", "create function", "$ub$"}, path, "not a command")
validateRPCReturnType(path, type) ==
  CASE type = <<"", "">> -> {<<path, "required">>}
    [] OTHER -> When(\/ type[2] \in {"", "a;b"}
                     \/ type[2] = "two words" /\ type[1] # "table", path, "malformed")
rpcSetRules == {"search_path", "statement_timeout", "lock_timeout", "work_mem"}
validateArg(path, args, i) ==
  LET arg == args[i] IN
  IF arg.name \in BadNames THEN validateIdent(path \o <<i, "name">>, arg.name)
  ELSE   When(\E j \in 1..(i-1) : args[j].name = arg.name, path \o <<i, "name">>, "duplicate")
    \cup When(arg.type = "", path \o <<i, "type">>, "required")
    \cup When(arg.type = "a;b", path \o <<i, "type">>, "malformed")
validateRPCFunction(f, fn) ==
  LET path == <<"rpc", f>> IN
  IF f \in BadNames THEN validateIdent(path, f)
  ELSE   validateRPCBody(path \o <<"body">>, fn)
    \cup validateRPCReturnType(path \o <<"returns">>, fn.returns)
    \cup When(fn.lang \notin {"sql", "plpgsql"}, path \o <<"language">>, "unknown")
    \cup When(fn.vol \notin {"volatile", "stable", "immutable"}, path \o <<"volatility">>, "unknown")
    \cup When(fn.sec \notin {"invoker", "definer"}, path \o <<"security">>, "unknown")
    \cup Over(DOMAIN fn.args, LAMBDA i : validateArg(path \o <<"args">>, fn.args, i))
    \cup Over(DOMAIN fn.set, LAMBDA k :
              When(k \notin rpcSetRules, path \o <<"set", k>>, "unsupported")
         \cup When(k \in rpcSetRules /\ fn.set[k] = "out of range", path \o <<"set", k>>, "invalid"))

validateCodeFunction(f, fn) ==
  LET path == <<"functions", f>> IN
  IF fn.runtime = "" /\ fn.file = "" THEN {<<path, "an rpc?">>}
  ELSE   When(f = "-f", path, "name") \cup When(fn.runtime # "node", path \o <<"runtime">>, "unknown")
    \cup When(fn.file = "", path \o <<"file">>, "required")
    \cup When(fn.timeout = "soon", path \o <<"timeout">>, "malformed")
ValidateFunctionFiles(c) ==
  Over(DOMAIN c.functions, LAMBDA f :
         When(c.functions[f].file = "gone.js", <<"functions", f, "file">>, "not found"))

(***************************************************************************)
(* Foreign keys.                                                           *)
(***************************************************************************)
(* The only auth and storage columns with a unique constraint.             *)
uniqueSystemTargets(email) ==
  [s \in {<<"auth", "users">>, <<"auth", "mfa_factors">>, <<"storage", "objects">>}
         \cup (IF email # None THEN {<<"auth", "one_time_tokens">>} ELSE {}) |->
     CASE s = <<"auth", "users">> -> [c \in {"id", "email"} |-> IF c = "id" THEN "uuid" ELSE "text"]
       [] s = <<"auth", "one_time_tokens">> -> [c \in {"id"} |-> "bigint"]
       [] OTHER -> [c \in {"id"} |-> "uuid"]]

fkSchemas(tables) == {"public", "auth", "storage"} \cup {EffectiveSchema(tables[t]) : t \in DOMAIN tables}
closest(schema) == CASE schema = "auht" -> "auth" [] schema = "publik" -> "public" [] OTHER -> ""

(* What a reference is to validate: err, warn, or known with its columns.  *)
resolveFK(tables, email, ref) ==
  LET schema == ref[1]
      table == ref[2]
      col == ref[3]
      system == uniqueSystemTargets(email)
      declared == table \in DOMAIN tables
      inSchema == declared /\ EffectiveSchema(tables[table]) = schema
      is(kind, cols) == [kind |-> kind, cols |-> cols]
  IN  CASE <<schema, table>> \in DOMAIN system ->
             IF col \in DOMAIN system[<<schema, table>>] THEN is("known", system[<<schema, table>>])
             ELSE is("err", << >>)
        [] schema \in {"auth", "storage"} /\ <<schema, table>> \notin DOMAIN system -> is("warn", << >>)
        [] schema \notin fkSchemas(tables) ->
             is(IF closest(schema) \in {"auth", "storage"} THEN "err" ELSE "warn", << >>)
        [] inSchema -> IF col \in FieldNames(tables[table])
                       THEN is("known", [c \in FieldNames(tables[table]) |-> GetField(tables[table], c).type])
                       ELSE is("err", << >>)
        [] OTHER -> is(IF schema = "public" THEN "err" ELSE "warn", << >>)

(* The keys of a configuration that ParseFKReference can read.             *)
ForeignKeys(tables) ==
  UNION {{<<t, i>> : i \in {i \in DOMAIN tables[t].fields : ParseFKReference(tables[t].fields[i].fk) # << >>}} :
           t \in DOMAIN tables}

\* Mutant: the types of a key are not compared.
fitsUnchecked(tables, f, r) == TRUE
fitsTarget(tables, f, r) ==
  LET ref == ParseFKReference(f.fk)
      known == [table |-> ref[2], cols |-> r.cols]
  IN  IF r.cols[ref[3]] # ""
      THEN FKCompatible(EffectiveType(tables, f, known), r.cols[ref[3]])
      ELSE FKCompatible(EffectiveType(tables, f, NoTarget),
                        EffectiveType(tables, GetField(tables[ref[2]], ref[3]), NoTarget))
checkForeignKey(tables, email, t, i) ==
  LET f == tables[t].fields[i]
      r == resolveFK(tables, email, ParseFKReference(f.fk))
      path == <<"tables", t, "fields", f.name, "foreign_key">>
  IN  CASE r.kind = "err" -> {<<path \o <<"references">>, "no such key">>}
        [] r.kind = "known" -> When(~fitsTarget(tables, f, r), path \o <<"type">>, "mismatch")
        [] OTHER -> {}
checkForeignKeys(tables, email) ==
  Over(ForeignKeys(tables), LAMBDA k : checkForeignKey(tables, email, k[1], k[2]))
foreignKeyWarnings(tables, email) ==
  {<<<<"tables", k[1], "fields", k[2]>>, "not checked">> :
     k \in {k \in ForeignKeys(tables) :
              resolveFK(tables, email, ParseFKReference(tables[k[1]].fields[k[2]].fk)).kind = "warn"}}

isBareCompositePKMember(t, c) ==
  /\ c \in PrimaryKeyColumns(t) /\ Cardinality(PrimaryKeyColumns(t)) > 1
  /\ ~\E x \in Range(t.idx) : x.uniq /\ x.cols = <<c>> /\ x.where = ""
compositePKFKWarnings(tables) ==
  {<<<<"tables", k[1], "fields", k[2]>>, "part of the key">> :
     k \in {k \in ForeignKeys(tables) :
              LET ref == ParseFKReference(tables[k[1]].fields[k[2]].fk) IN
              /\ ref[1] = "public" /\ ref[2] \in DOMAIN tables /\ ref[3] \in FieldNames(tables[ref[2]])
              /\ isBareCompositePKMember(tables[ref[2]], ref[3])}}
fieldRefWarnings(tables) ==
  Over(DOMAIN tables, LAMBDA t : Over(Range(tables[t].fields), LAMBDA f :
    {<<<<"tables", t, "fields", f.name, s>>, "no effect">> : s \in f.stray}))

(***************************************************************************)
(* The verdict.                                                            *)
(***************************************************************************)
validate(c, local) ==
     c.expandErrors
  \cup When(c.unknown, << >>, "unknown key") \cup When(c.version # 1, <<"version">>, "unsupported")
  \cup validateProviders(c) \cup validateAuth(c, local) \cup validateTables(c.tables)
  \cup validateStorage(c.storage)
  \cup Over(DOMAIN c.rpc, LAMBDA f : validateRPCFunction(f, c.rpc[f]))
  \cup Over(DOMAIN c.functions, LAMBDA f : validateCodeFunction(f, c.functions[f]))
  \cup checkForeignKeys(c.tables, c.email) \cup validateProviderRequirements(c)

Warnings(c) ==
     Over(DOMAIN c.tables, LAMBDA t :
            When(c.tables[t].rlsEnabled # "on", <<"tables", t, "rls_enabled">>, c.tables[t].rlsEnabled))
  \cup compositePKFKWarnings(c.tables) \cup foreignKeyWarnings(c.tables, c.email) \cup fieldRefWarnings(c.tables)
  \cup {<<<<"auth", "oauth", p, "client_secret">>, "empty">> :
          p \in {p \in c.oauth \cap idTokenOnlyProviders : c.text[<<p, "client_secret">>] = ""}}
  \cup (IF "apple" \in c.oauth THEN appleSecretWarning(c.text[<<"apple", "client_secret">>]) ELSE {})
  \cup {<<<<"rpc", f, "set", "search_path">>, "definer">> :
          f \in {f \in DOMAIN c.rpc : c.rpc[f].sec = "definer" /\ "search_path" \notin DOMAIN c.rpc[f].set}}
LocalWarnings(c) ==
  {<<<<"auth", "oauth", p, "client_secret">>, "empty: inz serve rejects this">> :
     p \in {p \in c.oauth \ idTokenOnlyProviders : c.text[<<p, "client_secret">>] = ""}}

(***************************************************************************)
(* Postgres and the first migration, on a database without storage.        *)
(***************************************************************************)
(* The words and operators below stand for any; an expression that parses  *)
(* is among these when it is at most this long.                            *)
MaxTokens == 5
Expressions ==
  LET short(S) == {e \in S : Len(e) <= MaxTokens}
      grow(S) == S \cup short({<<"(">> \o e \o <<")">> : e \in S} \cup {e \o <<"w">> : e \in S}
                              \cup {<<"w">> \o e : e \in S}
                              \cup {x[1] \o <<x[2]>> \o x[3] : x \in {s \in S : Len(s) <= 3} \X {"cmp", "and"} \X {s \in S : Len(s) <= 3}})
  IN  FoldLeft(LAMBDA S, i : grow(S), {<<"w">>, <<"w", "(", ")">>}, <<1, 2, 3, 4>>)
Parses(e) == SelectSeq(e, LAMBDA tok : tok # " ") \in Expressions

Referenced(f) == LET ref == ParseFKReference(f.fk) IN IF ref = << >> THEN <<None, None>> ELSE <<ref[2], ref[3]>>
orderTables(tables) ==
  P!orderTables([t \in DOMAIN tables |->
                   [cols |-> [i \in DOMAIN tables[t].fields |-> [fk |-> Referenced(tables[t].fields[i])]]]])
Before(tables, u, t) ==
  LET order == orderTables(tables)
  IN  \E i, j \in DOMAIN order : i <= j /\ order[i] = u /\ order[j] = t

UniqueColumn(tab, c) ==
  \/ PrimaryKeyColumns(tab) = {c}
  \/ GetField(tab, c).uniq
  \/ \E x \in Range(tab.idx) : x.uniq /\ x.cols = <<c>> /\ x.where = ""

(* Columns are made with the types the planner infers, and it knows the    *)
(* declared tables alone.                                                  *)
ColumnType(tables, f) == EffectiveType(tables, f, NoTarget)
RefusedKey(tables, t, f, email) ==
  LET ref == ParseFKReference(f.fk)
      system == uniqueSystemTargets(email)
      place == <<ref[1], ref[2]>>
  IN  IF ref[1] \in {"auth", "storage"}
      THEN \/ place \notin DOMAIN system \/ ref[1] = "storage"
           \/ ref[3] \notin DOMAIN system[place]
           \/ ~FKCompatible(ColumnType(tables, f), system[place][ref[3]])
      ELSE \/ ref[2] \notin DOMAIN tables
           \/ EffectiveSchema(tables[ref[2]]) # ref[1]
           \/ ~Before(tables, ref[2], t)
           \/ ref[3] \notin FieldNames(tables[ref[2]])
           \/ ~UniqueColumn(tables[ref[2]], ref[3])
           \/ ~FKCompatible(ColumnType(tables, f), ColumnType(tables, GetField(tables[ref[2]], ref[3])))

DefaultFits(dflt, type) ==
  CASE dflt = "uuid_v7()" -> type \in {"uuid", "text"}
    [] dflt = "now()"     -> type \in {"timestamptz", "text"}
    [] dflt = "word"      -> type = "text"
    [] OTHER              -> authDefaultFits(dflt, type)
(* Types have equality and an order but for json; gin needs elements.      *)
Indexable(type, method) == IF method = "gin" THEN type = "jsonb" ELSE type # "json"
IndexFits(tables, tab, x) ==
  /\ Range(x.cols) \subseteq FieldNames(tab) /\ x.where \in FieldNames(tab) \cup {""}
  /\ \A col \in Range(x.cols) : Indexable(ColumnType(tables, GetField(tab, col)), x.method)
(* "double" alone is the name of no type.                                  *)
ColumnFits(tables, f) ==
  LET type == ColumnType(tables, f) IN
  /\ type # "double"
  /\ f.dflt # "" => DefaultFits(f.dflt, type)
  /\ f.uniq \/ f.pk => Indexable(type, "btree")
RefusedTable(c, t) ==
  LET tab == c.tables[t]
      path == <<"tables", t>>
  IN     When("table" \in {t, EffectiveSchema(tab)} \/ EffectiveSchema(tab) \in {"auth", "storage"}, path, "name")
    \cup Over(DOMAIN tab.fields, LAMBDA i :
           LET f == tab.fields[i]
               at == path \o <<"fields", f.name>>
           IN   When(f.name = "table", at, "name")
           \cup When(\E j \in 1..(i-1) : tab.fields[j].name = f.name, path \o <<"fields[]", i>>, "twice")
           \cup When(ColumnType(c.tables, f) \notin ColumnTypes, at \o <<"type">>, "no such type")
           \cup When(~ColumnFits(c.tables, f), at, "column")
           \cup When(f.enum /\ ColumnType(c.tables, f) # "text", at \o <<"enum">>, "operator")
           \cup When(f.fk # << >> /\ (ParseFKReference(f.fk) = << >> \/ RefusedKey(c.tables, t, f, c.email)),
                     at \o <<"foreign_key">>, "key"))
    \cup Over(DOMAIN tab.idx, LAMBDA i :
           When(\/ tab.idx[i].cols = << >> \/ ~IndexFits(c.tables, tab, tab.idx[i])
                \/ tab.idx[i].uniq /\ tab.idx[i].method # "btree"
                \/ tab.idx[i].method = "hash" /\ Len(tab.idx[i].cols) > 1
                \/ tab.idx[i].method \notin {"btree", "hash", "gin"}, path \o <<"indexes", i>>, "index"))

(* The clauses of the policy that is made for one operation.               *)
rlsClauses(op, p) ==
  [op |-> op, restrictive |-> p.type = "restrictive",
   using |-> IF op = "insert" THEN << >> ELSE p.using,
   check |-> IF op \in {"select", "delete"} THEN << >> ELSE p.check]
RefusedPolicies(path, rls) ==
  Over(DOMAIN rls, LAMBDA i : Over(rls[i].ops, LAMBDA op :
    LET s == rlsClauses(op, rls[i])
        at == path \o <<"rls", i>>
    IN     When(s.using # << >> /\ ~Parses(s.using), at \o <<"using">>, "syntax")
      \cup When(s.check # << >> /\ ~Parses(s.check), at \o <<"with_check">>, "syntax")))
rlsOn(t) == t.rlsEnabled = "on" \/ (t.rlsEnabled = "unset" /\ t.rls # << >>)
(* Functions come after the tables, each of which is a type in its schema. *)
(* A body is read when its function is made: in plpgsql it is one block,   *)
(* in sql commands (whose rows are taken to be of the type declared).      *)
FunctionTypes(c) ==
  (ColumnTypes \ {"double", "serial", "bigserial"}) \cup {"int"}
  \cup {t \in DOMAIN c.tables : EffectiveSchema(c.tables[t]) = "public"}
SignatureFits(c, fn) ==
  /\ \A i \in DOMAIN fn.args : fn.args[i].type \in FunctionTypes(c)
  /\ (fn.returns[1] # "table" /\ fn.returns[2] = "void") \/ fn.returns[2] \in FunctionTypes(c)
BodyParses(fn) ==
  CASE fn.lang = "plpgsql" -> fn.body = "begin"
    [] OTHER               -> fn.body \notin {"begin", "f()", "$ub$"}
RefusedFunction(c, f) ==
  LET fn == c.rpc[f]
      path == <<"rpc", f>>
  IN     When(~SignatureFits(c, fn), path, "no such type")
    \cup When(\E i \in DOMAIN fn.args : \E j \in 1..(i-1) : fn.args[j].name = fn.args[i].name, path \o <<"args">>, "twice")
    \cup When(fn.lang \notin {"sql", "plpgsql"}, path \o <<"language">>, "no such language")
    \cup When(~BodyParses(fn), path \o <<"body">>, "syntax")
    \cup When(\E k \in DOMAIN fn.set : fn.set[k] = "out of range", path \o <<"set">>, "setting")
Refused(c) ==
     Over(DOMAIN c.rpc, LAMBDA f : RefusedFunction(c, f))
  \cup Over(DOMAIN c.tables, LAMBDA t : RefusedTable(c, t))
  \cup Over({t \in DOMAIN c.tables : rlsOn(c.tables[t])}, LAMBDA t : RefusedPolicies(<<"tables", t>>, c.tables[t].rls))
  \cup Over(DOMAIN c.storage, LAMBDA b : RefusedPolicies(<<"storage", b>>, c.storage[b].rls))

\* Mutant: restrictive policies are scoped like permissive ones.
scopeByAnd(b, s, row) == row.bucket = b /\ row.mine
(* Access under row level security.  Every expression asks whether the     *)
(* row is the caller's; scopeToBucket adds whose bucket it is in.          *)
scopeToBucket(b, s, row) ==
  IF s.restrictive THEN row.bucket # b \/ row.mine ELSE row.bucket = b /\ row.mine
Statements(rls) == UNION {{rlsClauses(op, rls[i]) : op \in rls[i].ops} : i \in DOMAIN rls}
CanWith(stmts, op, Holds(_)) ==
  LET of(r) == {s \in stmts : s.op = op /\ s.restrictive = r}
      check(s) == IF op = "update" /\ s.check = << >> THEN s.using ELSE s.check
      passes(Clause(_)) == /\ \E s \in of(FALSE) : Clause(s) # << >> /\ Holds(s)
                           /\ \A s \in of(TRUE) : Clause(s) = << >> \/ Holds(s)
  IN  /\ op # "insert" => passes(LAMBDA s : s.using)
      /\ op \in {"insert", "update"} => passes(check)
Can(rls, op, mine) == CanWith(Statements(rls), op, LAMBDA s : mine)

(* storage.objects is one table; default_all keeps open the buckets that   *)
(* have no policies once another has.                                      *)
generateStorageRLS(storage, b) ==
  IF storage[b].rls # << >>
  THEN {[op |-> s.op, restrictive |-> s.restrictive, using |-> s.using, check |-> s.check, bucket |-> b,
         open |-> FALSE] : s \in Statements(storage[b].rls)}
  ELSE {[op |-> op, restrictive |-> FALSE, using |-> <<"w">>, check |-> <<"w">>, bucket |-> b, open |-> TRUE] :
          op \in allRLSOps}
CanInStorage(storage, op, row) ==
  LET stmts == UNION {generateStorageRLS(storage, b) : b \in DOMAIN storage}
      holds(s) == IF s.open THEN row.bucket = s.bucket ELSE scopeToBucket(s.bucket, s, row)
  IN  (\E b \in DOMAIN storage : storage[b].rls # << >>) => CanWith(stmts, op, holds)

(***************************************************************************)
(* One document on its way to the database.                                *)
(***************************************************************************)
Init ==
  /\ doc \in Drafts /\ mode \in Modes /\ stage = "file"
  /\ cfg = doc /\ missing = {} /\ blanked = {} /\ errs = {} /\ refused = {}

Read(d, m) == IF m = "serve" THEN interpolateEnvVars(d.text) ELSE interpolateLocal(d.text)
ParseBytes ==
  /\ stage = "file"
  /\ LET r == Read(doc, mode) IN
     /\ missing' = r.missing /\ blanked' = r.blanked
     /\ IF r.missing # {} THEN stage' = "unreadable" /\ UNCHANGED cfg
        ELSE stage' = "parsed" /\ cfg' = applyDefaults([doc EXCEPT !.text = r.text], mode = "dev")
  /\ UNCHANGED <<doc, mode, errs, refused>>
Check ==
  /\ stage = "parsed"
  /\ errs' = validate(cfg, mode = "dev")
  /\ stage' = IF errs' = {} THEN "accepted" ELSE "rejected"
  /\ UNCHANGED <<doc, mode, cfg, missing, blanked, refused>>
Migrate ==
  /\ stage = "accepted"
  /\ refused' = Refused(cfg)
  /\ stage' = IF refused' = {} THEN "applied" ELSE "failed"
  /\ UNCHANGED <<doc, mode, cfg, missing, blanked, errs>>
Next == ParseBytes \/ Check \/ Migrate
Spec == Init /\ [][Next]_vars

(***************************************************************************)
(* Properties.                                                             *)
(***************************************************************************)
(* What validate leaves to Postgres.                                       *)
(* Keys: a target that nothing makes unique, tables that refer to each     *)
(* other in a ring, a key into storage before it is there, a target        *)
(* outside the configuration, an untyped key to a system column other than *)
(* auth.users.id.                                                          *)
KeyLeft(c, k) ==
  LET f == c.tables[k[1]].fields[k[2]]
      ref == ParseFKReference(f.fk)
  IN  \/ ref[1] = "storage"
      \/ ref[1] = "auth" /\ f.type = "" /\ ref # <<"auth", "users", "id">>
      \/ ref[2] \in DOMAIN c.tables /\ ~Before(c.tables, ref[2], k[1])
      \/ ref[1] \notin {"auth", "storage"} /\ ref[2] \in DOMAIN c.tables /\ ~UniqueColumn(c.tables[ref[2]], ref[3])
(* Columns: a literal or a function that is not of their type, an enum on  *)
(* an untyped key, "double", a unique json.  Indexes: a method that does   *)
(* not index the column's type, and the condition.                         *)
TableLeft(c, tab) ==
  \/ \E f \in Range(tab.fields) : ~ColumnFits(c.tables, f) \/ (f.enum /\ f.type = "")
  \/ \E x \in Range(tab.idx) : Range(x.cols) \subseteq FieldNames(tab) /\ ~IndexFits(c.tables, tab, x)
  \/ \E p \in Range(tab.rls) : \E e \in {p.using, p.check} \ {<< >>} : ~Parses(e)
(* Functions: whether the types they name exist, and a body that plpgsql   *)
(* cannot read.  And the grammar of policies beyond checkSQLExpr.          *)
FunctionLeft(c, fn) == ~SignatureFits(c, fn) \/ (fn.lang = "plpgsql" /\ ~BodyParses(fn))
LeftToPostgres(c) ==
  \/ \E k \in ForeignKeys(c.tables) : KeyLeft(c, k)
  \/ foreignKeyWarnings(c.tables, c.email) # {}
  \/ \E t \in DOMAIN c.tables : TableLeft(c, c.tables[t])
  \/ \E f \in DOMAIN c.rpc : FunctionLeft(c, c.rpc[f])

(* A document that passed validation is refused by Postgres only for one   *)
(* of those: references to what is declared and the types they infer, what *)
(* is there twice, names, unknown columns and methods of indexes,          *)
(* languages and settings of functions, bodies in sql, and what            *)
(* checkSQLExpr looks at in an expression are caught before a migration    *)
(* starts.                                                                 *)
AcceptedConfigsApply == stage = "failed" => LeftToPostgres(cfg)

(* validate rejects a reference, a duplicate column or an expression only  *)
(* when Postgres refuses that very place.                                  *)
RejectedForCause ==
  stage = "rejected" =>
    \A e \in errs :
      e[2] \in {"no such key", "mismatch", "sql"} \/ (e[2] = "duplicate" /\ e[1][1] = "tables")
      => \E r \in Refused(cfg) : IsPrefix(r[1], e[1])

(* A policy that passed validation governs every operation it lists: a     *)
(* permissive one lets the owner through and nobody else, a restrictive    *)
(* one takes the row from everybody else and leaves it to the owner.       *)
Governs(p, op) ==
  LET everyone == {[op |-> o, restrictive |-> FALSE, using |-> <<"w">>, check |-> <<"w">>] : o \in allRLSOps}
      with(mine) == CanWith(everyone \cup Statements(<<p>>), op, LAMBDA s : mine \/ ~s.restrictive)
  IN  IF p.type = "restrictive" THEN with(TRUE) /\ ~with(FALSE)
      ELSE Can(<<p>>, op, TRUE) /\ ~Can(<<p>>, op, FALSE)
PoliciesGovern ==
  stage = "accepted" =>
    \A rls \in {cfg.tables[t].rls : t \in DOMAIN cfg.tables} \cup {cfg.storage[b].rls : b \in DOMAIN cfg.storage} :
      \A i \in DOMAIN rls : \A op \in rls[i].ops : Governs(rls[i], op)

(* The policies of one bucket neither open nor close another, although     *)
(* all of them are policies of the one table storage.objects.              *)
BucketsAreSeparate ==
  stage = "accepted" =>
    \A b \in DOMAIN cfg.storage : \A op \in allRLSOps : \A mine \in BOOLEAN :
      CanInStorage(cfg.storage, op, [bucket |-> b, mine |-> mine])
      <=> (cfg.storage[b].rls = << >> \/ Can(cfg.storage[b].rls, op, mine))

(* What the development server accepts and inz serve would not read or     *)
(* would reject is something it has warned of; storage without a provider  *)
(* is the exception, for it falls back to local files.                     *)
LocalRelaxationIsWarned ==
  stage = "accepted" /\ mode = "dev" =>
    LET served == Read(doc, "serve")
        strict == validate(applyDefaults([doc EXCEPT !.text = served.text], FALSE), FALSE)
        fallback == {<<<<"providers", "storage">>, "required">>}
    IN  (served.missing # {} \/ strict \ fallback # {}) => blanked \cup LocalWarnings(cfg) # {}
(* validate and Postgres agree but for what is named: what is accepted     *)
(* Postgres takes, or refuses for one of the reasons left to it; what is   *)
(* rejected it would refuse as well; what only the development server      *)
(* accepts it has warned of.                                               *)
VerdictsAreExplained == AcceptedConfigsApply /\ RejectedForCause /\ LocalRelaxationIsWarned

(* A policy governs what it lists, in its own bucket.                      *)
PoliciesAreExact == PoliciesGovern /\ BucketsAreSeparate
=============================================================================
