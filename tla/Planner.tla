------------------------------ MODULE Planner ------------------------------
(***************************************************************************)
(* The migration planner, internal/app/migrate.go and                      *)
(* migrate_config_diff.go, and what Postgres makes of its statements.      *)
(*                                                                         *)
(* A configuration cfg is [tables, rpc, storage, email]:                   *)
(*   tables : name -> [from, cols, idx, rls, pols]                         *)
(*     cols : name -> [type, req, pk, fk, dflt, guard, from]               *)
(*     idx  : set of [cols, uniq];  pols : sequence of [expr, calls, cols] *)
(*            (cols: the table's own columns that the expression uses)     *)
(*   rpc    : name -> [sig, body];  storage : bucket -> sequence of        *)
(*            policies;  email : is sign-in by email on.                   *)
(* A database db holds what the statements made of it; was names the       *)
(* column in which a datum was first stored, so that a rename is told from *)
(* a drop and an add.  Index and policy names are pairs that start with    *)
(* the name their table had when they were made.                           *)
(***************************************************************************)
EXTENDS Naturals, Sequences, FiniteSets
LOCAL INSTANCE SequencesExt
LOCAL INSTANCE FiniteSetsExt
LOCAL INSTANCE Functions

None == "none"

EmptyDB == [tables  |-> << >>, guards |-> {}, rpc |-> {}, auth |-> {},
            storage |-> [cols |-> {}, idx |-> {}, rls |-> FALSE, pol |-> << >>],
            api     |-> {}, ok |-> TRUE]

(* What previousConfig answers before the first migration.                 *)
NoConfig == [none |-> TRUE]

Fail(db) == [db EXCEPT !.ok = FALSE]
If(cond, stmts) == IF cond THEN stmts ELSE << >>
Listed(S) == FoldSet(LAMBDA x, seq : Append(seq, x), << >>, S)
Each(S, Stmt(_)) == FoldSet(LAMBDA x, seq : Append(seq, Stmt(x)), << >>, S)
Gather(seq, Stmts(_)) == FoldLeft(LAMBDA acc, x : acc \o Stmts(x), << >>, seq)
Drop(f, x) == [y \in DOMAIN f \ {x} |-> f[y]]
Put(f, x, v) == [y \in DOMAIN f \cup {x} |-> IF y = x THEN v ELSE f[y]]

PrimaryKeyColumns(t) == {c \in DOMAIN t.cols : t.cols[c].pk}
HasGuards(t) == \E c \in DOMAIN t.cols : t.cols[c].guard

(* Referenced tables first; in a cycle any order will do.                  *)
orderTables(tables) ==
  LET refers(t, u) == t # u /\ \E c \in DOMAIN tables[t].cols : tables[t].cols[c].fk[1] = u
      next(done) ==
        LET rest == DOMAIN tables \ Range(done)
            ready == {t \in rest : ~\E u \in rest : refers(t, u)}
        IN  Append(done, CHOOSE t \in rest : ready # {} => t \in ready)
  IN  FoldLeft(LAMBDA done, t : next(done), << >>, Listed(DOMAIN tables))

rlsPolicyNames(t, pols) == {<<t, i>> : i \in DOMAIN pols}
storageRLSPolicyNames(b, pols) == {<<b, i>> : i \in DOMAIN pols}
(* <bucket>_default_all, and <bucket>_public_select of older releases.     *)
DefaultAll == 0
PublicSelect == 100
defaultAll(b) == <<b, DefaultAll>>
publicSelect(b) == <<b, PublicSelect>>
Open == [expr |-> "true", calls |-> None, cols |-> {}]

(***************************************************************************)
(* Postgres: what one statement does, or Fail(db) when it is refused.      *)
(***************************************************************************)
References(db, t, c) ==
  {ud \in UNION {{u} \X (DOMAIN db.tables[u].cols) : u \in DOMAIN db.tables} :
     db.tables[ud[1]].cols[ud[2]].fk = <<t, c>>}
(* The policies of the table whose expressions use the column.             *)
Readers(db, t, c) == {n \in DOMAIN db.tables[t].pol : c \in db.tables[t].pol[n].cols}

(* Any value may become text; the values themselves are not modelled.      *)
Castable(from, to) == from = to \/ to \in {"text", "varchar"}
(* A key joins columns that one equality compares.                         *)
Comparable(a, b) == a = b \/ {a, b} \subseteq {"text", "varchar"}

Backed(db, fk, type) ==
  IF fk[1] = "auth.users" THEN "users" \in db.auth /\ type = "id"
  ELSE /\ fk[1] \in DOMAIN db.tables
       /\ fk[2] \in DOMAIN db.tables[fk[1]].cols
       /\ Comparable(type, db.tables[fk[1]].cols[fk[2]].type)
       /\ \/ db.tables[fk[1]].pk = {fk[2]}
          \/ \E i \in db.tables[fk[1]].idx : i.uniq /\ i.cols = {fk[2]}

NewColumn(t, c, def, fk) ==
  [type |-> def.type, req |-> def.req \/ def.pk, fk |-> fk, was |-> <<t, c>>]

CreateTable(db, s) ==
  LET inline(c) == IF <<s.t, c>> \in s.deferred THEN <<None, None>> ELSE s.def.cols[c].fk
      new == [cols |-> [c \in DOMAIN s.def.cols |-> NewColumn(s.t, c, s.def.cols[c], inline(c))],
              pk |-> PrimaryKeyColumns(s.def), idx |-> {}, pol |-> << >>, rls |-> FALSE, trig |-> None]
      db2 == [db EXCEPT !.tables = Put(@, s.t, new)]
  IN  IF s.t \in DOMAIN db.tables THEN db
      ELSE IF /\ \A c \in DOMAIN new.cols : new.cols[c].fk[1] = None \/ Backed(db2, new.cols[c].fk, new.cols[c].type)
              /\ \A c \in DOMAIN s.def.cols : s.def.cols[c].dflt => "functions" \in db.auth
           THEN db2 ELSE Fail(db)

RenameTable(db, s) ==
  LET follow(col) == IF col.fk[1] = s.t THEN [col EXCEPT !.fk[1] = s.to] ELSE col
      renamed == Put(Drop(db.tables, s.t), s.to, db.tables[s.t])
  IN  IF s.t \notin DOMAIN db.tables \/ s.to \in DOMAIN db.tables THEN Fail(db)
      ELSE [db EXCEPT !.tables =
              [t \in DOMAIN renamed |->
                 [renamed[t] EXCEPT !.cols = [c \in DOMAIN @ |-> follow(@[c])]]]]

RenameColumn(db, s) ==
  LET moved(c) == IF c = s.c THEN s.to ELSE c
      follow(col) == IF col.fk = <<s.t, s.c>> THEN [col EXCEPT !.fk[2] = s.to] ELSE col
      of(tab) == [tab EXCEPT !.cols = Put(Drop(@, s.c), s.to, @[s.c]),
                             !.pk = {moved(c) : c \in @},
                             !.idx = {[i EXCEPT !.cols = {moved(c) : c \in @}] : i \in @},
                             !.pol = [n \in DOMAIN @ |-> [@[n] EXCEPT !.cols = {moved(c) : c \in @}]]]
      renamed == [db.tables EXCEPT ![s.t] = of(@)]
  IN  IF s.c \notin DOMAIN db.tables[s.t].cols \/ s.to \in DOMAIN db.tables[s.t].cols THEN Fail(db)
      ELSE [db EXCEPT !.tables =
              [t \in DOMAIN renamed |->
                 [renamed[t] EXCEPT !.cols = [c \in DOMAIN @ |-> follow(@[c])]]]]

(* Without CASCADE: what a key or a policy depends on stays.               *)
DropColumn(db, s) ==
  IF References(db, s.t, s.c) # {} \/ Readers(db, s.t, s.c) # {} THEN Fail(db)
  ELSE [db EXCEPT !.tables[s.t].cols = Drop(@, s.c),
                  !.tables[s.t].idx = {i \in @ : s.c \notin i.cols},
                  !.tables[s.t].pk = IF s.c \in @ THEN {} ELSE @]

KeysInto(db, t) ==
  {ud \in UNION {References(db, t, c) : c \in DOMAIN db.tables[t].cols} : ud[1] # t}
DropTable(db, s) ==
  IF KeysInto(db, s.t) # {} THEN Fail(db) ELSE [db EXCEPT !.tables = Drop(@, s.t)]

AddColumn(db, s) ==
  LET col == NewColumn(s.t, s.c, s.def, s.def.fk)
      db2 == [db EXCEPT !.tables[s.t].cols = Put(@, s.c, col),
                        !.tables[s.t].pk = IF s.def.pk THEN {s.c} ELSE @]
  IN  IF \/ s.c \in DOMAIN db.tables[s.t].cols
         \/ s.def.pk /\ db.tables[s.t].pk # {}
         \/ col.fk[1] # None /\ ~Backed(db2, col.fk, col.type)
         \/ s.def.dflt /\ "functions" \notin db.auth
      THEN Fail(db) ELSE db2

(* The keys to and from the column are made anew with its new type.        *)
AlterType(db, s) ==
  LET db2 == [db EXCEPT !.tables[s.t].cols[s.c].type = s.type]
      keyed == References(db, s.t, s.c) \cup (IF db.tables[s.t].cols[s.c].fk[1] = None THEN {} ELSE {<<s.t, s.c>>})
  IN  IF /\ Readers(db, s.t, s.c) = {}
         /\ Castable(db.tables[s.t].cols[s.c].type, s.type)
         /\ \A ud \in keyed : LET col == db2.tables[ud[1]].cols[ud[2]] IN Backed(db2, col.fk, col.type)
      THEN db2 ELSE Fail(db)

CreateIndex(db, s) ==
  LET name == <<s.t, s.def.cols>> IN
  IF \E t \in DOMAIN db.tables : \E i \in db.tables[t].idx : i.name = name THEN db
  ELSE IF ~(s.def.cols \subseteq DOMAIN db.tables[s.t].cols) THEN Fail(db)
  ELSE [db EXCEPT !.tables[s.t].idx =
          @ \cup {[name |-> name, cols |-> s.def.cols, uniq |-> s.def.uniq]}]

(* The keys that only this index backs.                                    *)
KeysOn(db, name) ==
  UNION {References(db, tc[1], tc[2]) :
    tc \in {tc \in UNION {{t} \X (DOMAIN db.tables[t].cols) : t \in DOMAIN db.tables} :
      LET unique == {i \in db.tables[tc[1]].idx : i.uniq /\ i.cols = {tc[2]}}
      IN  db.tables[tc[1]].pk # {tc[2]} /\ {i.name : i \in unique} = {name}}}
DropIndex(db, s) ==
  IF KeysOn(db, s.i) # {} THEN Fail(db)
  ELSE [db EXCEPT !.tables = [t \in DOMAIN @ |-> [@[t] EXCEPT !.idx = {i \in @ : i.name # s.i}]]]

DropGuard(db, s) ==
  LET users == {t \in DOMAIN db.tables : db.tables[t].trig = s.t}
  IN  IF users # {} /\ ~s.cascade THEN Fail(db)
      ELSE [db EXCEPT !.guards = @ \ {s.t},
                      !.tables = [t \in DOMAIN @ |-> IF t \in users THEN [@[t] EXCEPT !.trig = None] ELSE @[t]]]

Callable(db, p) == p.calls = None \/ \E f \in db.rpc : f.name = p.calls
Callers(db, f) ==
  {tn \in UNION {{t} \X (DOMAIN db.tables[t].pol) : t \in DOMAIN db.tables} :
     db.tables[tn[1]].pol[tn[2]].calls = f}
  \cup {<<"storage", n>> : n \in {n \in DOMAIN db.storage.pol : db.storage.pol[n].calls = f}}

(* dropPoliciesUsing and the DROP FUNCTION that follows it.                *)
DropFunction(db, s) ==
  LET live == \E f \in db.rpc : f.name = s.f /\ f.sig = s.sig
      users == IF live THEN Callers(db, s.f) ELSE {}
      without(pols, owner) == [n \in DOMAIN pols \ {n \in DOMAIN pols : <<owner, n>> \in users} |-> pols[n]]
  IN  IF ~(users \subseteq s.managed) THEN Fail(db)
      ELSE [db EXCEPT !.rpc = {f \in @ : ~(f.name = s.f /\ f.sig = s.sig)},
                      !.tables = [t \in DOMAIN @ |-> [@[t] EXCEPT !.pol = without(@, t)]],
                      !.storage.pol = without(@, "storage")]

Run(db, s) ==
  CASE ~db.ok                -> db
    [] s.do = "createTable"  -> CreateTable(db, s)
    [] s.do = "renameTable"  -> RenameTable(db, s)
    [] s.do = "renameColumn" -> RenameColumn(db, s)
    [] s.do = "dropTable"    -> IF s.t \in DOMAIN db.tables THEN DropTable(db, s) ELSE db
    [] s.do = "dropColumn"   -> IF s.c \in DOMAIN db.tables[s.t].cols THEN DropColumn(db, s) ELSE db
    [] s.do = "addColumn"    -> AddColumn(db, s)
    [] s.do = "addFK"        -> IF Backed(db, s.fk, db.tables[s.t].cols[s.c].type)
                                THEN [db EXCEPT !.tables[s.t].cols[s.c].fk = s.fk] ELSE Fail(db)
    [] s.do = "alterType"    -> AlterType(db, s)
    [] s.do = "setNotNull"   -> [db EXCEPT !.tables[s.t].cols[s.c].req = s.req]
    [] s.do = "createIndex"  -> CreateIndex(db, s)
    [] s.do = "dropIndex"    -> DropIndex(db, s)
    [] s.do = "guard"        -> [db EXCEPT !.guards = @ \cup {s.t}, !.tables[s.t].trig = s.t]
    [] s.do = "dropTrigger"  -> [db EXCEPT !.tables[s.t].trig = None]
    [] s.do = "dropGuard"    -> DropGuard(db, s)
    [] s.do = "rls"          -> [db EXCEPT !.tables[s.t].rls = s.on]
    [] s.do = "dropPolicy"   -> [db EXCEPT !.tables[s.t].pol = Drop(@, s.n)]
    [] s.do = "createPolicy" -> IF Callable(db, s.p) /\ s.p.cols \subseteq DOMAIN db.tables[s.t].cols
                                THEN [db EXCEPT !.tables[s.t].pol = Put(@, s.n, s.p)]
                                ELSE Fail(db)
    [] s.do = "createRPC"    -> [db EXCEPT !.rpc = {f \in @ : ~(f.name = s.f /\ f.sig = s.def.sig)}
                                                   \cup {[name |-> s.f, sig |-> s.def.sig, body |-> s.def.body]}]
    [] s.do = "dropRPC"      -> DropFunction(db, s)
    [] s.do = "auth"         -> [db EXCEPT !.auth = @ \cup s.add]
    [] s.do = "storageTable" -> IF "users" \notin db.auth THEN Fail(db)
                                ELSE [db EXCEPT !.storage.cols = IF @ = {} THEN s.fresh \cup s.add ELSE @ \cup s.add,
                                                !.storage.idx = IF db.storage.cols = {} THEN s.idx ELSE @]
    [] s.do = "storageCols"  -> IF db.storage.cols = {} THEN IF s.strict THEN Fail(db) ELSE db
                                ELSE [db EXCEPT !.storage.cols = @ \cup s.add]
    [] s.do = "storageIndex" -> [db EXCEPT !.storage.idx = @ \cup s.add]
    [] s.do = "storageList"  -> [db EXCEPT !.storage.cols = @ \cup s.add, !.storage.idx = @ \cup s.add]
    [] s.do = "storageRLS"   -> [db EXCEPT !.storage.rls = TRUE]
    [] s.do = "dropStoragePolicy"   -> [db EXCEPT !.storage.pol = Drop(@, s.n)]
    [] s.do = "createStoragePolicy" -> IF Callable(db, s.p) /\ (s.p.expr = "owner" => "owner" \in db.storage.cols)
                                       THEN [db EXCEPT !.storage.pol = Put(@, s.n, s.p)]
                                       ELSE Fail(db)
    [] s.do = "grant"        -> [db EXCEPT !.api = @ \cup s.add]
    [] s.do = "revoke"       -> [db EXCEPT !.api = @ \ s.del]

RunAll(db, stmts) == FoldLeft(Run, db, stmts)

(***************************************************************************)
(* The statements for one object.                                          *)
(***************************************************************************)
generateJWTKeysTable == <<[do |-> "auth", add |-> {"jwt_keys"}]>>
authHealDDL == <<[do |-> "auth", add |-> {"healed"}]>>
generateRLSFunctions == <<[do |-> "auth", add |-> {"functions"}]>>
oneTimeTokens == <<[do |-> "auth", add |-> {"one_time_tokens"}]>>
generateAuthTables(cfg) ==
  <<[do |-> "auth", add |-> {"users", "refresh_tokens"}]>> \o If(cfg.email, oneTimeTokens) \o authHealDDL

generateExistingObjectGrants == <<[do |-> "grant", add |-> {"history"}]>>
generatePrivilegeRevokes == <<[do |-> "revoke", del |-> {"history", "auth"}]>>

(* A key of the table itself that only a unique index made later can back. *)
deferSelfFK(t, def, c) ==
  LET fk == def.cols[c].fk
  IN  fk[1] = t /\ fk[2] \in DOMAIN def.cols /\ PrimaryKeyColumns(def) # {fk[2]}
generateDeferredFKs(t, def) ==
  Each({c \in DOMAIN def.cols : deferSelfFK(t, def, c)},
       LAMBDA c : [do |-> "addFK", t |-> t, c |-> c, fk |-> def.cols[c].fk])
generateTable(t, def) ==
  <<[do |-> "createTable", t |-> t, def |-> def,
     deferred |-> {<<t, c>> : c \in {c \in DOMAIN def.cols : deferSelfFK(t, def, c)}}]>>
generateIndexes(t, idx) == Each(idx, LAMBDA i : [do |-> "createIndex", t |-> t, def |-> i])
generateGuards(t, def) == If(HasGuards(def), <<[do |-> "guard", t |-> t]>>)
generateRLSPolicies(t, def) ==
  If(def.rls, <<[do |-> "rls", t |-> t, on |-> TRUE]>>
              \o [i \in DOMAIN def.pols |-> [do |-> "createPolicy", t |-> t, n |-> <<t, i>>, p |-> def.pols[i]]])
generateRPCFunctions(cfg) ==
  Each(DOMAIN cfg.rpc, LAMBDA f : [do |-> "createRPC", f |-> f, def |-> cfg.rpc[f]])

storageOwnerColumnDDL(storage) ==
  If(\E b \in DOMAIN storage : \E i \in DOMAIN storage[b] : storage[b][i].expr = "owner",
     <<[do |-> "storageCols", add |-> {"owner"}, strict |-> FALSE]>>)
(* storage.objects; only a fresh, empty table is indexed at once.          *)
generateStorageTables(storage) ==
  If(DOMAIN storage # {},
     <<[do |-> "storageTable", fresh |-> {"name_lower", "owner"}, add |-> {"user_metadata"},
        idx |-> {"name", "name_lower"}]>> \o storageOwnerColumnDDL(storage))
generateStorageRLS(b, pols) ==
  [i \in DOMAIN pols |-> [do |-> "createStoragePolicy", n |-> <<b, i>>, p |-> pols[i]]]
dropPublicSelect(storage) ==
  Each(DOMAIN storage, LAMBDA b : [do |-> "dropStoragePolicy", n |-> publicSelect(b)])
generateStorageRLSAll(storage) ==
  LET anyRLS == \E b \in DOMAIN storage : storage[b] # << >>
  IN  dropPublicSelect(storage) \o If(anyRLS, <<[do |-> "storageRLS"]>>)
      \o Gather(Listed(DOMAIN storage),
                LAMBDA b : IF storage[b] # << >> THEN generateStorageRLS(b, storage[b])
                           ELSE If(anyRLS, <<[do |-> "createStoragePolicy", n |-> defaultAll(b), p |-> Open]>>))

planFromScratchStatements(cfg) ==
  LET ordered == orderTables(cfg.tables) IN
     generateJWTKeysTable \o generateAuthTables(cfg) \o generateRLSFunctions
  \o Gather(ordered, LAMBDA t : generateTable(t, cfg.tables[t]) \o generateIndexes(t, cfg.tables[t].idx)
                                \o generateDeferredFKs(t, cfg.tables[t]) \o generateGuards(t, cfg.tables[t]))
  \o generateStorageTables(cfg.storage)
  \o generateRPCFunctions(cfg)
  \o Gather(ordered, LAMBDA t : generateRLSPolicies(t, cfg.tables[t]))
  \o generateStorageRLSAll(cfg.storage)
  \o generateExistingObjectGrants \o generatePrivilegeRevokes

(***************************************************************************)
(* The difference between two configurations.                              *)
(***************************************************************************)
(* Declared renames applied to the old configuration: [cfg, ddl].  A       *)
(* rename is skipped when its source is gone or its target is there.       *)
renameTable(acc, t, new) ==
  LET src == new.tables[t].from IN
  IF src = None \/ t \in DOMAIN acc.cfg.tables \/ src \notin DOMAIN acc.cfg.tables THEN acc
  ELSE [cfg |-> [acc.cfg EXCEPT !.tables = Put(Drop(@, src), t, @[src])],
        ddl |-> acc.ddl \o <<[do |-> "renameTable", t |-> src, to |-> t]>>
                \o If(HasGuards(acc.cfg.tables[src]), <<[do |-> "dropGuard", t |-> src, cascade |-> TRUE]>>)]

\* Mutant: a column rename in a renamed table is not seen.
renameColumnOfOldName(acc, t, c, new) ==
  LET src == new.tables[t].cols[c].from IN
  IF src = None \/ t \notin DOMAIN acc.cfg.tables \/ new.tables[t].from # None
     \/ c \in DOMAIN acc.cfg.tables[t].cols \/ src \notin DOMAIN acc.cfg.tables[t].cols THEN acc
  ELSE [cfg |-> [acc.cfg EXCEPT !.tables[t].cols = Put(Drop(@, src), c, @[src])],
        ddl |-> Append(acc.ddl, [do |-> "renameColumn", t |-> t, c |-> src, to |-> c])]
renameColumn(acc, t, c, new) ==
  LET src == new.tables[t].cols[c].from IN
  IF src = None \/ t \notin DOMAIN acc.cfg.tables \/ c \in DOMAIN acc.cfg.tables[t].cols
     \/ src \notin DOMAIN acc.cfg.tables[t].cols THEN acc
  ELSE [cfg |-> [acc.cfg EXCEPT !.tables[t].cols = Put(Drop(@, src), c, @[src])],
        ddl |-> Append(acc.ddl, [do |-> "renameColumn", t |-> t, c |-> src, to |-> c])]
applyRenames(old, new) ==
  LET columns == Listed(UNION {{t} \X (DOMAIN new.tables[t].cols) : t \in DOMAIN new.tables})
  IN  FoldLeft(LAMBDA acc, tc : renameColumn(acc, tc[1], tc[2], new),
               FoldLeft(LAMBDA acc, t : renameTable(acc, t, new),
                        [cfg |-> old, ddl |-> << >>], Listed(DOMAIN new.tables)),
               columns)

Kept(old, new) == DOMAIN old.tables \cap DOMAIN new.tables
RemovedColumns(old, new) ==
  UNION {{t} \X (DOMAIN old.tables[t].cols \ DOMAIN new.tables[t].cols) : t \in Kept(old, new)}
RemovedTables(old, new) == DOMAIN old.tables \ DOMAIN new.tables

(* The key may only change by dropping its column and adding a new one.    *)
diffPrimaryKeys(old, new) ==
  {t \in Kept(old, new) :
     LET o == PrimaryKeyColumns(old.tables[t])
         n == PrimaryKeyColumns(new.tables[t])
         oldPKDropped == ~(o \subseteq DOMAIN new.tables[t].cols)
     IN  o # n /\ ~(oldPKDropped /\ Cardinality(n) = 1 /\ n \cap DOMAIN old.tables[t].cols = {})}

\* Mutant: policies only go with the whole section.
diffRemovedRLSPoliciesOfUnsecured(old, new) ==
  Gather(Listed({t \in Kept(old, new) : ~new.tables[t].rls}),
    LAMBDA t : Each(rlsPolicyNames(t, old.tables[t].pols) \ rlsPolicyNames(t, new.tables[t].pols),
                    LAMBDA n : [do |-> "dropPolicy", t |-> t, n |-> n])
               \o If(old.tables[t].rls, <<[do |-> "rls", t |-> t, on |-> FALSE]>>))
diffRemovedRLSPolicies(old, new) ==
  Gather(Listed(Kept(old, new)),
    LAMBDA t : Each(rlsPolicyNames(t, old.tables[t].pols) \ rlsPolicyNames(t, new.tables[t].pols),
                    LAMBDA n : [do |-> "dropPolicy", t |-> t, n |-> n])
               \o If(old.tables[t].rls /\ ~new.tables[t].rls, <<[do |-> "rls", t |-> t, on |-> FALSE]>>))
diffRemovedIndexes(old, new) ==
  Gather(Listed(DOMAIN old.tables),
    LAMBDA t : Each(old.tables[t].idx \ (IF t \in DOMAIN new.tables THEN new.tables[t].idx ELSE {}),
                    LAMBDA i : [do |-> "dropIndex", i |-> <<t, i.cols>>]))
diffRemovedColumns(old, new) ==
  Each(RemovedColumns(old, new), LAMBDA tc : [do |-> "dropColumn", t |-> tc[1], c |-> tc[2]])
(* Children before the parents they refer to, for there is no CASCADE.     *)
diffRemovedTables(old, new) ==
  LET gone == SelectSeq(Reverse(orderTables(old.tables)), LAMBDA t : t \in RemovedTables(old, new))
  IN  [i \in DOMAIN gone |-> [do |-> "dropTable", t |-> gone[i]]]
diffRemovedGuards(old, new) ==
  Gather(Listed({t \in DOMAIN old.tables : HasGuards(old.tables[t])
                     /\ ~(t \in DOMAIN new.tables /\ HasGuards(new.tables[t]))}),
    LAMBDA t : If(t \in DOMAIN new.tables, <<[do |-> "dropTrigger", t |-> t]>>)
               \o <<[do |-> "dropGuard", t |-> t, cascade |-> FALSE]>>)
diffRemovedStorageRLS(old, new) ==
  Gather(Listed(DOMAIN old.storage),
    LAMBDA b : Each(storageRLSPolicyNames(b, old.storage[b])
                    \ (IF b \in DOMAIN new.storage THEN storageRLSPolicyNames(b, new.storage[b]) ELSE {}),
                    LAMBDA n : [do |-> "dropStoragePolicy", n |-> n]))
managedPolicyNames(cfg) ==
  UNION {{t} \X rlsPolicyNames(t, cfg.tables[t].pols) : t \in DOMAIN cfg.tables}
  \cup UNION {{"storage"} \X storageRLSPolicyNames(b, cfg.storage[b]) : b \in DOMAIN cfg.storage}
diffRemovedRPCFunctions(old, new) ==
  Each({f \in DOMAIN old.rpc : f \notin DOMAIN new.rpc \/ old.rpc[f].sig # new.rpc[f].sig},
       LAMBDA f : [do |-> "dropRPC", f |-> f, sig |-> old.rpc[f].sig, managed |-> managedPolicyNames(new)])

diffNewAuth(old, new) ==
  <<[do |-> "auth", add |-> {"refresh_tokens"}]>> \o If(new.email /\ ~old.email, oneTimeTokens) \o authHealDDL

\* Mutant: the indexes come after the keys that need them.
diffNoIndexesOnLiveColumns(old, new) == << >>
(* New unique indexes on columns that are there already and keep their     *)
(* type, first: a new key may rely on them.                                *)
diffIndexesOnLiveColumns(old, new) ==
  Gather(Listed(Kept(old, new)),
    LAMBDA t : generateIndexes(t, {i \in new.tables[t].idx \ old.tables[t].idx :
                 /\ i.uniq
                 /\ \A c \in i.cols : /\ c \in DOMAIN old.tables[t].cols
                                      /\ old.tables[t].cols[c].type = new.tables[t].cols[c].type}))
diffNewTables(old, new) ==
  Gather(SelectSeq(orderTables(new.tables), LAMBDA t : t \notin DOMAIN old.tables),
    LAMBDA t : generateTable(t, new.tables[t]) \o generateIndexes(t, new.tables[t].idx)
               \o generateDeferredFKs(t, new.tables[t]))
diffNewColumns(old, new) ==
  Each(UNION {{t} \X (DOMAIN new.tables[t].cols \ DOMAIN old.tables[t].cols) : t \in Kept(old, new)},
       LAMBDA tc : [do |-> "addColumn", t |-> tc[1], c |-> tc[2], def |-> new.tables[tc[1]].cols[tc[2]]])
diffNewStorage(old, new) == If(DOMAIN old.storage = {}, generateStorageTables(new.storage))
diffColumnChanges(old, new) ==
  Gather(Listed(UNION {{t} \X (DOMAIN new.tables[t].cols \cap DOMAIN old.tables[t].cols) : t \in Kept(old, new)}),
    LAMBDA tc : LET o == old.tables[tc[1]].cols[tc[2]]
                    n == new.tables[tc[1]].cols[tc[2]]
                IN  If(o.type # n.type, <<[do |-> "alterType", t |-> tc[1], c |-> tc[2], type |-> n.type]>>)
                    \o If((o.req \/ o.pk) # (n.req \/ n.pk),
                          <<[do |-> "setNotNull", t |-> tc[1], c |-> tc[2], req |-> n.req \/ n.pk]>>))

Destroys(old, new) == RemovedColumns(old, new) \cup ({"table"} \X RemovedTables(old, new))
Removals(old, new) ==
  diffRemovedRLSPolicies(old, new) \o diffRemovedIndexes(old, new) \o diffRemovedColumns(old, new)
  \o diffRemovedTables(old, new) \o diffRemovedGuards(old, new) \o diffRemovedStorageRLS(old, new)
  \o diffRemovedRPCFunctions(old, new)
Additions(old, new) ==
  diffNewAuth(old, new) \o diffIndexesOnLiveColumns(old, new) \o diffNewTables(old, new)
  \o diffNewColumns(old, new) \o diffNewStorage(old, new)

DiffOfRenamed(was, ddl, new) ==
  [renames |-> ddl, pkChanges |-> diffPrimaryKeys(was, new), removals |-> Removals(was, new),
   additions |-> Additions(was, new), alterations |-> diffColumnChanges(was, new), destroys |-> Destroys(was, new)]
diffConfigs(old, new) == LET r == applyRenames(old, new) IN DiffOfRenamed(r.cfg, r.ddl, new)

healStorage(storage) ==
  If(DOMAIN storage # {}, <<[do |-> "storageCols", add |-> {"user_metadata"}, strict |-> TRUE]>>
                          \o storageOwnerColumnDDL(storage))

planUpdateStatements(diff, new) ==
  LET ordered == orderTables(new.tables) IN
     generateJWTKeysTable \o generateRLSFunctions
  \o diff.renames \o diff.removals \o diff.additions \o diff.alterations
  \o Gather(ordered, LAMBDA t : generateIndexes(t, new.tables[t].idx) \o generateGuards(t, new.tables[t]))
  \o healStorage(new.storage)
  \o generateRPCFunctions(new)
  \o Gather(ordered, LAMBDA t : generateRLSPolicies(t, new.tables[t]))
  \o generateStorageRLSAll(new.storage)
  \o generateExistingObjectGrants \o generatePrivilegeRevokes

(* What Apply will run: the statements, or why there are none.  A changed  *)
(* key passes when the live table already has it.                          *)
planOfDiff(db, diff, new, allowDestructive) ==
  LET live(t) == t \in DOMAIN db.tables /\ db.tables[t].pk = PrimaryKeyColumns(new.tables[t])
  IN  IF \E t \in diff.pkChanges : ~live(t) THEN [verdict |-> "primary_key_change", stmts |-> << >>]
      ELSE IF diff.destroys # {} /\ ~allowDestructive THEN [verdict |-> "destructive", stmts |-> << >>]
      ELSE [verdict |-> "ok", stmts |-> planUpdateStatements(diff, new)]
planStatements(db, old, new, allowDestructive) ==
  IF old = NoConfig THEN [verdict |-> "ok", stmts |-> planFromScratchStatements(new)]
  ELSE planOfDiff(db, diffConfigs(old, new), new, allowDestructive)

(***************************************************************************)
(* The two sets of statements that run outside the plan.                   *)
(***************************************************************************)
rpcsCalledByStorage(cfg) ==
  {f \in DOMAIN cfg.rpc : \E b \in DOMAIN cfg.storage : \E i \in DOMAIN cfg.storage[b] : cfg.storage[b][i].calls = f}
missingStorageRPCs(db, cfg) == {f \in rpcsCalledByStorage(cfg) : ~\E g \in db.rpc : g.name = f}
denyPoliciesCalling(storage, missing) ==
  [b \in DOMAIN storage |->
     [i \in DOMAIN storage[b] |-> IF storage[b][i].calls \in missing THEN [expr |-> "false", calls |-> None, cols |-> {}]
                                  ELSE storage[b][i]]]
idempotentProvisioning(cfg, missing) ==
  LET storage == denyPoliciesCalling(cfg.storage, missing) IN
  generateJWTKeysTable \o generateAuthTables(cfg) \o generateRLSFunctions
  \o generateStorageTables(storage) \o generateStorageRLSAll(storage)
(* What Harden applies at every boot and reload: in one transaction, and   *)
(* before it, each on its own, the index and the column listing wants.     *)
hardening(applied) ==
  generateJWTKeysTable \o generatePrivilegeRevokes \o authHealDDL \o dropPublicSelect(applied)
healStorageList(db) ==
  If(db.storage.cols # {},
     If("name" \notin db.storage.idx, <<[do |-> "storageIndex", add |-> {"name"}]>>)
     \o If(~({"name_lower"} \subseteq db.storage.cols /\ "name_lower" \in db.storage.idx),
           <<[do |-> "storageList", add |-> {"name_lower"}]>>))
=============================================================================
