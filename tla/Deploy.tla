------------------------------- MODULE Deploy -------------------------------
(***************************************************************************)
(* Instances that share a database and a configuration source: boot,       *)
(* migration under the advisory lock, fallback to the last applied         *)
(* configuration, hardening, the source watcher, dashboard saves           *)
(* (internal/app/engine.go, migrate.go, internal/config/source.go,         *)
(* internal/cli/bundle_source.go, admin_handler.go).                       *)
(*                                                                         *)
(*   source    the configuration in the source; an ETag tells contents     *)
(*             apart, so the configuration is its own version              *)
(*   ledger    the configuration of the last row of _instancez_migrations  *)
(*   eng[e]    one engine: pc, cfg (what it serves), att (what it is       *)
(*             migrating to), prev, failed (why the migration was not done),   *)
(*             missing, applied (what provisioning and hardening read      *)
(*             before their transactions), drift (the status it reports),  *)
(*             seen (what it last took in; own: by a save of its own), and *)
(*             its watcher: watch, gap (the source changed before its      *)
(*             first look), lastVer, head, queue                           *)
(*   files[e]  the bundle directories of its disk (version -> contents,    *)
(*             kept over a crash), the last one read, and what functions   *)
(*             the runtime runs                                            *)
(*   put       one dashboard save at a time                                *)
(***************************************************************************)
EXTENDS Planner

CONSTANTS Engines, Configs, Valid, Scenarios
ASSUME DeployAssumption ==
  /\ None \notin Engines /\ None \notin DOMAIN Configs /\ Valid \subseteq DOMAIN Configs
  /\ \A s \in Scenarios : /\ s.engines \subseteq Engines /\ s.engines # {}
                          /\ s.configs \subseteq DOMAIN Configs /\ s.ledger \in DOMAIN Configs \cup {None}
                          /\ s.saves \in Nat

VARIABLES scenario, source, ledger, db, eng, files, put, edits, saves, faults, provisioned, stranded

vars == <<scenario, source, ledger, db, eng, files, put, edits, saves, faults, provisioned, stranded>>

Down == [pc |-> "down", boot |-> TRUE, cfg |-> None, att |-> None, prev |-> None,
         failed |-> None, missing |-> {}, applied |-> None, drift |-> None, seen |-> None,
         own |-> FALSE, watch |-> "off", gap |-> FALSE, lastVer |-> None, head |-> None, queue |-> << >>]
NoPut == [pc |-> "none", at |-> None, cfg |-> None, ver |-> None]

(* A scenario bounds a behaviour: who runs, what the source may hold, how  *)
(* often it is edited or saved, and how often a call fails or a process    *)
(* dies.  Two ghosts: a blocked configuration was provisioned; a save      *)
(* migrated the database and then did not reach the source.                *)
Init ==
  /\ scenario \in Scenarios
  /\ source \in scenario.configs
  /\ ledger = scenario.ledger /\ db = scenario.db
  /\ eng = [e \in Engines |-> Down]
  /\ files = [e \in Engines |-> [dirs |-> << >>, last |-> None, code |-> None]]
  /\ put = NoPut
  /\ edits = 0 /\ saves = 0 /\ faults = 0
  /\ provisioned = FALSE /\ stranded = FALSE

Up(e) == eng[e].pc # "down"
Serving(e) == Up(e) /\ ~eng[e].boot
Bundle == scenario.kind = "bundle"
Fault == faults < scenario.faults /\ faults' = faults + 1
Database == <<ledger, db, provisioned>>
Outside == <<scenario, source, put, edits, saves, stranded>>

(***************************************************************************)
(* Bundles on disk.                                                        *)
(***************************************************************************)
(* The directory is named after the version asked for, or a digest of the  *)
(* contents; one that exists is reused, whatever the bytes just fetched    *)
(* are.                                                                    *)
Digest(bytes) == <<"digest", bytes>>
Named(version) == <<"version", version>>
FetchAndExtract(f, version, bytes) ==
  LET name == IF version = None THEN Digest(bytes) ELSE Named(version)
  IN  [f EXCEPT !.dirs = IF name \in DOMAIN @ THEN @ ELSE Put(@, name, bytes), !.last = name]
ExtractedDir(f) == f.dirs[f.last]

(***************************************************************************)
(* Transactions, each under the migration lock.                            *)
(***************************************************************************)
(* Apply: the last row is read, and the new one written, under the lock.   *)
Outcome(ran) ==
  IF ran.ok THEN [verdict |-> "ok", db |-> ran] ELSE [verdict |-> "refused", db |-> db]
Planned(plan) ==
  IF plan.verdict = "ok" THEN Outcome(RunAll(db, plan.stmts)) ELSE [verdict |-> plan.verdict, db |-> db]
Migrated(cfg, gate) ==
  LET old == IF ledger = None THEN NoConfig ELSE Configs[ledger]
  IN  IF ledger = cfg THEN [verdict |-> "ok", db |-> db]
      ELSE Planned(planStatements(db, old, Configs[cfg], gate))

(* applyStatements: all of them or none, and no row.                       *)
applyStatements(stmts) == LET ran == RunAll(db, stmts) IN IF ran.ok THEN ran ELSE db

(***************************************************************************)
(* The engine.                                                             *)
(***************************************************************************)
Boot(e) ==
  /\ eng[e].pc = "down" /\ e \in scenario.engines
  /\ source \in Valid
  /\ eng' = [eng EXCEPT ![e] = [Down EXCEPT !.pc = "start", !.cfg = source, !.seen = source]]
  /\ files' = IF Bundle THEN [files EXCEPT ![e] = [FetchAndExtract(@, None, source) EXCEPT !.code = source]]
              ELSE files
  /\ UNCHANGED <<faults, Database, Outside>>

(* applyMigrationsWithFallback reads e.cfg once, and Apply takes the lock. *)
StartMigration(e) ==
  /\ eng[e].pc = "start"
  /\ eng' = [eng EXCEPT ![e].pc = "apply", ![e].att = eng[e].cfg]
  /\ UNCHANGED <<files, faults, Database, Outside>>

Apply(e) ==
  /\ eng[e].pc = "apply"
  /\ \E result \in {Migrated(eng[e].att, scenario.gate)} :
        LET done == result.verdict = "ok" IN
        /\ db' = result.db
        /\ ledger' = IF done THEN eng[e].att ELSE ledger
        /\ eng' = [eng EXCEPT ![e].failed = IF done THEN None ELSE result.verdict,
                              ![e].pc = CASE done                            -> "heal"
                                          [] result.verdict = "destructive"  -> "provision"
                                          [] OTHER                           -> "fallback"]
  /\ UNCHANGED <<files, faults, provisioned, Outside>>
ApplyFails(e) ==
  /\ eng[e].pc = "apply" /\ Fault
  /\ eng' = [eng EXCEPT ![e].pc = "fallback", ![e].failed = "fault"]
  /\ UNCHANGED <<files, Database, Outside>>

(* ProvisionIdempotent asks which functions exist, then takes the lock.    *)
ProvisionRead(e) ==
  /\ eng[e].pc = "provision"
  /\ eng' = [eng EXCEPT ![e].pc = "provisioning", ![e].missing = missingStorageRPCs(db, Configs[eng[e].att])]
  /\ UNCHANGED <<files, faults, Database, Outside>>
ProvisionIdempotent(e) ==
  /\ eng[e].pc = "provisioning"
  /\ db' = applyStatements(idempotentProvisioning(Configs[eng[e].att], eng[e].missing))
  /\ provisioned' = TRUE
  /\ eng' = [eng EXCEPT ![e].pc = "fallback"]
  /\ UNCHANGED <<files, faults, ledger, Outside>>

(* The last applied configuration is served, whoever applied it; without   *)
(* one a boot ends, and a reload puts back what it replaced, unless a save *)
(* has replaced that since.                                                *)
Fallback(e) ==
  /\ eng[e].pc = "fallback"
  /\ eng' = [eng EXCEPT ![e] =
       IF ledger # None THEN [@ EXCEPT !.pc = "heal", !.cfg = ledger]
       ELSE IF @.boot THEN Down
       ELSE [@ EXCEPT !.pc = "idle", !.cfg = IF eng[e].own THEN eng[e].cfg ELSE eng[e].prev, !.drift = "drift"]]
  /\ UNCHANGED <<files, faults, Database, Outside>>
FallbackFails(e) ==
  /\ eng[e].pc = "fallback" /\ Fault
  /\ eng' = [eng EXCEPT ![e] =
       IF @.boot THEN Down
       ELSE [@ EXCEPT !.pc = "idle", !.cfg = IF eng[e].own THEN eng[e].cfg ELSE eng[e].prev, !.drift = "drift"]]
  /\ UNCHANGED <<files, Database, Outside>>

(* Harden: the listing heals one by one, each skipped when storage.objects *)
(* is busy or large; then the buckets last applied are read; then the      *)
(* rest is one transaction.                                                *)
HardenHeal(e) ==
  /\ eng[e].pc = "heal"
  /\ \E steps \in SUBSET {i \in DOMAIN healStorageList(db) : TRUE} :
        db' = RunAll(db, Gather([i \in DOMAIN healStorageList(db) |-> i],
                                LAMBDA i : If(i \in steps, <<healStorageList(db)[i]>>)))
  /\ eng' = [eng EXCEPT ![e].pc = "harden", ![e].applied = ledger]
  /\ UNCHANGED <<files, faults, ledger, provisioned, Outside>>

(* The status is set, and after a reload that was applied the function     *)
(* runtime is rebuilt from the bundle extracted last.                      *)
Reported(e) ==
  [eng[e] EXCEPT !.pc = "idle", !.drift = IF eng[e].failed = None THEN "ok" ELSE "drift", !.boot = FALSE,
                 !.att = None, !.prev = None, !.failed = None, !.missing = {}, !.applied = None]
onFunctionReload(e) ==
  IF Bundle /\ ~eng[e].boot /\ eng[e].failed = None
  THEN [files EXCEPT ![e].code = ExtractedDir(files[e])] ELSE files
Harden(e) ==
  /\ eng[e].pc = "harden"
  /\ db' = applyStatements(hardening(IF eng[e].applied = None THEN << >> ELSE Configs[eng[e].applied].storage))
  /\ eng' = [eng EXCEPT ![e] = Reported(e)]
  /\ files' = onFunctionReload(e)
  /\ UNCHANGED <<faults, ledger, provisioned, Outside>>
HardenFails(e) ==
  /\ eng[e].pc = "harden" /\ Fault
  /\ eng' = [eng EXCEPT ![e] = IF @.boot THEN Down ELSE Reported(e)]
  /\ files' = IF eng[e].boot THEN files ELSE onFunctionReload(e)
  /\ UNCHANGED <<Database, Outside>>

Crash(e) ==
  /\ Up(e) /\ Fault
  /\ eng' = [eng EXCEPT ![e] = Down]
  /\ files' = [files EXCEPT ![e].code = None]
  /\ put' = IF put.at = e THEN NoPut ELSE put
  /\ stranded' = (stranded \/ (put.at = e /\ put.pc = "write"))
  /\ UNCHANGED <<scenario, source, edits, saves, Database>>

(***************************************************************************)
(* The watcher.                                                            *)
(***************************************************************************)
(* The version at the time the watcher starts is taken as known.           *)
WatchSeed(e) ==
  /\ Serving(e) /\ eng[e].watch = "off"
  /\ eng' = [eng EXCEPT ![e].watch = "on", ![e].lastVer = source, ![e].gap = (source # eng[e].seen)]
  /\ UNCHANGED <<files, faults, Database, Outside>>
WatchHead(e) ==
  /\ eng[e].watch = "on" /\ eng[e].head = None
  /\ eng[e].lastVer # source
  /\ eng' = [eng EXCEPT ![e].head = source]
  /\ UNCHANGED <<files, faults, Database, Outside>>
(* The send waits while the last event is unread (a channel of one).       *)
WatchRead(e) ==
  /\ eng[e].head # None /\ eng[e].queue = << >>
  /\ LET read == IF Bundle THEN FetchAndExtract(files[e], eng[e].head, source) ELSE files[e]
         data == IF Bundle THEN ExtractedDir(read) ELSE source
         version == IF Bundle THEN eng[e].head ELSE source
     IN  /\ files' = [files EXCEPT ![e] = read]
         /\ eng' = [eng EXCEPT ![e].head = None, ![e].lastVer = version, ![e].queue = <<data>>]
  /\ UNCHANGED <<faults, Database, Outside>>

\* Mutant: the version is recorded before the read.
WatchReadFailsKnown(e) ==
  /\ eng[e].head # None /\ Fault
  /\ eng' = [eng EXCEPT ![e].head = None, ![e].lastVer = eng[e].head]
  /\ UNCHANGED <<files, Database, Outside>>
WatchReadFails(e) ==
  /\ eng[e].head # None /\ Fault
  /\ eng' = [eng EXCEPT ![e].head = None]
  /\ UNCHANGED <<files, Database, Outside>>

(* runWatcher takes an event.                                              *)
Reload(e) ==
  /\ eng[e].pc = "idle" /\ eng[e].queue # << >>
  /\ LET cfg == eng[e].queue[1] IN
     eng' = [eng EXCEPT ![e] =
       IF cfg \in Valid
       THEN [@ EXCEPT !.pc = "start", !.queue = << >>, !.seen = cfg, !.own = FALSE, !.prev = eng[e].cfg, !.cfg = cfg]
       ELSE [@ EXCEPT !.queue = << >>, !.seen = cfg, !.own = FALSE, !.drift = "drift"]]
  /\ UNCHANGED <<files, faults, Database, Outside>>

(***************************************************************************)
(* Writers of the source: an editor, and PUT /config.                      *)
(***************************************************************************)
Edit ==
  /\ edits < scenario.edits
  /\ \E cfg \in scenario.configs \ {source} : source' = cfg
  /\ edits' = edits + 1
  /\ UNCHANGED <<scenario, eng, files, put, saves, faults, stranded, Database>>

(* The version is read with the source, which extracts a bundle.           *)
PutRead(e, cfg) ==
  /\ put.pc = "none" /\ saves < scenario.saves
  /\ Serving(e) /\ cfg \in Valid
  /\ put' = [pc |-> "apply", at |-> e, cfg |-> cfg, ver |-> source]
  /\ saves' = saves + 1
  /\ files' = IF Bundle THEN [files EXCEPT ![e] = FetchAndExtract(@, None, source)] ELSE files
  /\ UNCHANGED <<scenario, source, eng, edits, faults, stranded, Database>>
(* The dashboard never opens the destructive gate.                         *)
PutApply ==
  /\ put.pc = "apply"
  /\ \E result \in {Migrated(put.cfg, FALSE)} :
        /\ db' = result.db
        /\ ledger' = IF result.verdict = "ok" THEN put.cfg ELSE ledger
        /\ put' = IF result.verdict = "ok" THEN [put EXCEPT !.pc = "write"] ELSE NoPut
  /\ UNCHANGED <<scenario, source, eng, files, edits, saves, faults, provisioned, stranded>>
(* A bundle cannot be written.                                             *)
PutWrite ==
  /\ put.pc = "write"
  /\ IF source = put.ver /\ ~Bundle
     THEN source' = put.cfg /\ put' = [put EXCEPT !.pc = "set"] /\ UNCHANGED stranded
     ELSE put' = NoPut /\ stranded' = TRUE /\ UNCHANGED source
  /\ UNCHANGED <<scenario, eng, files, edits, saves, faults, Database>>
PutWriteFails ==
  /\ put.pc = "write" /\ Fault
  /\ put' = NoPut /\ stranded' = TRUE
  /\ UNCHANGED <<scenario, source, eng, files, edits, saves, Database>>
PutSetConfig ==
  /\ put.pc = "set"
  /\ eng' = [eng EXCEPT ![put.at].cfg = put.cfg, ![put.at].seen = put.cfg, ![put.at].own = TRUE]
  /\ put' = NoPut
  /\ UNCHANGED <<scenario, source, files, edits, saves, faults, stranded, Database>>

Step(e) ==
  \/ Boot(e) \/ StartMigration(e) \/ Apply(e) \/ ProvisionRead(e) \/ ProvisionIdempotent(e)
  \/ Fallback(e) \/ HardenHeal(e) \/ Harden(e)
  \/ WatchSeed(e) \/ WatchHead(e) \/ WatchRead(e) \/ Reload(e)

Next ==
  \/ \E e \in Engines : Step(e)
  \/ \E e \in Engines : ApplyFails(e) \/ FallbackFails(e) \/ HardenFails(e) \/ WatchReadFails(e) \/ Crash(e)
  \/ \E e \in Engines, cfg \in scenario.configs : PutRead(e, cfg)
  \/ PutApply \/ PutWrite \/ PutSetConfig \/ PutWriteFails
  \/ Edit

Spec == Init /\ [][Next]_vars

(***************************************************************************)
(* Properties.                                                             *)
(***************************************************************************)
(* Types: whatever is served, migrated, queued, saved or extracted is a    *)
(* configuration, and an event waits in a channel of one.                  *)
Given == DOMAIN Configs \cup {None}
EngineOK(w) ==
  /\ DOMAIN w = DOMAIN Down
  /\ w.pc \in {"down", "start", "apply", "provision", "provisioning", "fallback", "heal", "harden", "idle"}
  /\ {w.cfg, w.att, w.prev, w.applied, w.seen, w.lastVer, w.head} \subseteq Given
  /\ w.drift \in {None, "ok", "drift"} /\ w.watch \in {"off", "on"}
  /\ {w.boot, w.own, w.gap} \subseteq BOOLEAN
  /\ w.queue = << >> \/ \E c \in DOMAIN Configs : w.queue = <<c>>
FilesOK(f) ==
  /\ DOMAIN f = {"dirs", "last", "code"} /\ f.code \in Given
  /\ f.last = None \/ f.last \in DOMAIN f.dirs
  /\ \A n \in DOMAIN f.dirs : f.dirs[n] \in DOMAIN Configs
PutOK ==
  \/ put = NoPut
  \/ put \in [pc : {"apply", "write", "set"}, at : Engines, cfg : Valid, ver : DOMAIN Configs]
TypeOK ==
  /\ scenario \in Scenarios /\ source \in DOMAIN Configs /\ ledger \in Given /\ saves \in Nat
  /\ DOMAIN eng = Engines /\ \A e \in Engines : EngineOK(eng[e])
  /\ DOMAIN files = Engines /\ \A e \in Engines : FilesOK(files[e])
  /\ PutOK

(* The live schema is what the declared configuration says, however many   *)
(* edits, renames and drops led to it: for every table its columns with    *)
(* their types and nullability, its indexes and guards, the functions with *)
(* their signatures, and exactly the policies declared; an instance serves *)
(* only once the policy of older releases is gone.  What remains of a      *)
(* renamed table under its old name, <bucket>_default_all and the storage  *)
(* policies of a blocked configuration are told apart.  A column's foreign *)
(* key is one that a configuration of the scenario gives that column, so   *)
(* the declared one unless an edit changes it: diffColumnChanges makes and *)
(* drops no key on a live column (KeysFollowLedger).                       *)
ColumnsOf(t) == [c \in DOMAIN t.cols |-> <<t.cols[c].type, t.cols[c].req>>]
DeclaredColumns(t) == [c \in DOMAIN t.cols |-> <<t.cols[c].type, t.cols[c].req \/ t.cols[c].pk>>]
Declaring(t, c) ==
  {k \in scenario.configs : t \in DOMAIN Configs[k].tables /\ c \in DOMAIN Configs[k].tables[t].cols}
TableIsDeclared(t, live, def) ==
  /\ ColumnsOf(live) = DeclaredColumns(def)
  /\ \A c \in DOMAIN live.cols : \E k \in Declaring(t, c) : live.cols[c].fk = Configs[k].tables[t].cols[c].fk
  /\ live.pk = PrimaryKeyColumns(def)
  /\ {<<i.cols, i.uniq>> : i \in {i \in live.idx : i.name[1] = t}} = {<<i.cols, i.uniq>> : i \in def.idx}
  /\ live.rls = def.rls
  /\ (live.trig # None) = HasGuards(def)
  /\ \A i \in DOMAIN def.pols : <<t, i>> \in DOMAIN live.pol /\ live.pol[<<t, i>>] = def.pols[i]
  /\ \A n \in DOMAIN live.pol : n[1] = t => n[2] \in DOMAIN def.pols
StorageIsDeclared(storage, pol) ==
  /\ \A b \in DOMAIN storage : \A i \in DOMAIN storage[b] :
        <<b, i>> \in DOMAIN pol /\ pol[<<b, i>>] = storage[b][i]
  /\ \A n \in DOMAIN pol :
        \/ n[2] = DefaultAll
        \/ n[1] \in DOMAIN storage /\ n[2] \in DOMAIN storage[n[1]]
        \/ n[2] = PublicSelect /\ (n[1] \notin DOMAIN storage \/ ~\E e \in Engines : Serving(e))
SchemaFollowsLedger ==
  ledger # None =>
    LET cfg == Configs[ledger] IN
    /\ DOMAIN db.tables = DOMAIN cfg.tables
    /\ \A t \in DOMAIN cfg.tables : TableIsDeclared(t, db.tables[t], cfg.tables[t])
    /\ db.rpc = {[name |-> f, sig |-> cfg.rpc[f].sig, body |-> cfg.rpc[f].body] : f \in DOMAIN cfg.rpc}
    /\ ~provisioned => StorageIsDeclared(cfg.storage, db.storage.pol)

(* A column's data survives every migration whose configuration still has  *)
(* the column, under its name or as the declared target of its rename; and *)
(* nothing is lost while destructive changes are not allowed.              *)
Data == UNION {{db.tables[t].cols[c].was : c \in DOMAIN db.tables[t].cols} : t \in DOMAIN db.tables}
Follows(t, tables) == {u \in DOMAIN tables : u = t \/ tables[u].from = t}
StillDeclared(t, c, tables) == \E u \in Follows(t, tables) :
  \E d \in DOMAIN tables[u].cols : d = c \/ tables[u].cols[d].from = c
DataSurvives ==
  [][\A t \in DOMAIN db.tables : \A c \in DOMAIN db.tables[t].cols :
       db.tables[t].cols[c].was \in Data' \/ (scenario.gate /\ ~StillDeclared(t, c, Configs[ledger'].tables))]_vars

(* Every live column has the foreign key that the configuration of the     *)
(* ledger declares for it (docs, build/schema.md: foreign keys defined in  *)
(* instancez.yaml apply as the file changes).                              *)
KeysFollowLedger ==
  ledger # None => \A t \in DOMAIN Configs[ledger].tables \cap DOMAIN db.tables :
    \A c \in DOMAIN Configs[ledger].tables[t].cols \cap DOMAIN db.tables[t].cols :
      db.tables[t].cols[c].fk = Configs[ledger].tables[t].cols[c].fk

(* Whoever is about to migrate, what it would run, and the first statement *)
(* that Postgres refuses, with the database it finds and what follows it.  *)
Attempts ==
  {[cfg |-> eng[e].att, gate |-> scenario.gate] : e \in {e \in Engines : eng[e].pc = "apply"}}
  \cup (IF put.pc = "apply" THEN {[cfg |-> put.cfg, gate |-> FALSE]} ELSE {})
PlanOf(a) ==
  IF ledger = a.cfg THEN << >>
  ELSE planStatements(db, IF ledger = None THEN NoConfig ELSE Configs[ledger], Configs[a.cfg], a.gate).stmts
Until(stmts, i) == RunAll(db, SubSeq(stmts, 1, i))
StopOf(stmts) ==
  LET i == CHOOSE i \in DOMAIN stmts : ~Until(stmts, i).ok /\ Until(stmts, i - 1).ok
  IN  [on |-> Until(stmts, i - 1), at |-> stmts[i], rest |-> SubSeq(stmts, i + 1, Len(stmts))]

(* What holds a table, a column or an index that is to go: the columns     *)
(* with a key to it, and the policies that use the column.                 *)
HoldingKeys(on, s) ==
  CASE s.do = "dropTable"  -> KeysInto(on, s.t)
    [] s.do = "dropColumn" -> References(on, s.t, s.c)
    [] s.do = "dropIndex"  -> KeysOn(on, s.i)
    [] OTHER               -> {}
HoldingPolicies(on, s) == IF s.do \in {"dropColumn", "alterType"} THEN Readers(on, s.t, s.c) ELSE {}
GoesToo(ud, rest) ==
  \E i \in DOMAIN rest : \/ rest[i].do = "dropTable" /\ rest[i].t = ud[1]
                         \/ rest[i].do = "dropColumn" /\ <<rest[i].t, rest[i].c>> = ud
MadeAgain(t, n, rest) == \E i \in DOMAIN rest : rest[i].do = "createPolicy" /\ rest[i].t = t /\ rest[i].n = n
LeftBehind(t, n) == n[1] # t

(* A plan that passed its checks runs: no statement refers to what is not  *)
(* there yet or is gone already.  Postgres stops it only at                *)
(*   - a table, column or index held by a key of a column that stays and   *)
(*     whose key the new configuration no longer declares;                 *)
(*   - a column or index held by a key of a table or column that the same  *)
(*     plan drops afterwards (RemovalsRun);                                *)
(*   - a column, to drop or to give a new type, used by a policy that the  *)
(*     plan replaces afterwards (RemovalsRun), or that still has the name  *)
(*     its table had before a rename;                                      *)
(*   - a function that such a policy calls;                                *)
(*   - a new type that its values cannot take or that its keys cannot      *)
(*     compare.                                                            *)
Explained(new, stop) ==
  LET s == stop.at IN
  /\ s.do \in {"dropTable", "dropColumn", "dropIndex", "dropRPC", "alterType"}
  /\ \A ud \in HoldingKeys(stop.on, s) :
       \/ /\ ud[1] \in DOMAIN new.tables /\ ud[2] \in DOMAIN new.tables[ud[1]].cols
          /\ new.tables[ud[1]].cols[ud[2]].fk # stop.on.tables[ud[1]].cols[ud[2]].fk
       \/ s.do # "dropTable" /\ GoesToo(ud, stop.rest)
  /\ \A n \in HoldingPolicies(stop.on, s) : LeftBehind(s.t, n) \/ MadeAgain(s.t, n, stop.rest)
  /\ s.do = "dropRPC" =>
       \A p \in Callers(stop.on, s.f) \ s.managed : p[1] # "storage" /\ LeftBehind(p[1], p[2])
Stops(a) == ~RunAll(db, PlanOf(a)).ok
AcceptedPlansRun == \A a \in Attempts : Stops(a) => Explained(Configs[a.cfg], StopOf(PlanOf(a)))

(* What an edit removes is removed (docs, build/schema.md: any changes to  *)
(* the file are applied automatically): no plan stops at a removal that is *)
(* held only by what the same plan removes or replaces after it.           *)
RemovalsRun ==
  \A a \in Attempts : Stops(a) =>
    LET stop == StopOf(PlanOf(a))
        s == stop.at
    IN  ~(/\ s.do \in {"dropColumn", "dropIndex"}
          /\ \A ud \in HoldingKeys(stop.on, s) : GoesToo(ud, stop.rest)
          /\ \A n \in HoldingPolicies(stop.on, s) : MadeAgain(s.t, n, stop.rest))

(* When every instance is up, has caught up with the source and reports    *)
(* "ok", they all serve what the source says and the database was migrated *)
(* to it, unless a save was answered that it stranded its migration, or an *)
(* edit fell between an instance's load and its watcher's first look.      *)
CaughtUp(e) ==
  /\ eng[e].pc = "idle" /\ eng[e].watch = "on" /\ eng[e].head = None /\ eng[e].queue = << >>
  /\ eng[e].lastVer = source /\ eng[e].drift = "ok" /\ eng[e].seen = source
SettledMeansApplied ==
  (put.pc = "none" /\ ~stranded /\ ~Bundle /\ \A e \in scenario.engines : CaughtUp(e))
    => ledger = source /\ \A e \in scenario.engines : eng[e].cfg = source

(* No change is skipped: at rest, what the watcher takes for known, or     *)
(* what was extracted under its name, is what the engine last took in,     *)
(* whichever calls failed on the way.                                      *)
Known(e) ==
  {eng[e].lastVer}
  \cup {files[e].dirs[n] : n \in {n \in DOMAIN files[e].dirs : Bundle /\ n = Named(eng[e].lastVer)}}
NothingIsSkipped ==
  \A e \in Engines :
    LET w == eng[e] IN
    (w.pc = "idle" /\ w.watch = "on" /\ w.head = None /\ w.queue = << >> /\ ~w.gap /\ ~w.own)
      => w.seen \in Known(e)

(* No edit is lost, neither on the way to an instance nor once all rest.   *)
NoEditIsLost == SettledMeansApplied /\ NothingIsSkipped

(* No bucket that declares policies lets everything through.               *)
BucketPoliciesEnforced ==
  ledger # None => \A b \in DOMAIN Configs[ledger].storage :
    Configs[ledger].storage[b] # << >> => defaultAll(b) \notin DOMAIN db.storage.pol
=============================================================================
