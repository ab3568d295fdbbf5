---------------------------- MODULE DeployProofs ----------------------------
(***************************************************************************)
(* Proofs about Deploy, for any configurations, engines and scenarios, and *)
(* whatever the planner makes of a configuration.                          *)
(***************************************************************************)
EXTENDS Deploy, TLAPS

(***************************************************************************)
(* The inductive invariant.                                                *)
(***************************************************************************)
(* A migration in progress that has not failed, or the last one, done.     *)
Done(e) == \/ eng[e].pc \in {"heal", "harden"} /\ eng[e].failed = None
           \/ eng[e].pc = "idle" /\ eng[e].drift = "ok"
(* The watcher has read more than the engine took, or what c names.        *)
WillRead(e, c) == eng[e].watch = "on" /\ (eng[e].queue # << >> \/ eng[e].lastVer = c)
(* A save may come after a saved configuration, which then is migrated to  *)
(* behind the watcher's back.                                              *)
Excused(e) == eng[e].own /\ scenario.saves > 1

(* Who runs, from which directory, and who saves.                          *)
RunnerOK(e) == /\ Up(e) => e \in scenario.engines /\ (Bundle => files[e].last \in DOMAIN files[e].dirs)
               /\ put.at = e => Serving(e) /\ put.pc # "none" /\ saves > 0
SaveOK(e) == eng[e].own /\ scenario.saves <= 1 => put.pc = "none" /\ saves >= scenario.saves
(* A watcher starts with nothing read; what it has read it has recorded.   *)
WatcherOK(e) ==
  LET w == eng[e] IN
  /\ w.watch = "off" => w.queue = << >> /\ w.head = None
  /\ w.queue # << >> => w.queue[1] \in Known(e)
  /\ w.watch = "on" /\ ~w.gap /\ w.queue = << >> /\ ~w.own => w.seen \in Known(e)
(* Until a migration fails the engine serves what it last took in; whoever *)
(* falls back has failed.                                                  *)
ServedOK(e) ==
  /\ eng[e].pc \in {"start", "apply"} \/ Done(e) => eng[e].cfg = eng[e].seen
  /\ eng[e].pc \in {"provision", "provisioning", "fallback"} => eng[e].failed # None
(* What is about to be migrated to was taken from the watcher, at boot, or *)
(* from a save.                                                            *)
AttemptOK(e) ==
  LET w == eng[e] IN
  ~Bundle =>
    /\ w.pc = "start" => w.boot \/ w.own \/ WillRead(e, w.seen)
    /\ w.pc = "apply" => \/ Excused(e) \/ WillRead(e, w.att)
                         \/ w.seen = w.att /\ put.at # e /\ (w.boot \/ w.own)
EngineInv(e) == RunnerOK(e) /\ SaveOK(e) /\ WatcherOK(e) /\ ServedOK(e) /\ AttemptOK(e)
(* Some engine still has to do with what the ledger says: it will migrate, *)
(* or has failed to; or it cannot be at rest unless the source says so too.*)
Saving(e) == put.at = e /\ put.pc \in {"write", "set"}
Owes(e) ==
  \/ ~Done(e)
  \/ Excused(e)
  \/ WillRead(e, ledger)
  \/ eng[e].seen = ledger /\ ~Saving(e)
  \/ Saving(e) /\ put.cfg = ledger
LedgerOwed == ~stranded /\ ~Bundle => \E e \in scenario.engines : Owes(e)

IInv == TypeOK /\ (\A e \in Engines : EngineInv(e)) /\ LedgerOwed

(***************************************************************************)
(* Types.                                                                  *)
(***************************************************************************)
USE DeployAssumption

LEMMA PutIsTyped ==
  ASSUME PutOK
  PROVE  /\ put.pc \in {"none", "apply", "write", "set"} /\ put.at \in Engines \cup {None}
         /\ put.at = None <=> put.pc = "none"
         /\ put.pc # "none" => put.cfg \in Valid /\ put.ver \in DOMAIN Configs
BY DEF PutOK, NoPut, None

(* The type of an engine, field by field.                                  *)
FieldsOK(w) ==
  /\ DOMAIN w = DOMAIN Down
  /\ w.pc \in {"down", "start", "apply", "provision", "provisioning", "fallback", "heal", "harden", "idle"}
  /\ w.cfg \in Given /\ w.att \in Given /\ w.prev \in Given /\ w.applied \in Given
  /\ w.seen \in Given /\ w.lastVer \in Given /\ w.head \in Given
  /\ w.drift \in {None, "ok", "drift"} /\ w.watch \in {"off", "on"}
  /\ w.boot \in BOOLEAN /\ w.own \in BOOLEAN /\ w.gap \in BOOLEAN
  /\ w.queue = << >> \/ \E c \in DOMAIN Configs : w.queue = <<c>>
LEMMA EngineOKIsFieldwise ==
  ASSUME NEW w
  PROVE  EngineOK(w) <=> FieldsOK(w)
<1>1. {w.boot, w.own, w.gap} \subseteq BOOLEAN <=> w.boot \in BOOLEAN /\ w.own \in BOOLEAN /\ w.gap \in BOOLEAN
  BY Zenon
<1>2. {w.cfg, w.att, w.prev, w.applied, w.seen, w.lastVer, w.head} \subseteq Given
        <=> /\ w.cfg \in Given /\ w.att \in Given /\ w.prev \in Given /\ w.applied \in Given
            /\ w.seen \in Given /\ w.lastVer \in Given /\ w.head \in Given
  BY Zenon
<1> QED BY <1>1, <1>2, Zenon DEF EngineOK, FieldsOK

(* What the watcher keeps holds after a step of its engine alone.           *)
Watching(w) == <<w.watch, w.queue, w.head, w.seen, w.lastVer, w.gap, w.own>>

LEMMA WatcherStands ==
  ASSUME NEW e \in Engines, WatcherOK(e), files'[e].dirs = files[e].dirs, scenario' = scenario,
         eng'[e] = Down \/ Watching(eng'[e]) = Watching(eng[e])
  PROVE  WatcherOK(e)'
<1>1. CASE eng'[e] = Down
  BY <1>1 DEF WatcherOK, Down
<1>2. CASE Watching(eng'[e]) = Watching(eng[e])
  <2>1. /\ eng'[e].watch = eng[e].watch /\ eng'[e].queue = eng[e].queue /\ eng'[e].head = eng[e].head
        /\ eng'[e].seen = eng[e].seen /\ eng'[e].lastVer = eng[e].lastVer
        /\ eng'[e].gap = eng[e].gap /\ eng'[e].own = eng[e].own
    BY <1>2 DEF Watching
  <2>2. Known(e)' = Known(e) BY <2>1 DEF Known, Bundle
  <2> QED BY <2>1, <2>2 DEF WatcherOK
<1> QED BY <1>1, <1>2

LEMMA FetchKeepsTypes ==
  ASSUME NEW f, FilesOK(f), NEW v, NEW c \in DOMAIN Configs
  PROVE  LET g == FetchAndExtract(f, v, c) IN
         /\ FilesOK(g) /\ g.last \in DOMAIN g.dirs
         /\ g.last = IF v = None THEN Digest(c) ELSE Named(v)
         /\ \A n \in DOMAIN f.dirs : n \in DOMAIN g.dirs /\ g.dirs[n] = f.dirs[n]
<1> DEFINE n == IF v = None THEN Digest(c) ELSE Named(v)
           g == FetchAndExtract(f, v, c)
           d == IF n \in DOMAIN f.dirs THEN f.dirs ELSE Put(f.dirs, n, c)
<1>1. DOMAIN f = {"dirs", "last", "code"} BY DEF FilesOK
<1>2. g = [f EXCEPT !.dirs = d, !.last = n] BY DEF FetchAndExtract
<1>3. g.dirs = d /\ g.last = n /\ g.code = f.code /\ DOMAIN g = {"dirs", "last", "code"}
  BY <1>1, <1>2
<1>4. /\ n \in DOMAIN d
      /\ \A m \in DOMAIN f.dirs : m \in DOMAIN d /\ d[m] = f.dirs[m]
      /\ \A m \in DOMAIN d : d[m] \in DOMAIN Configs
  <2>1. CASE n \in DOMAIN f.dirs BY <2>1 DEF FilesOK
  <2>2. CASE n \notin DOMAIN f.dirs
    <3>1. /\ DOMAIN d = DOMAIN f.dirs \cup {n}
          /\ \A m \in DOMAIN d : d[m] = IF m = n THEN c ELSE f.dirs[m]
      BY <2>2 DEF Put
    <3> QED BY <3>1, <2>2 DEF FilesOK
  <2> QED BY <2>1, <2>2
<1> QED BY <1>3, <1>4 DEF FilesOK


(***************************************************************************)
(* A step of one engine.                                                   *)
(***************************************************************************)
Acts(e) == /\ DOMAIN eng' = Engines /\ \A f \in Engines \ {e} : eng'[f] = eng[f]
           /\ DOMAIN files' = Engines /\ \A f \in Engines \ {e} : files'[f] = files[f]

LEMMA OthersKeep ==
  ASSUME NEW f, eng'[f] = eng[f], files'[f] = files[f],
         UNCHANGED <<scenario, put, saves>>, EngineInv(f)
  PROVE  EngineInv(f)'
BY SMTT(60) DEF EngineInv, RunnerOK, SaveOK, WatcherOK, ServedOK, AttemptOK, Up, Serving, Bundle, Known, Done, WillRead, Excused

LEMMA OthersOwe ==
  ASSUME NEW f, eng'[f] = eng[f], UNCHANGED <<scenario, put, ledger>>, Owes(f)
  PROVE  Owes(f)'
BY DEF Owes, Done, Excused, WillRead, Saving

LEMMA OwedStill ==
  ASSUME IInv, NEW e, Acts(e), UNCHANGED <<scenario, put, stranded, ledger>>, Owes(e) => Owes(e)'
  PROVE  LedgerOwed'
<1> SUFFICES ASSUME ~stranded, ~Bundle PROVE (\E f \in scenario.engines : Owes(f))'
  BY DEF LedgerOwed, Bundle
<1>1. PICK f \in scenario.engines : Owes(f) BY DEF IInv, LedgerOwed
<1>2. f \in Engines BY DEF IInv, TypeOK
<1>3. CASE f = e BY <1>1, <1>3
<1>4. CASE f # e
  <2>1. eng'[f] = eng[f] BY <1>2, <1>4 DEF Acts
  <2>2. Owes(f)' BY <2>1, <1>1, OthersOwe
  <2> QED BY <2>2
<1> QED BY <1>3, <1>4

LEMMA OneEngineKeeps ==
  ASSUME IInv, NEW e \in Engines, Acts(e), UNCHANGED <<scenario, source, put, saves>>,
         ledger' \in Given, EngineOK(eng'[e]), FilesOK(files'[e]), EngineInv(e)', LedgerOwed'
  PROVE  IInv'
<1>1. TypeOK'
  <2>1. \A f \in Engines : EngineOK(eng'[f]) /\ FilesOK(files'[f]) BY DEF Acts, IInv, TypeOK
  <2>2. PutOK' BY DEF IInv, TypeOK, PutOK
  <2> QED BY <2>1, <2>2 DEF Acts, IInv, TypeOK
<1>2. ASSUME NEW f \in Engines PROVE EngineInv(f)'
  <2>1. CASE f = e BY <2>1
  <2>2. CASE f # e
    <3>1. eng'[f] = eng[f] /\ files'[f] = files[f] BY <2>2 DEF Acts
    <3> QED BY <3>1, OthersKeep DEF IInv
  <2> QED BY <2>1, <2>2
<1> QED BY <1>1, <1>2 DEF IInv

(* What the invariant says of one engine, in its fields.                   *)
LEMMA EngineFacts ==
  ASSUME IInv, NEW e \in Engines
  PROVE  /\ EngineOK(eng[e]) /\ FilesOK(files[e]) /\ EngineInv(e)
         /\ DOMAIN eng = Engines /\ DOMAIN files = Engines
         /\ scenario \in Scenarios /\ source \in DOMAIN Configs /\ ledger \in Given
BY DEF IInv, TypeOK

(***************************************************************************)
(* Boot and migration.                                                     *)
(***************************************************************************)
LEMMA BootKeeps ==
  ASSUME IInv, NEW e \in Engines, Boot(e)
  PROVE  IInv'
<1>1. EngineOK(eng[e]) /\ FilesOK(files[e]) /\ EngineInv(e) /\ DOMAIN eng = Engines /\ DOMAIN files = Engines
  BY EngineFacts
<1>2. /\ Acts(e) /\ eng'[e] = [Down EXCEPT !.pc = "start", !.cfg = source, !.seen = source]
      /\ UNCHANGED <<scenario, source, put, saves, stranded, ledger>>
  BY <1>1 DEF Boot, Acts, Outside, Database
<1>3. EngineOK(eng'[e])
  BY <1>2, EngineFacts DEF EngineOK, Down, Given
<1>4. FilesOK(files'[e]) /\ (Bundle => files'[e].last \in DOMAIN files'[e].dirs)
  <2> DEFINE g == FetchAndExtract(files[e], None, source)
  <2>1. FilesOK(g) /\ g.last \in DOMAIN g.dirs BY <1>1, EngineFacts, FetchKeepsTypes
  <2>2. Bundle => files'[e] = [g EXCEPT !.code = source] BY <1>1 DEF Boot
  <2>3. ~Bundle => files' = files BY DEF Boot
  <2> HIDE DEF g
  <2> QED BY <1>1, <2>1, <2>2, <2>3, EngineFacts DEF FilesOK, Given
<1>5. EngineInv(e)'
  <2>1. RunnerOK(e)' BY <1>1, <1>2, <1>4 DEF EngineInv, RunnerOK, Boot, Serving, Up, Down, Bundle
  <2>2. SaveOK(e)' BY <1>2 DEF SaveOK, Down
  <2>3. WatcherOK(e)' BY <1>2 DEF WatcherOK, Down
  <2>4. ServedOK(e)' BY <1>2 DEF ServedOK, Done, Down
  <2>5. AttemptOK(e)' BY <1>2 DEF AttemptOK, Down
  <2> QED BY <2>1, <2>2, <2>3, <2>4, <2>5 DEF EngineInv
<1>6. Owes(e)' BY <1>2 DEF Owes, Done, Down
<1> QED BY <1>2, <1>3, <1>4, <1>5, <1>6, OwedStill, OneEngineKeeps, EngineFacts

LEMMA StartMigrationKeeps ==
  ASSUME IInv, NEW e \in Engines, StartMigration(e)
  PROVE  IInv'
<1>1. EngineOK(eng[e]) /\ FilesOK(files[e]) /\ EngineInv(e) /\ DOMAIN eng = Engines /\ DOMAIN files = Engines
  BY EngineFacts
<1>2. /\ Acts(e) /\ eng'[e] = [eng[e] EXCEPT !.pc = "apply", !.att = eng[e].cfg] /\ files' = files
      /\ UNCHANGED <<scenario, source, put, saves, stranded, ledger>>
  BY <1>1 DEF StartMigration, Acts, Outside, Database
<1>3. EngineOK(eng'[e])
  BY <1>1, <1>2 DEF EngineOK, Down
<1>5. EngineInv(e)'
  <2>1. RunnerOK(e)' BY <1>1, <1>2 DEF EngineInv, RunnerOK, StartMigration, Serving, Up, EngineOK, Down, Bundle
  <2>2. SaveOK(e)' BY <1>1, <1>2 DEF EngineInv, SaveOK, EngineOK, Down
  <2>3. WatcherOK(e)'
    <3>1. eng'[e] = Down \/ Watching(eng'[e]) = Watching(eng[e]) BY <1>1, <1>2 DEF EngineOK, Down, Watching
    <3> QED BY <1>1, <1>2, <3>1, WatcherStands DEF EngineInv
  <2>4. ServedOK(e)' BY <1>1, <1>2 DEF EngineInv, ServedOK, Done, EngineOK, Down, StartMigration
  <2>5. AttemptOK(e)'
    <3>1. eng[e].boot \/ eng[e].own => put.at # e \/ Excused(e)
      BY <1>1 DEF EngineInv, RunnerOK, SaveOK, Serving, Excused, IInv, TypeOK
    <3>2. Bundle' = Bundle /\ (Excused(e) => Excused(e)') BY <1>1, <1>2 DEF Excused, Bundle, EngineOK, Down
    <3>3. eng[e].cfg = eng[e].seen BY <1>1 DEF EngineInv, ServedOK, StartMigration
    <3> QED BY <1>1, <1>2, <3>1, <3>2, <3>3
        DEF EngineInv, AttemptOK, WillRead, EngineOK, Down, StartMigration
  <2> QED BY <2>1, <2>2, <2>3, <2>4, <2>5 DEF EngineInv
<1>6. Owes(e)' BY <1>1, <1>2 DEF Owes, Done, Down, EngineOK
<1> QED BY <1>1, <1>2, <1>3, <1>5, <1>6, OwedStill, OneEngineKeeps, EngineFacts

(* A migration that is done leaves its engine owing the ledger.            *)
LEMMA ApplyKeeps ==
  ASSUME IInv, NEW e \in Engines, Apply(e)
  PROVE  IInv'
<1>1. EngineOK(eng[e]) /\ FilesOK(files[e]) /\ EngineInv(e) /\ DOMAIN eng = Engines /\ DOMAIN files = Engines
  BY EngineFacts
<1> DEFINE result == Migrated(eng[e].att, scenario.gate)
           done == result.verdict = "ok"
<1>2. /\ Acts(e) /\ files' = files
      /\ eng'[e] = [eng[e] EXCEPT !.failed = IF done THEN None ELSE result.verdict,
                                  !.pc = CASE done                            -> "heal"
                                          [] result.verdict = "destructive"  -> "provision"
                                          [] OTHER                           -> "fallback"]
      /\ ledger' = IF done THEN eng[e].att ELSE ledger
      /\ UNCHANGED <<scenario, source, put, saves, stranded>>
  BY <1>1 DEF Apply, Acts, Outside
<1>3. result.verdict # None
  <2>1. \A plan : Planned(plan).verdict \in {"ok", "refused", plan.verdict} /\ plan.verdict # None
                    => Planned(plan).verdict # None
    BY DEF None
  <2>2. \A plan : Planned(plan).verdict \in {"ok", "refused", plan.verdict}
    BY DEF Planned, Outcome
  <2>3. \A live, old, new, gate : planStatements(live, old, new, gate).verdict # None
    BY DEF planStatements, planOfDiff, None
  <2> QED BY <2>1, <2>2, <2>3 DEF Migrated, None
<1> HIDE DEF result
<1>4. EngineOK(eng'[e]) /\ ledger' \in Given
  BY <1>1, <1>2, EngineFacts DEF EngineOK, Down, Given
<1>5. EngineInv(e)'
  <2>1. RunnerOK(e)' BY <1>1, <1>2 DEF EngineInv, RunnerOK, Apply, Serving, Up, EngineOK, Down, Bundle
  <2>2. SaveOK(e)' BY <1>1, <1>2 DEF EngineInv, SaveOK, EngineOK, Down
  <2>3. WatcherOK(e)'
    <3>1. eng'[e] = Down \/ Watching(eng'[e]) = Watching(eng[e]) BY <1>1, <1>2 DEF EngineOK, Down, Watching
    <3> QED BY <1>1, <1>2, <3>1, WatcherStands DEF EngineInv
  <2>4. ServedOK(e)' BY <1>1, <1>2, <1>3 DEF EngineInv, ServedOK, Done, EngineOK, Down, Apply
  <2>5. AttemptOK(e)' BY <1>1, <1>2 DEF AttemptOK, EngineOK, Down
  <2> QED BY <2>1, <2>2, <2>3, <2>4, <2>5 DEF EngineInv
<1>6. LedgerOwed'
  <2>1. CASE done
    <3>1. SUFFICES ASSUME ~Bundle PROVE Owes(e)'
      BY <1>1, <1>2 DEF LedgerOwed, EngineInv, RunnerOK, Up, Apply, Bundle
    <3>2. \/ Excused(e) \/ WillRead(e, eng[e].att)
          \/ eng[e].seen = eng[e].att /\ put.at # e
      BY <1>1, <3>1 DEF EngineInv, AttemptOK, Apply
    <3> QED BY <1>1, <1>2, <2>1, <3>2 DEF Owes, Excused, WillRead, Saving, EngineOK, Down
  <2>2. CASE ~done
    <3>1. Owes(e)' BY <1>1, <1>2, <1>3, <2>2 DEF Owes, Done, EngineOK, Down
    <3> QED BY <1>2, <2>2, <3>1, OwedStill
  <2> QED BY <2>1, <2>2
<1> QED BY <1>1, <1>2, <1>4, <1>5, <1>6, OneEngineKeeps, EngineFacts

LEMMA ApplyFailsKeeps ==
  ASSUME IInv, NEW e \in Engines, ApplyFails(e)
  PROVE  IInv'
<1>1. EngineOK(eng[e]) /\ FilesOK(files[e]) /\ EngineInv(e) /\ DOMAIN eng = Engines /\ DOMAIN files = Engines
  BY EngineFacts
<1>2. /\ Acts(e) /\ eng'[e] = [eng[e] EXCEPT !.pc = "fallback", !.failed = "fault"]
      /\ files' = files
      /\ UNCHANGED <<scenario, source, put, saves, stranded, ledger>>
  BY <1>1 DEF ApplyFails, Acts, Outside, Database
<1>3. EngineOK(eng'[e])
  BY <1>1, <1>2, EngineFacts DEF EngineOK, Down, Given, ApplyFails
<1>4. EngineInv(e)'
  <2>1. RunnerOK(e)' BY <1>1, <1>2 DEF EngineInv, RunnerOK, ApplyFails, Serving, Up, EngineOK, Down, Bundle
  <2>2. SaveOK(e)' BY <1>1, <1>2 DEF EngineInv, SaveOK, EngineOK, Down
  <2>3. WatcherOK(e)'
    <3>1. eng'[e] = Down \/ Watching(eng'[e]) = Watching(eng[e]) BY <1>1, <1>2 DEF EngineOK, Down, Watching
    <3> QED BY <1>1, <1>2, <3>1, WatcherStands DEF EngineInv
  <2>4. ServedOK(e)' BY <1>1, <1>2 DEF EngineInv, ServedOK, Done, EngineOK, Down, ApplyFails, None
  <2>5. AttemptOK(e)' BY <1>1, <1>2 DEF EngineInv, AttemptOK, Excused, Bundle, WillRead, EngineOK, Down, ApplyFails
  <2> QED BY <2>1, <2>2, <2>3, <2>4, <2>5 DEF EngineInv
<1>5. Owes(e) => Owes(e)'
  BY <1>1, <1>2 DEF Owes, Done, Excused, WillRead, Saving, EngineOK, Down, EngineInv, ServedOK, ApplyFails
<1> QED BY <1>1, <1>2, <1>3, <1>4, <1>5, OwedStill, OneEngineKeeps, EngineFacts

LEMMA ProvisionReadKeeps ==
  ASSUME IInv, NEW e \in Engines, ProvisionRead(e)
  PROVE  IInv'
<1>1. EngineOK(eng[e]) /\ FilesOK(files[e]) /\ EngineInv(e) /\ DOMAIN eng = Engines /\ DOMAIN files = Engines
  BY EngineFacts
<1>2. /\ Acts(e) /\ eng'[e] = [eng[e] EXCEPT !.pc = "provisioning", !.missing = missingStorageRPCs(db, Configs[eng[e].att])]
      /\ files' = files
      /\ UNCHANGED <<scenario, source, put, saves, stranded, ledger>>
  BY <1>1 DEF ProvisionRead, Acts, Outside, Database
<1>3. EngineOK(eng'[e])
  BY <1>1, <1>2, EngineFacts DEF EngineOK, Down, Given, ProvisionRead
<1>4. EngineInv(e)'
  <2>1. RunnerOK(e)' BY <1>1, <1>2 DEF EngineInv, RunnerOK, ProvisionRead, Serving, Up, EngineOK, Down, Bundle
  <2>2. SaveOK(e)' BY <1>1, <1>2 DEF EngineInv, SaveOK, EngineOK, Down
  <2>3. WatcherOK(e)'
    <3>1. eng'[e] = Down \/ Watching(eng'[e]) = Watching(eng[e]) BY <1>1, <1>2 DEF EngineOK, Down, Watching
    <3> QED BY <1>1, <1>2, <3>1, WatcherStands DEF EngineInv
  <2>4. ServedOK(e)' BY <1>1, <1>2 DEF EngineInv, ServedOK, Done, EngineOK, Down, ProvisionRead
  <2>5. AttemptOK(e)' BY <1>1, <1>2 DEF EngineInv, AttemptOK, Excused, Bundle, WillRead, EngineOK, Down, ProvisionRead
  <2> QED BY <2>1, <2>2, <2>3, <2>4, <2>5 DEF EngineInv
<1>5. Owes(e) => Owes(e)'
  BY <1>1, <1>2 DEF Owes, Done, Excused, WillRead, Saving, EngineOK, Down, EngineInv, ServedOK, ProvisionRead
<1> QED BY <1>1, <1>2, <1>3, <1>4, <1>5, OwedStill, OneEngineKeeps, EngineFacts

LEMMA ProvisionIdempotentKeeps ==
  ASSUME IInv, NEW e \in Engines, ProvisionIdempotent(e)
  PROVE  IInv'
<1>1. EngineOK(eng[e]) /\ FilesOK(files[e]) /\ EngineInv(e) /\ DOMAIN eng = Engines /\ DOMAIN files = Engines
  BY EngineFacts
<1>2. /\ Acts(e) /\ eng'[e] = [eng[e] EXCEPT !.pc = "fallback"]
      /\ files' = files
      /\ UNCHANGED <<scenario, source, put, saves, stranded, ledger>>
  BY <1>1 DEF ProvisionIdempotent, Acts, Outside, Database
<1>3. EngineOK(eng'[e])
  BY <1>1, <1>2, EngineFacts DEF EngineOK, Down, Given, ProvisionIdempotent
<1>4. EngineInv(e)'
  <2>1. RunnerOK(e)' BY <1>1, <1>2 DEF EngineInv, RunnerOK, ProvisionIdempotent, Serving, Up, EngineOK, Down, Bundle
  <2>2. SaveOK(e)' BY <1>1, <1>2 DEF EngineInv, SaveOK, EngineOK, Down
  <2>3. WatcherOK(e)'
    <3>1. eng'[e] = Down \/ Watching(eng'[e]) = Watching(eng[e]) BY <1>1, <1>2 DEF EngineOK, Down, Watching
    <3> QED BY <1>1, <1>2, <3>1, WatcherStands DEF EngineInv
  <2>4. ServedOK(e)' BY <1>1, <1>2 DEF EngineInv, ServedOK, Done, EngineOK, Down, ProvisionIdempotent
  <2>5. AttemptOK(e)' BY <1>1, <1>2 DEF EngineInv, AttemptOK, Excused, Bundle, WillRead, EngineOK, Down, ProvisionIdempotent
  <2> QED BY <2>1, <2>2, <2>3, <2>4, <2>5 DEF EngineInv
<1>5. Owes(e) => Owes(e)'
  BY <1>1, <1>2 DEF Owes, Done, Excused, WillRead, Saving, EngineOK, Down, EngineInv, ServedOK, ProvisionIdempotent
<1> QED BY <1>1, <1>2, <1>3, <1>4, <1>5, OwedStill, OneEngineKeeps, EngineFacts

(***************************************************************************)
(* Fallback and hardening.                                                 *)
(***************************************************************************)
LEMMA FallbackKeeps ==
  ASSUME IInv, NEW e \in Engines, Fallback(e)
  PROVE  IInv'
<1>1. EngineOK(eng[e]) /\ FilesOK(files[e]) /\ EngineInv(e) /\ DOMAIN eng = Engines /\ DOMAIN files = Engines
  BY EngineFacts
<1>2. /\ Acts(e) /\ eng'[e] = IF ledger # None THEN [eng[e] EXCEPT !.pc = "heal", !.cfg = ledger]
                 ELSE IF eng[e].boot THEN Down
                 ELSE [eng[e] EXCEPT !.pc = "idle", !.cfg = IF eng[e].own THEN eng[e].cfg ELSE eng[e].prev, !.drift = "drift"]
      /\ files' = files
      /\ UNCHANGED <<scenario, source, put, saves, stranded, ledger>>
  BY <1>1 DEF Fallback, Acts, Outside, Database
<1>3. EngineOK(eng'[e])
  <2>1. CASE ledger # None BY <1>1, <1>2, <2>1, EngineFacts DEF EngineOK, Down, Given
  <2>2. CASE eng[e].boot /\ ledger = None BY <1>2, <2>2 DEF EngineOK, Down, Given
  <2>3. CASE ~eng[e].boot /\ ledger = None
    <3> DEFINE c == IF eng[e].own THEN eng[e].cfg ELSE eng[e].prev
    <3>1. c \in Given BY <1>1 DEF EngineOK
    <3>2. eng'[e] = [eng[e] EXCEPT !.pc = "idle", !.cfg = c, !.drift = "drift"] BY <1>2, <2>3
    <3> HIDE DEF c
    <3> QED BY <1>1, <3>1, <3>2 DEF EngineOK, Down
  <2> QED BY <2>1, <2>2, <2>3
<1>4. EngineInv(e)'
  <2>1. RunnerOK(e)' BY <1>1, <1>2 DEF EngineInv, RunnerOK, Fallback, Serving, Up, EngineOK, Down, Bundle
  <2>2. SaveOK(e)' BY <1>1, <1>2 DEF EngineInv, SaveOK, EngineOK, Down
  <2>3. WatcherOK(e)'
    <3>1. eng'[e] = Down \/ Watching(eng'[e]) = Watching(eng[e])
      <4>1. CASE ledger # None
        <5>1. eng'[e] = [eng[e] EXCEPT !.pc = "heal", !.cfg = ledger] BY <1>2, <4>1
        <5> QED BY <1>1, <5>1 DEF EngineOK, Down, Watching
      <4>2. CASE ledger = None /\ eng[e].boot BY <1>2, <4>2
      <4>3. CASE ledger = None /\ ~eng[e].boot
        <5> DEFINE c == IF eng[e].own THEN eng[e].cfg ELSE eng[e].prev
        <5>1. eng'[e] = [eng[e] EXCEPT !.pc = "idle", !.cfg = c, !.drift = "drift"] BY <1>2, <4>3
        <5> HIDE DEF c
        <5> QED BY <1>1, <5>1 DEF EngineOK, Down, Watching
      <4> QED BY <4>1, <4>2, <4>3
    <3> QED BY <1>1, <1>2, <3>1, WatcherStands DEF EngineInv
  <2>4. ServedOK(e)' BY <1>1, <1>2 DEF EngineInv, ServedOK, Done, EngineOK, Down, Fallback
  <2>5. AttemptOK(e)' BY <1>1, <1>2 DEF EngineInv, AttemptOK, Excused, Bundle, WillRead, EngineOK, Down, Fallback
  <2> QED BY <2>1, <2>2, <2>3, <2>4, <2>5 DEF EngineInv
<1>5. Owes(e) => Owes(e)'
  BY <1>1, <1>2 DEF Owes, Done, Excused, WillRead, Saving, EngineOK, Down, EngineInv, ServedOK, Fallback
<1> QED BY <1>1, <1>2, <1>3, <1>4, <1>5, OwedStill, OneEngineKeeps, EngineFacts

LEMMA FallbackFailsKeeps ==
  ASSUME IInv, NEW e \in Engines, FallbackFails(e)
  PROVE  IInv'
<1>1. EngineOK(eng[e]) /\ FilesOK(files[e]) /\ EngineInv(e) /\ DOMAIN eng = Engines /\ DOMAIN files = Engines
  BY EngineFacts
<1>2. /\ Acts(e) /\ eng'[e] = IF eng[e].boot THEN Down
                 ELSE [eng[e] EXCEPT !.pc = "idle", !.cfg = IF eng[e].own THEN eng[e].cfg ELSE eng[e].prev, !.drift = "drift"]
      /\ files' = files
      /\ UNCHANGED <<scenario, source, put, saves, stranded, ledger>>
  BY <1>1 DEF FallbackFails, Acts, Outside, Database
<1>3. EngineOK(eng'[e])
  <2>2. CASE eng[e].boot BY <1>2, <2>2 DEF EngineOK, Down, Given
  <2>3. CASE ~eng[e].boot
    <3> DEFINE c == IF eng[e].own THEN eng[e].cfg ELSE eng[e].prev
    <3>1. c \in Given BY <1>1 DEF EngineOK
    <3>2. eng'[e] = [eng[e] EXCEPT !.pc = "idle", !.cfg = c, !.drift = "drift"] BY <1>2, <2>3
    <3> HIDE DEF c
    <3> QED BY <1>1, <3>1, <3>2 DEF EngineOK, Down
  <2> QED BY <2>2, <2>3
<1>4. EngineInv(e)'
  <2>1. RunnerOK(e)' BY <1>1, <1>2 DEF EngineInv, RunnerOK, FallbackFails, Serving, Up, EngineOK, Down, Bundle
  <2>2. SaveOK(e)' BY <1>1, <1>2 DEF EngineInv, SaveOK, EngineOK, Down
  <2>3. WatcherOK(e)'
    <3>1. eng'[e] = Down \/ Watching(eng'[e]) = Watching(eng[e])
      <4>1. CASE eng[e].boot BY <1>2, <4>1
      <4>2. CASE ~eng[e].boot
        <5> DEFINE c == IF eng[e].own THEN eng[e].cfg ELSE eng[e].prev
        <5>1. eng'[e] = [eng[e] EXCEPT !.pc = "idle", !.cfg = c, !.drift = "drift"] BY <1>2, <4>2
        <5> HIDE DEF c
        <5> QED BY <1>1, <5>1 DEF EngineOK, Down, Watching
      <4> QED BY <4>1, <4>2
    <3> QED BY <1>1, <1>2, <3>1, WatcherStands DEF EngineInv
  <2>4. ServedOK(e)' BY <1>1, <1>2 DEF EngineInv, ServedOK, Done, EngineOK, Down, FallbackFails
  <2>5. AttemptOK(e)' BY <1>1, <1>2 DEF EngineInv, AttemptOK, Excused, Bundle, WillRead, EngineOK, Down, FallbackFails
  <2> QED BY <2>1, <2>2, <2>3, <2>4, <2>5 DEF EngineInv
<1>5. Owes(e) => Owes(e)'
  BY <1>1, <1>2 DEF Owes, Done, Excused, WillRead, Saving, EngineOK, Down, EngineInv, ServedOK, FallbackFails
<1> QED BY <1>1, <1>2, <1>3, <1>4, <1>5, OwedStill, OneEngineKeeps, EngineFacts

LEMMA HardenHealKeeps ==
  ASSUME IInv, NEW e \in Engines, HardenHeal(e)
  PROVE  IInv'
<1>1. EngineOK(eng[e]) /\ FilesOK(files[e]) /\ EngineInv(e) /\ DOMAIN eng = Engines /\ DOMAIN files = Engines
  BY EngineFacts
<1>2. /\ Acts(e) /\ eng'[e] = [eng[e] EXCEPT !.pc = "harden", !.applied = ledger]
      /\ files' = files
      /\ UNCHANGED <<scenario, source, put, saves, stranded, ledger>>
  BY <1>1 DEF HardenHeal, Acts, Outside, Database
<1>3. EngineOK(eng'[e])
  BY <1>1, <1>2, EngineFacts DEF EngineOK, Down, Given, HardenHeal
<1>4. EngineInv(e)'
  <2>1. RunnerOK(e)' BY <1>1, <1>2 DEF EngineInv, RunnerOK, HardenHeal, Serving, Up, EngineOK, Down, Bundle
  <2>2. SaveOK(e)' BY <1>1, <1>2 DEF EngineInv, SaveOK, EngineOK, Down
  <2>3. WatcherOK(e)'
    <3>1. eng'[e] = Down \/ Watching(eng'[e]) = Watching(eng[e]) BY <1>1, <1>2 DEF EngineOK, Down, Watching
    <3> QED BY <1>1, <1>2, <3>1, WatcherStands DEF EngineInv
  <2>4. ServedOK(e)' BY <1>1, <1>2 DEF EngineInv, ServedOK, Done, EngineOK, Down, HardenHeal
  <2>5. AttemptOK(e)' BY <1>1, <1>2 DEF EngineInv, AttemptOK, Excused, Bundle, WillRead, EngineOK, Down, HardenHeal
  <2> QED BY <2>1, <2>2, <2>3, <2>4, <2>5 DEF EngineInv
<1>5. Owes(e) => Owes(e)'
  BY <1>1, <1>2 DEF Owes, Done, Excused, WillRead, Saving, EngineOK, Down, EngineInv, ServedOK, HardenHeal
<1> QED BY <1>1, <1>2, <1>3, <1>4, <1>5, OwedStill, OneEngineKeeps, EngineFacts

(* The runtime is rebuilt from what the disk holds.                        *)
LEMMA ReloadKeepsFiles ==
  ASSUME NEW e \in Engines, DOMAIN files = Engines, FilesOK(files[e]),
         Bundle => files[e].last \in DOMAIN files[e].dirs
  PROVE  LET fs == onFunctionReload(e) IN
         /\ DOMAIN fs = Engines /\ \A f \in Engines \ {e} : fs[f] = files[f]
         /\ fs[e].dirs = files[e].dirs /\ fs[e].last = files[e].last /\ FilesOK(fs[e])
<1> DEFINE fs == onFunctionReload(e)
<1>1. CASE Bundle /\ ~eng[e].boot /\ eng[e].failed = None
  <2> DEFINE c == ExtractedDir(files[e])
  <2>1. c \in DOMAIN Configs BY <1>1 DEF ExtractedDir, FilesOK
  <2>2. fs = [files EXCEPT ![e] = [files[e] EXCEPT !.code = c]] BY <1>1 DEF onFunctionReload
  <2> HIDE DEF c
  <2>3. /\ DOMAIN fs = Engines /\ \A f \in Engines \ {e} : fs[f] = files[f]
        /\ fs[e] = [files[e] EXCEPT !.code = c]
    BY <2>2
  <2>4. /\ DOMAIN fs[e] = {"dirs", "last", "code"} /\ fs[e].code = c
        /\ fs[e].dirs = files[e].dirs /\ fs[e].last = files[e].last
    BY <2>3 DEF FilesOK
  <2> QED BY <2>1, <2>3, <2>4 DEF FilesOK, Given
<1>2. CASE ~(Bundle /\ ~eng[e].boot /\ eng[e].failed = None) BY <1>2 DEF onFunctionReload
<1> QED BY <1>1, <1>2

LEMMA DownIsTyped == EngineOK(Down)
BY DEF EngineOK, Down, Given

LEMMA ReportIsTyped ==
  ASSUME NEW e, EngineOK(eng[e])
  PROVE  EngineOK(Reported(e))
<1> DEFINE r == Reported(e)
           d == IF eng[e].failed = None THEN "ok" ELSE "drift"
<1>1. d \in {None, "ok", "drift"} OBVIOUS
<1>2. r = [eng[e] EXCEPT !.pc = "idle", !.drift = d, !.boot = FALSE, !.att = None, !.prev = None,
                         !.failed = None, !.missing = {}, !.applied = None]
  BY DEF Reported
<1> HIDE DEF d
<1>3. /\ DOMAIN r = DOMAIN eng[e] /\ r.pc = "idle" /\ r.drift = d /\ r.boot = FALSE
      /\ r.att = None /\ r.prev = None /\ r.applied = None
      /\ r.cfg = eng[e].cfg /\ r.seen = eng[e].seen /\ r.lastVer = eng[e].lastVer /\ r.head = eng[e].head
      /\ r.watch = eng[e].watch /\ r.own = eng[e].own /\ r.gap = eng[e].gap /\ r.queue = eng[e].queue
  <2>1. PICK w : w = eng[e] OBVIOUS
  <2>2. DOMAIN w = DOMAIN Down BY <2>1 DEF EngineOK
  <2>3. r = [w EXCEPT !.pc = "idle", !.drift = d, !.boot = FALSE, !.att = None, !.prev = None,
                      !.failed = None, !.missing = {}, !.applied = None]
    BY <1>2, <2>1
  <2> HIDE DEF r
  <2> QED BY <2>1, <2>2, <2>3 DEF Down
<1> HIDE DEF r
<1>4. FieldsOK(eng[e]) BY EngineOKIsFieldwise
<1>5. FieldsOK(r) BY <1>1, <1>3, <1>4 DEF FieldsOK, Given
<1> QED BY <1>5, EngineOKIsFieldwise DEF r

LEMMA ReportKeepsWatch ==
  ASSUME NEW e \in Engines, EngineOK(eng[e])
  PROVE  Watching(Reported(e)) = Watching(eng[e])
<1> DEFINE d == IF eng[e].failed = None THEN "ok" ELSE "drift"
<1>1. PICK w : w = eng[e] OBVIOUS
<1>2. DOMAIN w = DOMAIN Down BY <1>1 DEF EngineOK
<1>3. Reported(e) = [w EXCEPT !.pc = "idle", !.drift = d, !.boot = FALSE, !.att = None, !.prev = None,
                              !.failed = None, !.missing = {}, !.applied = None]
  BY <1>1 DEF Reported
<1> HIDE DEF d
<1> QED BY <1>1, <1>2, <1>3 DEF Down, Watching

LEMMA HardenKeeps ==
  ASSUME IInv, NEW e \in Engines, Harden(e)
  PROVE  IInv'
<1>1. EngineOK(eng[e]) /\ FilesOK(files[e]) /\ EngineInv(e) /\ DOMAIN eng = Engines /\ DOMAIN files = Engines
  BY EngineFacts
<1>2. /\ Acts(e) /\ eng'[e] = Reported(e)
      /\ files'[e].dirs = files[e].dirs /\ files'[e].last = files[e].last /\ FilesOK(files'[e])
      /\ UNCHANGED <<scenario, source, put, saves, stranded, ledger>>
  <2>1. Bundle => files[e].last \in DOMAIN files[e].dirs
    BY <1>1 DEF EngineInv, RunnerOK, Up, Harden
  <2> QED BY <1>1, <2>1, ReloadKeepsFiles DEF Harden, Acts, Outside, Database
<1>3. EngineOK(eng'[e])
  BY <1>1, <1>2, ReportIsTyped, DownIsTyped
<1>4. EngineInv(e)'
  <2>1. RunnerOK(e)' BY <1>1, <1>2 DEF EngineInv, RunnerOK, Harden, Reported, Serving, Up, EngineOK, Down, Bundle
  <2>2. SaveOK(e)' BY <1>1, <1>2 DEF EngineInv, SaveOK, EngineOK, Down, Reported
  <2>3. WatcherOK(e)'
    <3>1. eng'[e] = Down \/ Watching(eng'[e]) = Watching(eng[e])
      BY <1>1, <1>2, ReportKeepsWatch
    <3> QED BY <1>1, <1>2, <3>1, WatcherStands DEF EngineInv
  <2>4. ServedOK(e)' BY <1>1, <1>2 DEF EngineInv, ServedOK, Done, EngineOK, Down, Harden, Reported
  <2>5. AttemptOK(e)' BY <1>1, <1>2 DEF AttemptOK, EngineOK, Down, Reported
  <2> QED BY <2>1, <2>2, <2>3, <2>4, <2>5 DEF EngineInv
<1>5. Owes(e) => Owes(e)'
  BY <1>1, <1>2 DEF Owes, Done, Excused, WillRead, Saving, EngineOK, Down, Harden, Reported
<1> QED BY <1>1, <1>2, <1>3, <1>4, <1>5, OwedStill, OneEngineKeeps, EngineFacts

LEMMA HardenFailsKeeps ==
  ASSUME IInv, NEW e \in Engines, HardenFails(e)
  PROVE  IInv'
<1>1. EngineOK(eng[e]) /\ FilesOK(files[e]) /\ EngineInv(e) /\ DOMAIN eng = Engines /\ DOMAIN files = Engines
  BY EngineFacts
<1>2. /\ Acts(e) /\ eng'[e] = IF eng[e].boot THEN Down ELSE Reported(e)
      /\ files'[e].dirs = files[e].dirs /\ files'[e].last = files[e].last /\ FilesOK(files'[e])
      /\ UNCHANGED <<scenario, source, put, saves, stranded, ledger>>
  <2>1. Bundle => files[e].last \in DOMAIN files[e].dirs
    BY <1>1 DEF EngineInv, RunnerOK, Up, HardenFails
  <2> QED BY <1>1, <2>1, ReloadKeepsFiles DEF HardenFails, Acts, Outside, Database
<1>3. EngineOK(eng'[e])
  BY <1>1, <1>2, ReportIsTyped, DownIsTyped
<1>4. EngineInv(e)'
  <2>1. RunnerOK(e)' BY <1>1, <1>2 DEF EngineInv, RunnerOK, HardenFails, Reported, Serving, Up, EngineOK, Down, Bundle
  <2>2. SaveOK(e)' BY <1>1, <1>2 DEF EngineInv, SaveOK, EngineOK, Down, Reported
  <2>3. WatcherOK(e)'
    <3>1. eng'[e] = Down \/ Watching(eng'[e]) = Watching(eng[e])
      BY <1>1, <1>2, ReportKeepsWatch
    <3> QED BY <1>1, <1>2, <3>1, WatcherStands DEF EngineInv
  <2>4. ServedOK(e)' BY <1>1, <1>2 DEF EngineInv, ServedOK, Done, EngineOK, Down, HardenFails, Reported
  <2>5. AttemptOK(e)' BY <1>1, <1>2 DEF AttemptOK, EngineOK, Down, Reported
  <2> QED BY <2>1, <2>2, <2>3, <2>4, <2>5 DEF EngineInv
<1>5. Owes(e) => Owes(e)'
  BY <1>1, <1>2 DEF Owes, Done, Excused, WillRead, Saving, EngineOK, Down, HardenFails, Reported
<1> QED BY <1>1, <1>2, <1>3, <1>4, <1>5, OwedStill, OneEngineKeeps, EngineFacts

(***************************************************************************)
(* The watcher.                                                            *)
(***************************************************************************)
LEMMA WatchSeedKeeps ==
  ASSUME IInv, NEW e \in Engines, WatchSeed(e)
  PROVE  IInv'
<1>1. EngineOK(eng[e]) /\ FilesOK(files[e]) /\ EngineInv(e) /\ DOMAIN eng = Engines /\ DOMAIN files = Engines
  BY EngineFacts
<1>2. /\ Acts(e) /\ eng'[e] = [eng[e] EXCEPT !.watch = "on", !.lastVer = source, !.gap = (source # eng[e].seen)]
      /\ files' = files
      /\ UNCHANGED <<scenario, source, put, saves, stranded, ledger>>
  BY <1>1 DEF WatchSeed, Acts, Outside, Database
<1>3. EngineOK(eng'[e])
  <2>1. FieldsOK(eng[e]) BY <1>1, EngineOKIsFieldwise
  <2>2. FieldsOK(eng'[e]) BY <1>2, <2>1, EngineFacts DEF FieldsOK, Down, Given
  <2> QED BY <2>2, EngineOKIsFieldwise
<1>4. EngineInv(e)'
  <2>1. RunnerOK(e)' BY <1>1, <1>2 DEF EngineInv, RunnerOK, WatchSeed, Serving, Up, EngineOK, Down, Bundle
  <2>2. SaveOK(e)' BY <1>1, <1>2 DEF EngineInv, SaveOK, EngineOK, Down
  <2>3. WatcherOK(e)' BY <1>1, <1>2 DEF EngineInv, WatcherOK, EngineOK, Down, Known, Bundle, WatchSeed
  <2>4. ServedOK(e)' BY <1>1, <1>2 DEF EngineInv, ServedOK, Done, EngineOK, Down, WatchSeed
  <2>5. AttemptOK(e)' BY <1>1, <1>2 DEF EngineInv, AttemptOK, Excused, Bundle, WillRead, EngineOK, Down, WatchSeed
  <2> QED BY <2>1, <2>2, <2>3, <2>4, <2>5 DEF EngineInv
<1>5. Owes(e) => Owes(e)'
  BY <1>1, <1>2 DEF Owes, Done, Excused, WillRead, Saving, EngineOK, Down, EngineInv, ServedOK, WatchSeed
<1> QED BY <1>1, <1>2, <1>3, <1>4, <1>5, OwedStill, OneEngineKeeps, EngineFacts

LEMMA WatchHeadKeeps ==
  ASSUME IInv, NEW e \in Engines, WatchHead(e)
  PROVE  IInv'
<1>1. EngineOK(eng[e]) /\ FilesOK(files[e]) /\ EngineInv(e) /\ DOMAIN eng = Engines /\ DOMAIN files = Engines
  BY EngineFacts
<1>2. /\ Acts(e) /\ eng'[e] = [eng[e] EXCEPT !.head = source]
      /\ files' = files
      /\ UNCHANGED <<scenario, source, put, saves, stranded, ledger>>
  BY <1>1 DEF WatchHead, Acts, Outside, Database
<1>3. EngineOK(eng'[e])
  <2>1. FieldsOK(eng[e]) BY <1>1, EngineOKIsFieldwise
  <2>2. FieldsOK(eng'[e]) BY <1>2, <2>1, EngineFacts DEF FieldsOK, Down, Given
  <2> QED BY <2>2, EngineOKIsFieldwise
<1>4. EngineInv(e)'
  <2>1. RunnerOK(e)' BY <1>1, <1>2 DEF EngineInv, RunnerOK, WatchHead, Serving, Up, EngineOK, Down, Bundle
  <2>2. SaveOK(e)' BY <1>1, <1>2 DEF EngineInv, SaveOK, EngineOK, Down
  <2>3. WatcherOK(e)' BY <1>1, <1>2 DEF EngineInv, WatcherOK, EngineOK, Down, Known, Bundle, WatchHead
  <2>4. ServedOK(e)' BY <1>1, <1>2 DEF EngineInv, ServedOK, Done, EngineOK, Down, WatchHead
  <2>5. AttemptOK(e)' BY <1>1, <1>2 DEF EngineInv, AttemptOK, Excused, Bundle, WillRead, EngineOK, Down, WatchHead
  <2> QED BY <2>1, <2>2, <2>3, <2>4, <2>5 DEF EngineInv
<1>5. Owes(e) => Owes(e)'
  BY <1>1, <1>2 DEF Owes, Done, Excused, WillRead, Saving, EngineOK, Down, EngineInv, ServedOK, WatchHead
<1> QED BY <1>1, <1>2, <1>3, <1>4, <1>5, OwedStill, OneEngineKeeps, EngineFacts

LEMMA WatchReadFailsKeeps ==
  ASSUME IInv, NEW e \in Engines, WatchReadFails(e)
  PROVE  IInv'
<1>1. EngineOK(eng[e]) /\ FilesOK(files[e]) /\ EngineInv(e) /\ DOMAIN eng = Engines /\ DOMAIN files = Engines
  BY EngineFacts
<1>2. /\ Acts(e) /\ eng'[e] = [eng[e] EXCEPT !.head = None]
      /\ files' = files
      /\ UNCHANGED <<scenario, source, put, saves, stranded, ledger>>
  BY <1>1 DEF WatchReadFails, Acts, Outside, Database
<1>3. EngineOK(eng'[e])
  <2>1. FieldsOK(eng[e]) BY <1>1, EngineOKIsFieldwise
  <2>2. FieldsOK(eng'[e]) BY <1>2, <2>1, EngineFacts DEF FieldsOK, Down, Given
  <2> QED BY <2>2, EngineOKIsFieldwise
<1>4. EngineInv(e)'
  <2>1. RunnerOK(e)' BY <1>1, <1>2 DEF EngineInv, RunnerOK, WatchReadFails, Serving, Up, EngineOK, Down, Bundle
  <2>2. SaveOK(e)' BY <1>1, <1>2 DEF EngineInv, SaveOK, EngineOK, Down
  <2>3. WatcherOK(e)' BY <1>1, <1>2 DEF EngineInv, WatcherOK, EngineOK, Down, Known, Bundle
  <2>4. ServedOK(e)' BY <1>1, <1>2 DEF EngineInv, ServedOK, Done, EngineOK, Down, WatchReadFails
  <2>5. AttemptOK(e)' BY <1>1, <1>2 DEF EngineInv, AttemptOK, Excused, Bundle, WillRead, EngineOK, Down, WatchReadFails
  <2> QED BY <2>1, <2>2, <2>3, <2>4, <2>5 DEF EngineInv
<1>5. Owes(e) => Owes(e)'
  BY <1>1, <1>2 DEF Owes, Done, Excused, WillRead, Saving, EngineOK, Down, EngineInv, ServedOK, WatchReadFails
<1> QED BY <1>1, <1>2, <1>3, <1>4, <1>5, OwedStill, OneEngineKeeps, EngineFacts

(* What is read is recorded, or is what was extracted under the version    *)
(* recorded.                                                               *)
LEMMA WatchReadKeeps ==
  ASSUME IInv, NEW e \in Engines, WatchRead(e)
  PROVE  IInv'
<1>1. EngineOK(eng[e]) /\ FilesOK(files[e]) /\ EngineInv(e) /\ DOMAIN eng = Engines /\ DOMAIN files = Engines
  BY EngineFacts
<1> DEFINE read == IF Bundle THEN FetchAndExtract(files[e], eng[e].head, source) ELSE files[e]
           data == IF Bundle THEN ExtractedDir(read) ELSE source
           version == IF Bundle THEN eng[e].head ELSE source
<1>2. /\ Acts(e) /\ files'[e] = read
      /\ eng'[e] = [eng[e] EXCEPT !.head = None, !.lastVer = version, !.queue = <<data>>]
      /\ UNCHANGED <<scenario, source, put, saves, stranded, ledger>>
  BY <1>1 DEF WatchRead, Acts, Outside, Database
<1>3. eng[e].head \in DOMAIN Configs /\ eng[e].watch = "on"
  BY <1>1 DEF WatchRead, EngineOK, Given, EngineInv, WatcherOK
<1>4. /\ FilesOK(read) /\ (Bundle => read.last = Named(eng[e].head) /\ read.last \in DOMAIN read.dirs)
      /\ version \in DOMAIN Configs /\ data \in DOMAIN Configs
      /\ data \in {version} \cup {read.dirs[n] : n \in {n \in DOMAIN read.dirs : Bundle /\ n = Named(version)}}
  <2>1. CASE Bundle
    <3> DEFINE g == FetchAndExtract(files[e], eng[e].head, source)
    <3>1. FilesOK(g) /\ g.last \in DOMAIN g.dirs /\ g.last = Named(eng[e].head)
      BY <1>1, <1>3, EngineFacts, FetchKeepsTypes
    <3>2. read = g /\ data = g.dirs[g.last] /\ version = eng[e].head BY <2>1 DEF ExtractedDir
    <3> HIDE DEF read, g, data, version
    <3> QED BY <1>3, <2>1, <3>1, <3>2 DEF FilesOK
  <2>2. CASE ~Bundle BY <1>1, <2>2, EngineFacts
  <2> QED BY <2>1, <2>2
<1> HIDE DEF read, data, version
<1>5. EngineOK(eng'[e])
  BY <1>1, <1>2, <1>4 DEF EngineOK, Down, Given
<1>6. EngineInv(e)'
  <2>1. RunnerOK(e)' BY <1>1, <1>2, <1>4 DEF EngineInv, RunnerOK, Serving, Up, EngineOK, Down, Bundle
  <2>2. SaveOK(e)' BY <1>1, <1>2 DEF EngineInv, SaveOK, EngineOK, Down
  <2>3. WatcherOK(e)'
    <3>1. eng'[e].queue = <<data>> /\ eng'[e].watch = "on" /\ eng'[e].lastVer = version
      BY <1>1, <1>2, <1>3 DEF EngineOK, Down
    <3>2. data \in Known(e)' BY <1>2, <1>4, <3>1 DEF Known, Bundle
    <3> QED BY <3>1, <3>2 DEF WatcherOK
  <2>4. ServedOK(e)' BY <1>1, <1>2 DEF EngineInv, ServedOK, Done, EngineOK, Down
  <2>5. AttemptOK(e)' BY <1>1, <1>2, <1>3 DEF EngineInv, AttemptOK, Excused, Bundle, WillRead, EngineOK, Down
  <2> QED BY <2>1, <2>2, <2>3, <2>4, <2>5 DEF EngineInv
<1>7. Owes(e)'
  BY <1>1, <1>2, <1>3 DEF Owes, WillRead, EngineOK, Down
<1> QED BY <1>1, <1>2, <1>4, <1>5, <1>6, <1>7, OwedStill, OneEngineKeeps, EngineFacts

(* An event that is taken is attempted, or reported as drift.              *)
LEMMA ReloadKeeps ==
  ASSUME IInv, NEW e \in Engines, Reload(e)
  PROVE  IInv'
<1>1. EngineOK(eng[e]) /\ FilesOK(files[e]) /\ EngineInv(e) /\ DOMAIN eng = Engines /\ DOMAIN files = Engines
  BY EngineFacts
<1> DEFINE cfg == eng[e].queue[1]
<1>2. cfg \in DOMAIN Configs /\ cfg \in Known(e) /\ eng[e].watch = "on" /\ (~Bundle => cfg = eng[e].lastVer)
  <2>1. cfg \in Known(e) /\ eng[e].watch = "on" BY <1>1 DEF Reload, EngineOK, EngineInv, WatcherOK
  <2>2. cfg \in DOMAIN Configs BY <1>1 DEF Reload, EngineOK
  <2> QED BY <2>1, <2>2 DEF Known
<1>3. /\ Acts(e) /\ files' = files
      /\ eng'[e] = IF cfg \in Valid
                   THEN [eng[e] EXCEPT !.pc = "start", !.queue = << >>, !.seen = cfg, !.own = FALSE,
                                       !.prev = eng[e].cfg, !.cfg = cfg]
                   ELSE [eng[e] EXCEPT !.queue = << >>, !.seen = cfg, !.own = FALSE, !.drift = "drift"]
      /\ UNCHANGED <<scenario, source, put, saves, stranded, ledger>>
  BY <1>1 DEF Reload, Acts, Outside, Database
<1> HIDE DEF cfg
<1>4. /\ DOMAIN eng'[e] = DOMAIN Down /\ eng'[e].seen = cfg /\ eng'[e].own = FALSE /\ eng'[e].queue = << >>
      /\ eng'[e].watch = "on" /\ eng'[e].lastVer = eng[e].lastVer /\ eng'[e].gap = eng[e].gap
      /\ eng'[e].head = eng[e].head /\ eng'[e].boot = eng[e].boot /\ eng'[e].failed = eng[e].failed
      /\ eng'[e].att = eng[e].att /\ eng'[e].applied = eng[e].applied
      /\ \/ eng'[e].pc = "start" /\ eng'[e].cfg = cfg /\ eng'[e].prev = eng[e].cfg /\ eng'[e].drift = eng[e].drift
         \/ eng'[e].pc = "idle" /\ eng'[e].cfg = eng[e].cfg /\ eng'[e].prev = eng[e].prev /\ eng'[e].drift = "drift"
  <2>1. eng[e].pc = "idle" BY DEF Reload
  <2> QED BY <1>1, <1>2, <1>3, <2>1 DEF EngineOK, Down
<1>5. EngineOK(eng'[e])
  <2>1. FieldsOK(eng[e]) BY <1>1, EngineOKIsFieldwise
  <2>2. cfg \in Given BY <1>2 DEF Given
  <2>3. PICK v : v = eng'[e] OBVIOUS
  <2>4. PICK w : w = eng[e] /\ FieldsOK(w) BY <2>1
  <2>5. /\ DOMAIN v = DOMAIN Down /\ v.seen = cfg /\ v.own = FALSE /\ v.queue = << >>
        /\ v.watch = "on" /\ v.lastVer = w.lastVer /\ v.gap = w.gap
        /\ v.head = w.head /\ v.boot = w.boot /\ v.att = w.att /\ v.applied = w.applied
    BY <1>4, <2>3, <2>4
  <2>6. \/ v.pc = "start" /\ v.cfg = cfg /\ v.prev = w.cfg /\ v.drift = w.drift
        \/ v.pc = "idle" /\ v.cfg = w.cfg /\ v.prev = w.prev /\ v.drift = "drift"
    BY <1>4, <2>3, <2>4
  <2>7. /\ v.cfg \in Given /\ v.prev \in Given /\ v.drift \in {None, "ok", "drift"}
        /\ v.pc \in {"start", "idle"}
    BY <2>2, <2>4, <2>6 DEF FieldsOK
  <2>8. FieldsOK(v) BY <2>2, <2>4, <2>5, <2>7 DEF FieldsOK
  <2> QED BY <2>3, <2>8, EngineOKIsFieldwise
<1>6. EngineInv(e)'
  <2>1. RunnerOK(e)' BY <1>1, <1>3, <1>4 DEF EngineInv, RunnerOK, Serving, Up, Bundle, Reload
  <2>2. SaveOK(e)' BY <1>4 DEF SaveOK
  <2>3. WatcherOK(e)'
    <3>1. Known(e)' = Known(e) BY <1>3, <1>4 DEF Known, Bundle
    <3> QED BY <1>2, <1>4, <3>1 DEF WatcherOK
  <2>4. ServedOK(e)' BY <1>4 DEF ServedOK, Done
  <2>5. AttemptOK(e)' BY <1>2, <1>3, <1>4 DEF AttemptOK, Bundle, WillRead
  <2> QED BY <2>1, <2>2, <2>3, <2>4, <2>5 DEF EngineInv
<1>7. Owes(e)'
  BY <1>4 DEF Owes, Done
<1> QED BY <1>1, <1>3, <1>5, <1>6, <1>7, OwedStill, OneEngineKeeps, EngineFacts

(***************************************************************************)
(* Crashes, edits and saves.                                               *)
(***************************************************************************)
(* A step of the save, or of the process that carries it: whoever else     *)
(* runs is not the one that carries it.                                    *)
LEMMA OthersKeepPut ==
  ASSUME NEW f, eng'[f] = eng[f], files'[f] = files[f], UNCHANGED <<scenario, saves>>,
         put.at # f, put'.at # f, eng[f].own /\ scenario.saves <= 1 => put'.pc = "none",
         EngineInv(f)
  PROVE  EngineInv(f)'
BY SMTT(60) DEF EngineInv, RunnerOK, SaveOK, WatcherOK, ServedOK, AttemptOK, Up, Serving, Bundle, Known, Done, WillRead, Excused

LEMMA OthersOwePut ==
  ASSUME NEW f, eng'[f] = eng[f], UNCHANGED <<scenario, ledger>>, put.at # f, put'.at # f, Owes(f)
  PROVE  Owes(f)'
BY DEF Owes, Done, Excused, WillRead, Saving

LEMMA CrashKeeps ==
  ASSUME IInv, NEW e \in Engines, Crash(e)
  PROVE  IInv'
<1>1. EngineOK(eng[e]) /\ FilesOK(files[e]) /\ EngineInv(e) /\ DOMAIN eng = Engines /\ DOMAIN files = Engines
  BY EngineFacts
<1>2. /\ Acts(e) /\ eng'[e] = Down /\ FilesOK(files'[e])
      /\ UNCHANGED <<scenario, source, saves, ledger>>
      /\ put' = IF put.at = e THEN NoPut ELSE put
      /\ e \in scenario.engines
  BY <1>1 DEF Crash, Acts, Database, FilesOK, Given, EngineInv, RunnerOK
<1>3. put'.at # e
  BY <1>2 DEF NoPut
<1>4. TypeOK'
  <2>1. \A f \in Engines : EngineOK(eng'[f]) /\ FilesOK(files'[f])
    BY <1>2, DownIsTyped DEF Acts, IInv, TypeOK
  <2>2. PutOK' BY <1>2 DEF IInv, TypeOK, PutOK
  <2> QED BY <1>2, <2>1, <2>2 DEF Acts, IInv, TypeOK
<1>5. EngineInv(e)'
  <2>1. RunnerOK(e)' BY <1>2, <1>3 DEF RunnerOK, Up, Down
  <2>2. SaveOK(e)' BY <1>2 DEF SaveOK, Down
  <2>3. WatcherOK(e)' BY <1>2 DEF WatcherOK, Down
  <2>4. ServedOK(e)' BY <1>2 DEF ServedOK, Done, Down
  <2>5. AttemptOK(e)' BY <1>2 DEF AttemptOK, Down
  <2> QED BY <2>1, <2>2, <2>3, <2>4, <2>5 DEF EngineInv
<1>6. ASSUME NEW f \in Engines, f # e PROVE EngineInv(f)'
  <2>1. eng'[f] = eng[f] /\ files'[f] = files[f] /\ EngineInv(f) BY <1>2, <1>6 DEF Acts, IInv
  <2>2. CASE put.at = e
    <3>1. put'.pc = "none" /\ put'.at = None /\ f # None BY <1>2, <2>2 DEF NoPut
    <3> QED BY <1>2, <1>6, <2>1, <2>2, <3>1, OthersKeepPut
  <2>3. CASE put.at # e BY <1>2, <2>1, <2>3, OthersKeep
  <2> QED BY <2>2, <2>3
<1>7. LedgerOwed'
  <2>1. Owes(e)' BY <1>2 DEF Owes, Done, Down
  <2> QED BY <1>2, <2>1 DEF LedgerOwed
<1> QED BY <1>4, <1>5, <1>6, <1>7 DEF IInv

LEMMA EditKeeps ==
  ASSUME IInv, Edit
  PROVE  IInv'
<1>1. /\ UNCHANGED <<scenario, eng, files, put, saves, stranded, ledger>>
      /\ source' \in DOMAIN Configs
  BY DEF Edit, Database, IInv, TypeOK
<1>2. TypeOK' BY <1>1 DEF IInv, TypeOK, PutOK
<1>3. \A f \in Engines : EngineInv(f)' BY <1>1, OthersKeep DEF IInv
<1>4. LedgerOwed'
  <2>1. \A f \in scenario.engines : Owes(f) => Owes(f)' BY <1>1, OthersOwe
  <2> QED BY <1>1, <2>1 DEF IInv, LedgerOwed, Bundle
<1> QED BY <1>2, <1>3, <1>4 DEF IInv

(* A save starts on an engine that serves; one that saved before is        *)
(* excused.                                                                *)
LEMMA PutReadKeeps ==
  ASSUME IInv, NEW e \in Engines, NEW cfg \in scenario.configs, PutRead(e, cfg)
  PROVE  IInv'
<1>1. EngineOK(eng[e]) /\ FilesOK(files[e]) /\ EngineInv(e) /\ DOMAIN eng = Engines /\ DOMAIN files = Engines
  BY EngineFacts
<1> DEFINE g == FetchAndExtract(files[e], None, source)
<1>2. /\ UNCHANGED <<scenario, source, eng, stranded, ledger>>
      /\ put' = [pc |-> "apply", at |-> e, cfg |-> cfg, ver |-> source]
      /\ put.pc = "none" /\ put.at = None /\ saves < scenario.saves /\ saves' = saves + 1
      /\ Serving(e) /\ cfg \in Valid
      /\ saves \in Nat /\ scenario.saves \in Nat
  BY PutIsTyped, EngineFacts DEF PutRead, Database, IInv, TypeOK
<1>3. /\ DOMAIN files' = Engines /\ \A f \in Engines \ {e} : files'[f] = files[f]
      /\ FilesOK(files'[e]) /\ (Bundle => files'[e].last \in DOMAIN files'[e].dirs)
      /\ \A n \in DOMAIN files[e].dirs : n \in DOMAIN files'[e].dirs /\ files'[e].dirs[n] = files[e].dirs[n]
  <2>1. CASE Bundle
    <3>1. files' = [files EXCEPT ![e] = g] BY <2>1 DEF PutRead
    <3>2. /\ FilesOK(g) /\ g.last \in DOMAIN g.dirs
          /\ \A n \in DOMAIN files[e].dirs : n \in DOMAIN g.dirs /\ g.dirs[n] = files[e].dirs[n]
      BY <1>1, EngineFacts, FetchKeepsTypes
    <3> HIDE DEF g
    <3> QED BY <1>1, <3>1, <3>2
  <2>2. CASE ~Bundle
    <3>1. files' = files BY <2>2 DEF PutRead
    <3> QED BY <1>1, <2>2, <3>1
  <2> QED BY <2>1, <2>2
<1>4. TypeOK'
  <2>1. \A f \in Engines : EngineOK(eng'[f]) /\ FilesOK(files'[f]) BY <1>2, <1>3 DEF IInv, TypeOK
  <2>2. PutOK' BY <1>2, EngineFacts DEF PutOK
  <2> QED BY <1>2, <1>3, <2>1, <2>2 DEF IInv, TypeOK
<1>5. ASSUME NEW f \in Engines PROVE EngineInv(f)'
  <2>1. EngineInv(f) /\ eng'[f] = eng[f] BY <1>2 DEF IInv
  <2>2. Known(f) \subseteq Known(f)'
    <3>1. CASE f = e BY <1>2, <1>3, <3>1 DEF Known, Bundle
    <3>2. CASE f # e BY <1>2, <1>3, <3>2 DEF Known, Bundle
    <3> QED BY <3>1, <3>2
  <2>3. ~(eng[f].own /\ scenario.saves <= 1) BY <1>2, <2>1 DEF EngineInv, SaveOK
  <2>4. RunnerOK(f)' BY <1>1, <1>2, <1>3, <2>1 DEF EngineInv, RunnerOK, Serving, Up, Bundle
  <2>5. SaveOK(f)' BY <1>2, <2>3 DEF SaveOK
  <2>6. WatcherOK(f)' BY <2>1, <2>2 DEF EngineInv, WatcherOK
  <2>7. ServedOK(f)' BY <1>2, <2>1 DEF EngineInv, ServedOK, Done
  <2>8. AttemptOK(f)'
    <3>1. f = e /\ eng[f].own => Excused(f) BY <1>2, <2>3 DEF Excused
    <3>2. f = e => ~eng[f].boot BY <1>2 DEF Serving
    <3> QED BY <1>2, <2>1, <3>1, <3>2 DEF EngineInv, AttemptOK, Excused, Bundle, WillRead
  <2> QED BY <2>4, <2>5, <2>6, <2>7, <2>8 DEF EngineInv
<1>6. LedgerOwed'
  <2>1. \A f \in scenario.engines : Owes(f) => Owes(f)'
    BY <1>2 DEF Owes, Done, Excused, WillRead, Saving
  <2> QED BY <1>2, <2>1 DEF IInv, LedgerOwed, Bundle
<1> QED BY <1>4, <1>5, <1>6 DEF IInv

(* The rest of a save, on the engine that carries it.                      *)
LEMMA SaverFacts ==
  ASSUME IInv, put.pc # "none"
  PROVE  /\ put.at \in Engines /\ put.at \in scenario.engines /\ put.at # None
         /\ EngineOK(eng[put.at]) /\ EngineInv(put.at)
         /\ put.cfg \in DOMAIN Configs /\ put \in [pc : {"apply", "write", "set"}, at : Engines, cfg : Valid, ver : DOMAIN Configs]
         /\ saves \in Nat /\ scenario.saves \in Nat /\ saves > 0
         /\ \A f \in Engines : ~(eng[f].own /\ scenario.saves <= 1)
<1>1. PutOK /\ scenario \in Scenarios BY DEF IInv, TypeOK
<1>2. put \in [pc : {"apply", "write", "set"}, at : Engines, cfg : Valid, ver : DOMAIN Configs]
  BY <1>1 DEF PutOK, NoPut
<1>3. put.at \in Engines /\ put.cfg \in Valid BY <1>2
<1>4. EngineInv(put.at) BY <1>3 DEF IInv
<1>5. put.at \in scenario.engines /\ saves > 0
  BY <1>4 DEF EngineInv, RunnerOK, Up, Serving
<1>6. \A f \in Engines : ~(eng[f].own /\ scenario.saves <= 1) BY DEF IInv, EngineInv, SaveOK
<1> QED BY <1>1, <1>2, <1>3, <1>4, <1>5, <1>6 DEF IInv, TypeOK

(* Only the save moves.                                                    *)
LEMMA SaveMovesOn ==
  ASSUME IInv, put.pc # "none", UNCHANGED <<scenario, eng, files, saves>>,
         put' = NoPut \/ put' = [put EXCEPT !.pc = "write"] \/ put' = [put EXCEPT !.pc = "set"]
  PROVE  PutOK' /\ \A f \in Engines : EngineInv(f)'
<1>1. put'.at = put.at \/ put'.at = None BY SaverFacts DEF NoPut
<1>2. PutOK' BY SaverFacts DEF PutOK
<1>3. ASSUME NEW f \in Engines PROVE EngineInv(f)'
  <2>1. EngineInv(f) BY DEF IInv
  <2>2. put'.at = f => put.at = f /\ put'.pc # "none" BY <1>1, SaverFacts DEF NoPut
  <2>3. ~(eng[f].own /\ scenario.saves <= 1) BY SaverFacts
  <2>4. RunnerOK(f)' BY <2>1, <2>2 DEF EngineInv, RunnerOK, Serving, Up, Bundle
  <2>5. SaveOK(f)' BY <2>3 DEF SaveOK
  <2>6. WatcherOK(f)' BY <2>1 DEF EngineInv, WatcherOK, Known, Bundle
  <2>7. ServedOK(f)' BY <2>1 DEF EngineInv, ServedOK, Done
  <2>8. AttemptOK(f)' BY <2>1, <2>2 DEF EngineInv, AttemptOK, Excused, Bundle, WillRead
  <2> QED BY <2>4, <2>5, <2>6, <2>7, <2>8 DEF EngineInv
<1> QED BY <1>2, <1>3

(* A save that has migrated the database owes it to its engine.            *)
LEMMA PutApplyKeeps ==
  ASSUME IInv, PutApply
  PROVE  IInv'
<1> DEFINE done == Migrated(put.cfg, FALSE).verdict = "ok"
<1>1. /\ put.pc = "apply" /\ UNCHANGED <<scenario, source, eng, files, saves, stranded>>
      /\ ledger' = IF done THEN put.cfg ELSE ledger
      /\ put' = IF done THEN [put EXCEPT !.pc = "write"] ELSE NoPut
  BY DEF PutApply
<1> HIDE DEF done
<1>2. PutOK' /\ \A f \in Engines : EngineInv(f)' BY <1>1, SaveMovesOn
<1>3. TypeOK' BY <1>1, <1>2, SaverFacts DEF IInv, TypeOK, Given
<1>4. LedgerOwed'
  <2>1. CASE done
    <3>1. put'.pc = "write" /\ put'.at = put.at /\ put'.cfg = put.cfg BY <1>1, <2>1, SaverFacts
    <3>2. (Owes(put.at))' BY <1>1, <2>1, <3>1 DEF Owes, Saving
    <3> QED BY <1>1, <3>1, <3>2, SaverFacts DEF LedgerOwed
  <2>2. CASE ~done
    <3>1. put'.pc = "none" BY <1>1, <2>2 DEF NoPut
    <3>2. \A f \in scenario.engines : Owes(f) => Owes(f)'
      BY <1>1, <2>2, <3>1 DEF Owes, Done, Excused, WillRead, Saving
    <3> QED BY <1>1, <3>2 DEF IInv, LedgerOwed, Bundle
  <2> QED BY <2>1, <2>2
<1> QED BY <1>2, <1>3, <1>4 DEF IInv

LEMMA PutWriteKeeps ==
  ASSUME IInv, PutWrite \/ PutWriteFails
  PROVE  IInv'
<1>1. /\ put.pc = "write" /\ UNCHANGED <<scenario, eng, files, saves, ledger>>
      /\ \/ source' = put.cfg /\ put' = [put EXCEPT !.pc = "set"] /\ UNCHANGED stranded
         \/ source' = source /\ put' = NoPut /\ stranded' = TRUE
  BY DEF PutWrite, PutWriteFails, Database
<1>2. PutOK' /\ \A f \in Engines : EngineInv(f)' BY <1>1, SaveMovesOn
<1>3. TypeOK' BY <1>1, <1>2, SaverFacts DEF IInv, TypeOK
<1>4. LedgerOwed'
  <2>1. CASE stranded' BY <2>1 DEF LedgerOwed
  <2>2. CASE ~stranded'
    <3>1. /\ put'.pc = "set" /\ put'.at = put.at /\ put'.cfg = put.cfg /\ UNCHANGED stranded
      BY <1>1, <2>2, SaverFacts
    <3>2. \A f \in scenario.engines : Owes(f) => Owes(f)'
      BY <1>1, <3>1 DEF Owes, Done, Excused, WillRead, Saving
    <3> QED BY <1>1, <3>1, <3>2 DEF IInv, LedgerOwed, Bundle
  <2> QED BY <2>1, <2>2
<1> QED BY <1>2, <1>3, <1>4 DEF IInv

(* The engine takes over what it owed as the carrier of the save.          *)
LEMMA PutSetConfigKeeps ==
  ASSUME IInv, PutSetConfig
  PROVE  IInv'
<1>0. PICK e \in Engines : e = put.at
  BY SaverFacts DEF PutSetConfig
<1>1. /\ e \in scenario.engines /\ EngineOK(eng[e]) /\ EngineInv(e)
      /\ put.cfg \in DOMAIN Configs /\ put.pc = "set" /\ put.at = e
      /\ DOMAIN eng = Engines /\ DOMAIN files = Engines
  BY <1>0, SaverFacts, EngineFacts DEF PutSetConfig
<1>2. /\ eng'[e] = [eng[e] EXCEPT !.cfg = put.cfg, !.seen = put.cfg, !.own = TRUE]
      /\ DOMAIN eng' = Engines /\ \A f \in Engines \ {e} : eng'[f] = eng[f]
      /\ UNCHANGED <<scenario, source, files, saves, stranded, ledger>>
      /\ put' = NoPut
  BY <1>1 DEF PutSetConfig, Database
<1>3. put'.pc = "none" /\ put'.at = None /\ e # None BY <1>1, <1>2 DEF NoPut
<1>4. /\ DOMAIN eng'[e] = DOMAIN Down /\ eng'[e].cfg = put.cfg /\ eng'[e].seen = put.cfg /\ eng'[e].own = TRUE
      /\ \A x \in DOMAIN Down \ {"cfg", "seen", "own"} : eng'[e][x] = eng[e][x]
  BY <1>1, <1>2 DEF EngineOK, Down
<1>5. TypeOK'
  <2>1. FieldsOK(eng[e]) BY <1>1, EngineOKIsFieldwise
  <2>2. EngineOK(eng'[e])
    <3>1. FieldsOK(eng'[e]) BY <1>1, <1>2, <2>1 DEF FieldsOK, Down, Given
    <3> QED BY <3>1, EngineOKIsFieldwise
  <2>3. \A f \in Engines : EngineOK(eng'[f]) /\ FilesOK(files'[f]) BY <1>2, <2>2 DEF IInv, TypeOK
  <2> QED BY <1>2, <2>3 DEF IInv, TypeOK, PutOK
<1>6. EngineInv(e)'
  <2>1. RunnerOK(e)' BY <1>1, <1>2, <1>3 DEF EngineInv, RunnerOK, Up, Bundle, EngineOK, Down
  <2>2. SaveOK(e)' BY <1>2, <1>3, SaverFacts, <1>1 DEF SaveOK
  <2>3. WatcherOK(e)' BY <1>1, <1>2 DEF EngineInv, WatcherOK, Known, Bundle, EngineOK, Down
  <2>4. ServedOK(e)' BY <1>1, <1>2 DEF EngineInv, ServedOK, Done, EngineOK, Down
  <2>5. AttemptOK(e)' BY <1>1, <1>2 DEF EngineInv, AttemptOK, Excused, Bundle, WillRead, EngineOK, Down
  <2> QED BY <2>1, <2>2, <2>3, <2>4, <2>5 DEF EngineInv
<1>7. ASSUME NEW f \in Engines, f # e PROVE EngineInv(f)'
  <2>1. eng'[f] = eng[f] /\ EngineInv(f) BY <1>2, <1>7 DEF IInv
  <2>2. put'.at # f /\ put.at # f BY <1>1, <1>3, <1>7
  <2> QED BY <1>2, <1>3, <2>1, <2>2, OthersKeepPut
<1>8. LedgerOwed'
  <2>1. ASSUME NEW f \in scenario.engines, Owes(f), ~Bundle PROVE Owes(f)'
    <3>1. CASE f = e
      <4>0. ~Saving(e)' BY <1>3 DEF Saving
      <4>1. /\ eng'[e].pc = eng[e].pc /\ eng'[e].failed = eng[e].failed /\ eng'[e].drift = eng[e].drift
            /\ eng'[e].own = TRUE /\ eng'[e].seen = put.cfg /\ eng'[e].watch = eng[e].watch
            /\ eng'[e].queue = eng[e].queue /\ eng'[e].lastVer = eng[e].lastVer
        BY <1>4 DEF Down
      <4>2. Done(e)' <=> Done(e) BY <4>1 DEF Done
      <4>3. WillRead(e, ledger) => WillRead(e, ledger)' BY <1>2, <4>1 DEF WillRead
      <4>4. Excused(e) => Excused(e)' BY <1>2, <4>1 DEF Excused
      <4>5. Saving(e) BY <1>1 DEF Saving
      <4>6. Saving(e) /\ put.cfg = ledger => eng'[e].seen = ledger' /\ ~Saving(e)' BY <1>2, <4>0, <4>1
      <4> QED BY <1>2, <2>1, <3>1, <4>2, <4>3, <4>4, <4>5, <4>6 DEF Owes
    <3>2. CASE f # e
      <4>1. f \in Engines /\ f # None BY <2>1 DEF IInv, TypeOK
      <4> QED BY <1>1, <1>2, <1>3, <2>1, <3>2, <4>1, OthersOwePut
    <3> QED BY <3>1, <3>2
  <2> QED BY <1>2, <2>1 DEF IInv, LedgerOwed, Bundle
<1> QED BY <1>5, <1>6, <1>7, <1>8 DEF IInv

(***************************************************************************)
(* The theorems.                                                           *)
(***************************************************************************)
LEMMA InitIsOwed == Init => IInv
<1> SUFFICES ASSUME Init PROVE IInv OBVIOUS
<1>1. /\ scenario \in Scenarios /\ source \in DOMAIN Configs /\ ledger \in Given /\ saves \in Nat
      /\ scenario.engines \subseteq Engines /\ scenario.engines # {}
  BY DEF Init, Given
<1>2. /\ DOMAIN eng = Engines /\ \A e \in Engines : eng[e] = Down
      /\ DOMAIN files = Engines /\ \A e \in Engines : FilesOK(files[e])
      /\ put = NoPut
  BY DEF Init, FilesOK, Given
<1>3. TypeOK BY <1>1, <1>2, DownIsTyped DEF TypeOK, PutOK
<1>4. ASSUME NEW e \in Engines PROVE EngineInv(e)
  <2>1. put.at # e /\ eng[e] = Down BY <1>2 DEF NoPut
  <2> QED BY <2>1 DEF EngineInv, RunnerOK, SaveOK, WatcherOK, ServedOK, AttemptOK, Up, Done, Down
<1>5. LedgerOwed BY <1>1, <1>2 DEF LedgerOwed, Owes, Done, Down
<1> QED BY <1>3, <1>4, <1>5 DEF IInv

LEMMA NextKeepsOwed == IInv /\ [Next]_vars => IInv'
<1> SUFFICES ASSUME IInv, [Next]_vars PROVE IInv' OBVIOUS
<1>1. ASSUME NEW e \in Engines, Step(e) PROVE IInv'
  BY <1>1, BootKeeps, StartMigrationKeeps, ApplyKeeps, ProvisionReadKeeps, ProvisionIdempotentKeeps,
     FallbackKeeps, HardenHealKeeps, HardenKeeps, WatchSeedKeeps, WatchHeadKeeps, WatchReadKeeps, ReloadKeeps
  DEF Step
<1>2. ASSUME NEW e \in Engines,
             ApplyFails(e) \/ FallbackFails(e) \/ HardenFails(e) \/ WatchReadFails(e) \/ Crash(e)
      PROVE  IInv'
  BY <1>2, ApplyFailsKeeps, FallbackFailsKeeps, HardenFailsKeeps, WatchReadFailsKeeps, CrashKeeps
<1>3. ASSUME NEW e \in Engines, NEW cfg \in scenario.configs, PutRead(e, cfg) PROVE IInv'
  BY <1>3, PutReadKeeps
<1>4. ASSUME PutApply \/ PutWrite \/ PutSetConfig \/ PutWriteFails PROVE IInv'
  BY <1>4, PutApplyKeeps, PutWriteKeeps, PutSetConfigKeeps
<1>5. ASSUME Edit PROVE IInv' BY <1>5, EditKeeps
<1>6. ASSUME UNCHANGED vars PROVE IInv'
  <2>1. UNCHANGED <<scenario, source, ledger, eng, files, put, saves, stranded>> BY <1>6 DEF vars
  <2>2. TypeOK' BY <2>1 DEF IInv, TypeOK, PutOK
  <2>3. \A f \in Engines : EngineInv(f)' BY <2>1, OthersKeep DEF IInv
  <2>4. \A f \in scenario.engines : Owes(f) => Owes(f)' BY <2>1, OthersOwe
  <2> QED BY <2>1, <2>2, <2>3, <2>4 DEF IInv, LedgerOwed, Bundle
<1> QED BY <1>1, <1>2, <1>3, <1>4, <1>5, <1>6 DEF Next

(* Whatever interleaves, crashes or fails, what an instance serves,        *)
(* migrates to, queues or extracts is a configuration that was declared,   *)
(* and the watcher's channel holds at most one event (engine.go, migrate.go). *)
THEOREM TypeCorrect == Spec => []TypeOK
<1>1. IInv => TypeOK BY DEF IInv
<1> QED BY <1>1, InitIsOwed, NextKeepsOwed, PTL DEF Spec

(* When all instances have caught up with the source and report "ok", and  *)
(* none of them was saved to by the dashboard last, with another save      *)
(* possible, they serve what the source says, and the database was         *)
(* migrated to it.                                                         *)
Settled == put.pc = "none" /\ ~stranded /\ ~Bundle /\ \A e \in scenario.engines : CaughtUp(e)
EditsSettle ==
  (Settled /\ \A e \in scenario.engines : ~Excused(e))
    => ledger = source /\ \A e \in scenario.engines : eng[e].cfg = source

LEMMA OwedMeansSettled == IInv => EditsSettle /\ NothingIsSkipped
<1> SUFFICES ASSUME IInv PROVE EditsSettle /\ NothingIsSkipped OBVIOUS
<1>1. EditsSettle
  <2> SUFFICES ASSUME Settled, \A e \in scenario.engines : ~Excused(e)
               PROVE  ledger = source /\ \A e \in scenario.engines : eng[e].cfg = source
    BY DEF EditsSettle
  <2>1. PICK e \in scenario.engines : Owes(e) BY DEF IInv, LedgerOwed, Settled
  <2>2. CaughtUp(e) /\ ~Excused(e) /\ ~Saving(e) BY DEF Settled, Saving
  <2>3. ledger = source BY <2>1, <2>2 DEF Owes, Done, CaughtUp, WillRead
  <2>4. ASSUME NEW f \in scenario.engines PROVE eng[f].cfg = source
    <3>1. EngineInv(f) BY DEF IInv, TypeOK
    <3> QED BY <3>1 DEF Settled, CaughtUp, EngineInv, ServedOK, Done
  <2> QED BY <2>3, <2>4
<1>2. NothingIsSkipped
  BY DEF IInv, EngineInv, WatcherOK, NothingIsSkipped
<1> QED BY <1>1, <1>2

(* For any number of instances, edits, crashes, failures and dashboard     *)
(* saves: at rest the watcher has skipped nothing (source.go, engine.go),  *)
(* and once every instance has taken in the source by its watcher the      *)
(* database is migrated to what they serve.                                *)
THEOREM EditsAreNotLost == Spec => [](EditsSettle /\ NothingIsSkipped)
<1> QED BY InitIsOwed, NextKeepsOwed, OwedMeansSettled, PTL DEF Spec

(* Where at most one save is made, no edit is lost at all: the ledger, the *)
(* source and what every instance serves agree once all report "ok".  Of   *)
(* two saves the reload of the first may undo the second (engine.go:297).  *)
THEOREM NoEditIsLostHolds ==
  ASSUME \A s \in Scenarios : s.saves <= 1
  PROVE  Spec => []NoEditIsLost
<1>1. IInv => NoEditIsLost
  <2>1. IInv => \A e : ~Excused(e) BY DEF IInv, TypeOK, Excused
  <2> QED BY <2>1, OwedMeansSettled DEF NoEditIsLost, SettledMeansApplied, EditsSettle, Settled
<1> QED BY <1>1, InitIsOwed, NextKeepsOwed, PTL DEF Spec

=============================================================================
