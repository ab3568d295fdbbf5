---------------------------- MODULE StorageProofs ----------------------------
(***************************************************************************)
(* Proofs about Storage, for any keys, buckets, callers, request slots and *)
(* configurations.                                                         *)
(***************************************************************************)
EXTENDS Storage, TLAPS

----------------------------------------------------------------------------
(* The invariants.                                                         *)
Pc == {"idle", "start", "write", "put", "copyBytes", "commit", "wipe", "putFirst", "record", "client", "bytes", "done"}
Mode == {"insert", "upsert", "update", "download", "render"} \cup Route
Job == [op : Operation \cup {"none"}, pc : Pc, by : Caller \cup {None}, key : Key \cup {None},
        to : Key \cup {None}, mode : Mode, row : ObjectRow \cup {None}, wipe : SUBSET Key,
        tok : Token \cup {None}, can : BOOLEAN]

(* What a request holds at each program counter.                           *)
Follows(j) ==
  /\ j.pc \notin {"idle", "done", "wipe"} => j.key \in Key
  /\ j.pc \notin {"idle", "done"} => j.by \in Caller /\ j.op \in Operation
  /\ j.pc # "wipe" => j.wipe = {}
  /\ j.pc = "wipe" => j.op \in {"remove", "empty", "move"} /\ j.key = None /\ j.to = None
  /\ j.pc \in {"write", "put"} => j.op = "upload"
  /\ j.pc = "copyBytes" => j.op \in {"move", "copy"}
  /\ j.pc = "commit" => j.op \in {"upload", "move", "copy"}
  /\ j.pc \in {"putFirst", "record"} => j.op = "uploadSigned"
  /\ j.pc = "client" => j.op = "presign"
  /\ j.pc = "bytes" => j.op = "get"
  /\ j.op = "upload" => j.to = None /\ j.mode \in {"insert", "upsert", "update"}
  /\ j.op = "get" => j.mode \in Route
  /\ j.op = "sign" /\ j.pc = "start" => j.mode \in {"download", "render"}
  /\ j.op \in {"move", "copy"} /\ j.pc # "wipe" => j.to \in Key
Writing(j) == j.pc \in {"put", "copyBytes", "commit"}
Carries(q, j) ==
  Writing(j) => /\ j.row \in ObjectRow /\ (j.op = "upload" => j.row.ver = q)
                /\ (j.op # "upload" => j.key # j.to)
Types ==
  /\ rows \in [Key -> ObjectRow \cup {None}]
  /\ bytes \in [Key -> {None, Torn, 0} \cup Slot]
  /\ lock \in [Key -> {0} \cup Slot]
  /\ tokens \subseteq Token /\ conf \in Setups /\ unsafe \subseteq Key /\ active \in 0..1
  /\ job \in [Slot -> Job]
Sound(q, j) == j \in Job /\ Follows(j) /\ Carries(q, j) /\ j.tok \in tokens \cup {None}
Jobs == \A q \in Slot : Sound(q, job[q])

(* The rows a transaction has written and not committed.                   *)
Rewrites(j) == IF ~Writing(j) THEN {} ELSE
               IF j.op = "upload" THEN {j.key} ELSE IF j.op = "move" THEN {j.key, j.to} ELSE {j.to}
LocksHeld == \A q \in Slot, k \in Key : k \in Rewrites(job[q]) <=> lock[k] = q
(* What was found when the rows were locked still holds.                   *)
Granted(j, k) ==
  CASE j.op = "upload" -> rows[k] # None => j.mode # "insert" /\ may(j.by, "update", k, rows[k].owner)
    [] OTHER -> rows[k] # None => may(j.by, "update", k, rows[k].owner)
GrantsStand == \A q \in Slot : \A k \in Rewrites(job[q]) : Granted(job[q], k)
ReadersMay == \A q \in Slot : On(q, "get", "bytes") => job[q].can
AccessInv == Types /\ Jobs /\ LocksHeld /\ GrantsStand /\ ReadersMay

Agree(k) == IF rows[k] = None THEN bytes[k] = None ELSE bytes[k] = rows[k].ver
(* The row and the bytes of a key differ while one request is between its  *)
(* two steps, and then one of them is known.                               *)
Dest(j) == IF j.op = "upload" THEN j.key ELSE j.to
Halfway(j, k) ==
  \/ j.pc = "commit" /\ k = Dest(j)
  \/ j.pc = "wipe" /\ k \in j.wipe
  \/ j.pc \in {"record", "client"} /\ k = j.key
HalfOf(q, k) ==
  LET j == job[q]
  IN CASE j.pc = "commit" -> bytes[k] = j.row.ver
       [] j.pc = "wipe"   -> rows[k] = None
       [] j.pc = "record" -> bytes[k] = q
       [] j.pc = "client" -> rows[k] # None /\ rows[k].ver = q
       [] OTHER -> TRUE
HalvesKnown ==
  \A k \in Key \ unsafe :
    /\ \A q \in Slot : Halfway(job[q], k) => HalfOf(q, k)
    /\ (\A q \in Slot : ~Halfway(job[q], k)) => Agree(k)
SourceStands ==
  \A q \in Slot : LET j == job[q] IN
    j.pc = "copyBytes" /\ j.key \notin unsafe => rows[j.key] # None /\ rows[j.key].ver = j.row.ver
ClashesKnown == Clash \subseteq unsafe
AgreeInv == AccessInv /\ ClashesKnown /\ SourceStands /\ HalvesKnown

----------------------------------------------------------------------------
(* Jobs.                                                                   *)
Finished == [NoJob EXCEPT !.pc = "done"]

LEMMA NoJobType == NoJob \in Job /\ NoJob.pc = "idle" /\ NoJob.op = "none" /\ NoJob.tok = None
                   /\ NoJob.key = None /\ NoJob.to = None /\ NoJob.wipe = {}
  BY DEF NoJob, Job, Operation, Pc, Mode

LEMMA PcShape ==
  ASSUME NEW j \in Job, NEW pc \in Pc
  PROVE  LET n == [j EXCEPT !.pc = pc]
         IN /\ n \in Job /\ n.pc = pc /\ n.op = j.op /\ n.by = j.by /\ n.key = j.key /\ n.to = j.to
            /\ n.mode = j.mode /\ n.row = j.row /\ n.wipe = j.wipe /\ n.tok = j.tok /\ n.can = j.can
  BY DEF Job

LEMMA FinishedType ==
  /\ Finished \in Job /\ Finished.pc = "done" /\ Finished.op = "none" /\ Finished.tok = None
  /\ Finished.key = None /\ Finished.to = None /\ Finished.wipe = {}
<1>1. "done" \in Pc
  BY DEF Pc
<1>2. QED
  BY <1>1, NoJobType, PcShape DEF Finished

LEMMA FinishedSound ==
  ASSUME NEW q \in Slot
  PROVE  Sound(q, Finished) /\ Sound(q, NoJob) /\ Sound(q, Finished)' /\ ~Writing(Finished) /\ ~Writing(NoJob)
  BY FinishedType, NoJobType DEF Sound, Follows, Carries, Writing

(* A step of q leaves every other job as it is.                            *)
Stays(q) == \A p \in Slot : p # q => job'[p] = job[p]

LEMMA StepShape ==
  ASSUME Types, NEW q \in Slot, NEW n \in Job, Step(q, n)
  PROVE  job' \in [Slot -> Job] /\ job'[q] = n /\ Stays(q)
  BY DEF Types, Step, Stays

LEMMA JobsStep ==
  ASSUME Types, Jobs, NEW q \in Slot, NEW n, Sound(q, n)', Step(q, n), tokens \subseteq tokens'
  PROVE  Jobs' /\ job' \in [Slot -> Job] /\ job'[q] = n /\ Stays(q)
<1>1. n \in Job
  BY DEF Sound
<1>2. job' \in [Slot -> Job] /\ job'[q] = n /\ Stays(q)
  BY <1>1, StepShape
<1>3. ASSUME NEW p \in Slot PROVE Sound(p, job[p])'
  BY <1>2, <1>3 DEF Jobs, Sound, Stays
<1>4. QED
  BY <1>2, <1>3 DEF Jobs

LEMMA MarkShape ==
  ASSUME NEW K \in SUBSET Key, Mark(K), unsafe \subseteq Key
  PROVE  unsafe \subseteq unsafe' /\ K \subseteq unsafe' /\ ClashesKnown' /\ unsafe' \subseteq Key
  BY DEF Mark, ClashesKnown, Clash

LEMMA EndShape ==
  ASSUME Types, Jobs, NEW q \in Slot, End(q), tokens \subseteq tokens'
  PROVE  Jobs' /\ job' \in [Slot -> Job] /\ job'[q] = Finished /\ Stays(q)
<1>1. Step(q, Finished)
  BY DEF End, Finished
<1>2. QED
  BY <1>1, FinishedSound, JobsStep

(* A job that only moves its program counter.                              *)
SameBut(q) ==
  LET n == job'[q]  j == job[q]
  IN n.op = j.op /\ n.by = j.by /\ n.key = j.key /\ n.to = j.to /\ n.mode = j.mode /\ n.row = j.row
     /\ n.wipe = j.wipe /\ n.tok = j.tok /\ n.can = j.can

LEMMA JobsKept ==
  ASSUME Types, Jobs, NEW q \in Slot, Stays(q), tokens \subseteq tokens', job' \in [Slot -> Job],
         Follows(job'[q]), Carries(q, job'[q]), job'[q].tok \in tokens' \cup {None}
  PROVE  Jobs'
<1>1. ASSUME NEW p \in Slot PROVE Sound(p, job[p])'
  <2>1. CASE p = q
    BY <1>1, <2>1 DEF Sound
  <2>2. CASE p # q
    BY <1>1, <2>2 DEF Jobs, Sound, Stays
  <2>3. QED
    BY <2>1, <2>2
<1>2. QED
  BY <1>1 DEF Jobs

LEMMA GotoShape ==
  ASSUME Types, Jobs, NEW q \in Slot, NEW pc \in Pc, Goto(q, pc)
  PROVE  job' \in [Slot -> Job] /\ job'[q].pc = pc /\ SameBut(q) /\ Stays(q)
<1> DEFINE n == [job[q] EXCEPT !.pc = pc]
<1>1. job[q] \in Job
  BY DEF Types
<1>2. /\ n \in Job /\ n.pc = pc /\ n.op = job[q].op /\ n.by = job[q].by /\ n.key = job[q].key
      /\ n.to = job[q].to /\ n.mode = job[q].mode /\ n.row = job[q].row /\ n.wipe = job[q].wipe
      /\ n.tok = job[q].tok /\ n.can = job[q].can
  BY <1>1, PcShape
<1>3. Step(q, n)
  BY DEF Goto
<1> HIDE DEF n
<1>4. job' \in [Slot -> Job] /\ job'[q] = n /\ Stays(q)
  BY <1>2, <1>3, StepShape
<1>5. QED
  BY <1>2, <1>4 DEF SameBut

----------------------------------------------------------------------------
(* The kinds of step.                                                      *)
Moves(q) ==
  /\ Types' /\ Jobs' /\ Stays(q) /\ conf' = conf
  /\ unsafe \subseteq unsafe' /\ ClashesKnown'
Resting == {"idle", "start", "write", "putFirst", "bytes", "done"}
Quiet(q) ==
  /\ UNCHANGED store /\ job[q].pc \in Resting /\ job'[q].pc \in Resting
  /\ On(q, "get", "bytes")' => job'[q].can
Locks(q) ==
  /\ UNCHANGED <<rows, bytes>>
  /\ job[q].pc \in {"start", "write"} /\ job'[q].pc \in {"put", "copyBytes"}
  /\ \A k \in Key : lock'[k] = IF k \in Rewrites(job'[q]) THEN q ELSE lock[k]
  /\ \A k \in Key : k \in Rewrites(job'[q]) => lock[k] = 0 /\ Granted(job'[q], k)
  /\ job'[q].pc = "copyBytes" =>
       rows[job'[q].key] # None /\ rows[job'[q].key].ver = job'[q].row.ver
Target(j) == IF j.pc = "putFirst" THEN j.key ELSE Dest(j)
Stores(q) ==
  /\ UNCHANGED <<rows, lock>> /\ job[q].pc \in {"put", "copyBytes", "putFirst"}
  /\ job'[q].pc = IF job[q].pc = "putFirst" THEN "record" ELSE "commit"
  /\ SameBut(q)
  /\ \A k \in Key : k # Target(job[q]) => bytes'[k] = bytes[k]
  /\ job[q].pc # "copyBytes" => bytes'[Target(job[q])] = q
  /\ job[q].pc = "copyBytes" =>
       /\ bytes[job[q].key] # None /\ bytes'[Target(job[q])] = bytes[job[q].key]
       /\ job[q].key \in unsafe => Target(job[q]) \in unsafe'
Abandons(q) ==
  /\ UNCHANGED rows /\ job[q].pc \in {"put", "copyBytes", "putFirst"} /\ job'[q] = Finished /\ Unlock(q)
  /\ \E k \in unsafe' : \A x \in Key : x # k => bytes'[x] = bytes[x]
New(j, k) == IF k = Dest(j) THEN j.row ELSE None
Commits(q) ==
  /\ UNCHANGED bytes /\ job[q].pc = "commit" /\ Unlock(q)
  /\ \A k \in Key : IF k \in Rewrites(job[q]) THEN rows'[k] \in {rows[k], New(job[q], k)} ELSE rows'[k] = rows[k]
  /\ \/ /\ \A k \in Rewrites(job[q]) : rows'[k] = New(job[q], k)
        /\ IF job[q].op = "move" THEN job'[q].pc = "wipe" /\ job'[q].wipe = {job[q].key} ELSE job'[q] = Finished
     \/ Rewrites(job[q]) \subseteq unsafe' /\ job'[q] = Finished
Deletes(q) ==
  /\ UNCHANGED <<bytes, lock>>
  /\ job[q].op \in {"remove", "empty"} /\ job[q].pc = "start" /\ job'[q].pc = "wipe"
  /\ \A k \in Key : IF k \in job'[q].wipe
                    THEN /\ rows'[k] = None /\ lock[k] = 0 /\ may(job[q].by, "delete", k, rows[k].owner)
                    ELSE rows'[k] = rows[k]
Wipes(q) ==
  /\ UNCHANGED <<rows, lock>> /\ job[q].pc = "wipe"
  /\ \E k \in job[q].wipe :
       /\ \A x \in Key : x # k => bytes'[x] = bytes[x]
       /\ bytes'[k] = None \/ k \in unsafe'
       /\ \/ job'[q] = Finished /\ job[q].wipe = {k}
          \/ job'[q].pc = "wipe" /\ job'[q].wipe = job[q].wipe \ {k}
Records(q) ==
  /\ UNCHANGED <<bytes, lock>> /\ job[q].pc = "record" /\ job'[q] = Finished
  /\ \A k \in Key : k # job[q].key => rows'[k] = rows[k]
  /\ LET k == job[q].key
     IN \/ lock[k] = 0 /\ rows'[k] # None /\ rows'[k].ver = q
        \/ rows'[k] = rows[k] /\ k \in unsafe'
Presigns(q) ==
  /\ UNCHANGED <<bytes, lock>> /\ job[q].pc = "start" /\ job[q].op = "presign" /\ job'[q].pc = "client" /\ SameBut(q)
  /\ \A k \in Key : k # job[q].key => rows'[k] = rows[k]
  /\ LET k == job[q].key IN lock[k] = 0 /\ rows[k] = None /\ rows'[k] # None /\ rows'[k].ver = q
ClientPuts(q) ==
  /\ UNCHANGED <<rows, lock>> /\ job[q].pc = "client" /\ job'[q] = Finished
  /\ \A k \in Key : k # job[q].key => bytes'[k] = bytes[k]
  /\ LET k == job[q].key IN bytes'[k] = q \/ k \in unsafe'
Acts(q) ==
  \/ Quiet(q) \/ Locks(q) \/ Stores(q) \/ Abandons(q) \/ Commits(q) \/ Deletes(q) \/ Wipes(q)
  \/ Records(q) \/ Presigns(q) \/ ClientPuts(q)
Turns == Types' /\ UNCHANGED <<store, tokens, job, conf, unsafe>>

LEMMA TypesKept ==
  ASSUME Types, conf' = conf, active' = active, job' \in [Slot -> Job], unsafe' \subseteq Key, tokens' \subseteq Token,
         rows' \in [Key -> ObjectRow \cup {None}], bytes' \in [Key -> {None, Torn, 0} \cup Slot],
         lock' \in [Key -> {0} \cup Slot]
  PROVE  Types'
  BY DEF Types

LEMMA NoMark ==
  ASSUME Mark({}), Types
  PROVE  unsafe \subseteq unsafe' /\ ClashesKnown' /\ unsafe' \subseteq Key
<1>1. {} \in SUBSET Key /\ unsafe \subseteq Key
  BY DEF Types
<1>2. QED
  BY <1>1, MarkShape

LEMMA QuietEnd ==
  ASSUME Types, Jobs, NEW q \in Slot, End(q), Mark({}), UNCHANGED <<store, active, conf>>,
         tokens \subseteq tokens', tokens' \subseteq Token, job[q].pc \in Resting
  PROVE  Moves(q) /\ Quiet(q)
<1>1. Jobs' /\ job' \in [Slot -> Job] /\ job'[q] = Finished /\ Stays(q)
  BY EndShape
<1>2. unsafe \subseteq unsafe' /\ ClashesKnown' /\ unsafe' \subseteq Key
  BY NoMark
<1>3. UNCHANGED <<rows, bytes, lock, conf, active>>
  BY DEF store
<1>4. Types'
  BY <1>1, <1>2, <1>3, TypesKept DEF Types
<1>5. job'[q].pc = "done"
  BY <1>1, FinishedType
<1>6. QED
  BY <1>1, <1>2, <1>3, <1>4, <1>5 DEF Moves, Quiet, Resting, On, store

LEMMA QuietGoto ==
  ASSUME Types, Jobs, NEW q \in Slot, NEW pc \in {"write", "putFirst"}, Goto(q, pc), Mark({}),
         UNCHANGED <<store, tokens, active, conf>>, job[q].pc = "start",
         job[q].op = IF pc = "write" THEN "upload" ELSE "uploadSigned"
  PROVE  Moves(q) /\ Quiet(q)
<1>0. pc \in Pc
  BY DEF Pc
<1>1. job' \in [Slot -> Job] /\ job'[q].pc = pc /\ SameBut(q) /\ Stays(q)
  BY <1>0, GotoShape
<1>2. unsafe \subseteq unsafe' /\ ClashesKnown' /\ unsafe' \subseteq Key
  BY NoMark
<1>3. UNCHANGED <<rows, bytes, lock, conf, active, tokens>>
  BY DEF store
<1>4. Types'
  BY <1>1, <1>2, <1>3, TypesKept DEF Types
<1>5. Follows(job[q]) /\ job[q].tok \in tokens \cup {None}
  BY DEF Jobs, Sound
<1>6. Follows(job'[q]) /\ Carries(q, job'[q]) /\ job'[q].tok \in tokens' \cup {None}
  BY <1>1, <1>3, <1>5 DEF SameBut, Follows, Carries, Writing
<1>7. Jobs'
  BY <1>1, <1>3, <1>6, JobsKept
<1>8. QED
  BY <1>1, <1>2, <1>3, <1>4, <1>7 DEF Moves, Quiet, Resting, On, store

(* Moves, from what a step does to each variable.                          *)
LEMMA MovesFrom ==
  ASSUME Types, Jobs, NEW q \in Slot, NEW K \in SUBSET Key, Mark(K), UNCHANGED <<tokens, active, conf>>,
         job' \in [Slot -> Job], Stays(q), Follows(job'[q]), Carries(q, job'[q]), job'[q].tok \in {job[q].tok, None},
         rows' \in [Key -> ObjectRow \cup {None}], bytes' \in [Key -> {None, Torn, 0} \cup Slot],
         lock' \in [Key -> {0} \cup Slot]
  PROVE  Moves(q) /\ K \subseteq unsafe'
<1>1. unsafe \subseteq unsafe' /\ K \subseteq unsafe' /\ ClashesKnown' /\ unsafe' \subseteq Key
  BY MarkShape DEF Types
<1>2. Types'
  BY <1>1, TypesKept DEF Types
<1>3. job[q].tok \in tokens \cup {None}
  BY DEF Jobs, Sound
<1>4. Jobs'
  BY <1>3, JobsKept
<1>5. QED
  BY <1>1, <1>2, <1>4 DEF Moves

(* A request that is over, with its locks released or never taken.         *)
LEMMA MovesToEnd ==
  ASSUME Types, Jobs, NEW q \in Slot, NEW K \in SUBSET Key, Mark(K), UNCHANGED <<tokens, active, conf>>, End(q),
         rows' \in [Key -> ObjectRow \cup {None}], bytes' \in [Key -> {None, Torn, 0} \cup Slot],
         lock' \in [Key -> {0} \cup Slot]
  PROVE  Moves(q) /\ K \subseteq unsafe' /\ job'[q] = Finished
<1>1. job' \in [Slot -> Job] /\ job'[q] = Finished /\ Stays(q)
  BY EndShape
<1>2. Follows(Finished) /\ Carries(q, Finished) /\ Finished.tok = None
  BY FinishedSound, FinishedType DEF Sound
<1>3. QED
  BY <1>1, <1>2, MovesFrom

LEMMA UnlockType ==
  ASSUME Types, NEW q \in Slot, Unlock(q)
  PROVE  lock' \in [Key -> {0} \cup Slot] /\ \A k \in Key : lock'[k] = IF lock[k] = q THEN 0 ELSE lock[k]
  BY DEF Types, Unlock

(* What a row may be replaced by.                                          *)
LEMMA RowType ==
  ASSUME NEW q \in Slot, NEW c
  PROVE  LET r == [owner |-> uploadedBy(c), ver |-> q] IN r \in ObjectRow /\ r.ver = q
  BY DEF uploadedBy, ObjectRow

LEMMA NoneIsNothing ==
  /\ None \notin Key /\ None \notin ObjectRow /\ None \notin Slot /\ None \notin Token /\ None \notin Caller
  /\ 0 \notin Slot /\ Slot \subseteq Nat
  BY StorageAssumption DEF Caller

----------------------------------------------------------------------------
(* Uploads.                                                                *)
LEMMA StepReadUpload ==
  ASSUME Types, Jobs, NEW q \in Slot, readUpload(q)
  PROVE  Moves(q) /\ Acts(q)
<1>1. /\ job[q].pc = "start" /\ job[q].op = "upload" /\ Mark({}) /\ UNCHANGED <<store, tokens, active, conf>>
      /\ End(q) \/ Goto(q, "write")
  BY DEF readUpload
<1>2. tokens' \subseteq Token
  BY <1>1 DEF Types
<1>3. Moves(q) /\ Quiet(q)
  BY <1>1, <1>2, QuietEnd, QuietGoto DEF Resting
<1>4. QED
  BY <1>3 DEF Acts

LEMMA StepDoUpload ==
  ASSUME Types, Jobs, NEW q \in Slot, doUpload(q)
  PROVE  Moves(q) /\ Acts(q)
<1> DEFINE j == job[q]
           r == [owner |-> uploadedBy(j.by), ver |-> q]
           n == [j EXCEPT !.pc = "put", !.row = r]
<1>1. /\ j.pc = "write" /\ j.op = "upload" /\ free({j.key}) /\ Mark({}) /\ UNCHANGED <<tokens, active, conf>>
      /\ rows' = rows /\ bytes' = bytes /\ unsafe \subseteq Key
  BY DEF doUpload, On, Types
<1>2. j \in Job /\ Follows(j) /\ rows \in [Key -> ObjectRow \cup {None}] /\ lock \in [Key -> {0} \cup Slot]
      /\ bytes \in [Key -> {None, Torn, 0} \cup Slot] /\ tokens \subseteq Token
  BY DEF Types, Jobs, Sound
<1>3. CASE End(q) /\ UNCHANGED lock
  <2>1. UNCHANGED <<store, active, conf>> /\ tokens \subseteq tokens' /\ tokens' \subseteq Token
    BY <1>1, <1>2, <1>3 DEF store
  <2>2. QED
    BY <1>1, <1>3, <2>1, QuietEnd DEF Resting, Acts
<1>4. CASE /\ writeObjectRow(j.by, j.key, j.mode)
           /\ lock' = [lock EXCEPT ![j.key] = q] /\ Step(q, n)
  <2>1. r \in ObjectRow /\ r.ver = q
    BY RowType
  <2>2. "put" \in Pc
    BY DEF Pc
  <2> HIDE DEF r
  <2>3. /\ n \in Job /\ n.pc = "put" /\ n.row = r /\ n.op = j.op /\ n.by = j.by /\ n.key = j.key /\ n.to = j.to
        /\ n.mode = j.mode /\ n.wipe = j.wipe /\ n.tok = j.tok
    BY <1>2, <2>1, <2>2 DEF Job
  <2> HIDE DEF n
  <2>4. job' \in [Slot -> Job] /\ job'[q] = n /\ Stays(q)
    BY <1>4, <2>3, StepShape
  <2>5. Follows(n) /\ Carries(q, n) /\ j.key \in Key
    BY <1>1, <1>2, <2>1, <2>3 DEF Follows, Carries, Writing
  <2>6. lock' \in [Key -> {0} \cup Slot]
    BY <1>2, <1>4
  <2>7. Moves(q)
    <3>1. {} \in SUBSET Key
      OBVIOUS
    <3>2. QED
      BY <1>1, <1>2, <2>3, <2>4, <2>5, <2>6, <3>1, MovesFrom
  <2>8. Rewrites(n) = {j.key}
    BY <1>1, <2>3 DEF Rewrites, Writing
  <2>9. Granted(n, j.key)
    <3>1. j.mode \in {"insert", "upsert", "update"}
      BY <1>1, <1>2 DEF Follows
    <3>2. rows[j.key] # None => j.mode # "insert" /\ may(j.by, "update", j.key, rows[j.key].owner)
      BY <1>4, <3>1 DEF writeObjectRow, changeable
    <3>3. QED
      BY <1>1, <2>3, <3>2 DEF Granted
  <2>10. Locks(q)
    BY <1>1, <1>2, <1>4, <2>3, <2>4, <2>5, <2>8, <2>9 DEF Locks, free
  <2>11. QED
    BY <2>7, <2>10 DEF Acts
<1>5. QED
  BY <1>3, <1>4 DEF doUpload

(* A store call that fails.                                                *)
LEMMA StepAbandon ==
  ASSUME Types, Jobs, NEW q \in Slot, NEW k \in Key, NEW v \in {None, Torn, 0} \cup Slot,
         Abandon(q, k, v), UNCHANGED <<rows, tokens, active, conf>>, job[q].pc \in {"put", "copyBytes", "putFirst"}
  PROVE  Moves(q) /\ Abandons(q)
<1>1. PICK b \in {bytes[k], Torn, v} : bytes' = [bytes EXCEPT ![k] = b] /\ Unlock(q) /\ End(q) /\ Mark({k})
  BY DEF Abandon
<1>2. /\ rows \in [Key -> ObjectRow \cup {None}] /\ bytes \in [Key -> {None, Torn, 0} \cup Slot]
      /\ {k} \in SUBSET Key
  BY DEF Types
<1>3. bytes' \in [Key -> {None, Torn, 0} \cup Slot] /\ \A x \in Key : x # k => bytes'[x] = bytes[x]
  BY <1>1, <1>2
<1>4. lock' \in [Key -> {0} \cup Slot]
  BY <1>1, UnlockType
<1>5. Moves(q) /\ {k} \subseteq unsafe' /\ job'[q] = Finished
  BY <1>1, <1>2, <1>3, <1>4, MovesToEnd
<1>6. QED
  BY <1>1, <1>3, <1>5 DEF Abandons

LEMMA StepUpload ==
  ASSUME Types, Jobs, NEW q \in Slot, Upload(q)
  PROVE  Moves(q) /\ Acts(q)
<1>1. job[q].pc = "put" /\ job[q].op = "upload" /\ UNCHANGED <<rows, tokens, active, conf>>
  BY DEF Upload, On
<1>2. /\ Sound(q, job[q]) /\ job[q].key \in Key /\ rows \in [Key -> ObjectRow \cup {None}]
      /\ lock \in [Key -> {0} \cup Slot] /\ bytes \in [Key -> {None, Torn, 0} \cup Slot]
  BY <1>1 DEF Types, Jobs, Sound, Follows
<1>3. CASE Abandon(q, job[q].key, q)
  BY <1>1, <1>2, <1>3, StepAbandon DEF Acts
<1>4. CASE bytes' = [bytes EXCEPT ![job[q].key] = q] /\ Goto(q, "commit") /\ Mark({}) /\ UNCHANGED lock
  <2>1. job' \in [Slot -> Job] /\ job'[q].pc = "commit" /\ SameBut(q) /\ Stays(q)
    BY <1>4, GotoShape DEF Pc
  <2>2. Follows(job'[q]) /\ Carries(q, job'[q]) /\ job'[q].tok = job[q].tok
    BY <1>1, <1>2, <2>1 DEF Sound, Follows, Carries, Writing, SameBut
  <2>3. bytes' \in [Key -> {None, Torn, 0} \cup Slot] /\ {} \in SUBSET Key
    BY <1>2, <1>4
  <2>4. Moves(q)
    BY <1>1, <1>2, <1>4, <2>1, <2>2, <2>3, MovesFrom
  <2>5. Stores(q)
    BY <1>1, <1>2, <1>4, <2>1 DEF Stores, Target, Dest
  <2>6. QED
    BY <2>4, <2>5 DEF Acts
<1>5. QED
  BY <1>3, <1>4 DEF Upload

LEMMA StepPutFirst ==
  ASSUME Types, Jobs, NEW q \in Slot, PutFirst(q)
  PROVE  Moves(q) /\ Acts(q)
<1>1. job[q].pc = "putFirst" /\ job[q].op = "uploadSigned" /\ UNCHANGED <<rows, tokens, active, conf>>
  BY DEF PutFirst, On
<1>2. /\ Sound(q, job[q]) /\ job[q].key \in Key /\ rows \in [Key -> ObjectRow \cup {None}]
      /\ lock \in [Key -> {0} \cup Slot] /\ bytes \in [Key -> {None, Torn, 0} \cup Slot]
  BY <1>1 DEF Types, Jobs, Sound, Follows
<1>3. CASE Abandon(q, job[q].key, q)
  BY <1>1, <1>2, <1>3, StepAbandon DEF Acts
<1>4. CASE bytes' = [bytes EXCEPT ![job[q].key] = q] /\ Goto(q, "record") /\ Mark({}) /\ UNCHANGED lock
  <2>1. job' \in [Slot -> Job] /\ job'[q].pc = "record" /\ SameBut(q) /\ Stays(q)
    BY <1>4, GotoShape DEF Pc
  <2>2. Follows(job'[q]) /\ Carries(q, job'[q]) /\ job'[q].tok = job[q].tok
    BY <1>1, <1>2, <2>1 DEF Sound, Follows, Carries, Writing, SameBut
  <2>3. bytes' \in [Key -> {None, Torn, 0} \cup Slot] /\ {} \in SUBSET Key
    BY <1>2, <1>4
  <2>4. Moves(q)
    BY <1>1, <1>2, <1>4, <2>1, <2>2, <2>3, MovesFrom
  <2>5. Stores(q)
    BY <1>1, <1>2, <1>4, <2>1 DEF Stores, Target
  <2>6. QED
    BY <2>4, <2>5 DEF Acts
<1>5. QED
  BY <1>3, <1>4 DEF PutFirst

LEMMA StepCopy ==
  ASSUME Types, Jobs, NEW q \in Slot, Copy(q)
  PROVE  Moves(q) /\ Acts(q)
<1>1. job[q].pc = "copyBytes" /\ UNCHANGED <<rows, tokens, active, conf>>
  BY DEF Copy
<1>2. /\ Sound(q, job[q]) /\ job[q].key \in Key /\ job[q].to \in Key /\ rows \in [Key -> ObjectRow \cup {None}]
      /\ lock \in [Key -> {0} \cup Slot] /\ bytes \in [Key -> {None, Torn, 0} \cup Slot]
      /\ job[q].op \in {"move", "copy"}
  BY <1>1 DEF Types, Jobs, Sound, Follows
<1>3. CASE Abandon(q, job[q].to, bytes[job[q].key])
  <2>1. bytes[job[q].key] \in {None, Torn, 0} \cup Slot
    BY <1>2
  <2>2. QED
    BY <1>1, <1>2, <1>3, <2>1, StepAbandon DEF Acts
<1>4. CASE /\ bytes[job[q].key] # None /\ bytes' = [bytes EXCEPT ![job[q].to] = bytes[job[q].key]]
           /\ Goto(q, "commit") /\ Mark(IF job[q].key \in unsafe THEN {job[q].to} ELSE {}) /\ UNCHANGED lock
  <2> DEFINE K == IF job[q].key \in unsafe THEN {job[q].to} ELSE {}
  <2>1. job' \in [Slot -> Job] /\ job'[q].pc = "commit" /\ SameBut(q) /\ Stays(q)
    BY <1>4, GotoShape DEF Pc
  <2>2. Follows(job'[q]) /\ Carries(q, job'[q]) /\ job'[q].tok = job[q].tok
    BY <1>1, <1>2, <2>1 DEF Sound, Follows, Carries, Writing, SameBut
  <2>3. bytes' \in [Key -> {None, Torn, 0} \cup Slot] /\ K \in SUBSET Key /\ Mark(K)
    BY <1>2, <1>4
  <2>4. Moves(q) /\ K \subseteq unsafe'
    <3> HIDE DEF K
    <3> QED BY <1>1, <1>2, <1>4, <2>1, <2>2, <2>3, MovesFrom
  <2>5. Stores(q)
    BY <1>1, <1>2, <1>4, <2>1, <2>4 DEF Stores, Target, Dest
  <2>6. QED
    BY <2>4, <2>5 DEF Acts
<1>5. QED
  BY <1>3, <1>4 DEF Copy

----------------------------------------------------------------------------
(* Commits and removals.                                                   *)
LEMMA WipeShape ==
  ASSUME Types, Jobs, NEW q \in Slot, NEW K \in SUBSET Key, WipeNext(q, K),
         job[q].op \in {"remove", "empty", "move"}, job[q].pc \notin {"idle", "done"}
  PROVE  /\ job' \in [Slot -> Job] /\ Stays(q) /\ job'[q].pc = "wipe" /\ job'[q].wipe = K
         /\ Follows(job'[q]) /\ Carries(q, job'[q]) /\ job'[q].tok = job[q].tok /\ job'[q].op = job[q].op
         /\ job'[q].key = None /\ job'[q].to = None
<1> DEFINE n == [job[q] EXCEPT !.pc = "wipe", !.wipe = K, !.key = None, !.to = None]
<1>1. job[q] \in Job /\ Follows(job[q])
  BY DEF Jobs, Sound
<1>2. "wipe" \in Pc
  BY DEF Pc
<1>3. /\ n \in Job /\ n.pc = "wipe" /\ n.wipe = K /\ n.key = None /\ n.to = None /\ n.op = job[q].op
      /\ n.by = job[q].by /\ n.tok = job[q].tok
  BY <1>1, <1>2 DEF Job
<1>4. Step(q, n)
  BY DEF WipeNext
<1> HIDE DEF n
<1>5. job' \in [Slot -> Job] /\ job'[q] = n /\ Stays(q)
  BY <1>3, <1>4, StepShape
<1>6. Follows(n) /\ Carries(q, n)
  BY <1>1, <1>3 DEF Follows, Carries, Writing
<1>7. QED
  BY <1>3, <1>5, <1>6

LEMMA WrittenShape ==
  ASSUME Types, Jobs, NEW q \in Slot, job[q].pc = "commit"
  PROVE  /\ Written(job[q]) \in [Key -> ObjectRow \cup {None}]
         /\ \A k \in Key : Written(job[q])[k] = IF k \in Rewrites(job[q]) THEN New(job[q], k) ELSE rows[k]
         /\ Rewrites(job[q]) \subseteq {job[q].key, job[q].to} \ {None}
         /\ {job[q].key, job[q].to} \ {None} \subseteq Key
<1> DEFINE j == job[q]
<1>1. /\ j.op \in {"upload", "move", "copy"} /\ j.key \in Key /\ j.row \in ObjectRow
      /\ j.op = "upload" => j.to = None
      /\ j.op # "upload" => j.to \in Key /\ j.key # j.to
      /\ rows \in [Key -> ObjectRow \cup {None}]
  BY DEF Types, Jobs, Sound, Follows, Carries, Writing
<1>2. None \notin Key
  BY NoneIsNothing
<1>3. CASE j.op = "upload"
  BY <1>1, <1>2, <1>3 DEF Written, Rewrites, New, Dest, Writing
<1>4. CASE j.op = "move"
  BY <1>1, <1>2, <1>4 DEF Written, Rewrites, New, Dest, Writing
<1>5. CASE j.op = "copy"
  BY <1>1, <1>2, <1>5 DEF Written, Rewrites, New, Dest, Writing
<1>6. QED
  BY <1>1, <1>3, <1>4, <1>5

LEMMA StepCommit ==
  ASSUME Types, Jobs, NEW q \in Slot, Commit(q)
  PROVE  Moves(q) /\ Acts(q)
<1> DEFINE j == job[q]
           W == Written(job[q])
<1>1. j.pc = "commit" /\ Unlock(q) /\ UNCHANGED <<bytes, tokens, active, conf>>
  BY DEF Commit
<1>2. /\ W \in [Key -> ObjectRow \cup {None}]
      /\ \A k \in Key : W[k] = IF k \in Rewrites(j) THEN New(j, k) ELSE rows[k]
      /\ Rewrites(j) \subseteq {j.key, j.to} \ {None} /\ {j.key, j.to} \ {None} \in SUBSET Key
  BY <1>1, WrittenShape
<1>3. /\ Sound(q, j) /\ j.key \in Key /\ rows \in [Key -> ObjectRow \cup {None}] /\ {j.key} \in SUBSET Key
      /\ bytes \in [Key -> {None, Torn, 0} \cup Slot] /\ {} \in SUBSET Key
  BY <1>1 DEF Types, Jobs, Sound, Follows
<1>4. lock' \in [Key -> {0} \cup Slot]
  BY <1>1, UnlockType
<1> HIDE DEF W
<1>5. CASE rows' = W /\ (IF j.op = "move" THEN WipeNext(q, {j.key}) ELSE End(q)) /\ Mark({})
  <2>1. rows' \in [Key -> ObjectRow \cup {None}] /\ bytes' \in [Key -> {None, Torn, 0} \cup Slot]
    BY <1>1, <1>2, <1>3, <1>5
  <2>2. CASE j.op = "move"
    <3>1. /\ job' \in [Slot -> Job] /\ Stays(q) /\ job'[q].pc = "wipe" /\ job'[q].wipe = {j.key}
          /\ Follows(job'[q]) /\ Carries(q, job'[q]) /\ job'[q].tok = j.tok
      BY <1>1, <1>3, <1>5, <2>2, WipeShape
    <3>2. Moves(q)
      BY <1>1, <1>3, <1>4, <1>5, <2>1, <3>1, MovesFrom
    <3>3. Commits(q)
      BY <1>1, <1>2, <1>5, <2>2, <3>1 DEF Commits
    <3>4. QED
      BY <3>2, <3>3 DEF Acts
  <2>3. CASE j.op # "move"
    <3>1. Moves(q) /\ job'[q] = Finished
      BY <1>1, <1>3, <1>4, <1>5, <2>1, <2>3, MovesToEnd
    <3>2. Commits(q)
      BY <1>1, <1>2, <1>5, <2>3, <3>1 DEF Commits
    <3>3. QED
      BY <3>1, <3>2 DEF Acts
  <2>4. QED
    BY <2>2, <2>3
<1>6. CASE rows' \in {rows, W} /\ End(q) /\ Mark({j.key, j.to} \ {None})
  <2>1. rows' \in [Key -> ObjectRow \cup {None}] /\ bytes' \in [Key -> {None, Torn, 0} \cup Slot]
    BY <1>1, <1>2, <1>3, <1>6
  <2>2. Moves(q) /\ {j.key, j.to} \ {None} \subseteq unsafe' /\ job'[q] = Finished
    BY <1>1, <1>2, <1>4, <1>6, <2>1, MovesToEnd
  <2>3. Commits(q)
    BY <1>1, <1>2, <1>6, <2>2 DEF Commits
  <2>4. QED
    BY <2>2, <2>3 DEF Acts
<1>7. QED
  BY <1>5, <1>6 DEF Commit, W

LEMMA StepDeleteRows ==
  ASSUME Types, Jobs, NEW q \in Slot, NEW K \in SUBSET Key, deleteRows(q, K),
         job[q].pc = "start", job[q].op \in {"remove", "empty"}
  PROVE  Moves(q) /\ Acts(q)
<1> DEFINE j == job[q]
           D == deletable(j.by, K)
<1>1. /\ free(D) /\ rows' = [k \in Key |-> IF k \in D THEN None ELSE rows[k]]
      /\ IF D = {} THEN End(q) ELSE WipeNext(q, D)
      /\ Mark({}) /\ UNCHANGED <<bytes, lock, tokens, active, conf>>
  BY DEF deleteRows
<1>2. D \in SUBSET Key /\ \A k \in D : rows[k] # None /\ may(j.by, "delete", k, rows[k].owner)
  BY DEF deletable, changeable, visible
<1>3. /\ rows \in [Key -> ObjectRow \cup {None}] /\ lock \in [Key -> {0} \cup Slot] /\ {} \in SUBSET Key
      /\ bytes \in [Key -> {None, Torn, 0} \cup Slot] /\ tokens \subseteq Token
  BY DEF Types
<1> HIDE DEF D
<1>4. CASE D = {}
  <2>1. rows' = rows
    BY <1>1, <1>3, <1>4
  <2>2. UNCHANGED <<store, active, conf>> /\ tokens \subseteq tokens' /\ tokens' \subseteq Token /\ End(q)
    BY <1>1, <1>3, <1>4, <2>1 DEF store
  <2>3. Moves(q) /\ Quiet(q)
    BY <1>1, <2>2, QuietEnd DEF Resting
  <2>4. QED
    BY <2>3 DEF Acts
<1>5. CASE D # {}
  <2>1. /\ job' \in [Slot -> Job] /\ Stays(q) /\ job'[q].pc = "wipe" /\ job'[q].wipe = D
        /\ Follows(job'[q]) /\ Carries(q, job'[q]) /\ job'[q].tok = j.tok
    BY <1>1, <1>2, <1>5, WipeShape
  <2>2. rows' \in [Key -> ObjectRow \cup {None}] /\ bytes' \in [Key -> {None, Torn, 0} \cup Slot]
        /\ lock' \in [Key -> {0} \cup Slot]
    BY <1>1, <1>3
  <2>3. Moves(q)
    BY <1>1, <1>3, <2>1, <2>2, MovesFrom
  <2>4. Deletes(q)
    BY <1>1, <1>2, <2>1 DEF Deletes, free
  <2>5. QED
    BY <2>3, <2>4 DEF Acts
<1>6. QED
  BY <1>4, <1>5

LEMMA StepDelete ==
  ASSUME Types, Jobs, NEW q \in Slot, deleteKeys(q) \/ emptyBucket(q)
  PROVE  Moves(q) /\ Acts(q)
<1>1. CASE deleteKeys(q)
  <2> DEFINE K == {k \in {job[q].key, job[q].to} \ {None} : anonMayReach(job[q].by, k)}
  <2>1. job[q].pc = "start" /\ job[q].op = "remove" /\ deleteRows(q, K)
    BY <1>1 DEF deleteKeys, On
  <2>2. job[q] \in Job
    BY DEF Types
  <2>3. K \in SUBSET Key
    BY <2>2 DEF Job
  <2>4. QED
    BY <2>1, <2>3, StepDeleteRows
<1>2. CASE emptyBucket(q)
  <2> DEFINE K == {k \in Key : BucketOf(k) = BucketOf(job[q].key)}
  <2>1. job[q].pc = "start" /\ job[q].op = "empty" /\ deleteRows(q, K) /\ K \in SUBSET Key
    BY <1>2 DEF emptyBucket, On
  <2>2. QED
    BY <2>1, StepDeleteRows
<1>3. QED
  BY <1>1, <1>2

LEMMA StepDeleteBytes ==
  ASSUME Types, Jobs, NEW q \in Slot, deleteBytes(q)
  PROVE  Moves(q) /\ Acts(q)
<1>1. job[q].pc = "wipe" /\ UNCHANGED <<rows, lock, tokens, active, conf>>
  BY DEF deleteBytes
<1>2. PICK k \in job[q].wipe :
        /\ IF job[q].wipe = {k} THEN End(q) ELSE Step(q, [job[q] EXCEPT !.wipe = @ \ {k}])
        /\ \/ bytes' = [bytes EXCEPT ![k] = None] /\ Mark({})
           \/ UNCHANGED bytes /\ Mark({k})
  BY DEF deleteBytes
<1>3. /\ Sound(q, job[q]) /\ job[q] \in Job /\ rows \in [Key -> ObjectRow \cup {None}]
      /\ lock \in [Key -> {0} \cup Slot] /\ bytes \in [Key -> {None, Torn, 0} \cup Slot]
  BY DEF Types, Jobs, Sound
<1>4. k \in Key /\ job[q].wipe \in SUBSET Key
  BY <1>2, <1>3 DEF Job
<1>5. PICK K \in SUBSET Key : /\ Mark(K) /\ (bytes'[k] = None \/ k \in K)
                              /\ \A x \in Key : x # k => bytes'[x] = bytes[x]
                              /\ bytes' \in [Key -> {None, Torn, 0} \cup Slot]
  <2>1. CASE bytes' = [bytes EXCEPT ![k] = None] /\ Mark({})
    <3>1. {} \in SUBSET Key
      OBVIOUS
    <3>2. /\ bytes'[k] = None /\ \A x \in Key : x # k => bytes'[x] = bytes[x]
          /\ bytes' \in [Key -> {None, Torn, 0} \cup Slot]
      BY <1>3, <1>4, <2>1
    <3>3. QED
      BY <2>1, <3>1, <3>2
  <2>2. CASE UNCHANGED bytes /\ Mark({k})
    <3>1. {k} \in SUBSET Key
      BY <1>4
    <3>2. QED
      BY <1>3, <2>2, <3>1
  <2>3. QED
    BY <1>2, <2>1, <2>2
<1>6. CASE job[q].wipe = {k}
  <2>1. Moves(q) /\ K \subseteq unsafe' /\ job'[q] = Finished
    BY <1>1, <1>2, <1>3, <1>5, <1>6, MovesToEnd
  <2>2. Wipes(q)
    BY <1>1, <1>2, <1>5, <1>6, <2>1 DEF Wipes
  <2>3. QED
    BY <2>1, <2>2 DEF Acts
<1>7. CASE job[q].wipe # {k}
  <2> DEFINE n == [job[q] EXCEPT !.wipe = @ \ {k}]
  <2>1. /\ n \in Job /\ n.wipe = job[q].wipe \ {k} /\ n.pc = "wipe" /\ n.op = job[q].op /\ n.by = job[q].by
        /\ n.key = job[q].key /\ n.to = job[q].to /\ n.tok = job[q].tok /\ n.mode = job[q].mode
    BY <1>1, <1>3, <1>4 DEF Job
  <2>2. Step(q, n)
    BY <1>2, <1>7
  <2> HIDE DEF n
  <2>3. job' \in [Slot -> Job] /\ job'[q] = n /\ Stays(q)
    BY <2>1, <2>2, StepShape
  <2>4. Follows(n) /\ Carries(q, n)
    BY <1>1, <1>3, <2>1 DEF Sound, Follows, Carries, Writing
  <2>5. Moves(q) /\ K \subseteq unsafe'
    BY <1>1, <1>3, <1>5, <2>1, <2>3, <2>4, MovesFrom
  <2>6. Wipes(q)
    BY <1>1, <1>2, <1>5, <2>1, <2>3, <2>5 DEF Wipes
  <2>7. QED
    BY <2>5, <2>6 DEF Acts
<1>8. QED
  BY <1>6, <1>7

----------------------------------------------------------------------------
(* Moves and copies.                                                       *)
LEMMA CopyBytesShape ==
  ASSUME Types, Jobs, NEW q \in Slot, NEW r \in ObjectRow, Step(q, [job[q] EXCEPT !.pc = "copyBytes", !.row = r]),
         job[q].pc = "start", job[q].op \in {"move", "copy"}, job[q].key # job[q].to
  PROVE  /\ job' \in [Slot -> Job] /\ Stays(q) /\ job'[q].pc = "copyBytes" /\ job'[q].row = r
         /\ Follows(job'[q]) /\ Carries(q, job'[q]) /\ job'[q].tok = job[q].tok /\ job'[q].op = job[q].op
         /\ job'[q].key = job[q].key /\ job'[q].to = job[q].to /\ job'[q].by = job[q].by
<1> DEFINE n == [job[q] EXCEPT !.pc = "copyBytes", !.row = r]
<1>1. job[q] \in Job /\ Follows(job[q])
  BY DEF Jobs, Sound
<1>2. "copyBytes" \in Pc
  BY DEF Pc
<1>3. /\ n \in Job /\ n.pc = "copyBytes" /\ n.row = r /\ n.key = job[q].key /\ n.to = job[q].to /\ n.op = job[q].op
      /\ n.by = job[q].by /\ n.tok = job[q].tok /\ n.wipe = job[q].wipe /\ n.mode = job[q].mode
  BY <1>1, <1>2 DEF Job
<1> HIDE DEF n
<1>4. job' \in [Slot -> Job] /\ job'[q] = n /\ Stays(q)
  BY <1>3, StepShape DEF n
<1>5. Follows(n) /\ Carries(q, n)
  BY <1>1, <1>3 DEF Follows, Carries, Writing
<1>6. QED
  BY <1>3, <1>4, <1>5

LEMMA StepMove ==
  ASSUME Types, Jobs, NEW q \in Slot, moveObject(q)
  PROVE  Moves(q) /\ Acts(q)
<1> DEFINE j == job[q]
<1>1. j.pc = "start" /\ j.op = "move" /\ Mark({}) /\ UNCHANGED <<rows, bytes, tokens, active, conf>>
  BY DEF moveObject, On
<1>2. /\ Sound(q, j) /\ j.key \in Key /\ j.to \in Key /\ rows \in [Key -> ObjectRow \cup {None}]
      /\ lock \in [Key -> {0} \cup Slot] /\ bytes \in [Key -> {None, Torn, 0} \cup Slot]
      /\ {} \in SUBSET Key /\ tokens \subseteq Token
  BY <1>1 DEF Types, Jobs, Sound, Follows
<1>3. CASE End(q) /\ UNCHANGED lock
  <2>1. UNCHANGED <<store, active, conf>> /\ tokens \subseteq tokens' /\ tokens' \subseteq Token
    BY <1>1, <1>2, <1>3 DEF store
  <2>2. QED
    BY <1>1, <1>3, <2>1, QuietEnd DEF Resting, Acts
<1>4. CASE /\ j.key # j.to /\ free({j.key, j.to}) /\ movable(j.by, j.key, j.to)
           /\ lock' = [lock EXCEPT ![j.key] = q, ![j.to] = q]
           /\ Step(q, [j EXCEPT !.pc = "copyBytes", !.row = rows[j.key]])
  <2>1. /\ rows[j.key] # None /\ rows[j.key] \in ObjectRow /\ may(j.by, "update", j.key, rows[j.key].owner)
        /\ rows[j.to] = None
    BY <1>2, <1>4 DEF movable, changeable, visible
  <2>2. /\ job' \in [Slot -> Job] /\ Stays(q) /\ job'[q].pc = "copyBytes" /\ job'[q].row = rows[j.key]
        /\ Follows(job'[q]) /\ Carries(q, job'[q]) /\ job'[q].tok = j.tok /\ job'[q].op = j.op
        /\ job'[q].key = j.key /\ job'[q].to = j.to /\ job'[q].by = j.by
    BY <1>1, <1>4, <2>1, CopyBytesShape
  <2>3. /\ lock' \in [Key -> {0} \cup Slot]
        /\ \A k \in Key : lock'[k] = IF k \in {j.key, j.to} THEN q ELSE lock[k]
    BY <1>2, <1>4
  <2>4. Moves(q)
    BY <1>1, <1>2, <2>2, <2>3, MovesFrom
  <2>5. Rewrites(job'[q]) = {j.key, j.to}
    BY <1>1, <2>2 DEF Rewrites, Writing
  <2>6. \A k \in {j.key, j.to} : Granted(job'[q], k)
    BY <1>1, <2>1, <2>2 DEF Granted
  <2>7. Locks(q)
    BY <1>1, <1>4, <2>1, <2>2, <2>3, <2>5, <2>6 DEF Locks, free
  <2>8. QED
    BY <2>4, <2>7 DEF Acts
<1>5. QED
  BY <1>3, <1>4 DEF moveObject

LEMMA StepCopyObject ==
  ASSUME Types, Jobs, NEW q \in Slot, copyObject(q)
  PROVE  Moves(q) /\ Acts(q)
<1> DEFINE j == job[q]
           r == [rows[j.key] EXCEPT !.owner = uploadedBy(j.by)]
<1>1. j.pc = "start" /\ j.op = "copy" /\ Mark({}) /\ UNCHANGED <<rows, bytes, tokens, active, conf>>
  BY DEF copyObject, On
<1>2. /\ Sound(q, j) /\ j.key \in Key /\ j.to \in Key /\ rows \in [Key -> ObjectRow \cup {None}]
      /\ lock \in [Key -> {0} \cup Slot] /\ bytes \in [Key -> {None, Torn, 0} \cup Slot]
      /\ {} \in SUBSET Key /\ tokens \subseteq Token
  BY <1>1 DEF Types, Jobs, Sound, Follows
<1>3. CASE End(q) /\ UNCHANGED lock
  <2>1. UNCHANGED <<store, active, conf>> /\ tokens \subseteq tokens' /\ tokens' \subseteq Token
    BY <1>1, <1>2, <1>3 DEF store
  <2>2. QED
    BY <1>1, <1>3, <2>1, QuietEnd DEF Resting, Acts
<1>4. CASE /\ j.key # j.to /\ free({j.to}) /\ copiable(j.by, j.key, j.to)
           /\ lock' = [lock EXCEPT ![j.to] = q]
           /\ Step(q, [j EXCEPT !.pc = "copyBytes", !.row = r])
  <2>1. /\ rows[j.key] # None /\ rows[j.key] \in ObjectRow
        /\ rows[j.to] # None => may(j.by, "update", j.to, rows[j.to].owner)
    BY <1>2, <1>4 DEF copiable, writeObjectRow, changeable, visible
  <2>2. r \in ObjectRow /\ r.ver = rows[j.key].ver
    <3>1. uploadedBy(j.by) \in User \cup {None}
      BY DEF uploadedBy
    <3>2. QED
      BY <2>1, <3>1 DEF ObjectRow
  <2> HIDE DEF r
  <2>3. /\ job' \in [Slot -> Job] /\ Stays(q) /\ job'[q].pc = "copyBytes" /\ job'[q].row = r
        /\ Follows(job'[q]) /\ Carries(q, job'[q]) /\ job'[q].tok = j.tok /\ job'[q].op = j.op
        /\ job'[q].key = j.key /\ job'[q].to = j.to /\ job'[q].by = j.by
    BY <1>1, <1>4, <2>2, CopyBytesShape
  <2>4. /\ lock' \in [Key -> {0} \cup Slot]
        /\ \A k \in Key : lock'[k] = IF k \in {j.to} THEN q ELSE lock[k]
    BY <1>2, <1>4
  <2>5. Moves(q)
    BY <1>1, <1>2, <2>3, <2>4, MovesFrom
  <2>6. Rewrites(job'[q]) = {j.to}
    BY <1>1, <2>3 DEF Rewrites, Writing
  <2>7. Granted(job'[q], j.to)
    BY <1>1, <2>1, <2>3 DEF Granted
  <2>8. Locks(q)
    BY <1>1, <1>4, <2>1, <2>2, <2>3, <2>4, <2>6, <2>7 DEF Locks, free
  <2>9. QED
    BY <2>5, <2>8 DEF Acts
<1>5. QED
  BY <1>3, <1>4 DEF copyObject, r

----------------------------------------------------------------------------
(* Signed URLs and reads.                                                  *)
LEMMA StepSignWith ==
  ASSUME Types, Jobs, NEW q \in Slot, NEW for \in {"download", "render", "upload"}, NEW K \in SUBSET Key,
         sign(q, for, K), job[q].pc = "start"
  PROVE  Moves(q) /\ Acts(q)
<1> DEFINE S == {[for |-> for, key |-> k, by |-> job[q].by, upsert |-> job[q].mode = "upsert", epoch |-> active] : k \in K}
<1>1. tokens' = tokens \cup S /\ End(q) /\ Mark({}) /\ UNCHANGED <<store, active, conf>>
  BY DEF sign
<1>2. job[q].by \in Caller /\ active \in 0..1 /\ tokens \subseteq Token
  BY DEF Types, Jobs, Sound, Follows
<1>3. S \subseteq Token
  <2> DEFINE up == job[q].mode = "upsert"
  <2>1. up \in BOOLEAN
    OBVIOUS
  <2> HIDE DEF up
  <2>2. \A k \in K : [for |-> for, key |-> k, by |-> job[q].by, upsert |-> up, epoch |-> active] \in Token
    BY <1>2, <2>1 DEF Token
  <2>3. QED
    BY <2>2 DEF up
<1>4. tokens \subseteq tokens' /\ tokens' \subseteq Token
  BY <1>1, <1>2, <1>3
<1>5. QED
  BY <1>1, <1>4, QuietEnd DEF Resting, Acts

LEMMA StepSign ==
  ASSUME Types, Jobs, NEW q \in Slot, createSignedURL(q) \/ createSignedURLs(q) \/ createSignedUploadURL(q)
  PROVE  Moves(q) /\ Acts(q)
<1>0. job[q] \in Job /\ Follows(job[q])
  BY DEF Jobs, Sound
<1>1. CASE createSignedURL(q)
  <2> DEFINE K == reachable(job[q].by, {job[q].key})
  <2>1. job[q].pc = "start" /\ job[q].op = "sign" /\ sign(q, job[q].mode, K)
    BY <1>1 DEF createSignedURL, On
  <2>2. job[q].mode \in {"download", "render", "upload"} /\ K \in SUBSET Key
    BY <1>0, <2>1 DEF Follows, reachable
  <2>3. QED
    BY <2>1, <2>2, StepSignWith
<1>2. CASE createSignedURLs(q)
  <2>1. job[q].pc = "start" /\ sign(q, "download", reachable(job[q].by, Key))
    BY <1>2 DEF createSignedURLs, On
  <2>2. reachable(job[q].by, Key) \in SUBSET Key
    BY DEF reachable
  <2>3. QED
    BY <2>1, <2>2, StepSignWith
<1>3. CASE createSignedUploadURL(q)
  <2> DEFINE j == job[q]
             K == {k \in {j.key} : anonMayReach(j.by, k) /\ writeObjectRow(j.by, k, j.mode)}
  <2>1. j.pc = "start" /\ sign(q, "upload", K)
    BY <1>3 DEF createSignedUploadURL, On
  <2>2. K \in SUBSET Key
    BY <1>0, <2>1 DEF Follows
  <2>3. QED
    BY <2>1, <2>2, StepSignWith
<1>4. QED
  BY <1>1, <1>2, <1>3

LEMMA StepUploadToSigned ==
  ASSUME Types, Jobs, NEW q \in Slot, uploadToSignedURL(q)
  PROVE  Moves(q) /\ Acts(q)
<1>1. /\ job[q].pc = "start" /\ job[q].op = "uploadSigned" /\ Mark({}) /\ UNCHANGED <<store, tokens, active, conf>>
      /\ End(q) \/ Goto(q, "putFirst")
  BY DEF uploadToSignedURL, On
<1>2. tokens' \subseteq Token
  BY <1>1 DEF Types
<1>3. Moves(q) /\ Quiet(q)
  BY <1>1, <1>2, QuietEnd, QuietGoto DEF Resting
<1>4. QED
  BY <1>3 DEF Acts

LEMMA StepRecord ==
  ASSUME Types, Jobs, NEW q \in Slot, RecordSigned(q)
  PROVE  Moves(q) /\ Acts(q)
<1> DEFINE k == job[q].key
           r == [owner |-> uploadedBy(job[q].tok.by), ver |-> q]
<1>1. job[q].pc = "record" /\ UNCHANGED <<bytes, lock, tokens, active, conf>>
  BY DEF RecordSigned, On
<1>2. /\ Sound(q, job[q]) /\ k \in Key /\ rows \in [Key -> ObjectRow \cup {None}]
      /\ lock \in [Key -> {0} \cup Slot] /\ bytes \in [Key -> {None, Torn, 0} \cup Slot]
      /\ {} \in SUBSET Key /\ {k} \in SUBSET Key
  BY <1>1 DEF Types, Jobs, Sound, Follows
<1>3. r \in ObjectRow /\ r.ver = q /\ r # None
  BY RowType, NoneIsNothing
<1>4. CASE free({k}) /\ rows' = [rows EXCEPT ![k] = r] /\ End(q) /\ Mark({})
  <2> HIDE DEF r
  <2>1. /\ rows' \in [Key -> ObjectRow \cup {None}] /\ rows'[k] = r
        /\ \A x \in Key : x # k => rows'[x] = rows[x]
    BY <1>2, <1>3, <1>4
  <2>2. Moves(q) /\ job'[q] = Finished
    BY <1>1, <1>2, <1>4, <2>1, MovesToEnd
  <2>3. Records(q)
    BY <1>1, <1>3, <1>4, <2>1, <2>2 DEF Records, free
  <2>4. QED
    BY <2>2, <2>3 DEF Acts
<1>5. CASE End(q) /\ Mark({k}) /\ UNCHANGED rows
  <2>1. Moves(q) /\ {k} \subseteq unsafe' /\ job'[q] = Finished
    BY <1>1, <1>2, <1>5, MovesToEnd
  <2>2. Records(q)
    BY <1>1, <1>5, <2>1 DEF Records
  <2>3. QED
    BY <2>1, <2>2 DEF Acts
<1>6. QED
  BY <1>4, <1>5 DEF RecordSigned

LEMMA StepPresign ==
  ASSUME Types, Jobs, NEW q \in Slot, handleSignUpload(q)
  PROVE  Moves(q) /\ Acts(q)
<1> DEFINE j == job[q]
           r == [owner |-> uploadedBy(j.by), ver |-> q]
<1>1. j.pc = "start" /\ j.op = "presign" /\ free({j.key}) /\ Mark({}) /\ UNCHANGED <<bytes, lock, tokens, active, conf>>
  BY DEF handleSignUpload, On
<1>2. /\ Sound(q, job[q]) /\ j.key \in Key /\ rows \in [Key -> ObjectRow \cup {None}]
      /\ lock \in [Key -> {0} \cup Slot] /\ bytes \in [Key -> {None, Torn, 0} \cup Slot]
      /\ {} \in SUBSET Key /\ tokens \subseteq Token
  BY <1>1 DEF Types, Jobs, Sound, Follows
<1>3. r \in ObjectRow /\ r.ver = q /\ r # None
  BY RowType, NoneIsNothing
<1>4. CASE writeObjectRow(j.by, j.key, "insert") /\ rows' = [rows EXCEPT ![j.key] = r] /\ Goto(q, "client")
  <2>1. rows[j.key] = None
    BY <1>4 DEF writeObjectRow
  <2> HIDE DEF r
  <2>2. /\ rows' \in [Key -> ObjectRow \cup {None}] /\ rows'[j.key] = r
        /\ \A x \in Key : x # j.key => rows'[x] = rows[x]
    BY <1>2, <1>3, <1>4
  <2>3. job' \in [Slot -> Job] /\ job'[q].pc = "client" /\ SameBut(q) /\ Stays(q)
    BY <1>4, GotoShape DEF Pc
  <2>4. Follows(job'[q]) /\ Carries(q, job'[q]) /\ job'[q].tok = job[q].tok
    BY <1>1, <1>2, <2>3 DEF Sound, Follows, Carries, Writing, SameBut
  <2>5. Moves(q)
    BY <1>1, <1>2, <2>2, <2>3, <2>4, MovesFrom
  <2>6. Presigns(q)
    BY <1>1, <1>3, <2>1, <2>2, <2>3 DEF Presigns, free
  <2>7. QED
    BY <2>5, <2>6 DEF Acts
<1>5. CASE End(q) /\ UNCHANGED rows
  <2>1. UNCHANGED <<store, active, conf>> /\ tokens \subseteq tokens' /\ tokens' \subseteq Token
    BY <1>1, <1>2, <1>5 DEF store
  <2>2. QED
    BY <1>1, <1>5, <2>1, QuietEnd DEF Resting, Acts
<1>6. QED
  BY <1>4, <1>5 DEF handleSignUpload

LEMMA StepClientPut ==
  ASSUME Types, Jobs, NEW q \in Slot, ClientPut(q)
  PROVE  Moves(q) /\ Acts(q)
<1> DEFINE k == job[q].key
<1>1. job[q].pc = "client" /\ End(q) /\ UNCHANGED <<rows, lock, tokens, active, conf>>
  BY DEF ClientPut, On
<1>2. /\ Sound(q, job[q]) /\ k \in Key /\ rows \in [Key -> ObjectRow \cup {None}]
      /\ lock \in [Key -> {0} \cup Slot] /\ bytes \in [Key -> {None, Torn, 0} \cup Slot]
      /\ {} \in SUBSET Key /\ {k} \in SUBSET Key
  BY <1>1 DEF Types, Jobs, Sound, Follows
<1>3. CASE bytes' = [bytes EXCEPT ![k] = q] /\ Mark({})
  <2>1. bytes' \in [Key -> {None, Torn, 0} \cup Slot] /\ bytes'[k] = q /\ \A x \in Key : x # k => bytes'[x] = bytes[x]
    BY <1>2, <1>3
  <2>2. Moves(q) /\ job'[q] = Finished
    BY <1>1, <1>2, <1>3, <2>1, MovesToEnd
  <2>3. QED
    BY <1>1, <2>1, <2>2 DEF ClientPuts, Acts
<1>4. CASE UNCHANGED bytes /\ Mark({k})
  <2>1. Moves(q) /\ {k} \subseteq unsafe' /\ job'[q] = Finished
    BY <1>1, <1>2, <1>4, MovesToEnd
  <2>2. QED
    BY <1>1, <1>4, <2>1 DEF ClientPuts, Acts
<1>5. QED
  BY <1>3, <1>4 DEF ClientPut

(* Whoever gets at the bytes by a route is entitled to them.               *)
LEMMA DispatchEntitles ==
  ASSUME Types, Jobs, NEW q \in Slot, job[q].op = "get", objectGetDispatch(job[q]), job[q].mode \in Route
  PROVE  entitled(job[q])
<1> DEFINE j == job[q]
<1>1. j.tok # None => j.tok \in tokens
  BY DEF Jobs, Sound
<1>2. \/ publicOnly(j) \/ callerMayReach(j) \/ verifyToken(j.tok, "download", j.key)
      \/ verifyToken(j.tok, "render", j.key)
  BY DEF objectGetDispatch, Route, redeemSignedURL, redeemRenderURL, verifyRenderToken, objectInfo, headObject,
         handleSignDownload
<1>3. QED
  BY <1>1, <1>2 DEF entitled, publicOnly, callerMayReach, verifyToken

LEMMA StepServe ==
  ASSUME Types, Jobs, NEW q \in Slot, serveObject(q)
  PROVE  Moves(q) /\ Acts(q)
<1> DEFINE j == job[q]
<1>1. j.pc = "start" /\ j.op = "get" /\ Mark({}) /\ UNCHANGED <<store, tokens, active, conf>>
  BY DEF serveObject, On
<1>2. /\ Sound(q, j) /\ j \in Job /\ j.mode \in Route /\ tokens \subseteq Token /\ {} \in SUBSET Key
      /\ rows \in [Key -> ObjectRow \cup {None}]
      /\ lock \in [Key -> {0} \cup Slot] /\ bytes \in [Key -> {None, Torn, 0} \cup Slot]
  BY <1>1 DEF Types, Jobs, Sound, Follows
<1>3. CASE End(q)
  <2>1. UNCHANGED <<store, active, conf>> /\ tokens \subseteq tokens' /\ tokens' \subseteq Token
    BY <1>1, <1>2
  <2>2. QED
    BY <1>1, <1>3, <2>1, QuietEnd DEF Resting, Acts
<1>4. CASE objectGetDispatch(j) /\ Step(q, [j EXCEPT !.pc = "bytes", !.can = entitled(j)])
  <2>1. entitled(j)
    BY <1>1, <1>2, <1>4, DispatchEntitles
  <2> DEFINE e == entitled(j)
             n == [j EXCEPT !.pc = "bytes", !.can = e]
  <2>2. Step(q, n) /\ e = TRUE
    BY <1>4, <2>1
  <2> HIDE DEF e
  <2>3. "bytes" \in Pc
    BY DEF Pc
  <2>4. /\ n \in Job /\ n.pc = "bytes" /\ n.can /\ n.key = j.key /\ n.to = j.to /\ n.op = j.op
        /\ n.by = j.by /\ n.tok = j.tok /\ n.wipe = j.wipe /\ n.mode = j.mode
    BY <1>2, <2>2, <2>3 DEF Job
  <2> HIDE DEF n
  <2>5. job' \in [Slot -> Job] /\ job'[q] = n /\ Stays(q)
    BY <2>2, <2>4, StepShape
  <2>6. Follows(n) /\ Carries(q, n)
    BY <1>1, <1>2, <2>4 DEF Sound, Follows, Carries, Writing
  <2>7. UNCHANGED <<rows, bytes, lock>>
    BY <1>1 DEF store
  <2>8. Moves(q)
    BY <1>1, <1>2, <2>4, <2>5, <2>6, <2>7, MovesFrom
  <2>9. Quiet(q)
    BY <1>1, <2>4, <2>5 DEF Quiet, Resting, On
  <2>10. QED
    BY <2>8, <2>9 DEF Acts
<1>5. QED
  BY <1>3, <1>4 DEF serveObject

LEMMA StepDownload ==
  ASSUME Types, Jobs, NEW q \in Slot, Download(q)
  PROVE  Moves(q) /\ Acts(q)
<1>1. /\ job[q].pc = "bytes" /\ End(q) /\ Mark({}) /\ UNCHANGED <<store, active, conf>>
      /\ tokens' = tokens
  BY DEF Download, On
<1>2. tokens \subseteq tokens' /\ tokens' \subseteq Token
  BY <1>1 DEF Types
<1>3. QED
  BY <1>1, <1>2, QuietEnd DEF Resting, Acts

LEMMA ModesType ==
  ASSUME NEW op \in Operation, NEW m \in Modes(op)
  PROVE  /\ m \in Mode /\ (op = "upload" => m \in {"insert", "upsert", "update"}) /\ (op = "get" => m \in Route)
         /\ op = "sign" => m \in {"download", "render"}
<1>1. CASE op = "upload"
  BY <1>1 DEF Modes, Mode
<1>2. CASE op = "sign"
  BY <1>2 DEF Modes, Mode
<1>3. CASE op = "signUpload"
  BY <1>3 DEF Modes, Mode
<1>4. CASE op = "get"
  BY <1>4 DEF Modes, Mode
<1>5. CASE op \notin {"upload", "sign", "signUpload", "get"}
  BY <1>5 DEF Modes, Mode
<1>6. QED
  BY <1>1, <1>2, <1>3, <1>4, <1>5

LEMMA StepArrives ==
  ASSUME Types, Jobs, NEW q \in Slot, NEW op \in conf.ops \ {"rotate"}, Arrives(q, op)
  PROVE  Moves(q) /\ Acts(q)
<1> DEFINE j == job[q]
<1>1. op \in Operation
  BY StorageAssumption DEF Types
<1>2. PICK c \in Caller, k \in Key, m \in Modes(op),
           to \in IF op \in {"move", "copy"} THEN Key ELSE IF op = "remove" THEN Key \cup {None} ELSE {None},
           t \in IF op \in {"get", "uploadSigned"} THEN tokens \cup {None} ELSE {None} :
         Step(q, [job[q] EXCEPT !.pc = "start", !.op = op, !.by = c, !.key = k, !.to = to, !.mode = m, !.tok = t])
  BY ZenonT(60) DEF Arrives
<1> DEFINE n == [j EXCEPT !.pc = "start", !.op = op, !.by = c, !.key = k, !.to = to, !.mode = m, !.tok = t]
<1>3. /\ j.pc = "idle" /\ Mark({}) /\ UNCHANGED <<tokens, active, conf>> /\ UNCHANGED <<rows, bytes, lock>>
      /\ UNCHANGED store
  BY DEF Arrives, store
<1>4. /\ Sound(q, j) /\ j \in Job /\ tokens \subseteq Token /\ {} \in SUBSET Key
      /\ rows \in [Key -> ObjectRow \cup {None}]
      /\ lock \in [Key -> {0} \cup Slot] /\ bytes \in [Key -> {None, Torn, 0} \cup Slot]
  BY DEF Types, Jobs, Sound
<1>5. /\ m \in Mode /\ (op = "upload" => m \in {"insert", "upsert", "update"}) /\ (op = "get" => m \in Route)
      /\ op = "sign" => m \in {"download", "render"}
  BY <1>1, ModesType
<1>6. to \in Key \cup {None} /\ (op = "upload" => to = None) /\ (op \in {"move", "copy"} => to \in Key)
  OBVIOUS
<1>7. t \in tokens \cup {None} /\ t \in Token \cup {None}
  BY <1>4
<1>8. "start" \in Pc
  BY DEF Pc
<1>9. /\ n \in Job /\ n.pc = "start" /\ n.op = op /\ n.by = c /\ n.key = k /\ n.to = to /\ n.mode = m /\ n.tok = t
      /\ n.wipe = j.wipe
  BY <1>1, <1>4, <1>5, <1>6, <1>7, <1>8 DEF Job
<1>10. Step(q, n)
  BY <1>2
<1> HIDE DEF n
<1>11. job' \in [Slot -> Job] /\ job'[q] = n /\ Stays(q)
  BY <1>9, <1>10, StepShape
<1>12. Follows(n) /\ Carries(q, n)
  BY <1>1, <1>3, <1>4, <1>5, <1>6, <1>9 DEF Sound, Follows, Carries, Writing
<1>13. Moves(q)
  <2>1. unsafe \subseteq unsafe' /\ ClashesKnown' /\ unsafe' \subseteq Key
    BY <1>3, NoMark
  <2>2. Types'
    BY <1>3, <1>4, <1>11, <2>1, TypesKept DEF Types
  <2>3. job'[q].tok \in tokens' \cup {None}
    BY <1>3, <1>7, <1>9, <1>11
  <2>4. Jobs'
    BY <1>3, <1>11, <1>12, <2>3, JobsKept
  <2>5. QED
    BY <1>3, <1>11, <2>1, <2>2, <2>4 DEF Moves
<1>14. Quiet(q)
  BY <1>3, <1>9, <1>11 DEF Quiet, Resting, On
<1>15. QED
  BY <1>13, <1>14 DEF Acts

(* Every step is one of these, by one request, or a rotation of the key.   *)
LEMMA StepKinds ==
  ASSUME Types, Jobs, SNext
  PROVE  (\E q \in Slot : Moves(q) /\ Acts(q)) \/ Turns
<1>1. CASE RotateKey
  <2>1. UNCHANGED <<rows, bytes, lock, tokens, job, conf, unsafe>> /\ active' \in 0..1
    BY <1>1 DEF RotateKey, store
  <2>2. Types'
    BY <2>1 DEF Types
  <2>3. QED
    BY <2>1, <2>2 DEF Turns, store
<1>2. ASSUME NEW q \in Slot, Serve(q)
      PROVE  Moves(q) /\ Acts(q)
  <2>1. CASE readUpload(q) \/ doUpload(q) \/ Upload(q) \/ Commit(q)
    BY <2>1, StepReadUpload, StepDoUpload, StepUpload, StepCommit
  <2>2. CASE deleteKeys(q) \/ emptyBucket(q) \/ deleteBytes(q)
    BY <2>2, StepDelete, StepDeleteBytes
  <2>3. CASE moveObject(q) \/ copyObject(q) \/ Copy(q)
    BY <2>3, StepMove, StepCopyObject, StepCopy
  <2>4. CASE createSignedURL(q) \/ createSignedURLs(q) \/ createSignedUploadURL(q)
    BY <2>4, StepSign
  <2>5. CASE uploadToSignedURL(q) \/ PutFirst(q) \/ RecordSigned(q) \/ handleSignUpload(q)
    BY <2>5, StepUploadToSigned, StepPutFirst, StepRecord, StepPresign
  <2>6. CASE serveObject(q) \/ Download(q)
    BY <2>6, StepServe, StepDownload
  <2>7. QED
    BY <1>2, <2>1, <2>2, <2>3, <2>4, <2>5, <2>6, Zenon DEF Serve
<1>3. ASSUME NEW q \in Slot, ClientPut(q)
      PROVE  Moves(q) /\ Acts(q)
  BY <1>3, StepClientPut
<1>4. ASSUME NEW q \in Slot, NEW op \in conf.ops \ {"rotate"}, Arrives(q, op)
      PROVE  Moves(q) /\ Acts(q)
  BY <1>4, StepArrives
<1>5. QED
  BY <1>1, <1>2, <1>3, <1>4, Zenon DEF SNext

----------------------------------------------------------------------------
(* The invariants hold at first.                                           *)
LEMMA InitTypes ==
  ASSUME SInit
  PROVE  Types /\ Jobs
<1>1. /\ conf \in Setups /\ rows \in Stocks /\ bytes = [k \in Key |-> IF rows[k] = None THEN None ELSE 0]
      /\ lock = [k \in Key |-> 0] /\ tokens = conf.grants /\ active = 0 /\ unsafe = {}
      /\ job = [q \in Slot |-> NoJob]
  BY DEF SInit
<1>2. rows \in [Key -> ObjectRow \cup {None}] /\ tokens \subseteq Token
  BY <1>1, StorageAssumption
<1>3. bytes \in [Key -> {None, Torn, 0} \cup Slot] /\ lock \in [Key -> {0} \cup Slot] /\ job \in [Slot -> Job]
  BY <1>1, NoJobType
<1>4. Types
  BY <1>1, <1>2, <1>3 DEF Types
<1>5. Jobs
  <2>1. \A q \in Slot : job[q] = NoJob /\ Sound(q, NoJob)
    BY <1>1, FinishedSound
  <2>2. QED
    BY <2>1 DEF Jobs
<1>6. QED
  BY <1>4, <1>5

LEMMA TypesStep ==
  ASSUME Types, Jobs, [SNext]_svars
  PROVE  Types' /\ Jobs'
<1>1. CASE UNCHANGED svars
  BY <1>1 DEF svars, Types, Jobs, Sound
<1>2. CASE Turns
  BY <1>2 DEF Turns, Jobs, Sound
<1>3. CASE \E q \in Slot : Moves(q) /\ Acts(q)
  BY <1>3 DEF Moves
<1>4. QED
  BY <1>1, <1>2, <1>3, StepKinds

----------------------------------------------------------------------------
(* Locks.                                                                  *)
LEMMA NotWriting ==
  ASSUME NEW j, j.pc \notin {"put", "copyBytes", "commit"}
  PROVE  Rewrites(j) = {} /\ ~Writing(j)
  BY DEF Rewrites, Writing

LEMMA SameRewrites ==
  ASSUME NEW i, NEW j, i.op = j.op, i.key = j.key, i.to = j.to, Writing(i), Writing(j)
  PROVE  Rewrites(i) = Rewrites(j)
  BY DEF Rewrites

(* What a step of q does to the locks and, under them, to the rows.        *)
LEMMA LocksOf ==
  ASSUME Types, Jobs, LocksHeld, NEW q \in Slot, Moves(q), Acts(q), NEW k \in Key
  PROVE  /\ k \in Rewrites(job'[q]) <=> lock'[k] = q
         /\ lock'[k] \notin {0, q} => lock'[k] = lock[k]
         /\ lock[k] \notin {0, q} => lock'[k] = lock[k]
         /\ rows'[k] # rows[k] => lock[k] = 0 \/ (k \in Rewrites(job[q]) /\ Commits(q))
<1>0. /\ q # 0 /\ (k \in Rewrites(job[q]) <=> lock[k] = q)
      /\ Finished.pc = "done"
  BY NoneIsNothing, FinishedType DEF LocksHeld
<1>1. CASE Quiet(q)
  BY <1>0, <1>1, NotWriting DEF Quiet, Resting, store
<1>2. CASE Locks(q)
  BY <1>0, <1>2, NotWriting DEF Locks
<1>3. CASE Stores(q)
  <2>1. UNCHANGED <<rows, lock>>
    BY <1>3 DEF Stores
  <2>2. CASE job[q].pc = "putFirst"
    BY <1>0, <1>3, <2>1, <2>2, NotWriting DEF Stores
  <2>3. CASE job[q].pc # "putFirst"
    <3>1. Writing(job[q]) /\ Writing(job'[q]) /\ SameBut(q)
      BY <1>3, <2>3 DEF Stores, Writing
    <3>2. Rewrites(job'[q]) = Rewrites(job[q])
      BY <3>1, SameRewrites DEF SameBut
    <3>3. QED
      BY <1>0, <2>1, <3>2
  <2>4. QED
    BY <2>2, <2>3
<1>4. CASE Abandons(q)
  BY <1>0, <1>4, NotWriting, UnlockType DEF Abandons
<1>5. CASE Commits(q)
  <2>1. job'[q].pc \in {"wipe", "done"}
    BY <1>0, <1>5 DEF Commits
  <2>2. Rewrites(job'[q]) = {}
    BY <2>1, NotWriting
  <2>3. lock'[k] = IF lock[k] = q THEN 0 ELSE lock[k]
    BY <1>5, UnlockType DEF Commits
  <2>4. k \notin Rewrites(job[q]) => rows'[k] = rows[k]
    BY <1>5 DEF Commits
  <2>5. QED
    BY <1>0, <1>5, <2>2, <2>3, <2>4
<1>6. CASE Deletes(q)
  BY <1>0, <1>6, NotWriting DEF Deletes
<1>7. CASE Wipes(q)
  BY <1>0, <1>7, NotWriting DEF Wipes
<1>8. CASE Records(q)
  BY <1>0, <1>8, NotWriting DEF Records
<1>9. CASE Presigns(q)
  BY <1>0, <1>9, NotWriting DEF Presigns
<1>10. CASE ClientPuts(q)
  BY <1>0, <1>10, NotWriting DEF ClientPuts
<1>11. QED
  BY <1>1, <1>2, <1>3, <1>4, <1>5, <1>6, <1>7, <1>8, <1>9, <1>10 DEF Acts

LEMMA LocksStep ==
  ASSUME Types, Jobs, LocksHeld, NEW q \in Slot, Moves(q), Acts(q)
  PROVE  LocksHeld'
<1>1. ASSUME NEW p \in Slot, NEW k \in Key
      PROVE  k \in Rewrites(job'[p]) <=> lock'[k] = p
  <2>1. CASE p = q
    BY <2>1, LocksOf
  <2>2. CASE p # q
    <3>1. job'[p] = job[p] /\ (k \in Rewrites(job[p]) <=> lock[k] = p) /\ p # 0
      BY <2>2, NoneIsNothing DEF Moves, Stays, LocksHeld
    <3>2. lock'[k] = p <=> lock[k] = p
      BY <2>2, <3>1, LocksOf
    <3>3. QED
      BY <3>1, <3>2
  <2>3. QED
    BY <2>1, <2>2
<1>2. QED
  BY <1>1 DEF LocksHeld

----------------------------------------------------------------------------
(* Grants.                                                                 *)
LEMMA MaySame ==
  ASSUME conf' = conf, NEW c, NEW cmd, NEW k, NEW owner
  PROVE  may(c, cmd, k, owner)' <=> may(c, cmd, k, owner)
  BY DEF may, rlsOn, hasRLS

LEMMA GrantKept ==
  ASSUME conf' = conf, NEW k, rows'[k] = rows[k], NEW i, NEW j, i.op = j.op, i.mode = j.mode, i.by = j.by,
         Granted(i, k)
  PROVE  Granted(j, k)'
<1>1. \A c, owner : may(c, "update", k, owner)' <=> may(c, "update", k, owner)
  BY MaySame
<1>2. CASE j.op = "upload"
  BY <1>1, <1>2 DEF Granted
<1>3. CASE j.op # "upload"
  BY <1>1, <1>3 DEF Granted
<1>4. QED
  BY <1>2, <1>3

LEMMA GrantsStep ==
  ASSUME AccessInv, NEW q \in Slot, Moves(q), Acts(q)
  PROVE  GrantsStand'
<1>0. Types /\ Jobs /\ LocksHeld /\ GrantsStand /\ conf' = conf
  BY DEF AccessInv, Moves
<1>1. ASSUME NEW p \in Slot, NEW k \in Key, k \in Rewrites(job'[p])
      PROVE  Granted(job[p], k)'
  <2>1. CASE p # q
    <3>1. job'[p] = job[p] /\ k \in Rewrites(job[p]) /\ lock[k] = p /\ p # 0
      BY <1>0, <1>1, <2>1, NoneIsNothing DEF Moves, Stays, LocksHeld
    <3>2. k \notin Rewrites(job[q])
      BY <1>0, <2>1, <3>1 DEF LocksHeld
    <3>3. rows'[k] = rows[k]
      BY <1>0, <3>1, <3>2, LocksOf
    <3>4. PICK j : j = job[p]
      OBVIOUS
    <3>5. Granted(j, k)
      BY <1>0, <3>1, <3>4 DEF GrantsStand
    <3>6. Granted(j, k)'
      BY <1>0, <3>3, <3>5, GrantKept
    <3>7. QED
      BY <3>1, <3>4, <3>6
  <2>2. CASE p = q
    <3> PICK i, j : i = job[q] /\ j = job'[q]
      OBVIOUS
    <3>1. Writing(j)
      BY <1>1, <2>2 DEF Rewrites
    <3>2. \/ Locks(q)
          \/ Stores(q) /\ job[q].pc # "putFirst"
      BY <3>1, FinishedType DEF Writing, Acts, Quiet, Resting, Abandons, Commits, Deletes, Wipes, Records, Presigns,
                                ClientPuts, Stores
    <3>3. CASE Locks(q)
      <4>1. Granted(j, k) /\ rows'[k] = rows[k]
        BY <1>1, <2>2, <3>3 DEF Locks
      <4>2. Granted(j, k)'
        BY <1>0, <4>1, GrantKept
      <4>3. QED
        BY <2>2, <4>2
    <3>4. CASE Stores(q) /\ job[q].pc # "putFirst"
      <4>1. SameBut(q) /\ Writing(i) /\ rows'[k] = rows[k]
        BY <3>4 DEF Stores, Writing
      <4>2. j.op = i.op /\ j.mode = i.mode /\ j.by = i.by /\ j.key = i.key /\ j.to = i.to
        BY <4>1 DEF SameBut
      <4>3. Granted(i, k)
        BY <1>0, <1>1, <2>2, <3>1, <4>1, <4>2, SameRewrites DEF GrantsStand
      <4>4. Granted(j, k)'
        BY <1>0, <4>1, <4>2, <4>3, GrantKept
      <4>5. QED
        BY <2>2, <4>4
    <3>5. QED
      BY <3>2, <3>3, <3>4
  <2>3. QED
    BY <2>1, <2>2
<1>2. \A p \in Slot : Rewrites(job'[p]) \subseteq Key
  <2>1. ASSUME NEW p \in Slot PROVE Rewrites(job'[p]) \subseteq Key
    <3>1. Follows(job'[p]) /\ (Writing(job'[p]) => job'[p].op \in {"upload", "move", "copy"})
      BY DEF Moves, Jobs, Sound, Follows, Writing
    <3>2. QED
      BY <3>1 DEF Rewrites, Follows, Writing
  <2>2. QED
    BY <2>1
<1>3. QED
  BY <1>1, <1>2 DEF GrantsStand

LEMMA ReadersStep ==
  ASSUME AccessInv, NEW q \in Slot, Moves(q), Acts(q)
  PROVE  ReadersMay'
<1>1. ASSUME NEW p \in Slot, On(p, "get", "bytes")' PROVE job'[p].can
  <2>1. CASE p # q
    BY <1>1, <2>1 DEF AccessInv, ReadersMay, Moves, Stays, On
  <2>2. CASE p = q
    <3>1. Quiet(q)
      BY <1>1, <2>2, FinishedType DEF On, Acts, Locks, Stores, Abandons, Commits, Deletes, Wipes, Records, Presigns,
                                      ClientPuts
    <3>2. QED
      BY <1>1, <2>2, <3>1 DEF Quiet
  <2>3. QED
    BY <2>1, <2>2
<1>2. QED
  BY <1>1 DEF ReadersMay

LEMMA AccessInit == SInit => AccessInv
<1> SUFFICES ASSUME SInit PROVE AccessInv
  OBVIOUS
<1>1. Types /\ Jobs /\ \A q \in Slot : job[q] = NoJob
  BY InitTypes DEF SInit
<1>2. \A q \in Slot : job[q].pc = "idle"
  BY <1>1, NoJobType
<1>3. LocksHeld
  BY <1>2, NotWriting, NoneIsNothing DEF LocksHeld, SInit
<1>4. GrantsStand /\ ReadersMay
  BY <1>2, NotWriting DEF GrantsStand, ReadersMay, On
<1>5. QED
  BY <1>1, <1>3, <1>4 DEF AccessInv

LEMMA AccessKept == AccessInv /\ [SNext]_svars => AccessInv'
<1> SUFFICES ASSUME AccessInv, [SNext]_svars PROVE AccessInv'
  OBVIOUS
<1>0. Types /\ Jobs /\ LocksHeld /\ Types' /\ Jobs'
  BY TypesStep DEF AccessInv
<1>1. CASE UNCHANGED <<store, job, conf>>
  BY <1>0, <1>1 DEF AccessInv, LocksHeld, GrantsStand, ReadersMay, On, Granted, may, rlsOn, hasRLS, store
<1>2. CASE \E q \in Slot : Moves(q) /\ Acts(q)
  BY <1>0, <1>2, LocksStep, GrantsStep, ReadersStep DEF AccessInv
<1>3. QED
  BY <1>0, <1>1, <1>2, StepKinds DEF Turns, svars, store

----------------------------------------------------------------------------
(* The action property: a row changes by a request that may change it.     *)
Granting ==
  /\ \A q \in Slot : On(q, "get", "bytes") => job[q].can
  /\ \A k \in Key : rows[k] # None /\ rows'[k] # rows[k] =>
       \E q \in Slot : LET j == job[q]  o == rows[k].owner IN
         /\ job'[q] # j
         /\ \/ j.op = "uploadSigned"
            \/ j.op \in {"remove", "empty"} /\ may(j.by, "delete", k, o)
            \/ j.op \in {"upload", "move", "copy"} /\ may(j.by, "update", k, o)
                 /\ ~(j.op = "upload" /\ j.mode = "insert")

LEMMA GrantingStep ==
  ASSUME AccessInv, NEW q \in Slot, Moves(q), Acts(q), NEW k \in Key, rows[k] # None, rows'[k] # rows[k]
  PROVE  LET j == job[q]  o == rows[k].owner IN
         /\ job'[q] # j
         /\ \/ j.op = "uploadSigned"
            \/ j.op \in {"remove", "empty"} /\ may(j.by, "delete", k, o)
            \/ j.op \in {"upload", "move", "copy"} /\ may(j.by, "update", k, o)
                 /\ ~(j.op = "upload" /\ j.mode = "insert")
<1>0. Types /\ Jobs /\ LocksHeld /\ GrantsStand /\ Follows(job[q]) /\ Finished.pc = "done"
  BY FinishedType DEF AccessInv, Jobs, Sound
<1>1. CASE Commits(q)
  <2>1. k \in Rewrites(job[q]) /\ job[q].pc = "commit" /\ job'[q].pc # "commit"
    BY <1>0, <1>1 DEF Commits
  <2>2. Granted(job[q], k)
    BY <1>0, <2>1 DEF GrantsStand
  <2>3. job[q].op \in {"upload", "move", "copy"}
    BY <1>0, <2>1 DEF Follows
  <2>4. QED
    BY <2>1, <2>2, <2>3 DEF Granted
<1>2. CASE Deletes(q)
  BY <1>2 DEF Deletes
<1>3. CASE Records(q)
  BY <1>0, <1>3 DEF Records, Follows
<1>4. CASE Presigns(q)
  BY <1>4 DEF Presigns
<1>5. CASE ~(Commits(q) \/ Deletes(q) \/ Records(q) \/ Presigns(q))
  <2>1. rows' = rows
    BY <1>5 DEF Acts, Quiet, Locks, Stores, Abandons, Wipes, ClientPuts, store
  <2>2. QED
    BY <2>1
<1>6. QED
  BY <1>1, <1>2, <1>3, <1>4, <1>5

LEMMA GrantingKept == AccessInv /\ [SNext]_svars => [Granting]_svars
<1> SUFFICES ASSUME AccessInv, SNext PROVE Granting
  OBVIOUS
<1>0. Types /\ Jobs /\ ReadersMay
  BY DEF AccessInv
<1>1. CASE Turns
  BY <1>0, <1>1 DEF Granting, Turns, store, ReadersMay
<1>2. CASE \E q \in Slot : Moves(q) /\ Acts(q)
  <2>1. PICK q \in Slot : Moves(q) /\ Acts(q)
    BY <1>2
  <2>2. ASSUME NEW k \in Key, rows[k] # None, rows'[k] # rows[k]
        PROVE  LET j == job[q]  o == rows[k].owner IN
               /\ job'[q] # j
               /\ \/ j.op = "uploadSigned"
                  \/ j.op \in {"remove", "empty"} /\ may(j.by, "delete", k, o)
                  \/ j.op \in {"upload", "move", "copy"} /\ may(j.by, "update", k, o)
                       /\ ~(j.op = "upload" /\ j.mode = "insert")
    BY <2>1, <2>2, GrantingStep
  <2>3. QED
    BY <1>0, <2>2, Zenon DEF Granting, ReadersMay
<1>3. QED
  BY <1>0, <1>1, <1>2, StepKinds

(* Rows, bytes, locks and tokens are of their types, and a lock belongs to *)
(* a request between its write and its commit (doUpload, moveObject,       *)
(* copyObject and the transactions they hold open).                        *)
THEOREM TypeCorrect == SSpec => []StorageTypeOK
<1>1. AccessInv => StorageTypeOK
  <2> SUFFICES ASSUME AccessInv PROVE StorageTypeOK
    OBVIOUS
  <2>1. Types /\ LocksHeld
    BY DEF AccessInv
  <2>2. ASSUME NEW k \in Key, lock[k] # 0
        PROVE  job[lock[k]].pc \in {"put", "copyBytes", "commit"}
    <3>1. lock[k] \in Slot
      BY <2>1, <2>2 DEF Types
    <3>2. k \in Rewrites(job[lock[k]])
      BY <2>1, <3>1 DEF LocksHeld
    <3>3. QED
      BY <3>2 DEF Rewrites, Writing
  <2>3. QED
    BY <2>1, <2>2 DEF Types, StorageTypeOK
<1>2. QED
  BY <1>1, AccessInit, AccessKept, PTL DEF SSpec

(* Bytes are read only for a caller entitled to them when the row was      *)
(* checked, and a row changes or goes only by a request whose caller the   *)
(* policies let change it or by a signed upload, and never by a plain      *)
(* upload: what a statement found when it locked the row still holds when  *)
(* its transaction commits (writeObjectRow, moveObject, deleteKeys).       *)
THEOREM AccessIsGrantedHolds == SSpec => AccessIsGranted
<1>1. AccessInv /\ [SNext]_svars => [Granting]_svars
  BY GrantingKept
<1>2. QED
  BY <1>1, AccessInit, AccessKept, PTL DEF SSpec, AccessIsGranted, Granting

----------------------------------------------------------------------------
(* Rows and bytes.  On a key that is not excused, a request that works     *)
(* without the row's lock works alone.                                     *)
LEMMA Alone ==
  ASSUME ClashesKnown, NEW k \in Key, k \notin unsafe, NEW p \in Slot, NEW q \in Slot, p # q,
         k \in Loose(job[p])
  PROVE  k \notin Work(job[q])
  BY DEF ClashesKnown, Clash

LEMMA LooseWorks ==
  ASSUME NEW j, NEW k, k \in Loose(j)
  PROVE  k \in Work(j)
  BY DEF Loose

(* Where a request holds a row it writes or has a step to go, it works.    *)
LEMMA RewriteWorks ==
  ASSUME NEW j, Follows(j), NEW k \in Key, k \in Rewrites(j)
  PROVE  k \in Work(j) /\ (j.op # "upload" => k \in Loose(j))
<1>1. None \notin Key
  BY NoneIsNothing
<1>2. j.pc \in {"put", "copyBytes", "commit"}
  BY DEF Rewrites, Writing
<1>3. j.op \in {"upload", "move", "copy"} /\ k \in {j.key, j.to}
  BY <1>2 DEF Rewrites, Follows
<1>4. k \in Work(j)
  BY <1>1, <1>2, <1>3 DEF Work
<1>5. QED
  BY <1>3, <1>4 DEF Loose

LEMMA HalfwayWorks ==
  ASSUME NEW j, Follows(j), NEW k \in Key, Halfway(j, k)
  PROVE  k \in Work(j) /\ (k \in Loose(j) \/ (j.op = "upload" /\ k \in Rewrites(j)))
<1>1. None \notin Key
  BY NoneIsNothing
<1>2. CASE j.pc = "commit" /\ k = Dest(j)
  <2>1. k \in Rewrites(j)
    BY <1>2 DEF Rewrites, Dest, Writing, Follows
  <2>2. QED
    BY <2>1, RewriteWorks
<1>3. CASE j.pc = "wipe" /\ k \in j.wipe
  <2>1. k \in Work(j) /\ j.op \in {"remove", "empty", "move"}
    BY <1>3 DEF Work, Follows
  <2>2. QED
    BY <2>1 DEF Loose
<1>4. CASE j.pc \in {"record", "client"} /\ k = j.key
  <2>1. k \in Work(j) /\ j.op \in {"uploadSigned", "presign"}
    BY <1>1, <1>4 DEF Work, Follows
  <2>2. QED
    BY <2>1 DEF Loose
<1>5. QED
  BY <1>2, <1>3, <1>4 DEF Halfway

(* The pcs at which a request has nothing half done.                       *)
LEMMA NotHalfway ==
  ASSUME NEW j, j.pc \notin {"commit", "wipe", "record", "client"}, NEW k
  PROVE  ~Halfway(j, k)
  BY DEF Halfway

(* A step changes the row or the bytes of a key that is not excused only   *)
(* when it works alone on it or holds its row.                             *)
LEMMA TouchOf ==
  ASSUME AccessInv, NEW q \in Slot, Moves(q), Acts(q), NEW k \in Key, k \notin unsafe',
         rows'[k] # rows[k] \/ bytes'[k] # bytes[k]
  PROVE  k \in Loose(job[q]) \/ k \in Loose(job'[q]) \/ (job[q].op = "upload" /\ k \in Rewrites(job[q]))
<1>0. Types /\ Jobs /\ Follows(job[q]) /\ Follows(job'[q]) /\ None \notin Key
  BY NoneIsNothing DEF AccessInv, Moves, Jobs, Sound
<1>1. CASE Quiet(q) \/ Locks(q)
  BY <1>1 DEF Quiet, Locks, store
<1>2. CASE Stores(q)
  <2>1. k = Target(job[q])
    BY <1>2 DEF Stores
  <2>2. CASE job[q].pc = "putFirst"
    BY <1>0, <2>1, <2>2 DEF Target, Follows, Loose, Work
  <2>3. CASE job[q].pc # "putFirst"
    <3>1. k \in Rewrites(job[q])
      BY <1>0, <1>2, <2>1, <2>3 DEF Stores, Target, Dest, Rewrites, Writing, Follows
    <3>2. QED
      BY <1>0, <3>1, RewriteWorks
  <2>4. QED
    BY <2>2, <2>3
<1>3. CASE Abandons(q)
  BY <1>3 DEF Abandons
<1>4. CASE Commits(q)
  <2>1. k \in Rewrites(job[q])
    BY <1>4 DEF Commits
  <2>2. QED
    BY <1>0, <2>1, RewriteWorks
<1>5. CASE Deletes(q)
  <2>1. Halfway(job'[q], k) /\ job'[q].pc = "wipe"
    BY <1>5 DEF Deletes, Halfway
  <2>2. Rewrites(job'[q]) = {}
    BY <2>1, NotWriting
  <2>3. QED
    BY <1>0, <2>1, <2>2, HalfwayWorks
<1>6. CASE Wipes(q)
  <2>1. Halfway(job[q], k) /\ job[q].pc = "wipe"
    BY <1>6 DEF Wipes, Halfway
  <2>2. QED
    BY <1>0, <2>1, HalfwayWorks
<1>7. CASE Records(q) \/ ClientPuts(q)
  <2>1. Halfway(job[q], k)
    BY <1>7 DEF Records, ClientPuts, Halfway
  <2>2. QED
    BY <1>0, <2>1, HalfwayWorks
<1>8. CASE Presigns(q)
  BY <1>0, <1>8 DEF Presigns, Loose, Work, Follows
<1>9. QED
  BY <1>1, <1>2, <1>3, <1>4, <1>5, <1>6, <1>7, <1>8 DEF Acts

(* So it leaves what another request has half done, or copies from.        *)
LEMMA Undisturbed ==
  ASSUME AgreeInv, NEW q \in Slot, Moves(q), Acts(q), NEW k \in Key, k \notin unsafe',
         NEW p \in Slot, p # q, Halfway(job[p], k) \/ k \in Loose(job[p])
  PROVE  rows'[k] = rows[k] /\ bytes'[k] = bytes[k]
<1> SUFFICES ASSUME rows'[k] # rows[k] \/ bytes'[k] # bytes[k] PROVE FALSE
  OBVIOUS
<1>0. /\ AccessInv /\ ClashesKnown /\ ClashesKnown' /\ Follows(job[p]) /\ Follows(job[q]) /\ job'[p] = job[p]
      /\ LocksHeld /\ k \notin unsafe
  BY DEF AgreeInv, AccessInv, Moves, Stays, Jobs, Sound
<1>1. k \in Work(job[p]) /\ (k \in Loose(job[p]) \/ (job[p].op = "upload" /\ k \in Rewrites(job[p])))
  BY <1>0, HalfwayWorks, LooseWorks
<1>2. k \notin Loose(job[q])
  BY <1>0, <1>1, Alone
<1>3. k \notin Loose(job'[q])
  <2>1. ClashesKnown' => ~(k \in Loose(job'[q]) /\ k \in Work(job'[p]))
    BY DEF ClashesKnown, Clash
  <2>2. QED
    BY <1>0, <1>1, <2>1
<1>4. job[q].op = "upload" /\ k \in Rewrites(job[q])
  BY <1>0, <1>2, <1>3, TouchOf
<1>5. CASE k \in Loose(job[p])
  BY <1>0, <1>4, <1>5, RewriteWorks, Alone
<1>6. CASE job[p].op = "upload" /\ k \in Rewrites(job[p])
  BY <1>0, <1>4, <1>6 DEF LocksHeld
<1>7. QED
  BY <1>1, <1>5, <1>6

(* The source of a copy, if it is not excused, has its bytes.              *)
LEMMA SourceAgrees ==
  ASSUME AgreeInv, NEW q \in Slot, job[q].pc = "copyBytes", job[q].key \notin unsafe
  PROVE  rows[job[q].key] # None /\ bytes[job[q].key] = job[q].row.ver
<1> DEFINE k == job[q].key
<1>0. Follows(job[q]) /\ ClashesKnown /\ Jobs /\ HalvesKnown /\ SourceStands /\ None \notin Key
  BY NoneIsNothing DEF AgreeInv, AccessInv, Jobs, Sound
<1>1. k \in Key /\ k \in Loose(job[q])
  BY <1>0 DEF Follows, Loose, Work
<1>2. ASSUME NEW p \in Slot PROVE ~Halfway(job[p], k)
  <2>1. CASE p = q
    BY <2>1, NotHalfway
  <2>2. CASE p # q
    <3>1. k \notin Work(job[p])
      BY <1>0, <1>1, <2>2, Alone
    <3>2. Follows(job[p])
      BY <1>0 DEF Jobs, Sound
    <3>3. QED
      BY <1>1, <3>1, <3>2, HalfwayWorks
  <2>3. QED
    BY <2>1, <2>2
<1>3. Agree(k)
  BY <1>0, <1>1, <1>2 DEF HalvesKnown
<1>4. rows[k] # None /\ rows[k].ver = job[q].row.ver
  BY <1>0 DEF SourceStands
<1>5. QED
  BY <1>3, <1>4 DEF Agree

(* What the request that moves knows of the key: half of it, or all.       *)
Settled(q, k) ==
  /\ Halfway(job'[q], k) => HalfOf(q, k)'
  /\ ~Halfway(job'[q], k) =>
       Agree(k)' \/ (rows'[k] = rows[k] /\ bytes'[k] = bytes[k] /\ ~Halfway(job[q], k))

LEMMA OwnHalf ==
  ASSUME AgreeInv, NEW q \in Slot, Moves(q), Acts(q), NEW k \in Key, k \notin unsafe'
  PROVE  Settled(q, k)
<1>0. /\ AccessInv /\ Types /\ Follows(job[q]) /\ Carries(q, job[q]) /\ Follows(job'[q]) /\ k \notin unsafe
      /\ Halfway(job[q], k) => HalfOf(q, k)
      /\ None \notin Key /\ None \notin ObjectRow /\ None \notin Slot /\ Finished.pc = "done"
  BY NoneIsNothing, FinishedType DEF AgreeInv, AccessInv, Moves, Jobs, Sound, HalvesKnown
<1>1. CASE Quiet(q) \/ Locks(q)
  <2>1. UNCHANGED <<rows, bytes>>
    BY <1>1 DEF Quiet, Locks, store
  <2>2. ~Halfway(job[q], k) /\ ~Halfway(job'[q], k)
    BY <1>1, NotHalfway DEF Quiet, Locks, Resting
  <2>3. QED
    BY <2>1, <2>2 DEF Settled
<1>2. CASE Stores(q)
  <2>1. ~Halfway(job[q], k) /\ rows' = rows
    BY <1>2, NotHalfway DEF Stores
  <2>2. Halfway(job'[q], k) <=> k = Target(job[q])
    BY <1>0, <1>2 DEF Stores, Halfway, Target, Dest, SameBut
  <2>3. CASE k # Target(job[q])
    BY <1>2, <2>1, <2>2, <2>3 DEF Settled, Stores
  <2>4. CASE k = Target(job[q]) /\ job[q].pc = "putFirst"
    <3>1. job'[q].pc = "record" /\ bytes'[k] = q
      BY <1>2, <2>4 DEF Stores
    <3>2. HalfOf(q, k)'
      BY <3>1 DEF HalfOf
    <3>3. QED
      BY <2>2, <2>4, <3>2 DEF Settled
  <2>5. CASE k = Target(job[q]) /\ job[q].pc = "put"
    <3>1. /\ job'[q].pc = "commit" /\ bytes'[k] = q /\ job'[q].row = job[q].row
      BY <1>2, <2>5 DEF Stores, SameBut
    <3>2. job[q].row.ver = q
      BY <1>0, <2>5 DEF Carries, Writing, Follows
    <3>3. HalfOf(q, k)'
      BY <3>1, <3>2 DEF HalfOf
    <3>4. QED
      BY <2>2, <2>5, <3>3 DEF Settled
  <2>6. CASE k = Target(job[q]) /\ job[q].pc = "copyBytes"
    <3>1. /\ job'[q].pc = "commit" /\ bytes'[k] = bytes[job[q].key] /\ job'[q].row = job[q].row
          /\ job[q].key \notin unsafe
      BY <1>2, <2>6 DEF Stores, SameBut
    <3>2. bytes[job[q].key] = job[q].row.ver
      BY <2>6, <3>1, SourceAgrees
    <3>3. HalfOf(q, k)'
      BY <3>1, <3>2 DEF HalfOf
    <3>4. QED
      BY <2>2, <2>6, <3>3 DEF Settled
  <2>7. QED
    BY <1>2, <2>3, <2>4, <2>5, <2>6 DEF Stores
<1>3. CASE Abandons(q)
  <2>1. rows' = rows /\ bytes'[k] = bytes[k] /\ job'[q] = Finished
    BY <1>3 DEF Abandons
  <2>2. ~Halfway(job[q], k) /\ ~Halfway(job'[q], k)
    BY <1>0, <1>3, NotHalfway DEF Abandons
  <2>3. QED
    BY <2>1, <2>2 DEF Settled
<1>4. CASE Commits(q)
  <2>0. job[q].pc = "commit" /\ job[q].op \in {"upload", "move", "copy"} /\ job[q].row # None /\ bytes' = bytes
    BY <1>0, <1>4 DEF Commits, Follows, Carries, Writing
  <2>1. CASE k \notin Rewrites(job[q])
    <3>1. ~Halfway(job[q], k)
      BY <1>0, <2>0, <2>1 DEF Halfway, Dest, Rewrites, Writing
    <3>2. ~Halfway(job'[q], k)
      BY <1>0, <1>4, <2>0, <2>1 DEF Commits, Halfway, Rewrites, Writing
    <3>3. QED
      BY <1>4, <2>0, <2>1, <3>1, <3>2 DEF Commits, Settled
  <2>2. CASE k \in Rewrites(job[q]) /\ k = Dest(job[q])
    <3>1. Halfway(job[q], k) /\ rows'[k] = job[q].row
      BY <1>4, <2>0, <2>2 DEF Commits, Halfway, New
    <3>2. bytes[k] = job[q].row.ver
      BY <1>0, <2>0, <3>1 DEF HalfOf
    <3>3. Agree(k)'
      BY <2>0, <3>1, <3>2 DEF Agree
    <3>4. ~Halfway(job'[q], k)
      <4>1. job'[q].pc = "wipe" => job[q].op = "move" /\ job'[q].wipe = {job[q].key}
        BY <1>0, <1>4 DEF Commits
      <4>2. job[q].op = "move" => job[q].key # Dest(job[q])
        BY <1>0, <2>0 DEF Dest, Carries, Writing
      <4>3. job'[q].pc \in {"wipe", "done"}
        BY <1>0, <1>4 DEF Commits
      <4>4. QED
        BY <2>2, <4>1, <4>2, <4>3 DEF Halfway
    <3>5. QED
      BY <3>3, <3>4 DEF Settled
  <2>3. CASE k \in Rewrites(job[q]) /\ k # Dest(job[q])
    <3>1. job[q].op = "move" /\ k = job[q].key
      BY <1>0, <2>0, <2>3 DEF Rewrites, Dest, Writing
    <3>2. rows'[k] = None /\ job'[q].pc = "wipe" /\ job'[q].wipe = {k}
      BY <1>4, <2>3, <3>1 DEF Commits, New
    <3>3. HalfOf(q, k)' /\ Halfway(job'[q], k)
      BY <3>2 DEF HalfOf, Halfway
    <3>4. QED
      BY <3>3 DEF Settled
  <2>4. QED
    BY <2>1, <2>2, <2>3
<1>5. CASE Deletes(q)
  <2>1. ~Halfway(job[q], k) /\ bytes' = bytes
    BY <1>5, NotHalfway DEF Deletes
  <2>2. CASE k \in job'[q].wipe
    <3>1. HalfOf(q, k)' /\ Halfway(job'[q], k)
      BY <1>5, <2>2 DEF Deletes, HalfOf, Halfway
    <3>2. QED
      BY <3>1 DEF Settled
  <2>3. CASE k \notin job'[q].wipe
    <3>1. rows'[k] = rows[k] /\ ~Halfway(job'[q], k)
      BY <1>5, <2>3 DEF Deletes, Halfway
    <3>2. QED
      BY <2>1, <3>1 DEF Settled
  <2>4. QED
    BY <2>2, <2>3
<1>6. CASE Wipes(q)
  <2>1. PICK x \in job[q].wipe :
          /\ \A y \in Key : y # x => bytes'[y] = bytes[y]
          /\ bytes'[x] = None \/ x \in unsafe'
          /\ \/ job'[q] = Finished /\ job[q].wipe = {x}
             \/ job'[q].pc = "wipe" /\ job'[q].wipe = job[q].wipe \ {x}
    BY <1>6 DEF Wipes
  <2>2. rows' = rows /\ job[q].pc = "wipe" /\ (k \in job[q].wipe => rows[k] = None)
    BY <1>0, <1>6 DEF Wipes, Halfway, HalfOf
  <2>3. Halfway(job[q], k) <=> k \in job[q].wipe
    BY <2>2 DEF Halfway
  <2>4. CASE k = x
    <3>1. ~Halfway(job'[q], k)
      BY <1>0, <2>1, <2>4 DEF Halfway
    <3>2. Agree(k)'
      BY <2>1, <2>2, <2>4 DEF Agree
    <3>3. QED
      BY <3>1, <3>2 DEF Settled
  <2>5. CASE k # x
    <3>1. bytes'[k] = bytes[k] /\ (Halfway(job'[q], k) <=> k \in job[q].wipe)
      BY <1>0, <2>1, <2>5 DEF Halfway
    <3>2. k \in job[q].wipe => HalfOf(q, k)'
      BY <1>0, <2>1, <2>2, <2>5 DEF HalfOf
    <3>3. QED
      BY <2>2, <2>3, <3>1, <3>2 DEF Settled
  <2>6. QED
    BY <2>4, <2>5
<1>7. CASE Records(q)
  <2>1. ~Halfway(job'[q], k) /\ bytes' = bytes /\ job[q].pc = "record"
    BY <1>0, <1>7 DEF Records, Halfway
  <2>2. CASE k = job[q].key
    <3>1. bytes[k] = q
      BY <1>0, <2>1, <2>2 DEF Halfway, HalfOf
    <3>2. rows'[k] # None /\ rows'[k].ver = q
      BY <1>7, <2>2 DEF Records
    <3>3. QED
      BY <2>1, <3>1, <3>2 DEF Settled, Agree
  <2>3. CASE k # job[q].key
    BY <1>7, <2>1, <2>3 DEF Records, Settled, Halfway
  <2>4. QED
    BY <2>2, <2>3
<1>8. CASE Presigns(q)
  <2>1. ~Halfway(job[q], k) /\ bytes' = bytes /\ job'[q].pc = "client" /\ job'[q].key = job[q].key
    BY <1>8, NotHalfway DEF Presigns, SameBut
  <2>2. CASE k = job[q].key
    BY <1>8, <2>1, <2>2 DEF Presigns, Settled, Halfway, HalfOf
  <2>3. CASE k # job[q].key
    BY <1>8, <2>1, <2>3 DEF Presigns, Settled, Halfway
  <2>4. QED
    BY <2>2, <2>3
<1>9. CASE ClientPuts(q)
  <2>1. ~Halfway(job'[q], k) /\ rows' = rows /\ job[q].pc = "client"
    BY <1>0, <1>9 DEF ClientPuts, Halfway
  <2>2. CASE k = job[q].key
    <3>1. rows[k] # None /\ rows[k].ver = q
      BY <1>0, <2>1, <2>2 DEF Halfway, HalfOf
    <3>2. bytes'[k] = q
      BY <1>9, <2>2 DEF ClientPuts
    <3>3. QED
      BY <2>1, <3>1, <3>2 DEF Settled, Agree
  <2>3. CASE k # job[q].key
    BY <1>9, <2>1, <2>3 DEF ClientPuts, Settled, Halfway
  <2>4. QED
    BY <2>2, <2>3
<1>10. QED
  BY <1>1, <1>2, <1>3, <1>4, <1>5, <1>6, <1>7, <1>8, <1>9 DEF Acts

LEMMA HalvesStep ==
  ASSUME AgreeInv, NEW q \in Slot, Moves(q), Acts(q)
  PROVE  HalvesKnown'
<1>0. HalvesKnown /\ unsafe \subseteq unsafe' /\ Stays(q)
  BY DEF AgreeInv, Moves
<1>1. ASSUME NEW k \in Key, k \notin unsafe', NEW p \in Slot, Halfway(job'[p], k)
      PROVE  HalfOf(p, k)'
  <2>1. CASE p = q
    BY <1>1, <2>1, OwnHalf DEF Settled
  <2>2. CASE p # q
    <3>1. job'[p] = job[p]
      BY <1>0, <2>2 DEF Stays
    <3>2. Halfway(job[p], k)
      BY <1>1, <3>1
    <3>3. rows'[k] = rows[k] /\ bytes'[k] = bytes[k]
      BY <1>1, <2>2, <3>2, Undisturbed
    <3>4. HalfOf(p, k)
      BY <1>0, <1>1, <3>2 DEF HalvesKnown
    <3>5. QED
      BY <3>1, <3>3, <3>4 DEF HalfOf
  <2>3. QED
    BY <2>1, <2>2
<1>2. ASSUME NEW k \in Key, k \notin unsafe', \A p \in Slot : ~Halfway(job'[p], k)
      PROVE  Agree(k)'
  <2>1. Settled(q, k) /\ ~Halfway(job'[q], k)
    BY <1>2, OwnHalf
  <2>2. CASE Agree(k)'
    BY <2>2
  <2>3. CASE rows'[k] = rows[k] /\ bytes'[k] = bytes[k] /\ ~Halfway(job[q], k)
    <3>1. \A p \in Slot : ~Halfway(job[p], k)
      BY <1>0, <1>2, <2>3 DEF Stays
    <3>2. Agree(k)
      BY <1>0, <1>2, <3>1 DEF HalvesKnown
    <3>3. QED
      BY <2>3, <3>2 DEF Agree
  <2>4. QED
    BY <2>1, <2>2, <2>3 DEF Settled
<1>3. QED
  BY <1>1, <1>2 DEF HalvesKnown

LEMMA SourceStep ==
  ASSUME AgreeInv, NEW q \in Slot, Moves(q), Acts(q)
  PROVE  SourceStands'
<1>0. AccessInv /\ SourceStands /\ unsafe \subseteq unsafe' /\ Stays(q) /\ Finished.pc = "done"
  BY FinishedType DEF AgreeInv, Moves
<1>1. ASSUME NEW p \in Slot, job'[p].pc = "copyBytes", job'[p].key \notin unsafe'
      PROVE  rows'[job'[p].key] # None /\ rows'[job'[p].key].ver = job'[p].row.ver
  <2>1. CASE p = q
    <3>1. Locks(q)
      BY <1>0, <1>1, <2>1
      DEF Acts, Quiet, Stores, Abandons, Commits, Deletes, Wipes, Records, Presigns, ClientPuts, Resting
    <3>2. QED
      BY <1>1, <2>1, <3>1 DEF Locks
  <2>2. CASE p # q
    <3>1. job'[p] = job[p] /\ Follows(job[p]) /\ None \notin Key
      BY <1>0, <2>2, NoneIsNothing DEF Stays, AccessInv, Jobs, Sound
    <3>2. job[p].key \in Key /\ job[p].key \in Loose(job[p])
      BY <1>1, <3>1 DEF Follows, Loose, Work
    <3>3. rows'[job[p].key] = rows[job[p].key]
      BY <1>1, <2>2, <3>1, <3>2, Undisturbed
    <3>4. rows[job[p].key] # None /\ rows[job[p].key].ver = job[p].row.ver
      BY <1>0, <1>1, <3>1 DEF SourceStands
    <3>5. QED
      BY <3>1, <3>3, <3>4
  <2>3. QED
    BY <2>1, <2>2
<1>2. QED
  BY <1>1 DEF SourceStands

LEMMA AgreeInit == SInit => AgreeInv
<1> SUFFICES ASSUME SInit PROVE AgreeInv
  OBVIOUS
<1>1. AccessInv
  BY AccessInit
<1>2. \A q \in Slot : job[q] = NoJob
  BY DEF SInit
<1>3. Clash = {}
  <2>1. Work(NoJob) = {}
    BY NoJobType DEF Work
  <2>2. QED
    BY <1>2, <2>1 DEF Clash
<1>4. SourceStands
  BY <1>2, NoJobType DEF SourceStands
<1>5. ASSUME NEW k \in Key PROVE Agree(k)
  <2>1. rows \in Stocks /\ bytes = [x \in Key |-> IF rows[x] = None THEN None ELSE 0]
    BY DEF SInit
  <2>2. rows[k] # None => rows[k].ver = 0
    BY <2>1, StorageAssumption
  <2>3. QED
    BY <2>1, <2>2 DEF Agree
<1>6. HalvesKnown
  BY <1>2, <1>5, NoJobType, NotHalfway DEF HalvesKnown
<1>7. QED
  BY <1>1, <1>3, <1>4, <1>6 DEF AgreeInv, ClashesKnown

LEMMA AgreeKept == AgreeInv /\ [SNext]_svars => AgreeInv'
<1> SUFFICES ASSUME AgreeInv, [SNext]_svars PROVE AgreeInv'
  OBVIOUS
<1>0. AccessInv /\ Types /\ Jobs /\ AccessInv'
  BY AccessKept DEF AgreeInv, AccessInv
<1>1. CASE UNCHANGED <<rows, bytes, job, unsafe>>
  <2>1. ClashesKnown'
    BY <1>1 DEF AgreeInv, ClashesKnown, Clash
  <2>2. SourceStands'
    BY <1>1 DEF AgreeInv, SourceStands
  <2>3. HalvesKnown'
    <3>1. HalvesKnown
      BY DEF AgreeInv
    <3>2. ASSUME NEW k \in Key PROVE Agree(k)' <=> Agree(k)
      BY <1>1 DEF Agree
    <3>3. ASSUME NEW q \in Slot, NEW k \in Key PROVE HalfOf(q, k)' <=> HalfOf(q, k)
      BY <1>1 DEF HalfOf
    <3>4. QED
      BY <1>1, <3>1, <3>2, <3>3 DEF HalvesKnown
  <2>4. QED
    BY <1>0, <2>1, <2>2, <2>3 DEF AgreeInv
<1>2. CASE \E q \in Slot : Moves(q) /\ Acts(q)
  BY <1>0, <1>2, HalvesStep, SourceStep DEF AgreeInv, Moves
<1>3. QED
  BY <1>0, <1>1, <1>2, StepKinds DEF Turns, svars, store

(* Once nobody works on a key, its row and its bytes agree, unless a store *)
(* call or commit on it failed or two requests met on it outside the row's *)
(* lock: whoever stores, copies or deletes bytes has the other half of the *)
(* key settled first (doUpload, moveObject, copyObject, deleteBytes,       *)
(* uploadToSignedURL, handleSignUpload), and nobody else comes in between. *)
THEOREM RowAndBytesAgreeHolds == SSpec => []RowAndBytesAgree
<1>1. AgreeInv => RowAndBytesAgree
  <2> SUFFICES ASSUME AgreeInv, NEW k \in Key \ unsafe, \A q \in Slot : k \notin Work(job[q])
               PROVE  Agree(k)
    BY DEF RowAndBytesAgree, Agree
  <2>1. \A q \in Slot : ~Halfway(job[q], k)
    BY HalfwayWorks DEF AgreeInv, AccessInv, Jobs, Sound
  <2>2. QED
    BY <2>1 DEF AgreeInv, HalvesKnown
<1>2. QED
  BY <1>1, AgreeInit, AgreeKept, PTL DEF SSpec
=============================================================================
