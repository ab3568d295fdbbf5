------------------------------ MODULE JWTKeys ------------------------------
(***************************************************************************)
(* Signing keys: internal/app/jwtkeys.go.  Every process (and the boot     *)
(* step of the engine) has a JWTKeyManager, a cache of the table           *)
(* auth.jwt_keys they share.  Get and Active reload the cache when it is   *)
(* old, with the query outside the mutex; RotateActive retires the keys in *)
(* a transaction with the mutex held.                                      *)
(***************************************************************************)
EXTENDS Naturals, FiniteSets

CONSTANTS
  Manager,            \* JWTKeyManagers that share the database
  Proc,               \* request goroutines
  Home,               \* the manager each goroutine calls
  MaxKid,             \* bound: keys ever generated, numbered by created_at
  MaxClock,           \* bound: last instant of the horizon
  Slow,               \* bound: ticks a request lasts
  Faults,             \* do statements fail
  Life,               \* maxTokenLifetime: auth.jwt_expiry
  Leeway,             \* JWTVerifyLeeway
  ReloadInterval,     \* keyReloadInterval
  MissReloadInterval, \* keyMissReloadInterval
  None                \* no goroutine

ASSUME KeysAssumption ==
  /\ Home \in [Proc -> Manager] /\ None \notin Proc
  /\ MaxKid \in Nat /\ MaxClock \in Nat /\ Slow \in Nat /\ Faults \in BOOLEAN
  /\ Life \in Nat /\ Leeway \in Nat
  /\ ReloadInterval \in Nat /\ MissReloadInterval \in Nat

VARIABLES
  keys,   \* auth.jwt_keys
  mgr,    \* the fields of each manager
  proc,   \* the state of each request between two steps
  expiry, \* history: when the last token signed by each key expires
  clock

vars == <<keys, mgr, proc, expiry, clock>>

Kid   == 1..MaxKid
NoKid == 0
Time  == 0..MaxClock

(* at is retired_at.  "made": generated and not stored.                    *)
KeyRow == [state: {"none", "made", "active", "retired"}, at: Time]
Absent == [state |-> "none", at |-> 0]
Active == [state |-> "active", at |-> 0]

(* stale stands for the zero loadedAt.  mu is the goroutine that holds the *)
(* mutex across a statement.  gen is compared for equality only.           *)
MgrState == [active: Kid \cup {NoKid}, byKID: [Kid -> KeyRow], loadedAt: Time,
             stale: BOOLEAN, loading: BOOLEAN, gen: 0..MaxKid,
             mu: Proc \cup {None}]

Request == [pc: {"idle", "refresh", "query", "install", "wait", "lookup",
                 "active", "lock", "load", "mint", "sign", "begin", "retire",
                 "update", "commit", "done"},
            op: {"none", "sign", "verify", "rotate"},
            ans: {"none", "signed", "ok", "retired", "unknown", "rotated", "error"},
            kid: Kid \cup {NoKid}, missed: BOOLEAN, gen: 0..MaxKid,
            snap: [Kid -> KeyRow], failed: BOOLEAN, targets: SUBSET Kid,
            cutoff: Time, since: Time, start: Time]

Idle == [pc |-> "idle", op |-> "none", ans |-> "none", kid |-> NoKid,
         missed |-> FALSE, gen |-> 0, snap |-> [k \in Kid |-> Absent],
         failed |-> FALSE, targets |-> {}, cutoff |-> 0, since |-> 0, start |-> 0]

TypeOK ==
  /\ keys \in [Kid -> KeyRow]
  /\ mgr \in [Manager -> MgrState]
  /\ proc \in [Proc -> Request]
  /\ expiry \in [Kid -> 0..(MaxClock + Life)]
  /\ clock \in Time
-----------------------------------------------------------------------------
retiredGrace == Life + Leeway

M(p) == mgr[Home[p]]

Unlocked(p) == M(p).mu = None

(* Keys the table holds, to a statement of another transaction.            *)
Current == {k \in Kid : keys[k].state = "active"}

(* Keys not generated yet: a number below one in use is not taken again.   *)
Ungenerated == {k \in Kid : \A j \in k..MaxKid : keys[j].state = "none"}

IsNextKid(k) == k \in Ungenerated /\ k - 1 \notin Ungenerated

(* Bound: a request that may generate a key begins only while one is left. *)
KidLeft == Cardinality({p \in Proc : proc[p].op \in {"sign", "rotate"}
                                      /\ proc[p].kid = NoKid
                                      /\ proc[p].pc \notin {"idle", "done"}})
             < Cardinality(Ungenerated)

Step(p, r) == proc' = [proc EXCEPT ![p] = r]

Answer(p, a, k) == [Idle EXCEPT !.pc = "done", !.op = proc[p].op, !.ans = a,
                                !.kid = k]

Update(p, m) == mgr' = [mgr EXCEPT ![Home[p]] = m]

(* Active returns key k.                                                   *)
Chosen(p, k) == Step(p, [proc[p] EXCEPT !.pc = "sign", !.kid = k])
-----------------------------------------------------------------------------
(* Active and Get both begin with refresh(keyReloadInterval, no wait).     *)

Begin(p, op, k) ==
  /\ proc[p].pc = "idle"
  /\ Step(p, [Idle EXCEPT !.pc = IF op = "rotate" THEN "begin" ELSE "refresh",
                          !.op = op, !.kid = k, !.start = clock])
  /\ UNCHANGED <<keys, mgr, expiry, clock>>

BeginActive(p) == (KidLeft \/ Current # {}) /\ Begin(p, "sign", NoKid)

(* A token of key k is presented.                                          *)
BeginGet(p, k) == expiry[k] > 0 /\ Begin(p, "verify", k)

AfterRefresh(p) == IF proc[p].op = "sign" THEN "active" ELSE "lookup"

MaxAge(p) == IF proc[p].missed THEN MissReloadInterval ELSE ReloadInterval

Young(p) == ~M(p).stale /\ clock - M(p).loadedAt < MaxAge(p)

(* Young enough, or another goroutine is reloading: only a miss waits.     *)
RefreshSkip(p) ==
  /\ proc[p].pc = "refresh" /\ Unlocked(p)
  /\ M(p).loading \/ Young(p)
  /\ Step(p, [proc[p] EXCEPT !.pc = IF M(p).loading /\ proc[p].missed
                                    THEN "wait" ELSE AfterRefresh(p)])
  /\ UNCHANGED <<keys, mgr, expiry, clock>>

Cutoff == IF clock > retiredGrace THEN clock - retiredGrace ELSE 0

RefreshStart(p) ==
  /\ proc[p].pc = "refresh" /\ Unlocked(p)
  /\ ~M(p).loading /\ ~Young(p)
  /\ Update(p, [M(p) EXCEPT !.loading = TRUE, !.loadedAt = clock, !.stale = FALSE])
  /\ Step(p, [proc[p] EXCEPT !.pc = "query", !.gen = M(p).gen, !.cutoff = Cutoff])
  /\ UNCHANGED <<keys, expiry, clock>>

(* SELECT ... WHERE retired_at IS NULL OR retired_at >= cutoff.            *)
QueryKeys(p) ==
  /\ proc[p].pc = "query"
  /\ \/ Step(p, [proc[p] EXCEPT !.pc = "install",
          !.snap = [k \in Kid |->
            IF \/ keys[k].state = "active"
               \/ keys[k].state = "retired" /\ keys[k].at >= proc[p].cutoff
            THEN keys[k] ELSE Absent]])
     \/ Faults /\ Step(p, [proc[p] EXCEPT !.pc = "install", !.failed = TRUE])
  /\ UNCHANGED <<keys, mgr, expiry, clock>>

\* Mutant: active is kept whatever the reload brings.
InstalledKept(m, p) ==
  CASE proc[p].failed -> m
    [] ~proc[p].failed /\ m.gen # proc[p].gen -> [m EXCEPT !.stale = TRUE]
    [] OTHER -> [m EXCEPT !.byKID = proc[p].snap]

\* Mutant: the generation is not compared.
InstalledStale(m, p) ==
  IF proc[p].failed THEN m
  ELSE [m EXCEPT !.byKID = proc[p].snap,
                 !.active = IF @ # NoKid /\ proc[p].snap[@].state # "active"
                            THEN NoKid ELSE @]

Installed(m, p) ==
  CASE proc[p].failed -> m
    [] ~proc[p].failed /\ m.gen # proc[p].gen -> [m EXCEPT !.stale = TRUE]
    [] OTHER -> [m EXCEPT !.byKID = proc[p].snap,
                          !.active = IF @ # NoKid /\ proc[p].snap[@].state # "active"
                                     THEN NoKid ELSE @]

\* Mutant: the channel is not closed.
WokenNone(p) == {}

Woken(p) == {q \in Proc : proc[q].pc = "wait" /\ Home[q] = Home[p]}

(* The rows are installed unless a local write made them stale; the        *)
(* goroutines that wait for the channel go on.                             *)
Install(p) ==
  /\ proc[p].pc = "install" /\ Unlocked(p)
  /\ Update(p, [Installed(M(p), p) EXCEPT !.loading = FALSE])
  /\ proc' = [q \in Proc |->
       IF q = p
       THEN [proc[p] EXCEPT !.pc = AfterRefresh(p), !.failed = FALSE, !.gen = 0,
                            !.cutoff = 0, !.snap = [k \in Kid |-> Absent]]
       ELSE IF q \in Woken(p) THEN [proc[q] EXCEPT !.pc = "lookup"] ELSE proc[q]]
  /\ UNCHANGED <<keys, expiry, clock>>
-----------------------------------------------------------------------------
(* Get.                                                                    *)

expired(row) == row.state = "retired" /\ clock - row.at > retiredGrace

Get(p) ==
  LET row == M(p).byKID[proc[p].kid]
  IN  /\ proc[p].pc = "lookup" /\ Unlocked(p)
      /\ Step(p, IF row.state # "none"
                 THEN Answer(p, IF expired(row) THEN "retired" ELSE "ok",
                             proc[p].kid)
                 ELSE IF proc[p].missed THEN Answer(p, "unknown", proc[p].kid)
                 ELSE [proc[p] EXCEPT !.pc = "refresh", !.missed = TRUE])
      /\ UNCHANGED <<keys, mgr, expiry, clock>>
-----------------------------------------------------------------------------
(* Active: the cached key, or the newest of the table, or a new one.       *)

ReadActive(p) ==
  /\ proc[p].pc = "active" /\ Unlocked(p)
  /\ IF M(p).active # NoKid
     THEN Chosen(p, M(p).active)
     ELSE Step(p, [proc[p] EXCEPT !.pc = "lock"])
  /\ UNCHANGED <<keys, mgr, expiry, clock>>

LockActive(p) ==
  /\ proc[p].pc = "lock" /\ Unlocked(p)
  /\ IF M(p).active # NoKid
     THEN Chosen(p, M(p).active) /\ UNCHANGED mgr
     ELSE /\ Step(p, [proc[p] EXCEPT !.pc = "load"])
          /\ Update(p, [M(p) EXCEPT !.mu = p])
  /\ UNCHANGED <<keys, expiry, clock>>

Release(m) == [m EXCEPT !.mu = None]

Adopt(m, k) == [m EXCEPT !.active = k, !.byKID[k] = Active]

(* SELECT ... ORDER BY created_at DESC LIMIT 1.                            *)
LoadActive(p) ==
  /\ proc[p].pc = "load"
  /\ IF Current # {}
     THEN LET k == CHOOSE k \in Current : \A j \in Current : j <= k
          IN  /\ Update(p, Release(Adopt(M(p), k)))
              /\ Chosen(p, k)
              /\ UNCHANGED keys
     ELSE \E k \in Kid : /\ IsNextKid(k)
                         /\ keys' = [keys EXCEPT ![k].state = "made"]
                         /\ Step(p, [proc[p] EXCEPT !.pc = "mint", !.kid = k])
                         /\ UNCHANGED mgr
  /\ UNCHANGED <<expiry, clock>>

InsertKey(p) ==
  LET k == proc[p].kid
  IN  /\ proc[p].pc = "mint"
      /\ keys' = [keys EXCEPT ![k] = Active]
      /\ Update(p, Release(Adopt([M(p) EXCEPT !.gen = @ + 1], k)))
      /\ Chosen(p, k)
      /\ UNCHANGED <<expiry, clock>>

(* The caller dates and signs a token with the key it was given.           *)
signSession(p) ==
  LET k == proc[p].kid
  IN  /\ proc[p].pc = "sign"
      /\ expiry' = [expiry EXCEPT ![k] = clock + Life]
      /\ Step(p, Answer(p, "signed", k))
      /\ UNCHANGED <<keys, mgr, clock>>
-----------------------------------------------------------------------------
(* RotateActive.                                                           *)

BeginRotate(p) == KidLeft /\ Begin(p, "rotate", NoKid)

(* The key is generated before the lock is taken.                          *)
GenerateKey(p) ==
  /\ proc[p].pc = "begin"
  /\ \E k \in Kid : /\ IsNextKid(k)
                    /\ keys' = [keys EXCEPT ![k].state = "made"]
                    /\ Step(p, [proc[p] EXCEPT !.pc = "retire", !.kid = k])
  /\ UNCHANGED <<mgr, expiry, clock>>

\* Mutant: the mutex is taken after the transaction.
RetireStartFree(p) ==
  /\ proc[p].pc = "retire"
  /\ Step(p, [proc[p] EXCEPT !.pc = "update", !.targets = Current, !.since = clock])
  /\ UNCHANGED <<keys, mgr, expiry, clock>>

(* The UPDATE of the keys takes its snapshot ...                           *)
RetireStart(p) ==
  /\ proc[p].pc = "retire" /\ Unlocked(p)
  /\ Update(p, [M(p) EXCEPT !.mu = p])
  /\ Step(p, [proc[p] EXCEPT !.pc = "update", !.targets = Current, !.since = clock])
  /\ UNCHANGED <<keys, expiry, clock>>

Locked(k) == \E q \in Proc : proc[q].pc = "commit" /\ k \in proc[q].targets

(* ... and locks those rows, skipping what was retired while it waited.    *)
RetireFinish(p) ==
  /\ proc[p].pc = "update"
  /\ \A k \in proc[p].targets : ~Locked(k)
  /\ Step(p, [proc[p] EXCEPT !.pc = "commit", !.targets = @ \cap Current])
  /\ UNCHANGED <<keys, mgr, expiry, clock>>

Rotated(p) ==
  [k \in Kid |-> IF k = proc[p].kid THEN Active
                 ELSE IF k \in proc[p].targets
                      THEN [state |-> "retired", at |-> proc[p].since]
                      ELSE keys[k]]

Stamped(m) == IF m.active = NoKid THEN m
              ELSE [m EXCEPT !.byKID[m.active] = [state |-> "retired", at |-> clock]]

(* INSERT and COMMIT, then the fields, with the key that signed so far     *)
(* stamped retired.                                                        *)
CommitRotation(p) ==
  LET k == proc[p].kid
  IN  /\ proc[p].pc = "commit"
      /\ keys' = Rotated(p)
      /\ Update(p, Release(Adopt(Stamped([M(p) EXCEPT !.gen = @ + 1]), k)))
      /\ Step(p, Answer(p, "rotated", k))
      /\ UNCHANGED <<expiry, clock>>
-----------------------------------------------------------------------------
(* A statement fails: the transaction rolls back, the mutex is free and    *)
(* the key generated is dropped.                                           *)
StatementFails(p) ==
  /\ Faults
  /\ proc[p].pc \in {"load", "mint", "update", "commit"}
  /\ keys' = [k \in Kid |-> IF k = proc[p].kid THEN Absent ELSE keys[k]]
  /\ Update(p, Release(M(p)))
  /\ Step(p, Answer(p, "error", NoKid))
  /\ UNCHANGED <<expiry, clock>>

(* The client of a waiting Get goes away.                                  *)
GiveUp(p) ==
  /\ proc[p].pc = "wait"
  /\ Step(p, Idle)
  /\ UNCHANGED <<keys, mgr, expiry, clock>>

Return(p) ==
  /\ proc[p].pc = "done"
  /\ Step(p, Idle)
  /\ UNCHANGED <<keys, mgr, expiry, clock>>

Tick ==
  /\ clock < MaxClock
  /\ \A p \in Proc : proc[p].pc \notin {"idle", "done"}
                       => clock + 1 <= proc[p].start + Slow
  /\ clock' = clock + 1
  /\ UNCHANGED <<keys, mgr, proc, expiry>>

Init ==
  /\ keys = [k \in Kid |-> Absent]
  /\ mgr = [m \in Manager |->
       [active |-> NoKid, byKID |-> [k \in Kid |-> Absent], loadedAt |-> 0,
        stale |-> TRUE, loading |-> FALSE, gen |-> 0, mu |-> None]]
  /\ proc = [p \in Proc |-> Idle]
  /\ expiry = [k \in Kid |-> 0]
  /\ clock = 0

Serve(p) == \/ RefreshSkip(p) \/ RefreshStart(p) \/ QueryKeys(p) \/ Install(p)
            \/ Get(p) \/ ReadActive(p) \/ LockActive(p) \/ LoadActive(p)
            \/ InsertKey(p) \/ signSession(p) \/ GenerateKey(p)
            \/ RetireStart(p) \/ RetireFinish(p) \/ CommitRotation(p)
            \/ Return(p)

Next == \/ \E p \in Proc : \/ BeginActive(p) \/ BeginRotate(p)
                           \/ \E k \in Kid : BeginGet(p, k)
                           \/ Serve(p) \/ StatementFails(p) \/ GiveUp(p)
        \/ Tick

Spec == Init /\ [][Next]_vars

(* Goroutines are scheduled, statements end and a mutex that is free again *)
(* and again is granted.                                                   *)
Fairness == \A p \in Proc : SF_vars(Serve(p))

FairSpec == Spec /\ Fairness
-----------------------------------------------------------------------------
(* Properties.                                                             *)

Answers(p, a) == proc[p].pc # "done" /\ proc'[p].pc = "done" /\ proc'[p].ans \in a

(* The key a manager signs with is one its own Get accepts: no reload,     *)
(* rotation or load separates the two fields (refresh, RotateActive).      *)
ActiveVerifies ==
  \A m \in Manager : (mgr[m].active # NoKid /\ mgr[m].mu = None)
                        => mgr[m].byKID[mgr[m].active].state = "active"

(* The table has one key in use: the first use creates one however many    *)
(* requests come first, and a rotation retires all there were.             *)
OneCurrentKey == Cardinality(Current) <= 1

(* After a rotation the new key is the only one in use, on any manager     *)
(* (RotateActive: "Every previously active key is marked retired").        *)
RotationRetiresAll ==
  [][\A p \in Proc : Answers(p, {"rotated"}) => Current' = {proc[p].kid}]_vars

(* Get refuses no key whose tokens are unexpired, for being retired or     *)
(* unknown (RotateActive: "tokens it signed still verify until they        *)
(* expire").                                                               *)
TokensVerify ==
  [][\A p \in Proc : Answers(p, {"retired", "unknown"})
                       => expiry[proc[p].kid] <= clock]_vars

(* Get refuses no key for being retired while tokens signed before its     *)
(* retirement are unexpired, on any manager.                               *)
RefusesPastGrace ==
  \A p \in Proc : Answers(p, {"retired"}) => /\ keys[proc[p].kid].state = "retired"
                                             /\ clock > keys[proc[p].kid].at + Life
GraceCoversTokens == [][RefusesPastGrace]_vars

(* A cache that takes a retired key for one in use, or dates its           *)
(* retirement by its own clock.                                            *)
Ignores(m, k) == /\ keys[k].state = "retired"
                 /\ \/ mgr[m].active = k
                    \/ mgr[m].byKID[k] \notin {Absent, keys[k]}

(* A manager that loaded its cache after a retirement committed knows of   *)
(* it, whatever reloads, rotations and first uses overlapped (refresh and  *)
(* the generation): a retired key signs, and verifies past its grace, only *)
(* on a manager that has not reloaded since.                               *)
RetirementIsLearnt ==
  \A m \in Manager, k \in Kid :
    Ignores(m, k) => \/ mgr[m].loading \/ mgr[m].stale
                     \/ mgr[m].loadedAt <= keys[k].at + Slow

(* A retired key does its work and no more: it verifies the tokens it      *)
(* signed, and no manager ignores its retirement beyond a reload.          *)
RetirementIsTimely == [][RefusesPastGrace /\ RetirementIsLearnt']_vars

(* The table has one key in use, and the key a manager signs with is one    *)
(* its own Get accepts.                                                     *)
KeysAgree == OneCurrentKey /\ ActiveVerifies

(* Nobody waits for ever for the mutex, a reload or another's transaction. *)
RequestsReturn == \A p \in Proc : proc[p].pc # "idle" ~> proc[p].pc = "idle"
=============================================================================
