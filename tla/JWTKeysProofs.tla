---------------------------- MODULE JWTKeysProofs ----------------------------
(***************************************************************************)
(* Proofs about JWTKeys, for any managers, goroutines, keys and intervals. *)
(***************************************************************************)
EXTENDS JWTKeys, FiniteSetTheorems, TLAPS

(* A set of numbers below a bound that has one has a largest: the query    *)
(* for the newest key in use finds it.                                     *)
LEMMA MaxExists ==
  ASSUME NEW S \in SUBSET Nat, S # {}, NEW b \in Nat, \A j \in S : j <= b
  PROVE  \E k \in S : \A j \in S : j <= k
<1> DEFINE D == {b - j : j \in S}
<1>1. D \subseteq Nat /\ D # {}
  <2>1. \A j \in S : b - j \in Nat
    OBVIOUS
  <2>2. PICK j \in S : TRUE
    OBVIOUS
  <2>3. b - j \in D
    OBVIOUS
  <2>4. QED
    BY <2>1, <2>3
<1>2. PICK d \in D : \A e \in D : d <= e
  <2> DEFINE R == OpToRel(<, Nat)
  <2>1. \A x, y \in Nat : x < y => <<x, y>> \in R
    BY DEF OpToRel
  <2>2. IsWellFoundedOn(R, Nat)
    BY NatLessThanWellFounded
  <2> HIDE DEF R, D
  <2>3. PICK d \in D : \A e \in D : ~(<<e, d>> \in R)
    BY <1>1, <2>2, WFMin
  <2>4. ASSUME NEW e \in D PROVE d <= e
    <3>1. e \in Nat /\ d \in Nat /\ ~(<<e, d>> \in R)
      BY <1>1, <2>3
    <3>2. ~(e < d)
      BY <2>1, <3>1
    <3>3. QED
      BY <3>1, <3>2
  <2>5. QED
    BY <2>4
<1>3. PICK k \in S : d = b - k
  BY <1>2
<1>4. \A j \in S : b - j \in D
  OBVIOUS
<1>5. ASSUME NEW j \in S PROVE j <= k
  <2>1. d <= b - j
    BY <1>2, <1>4
  <2>2. k \in Nat /\ j \in Nat /\ d = b - k
    BY <1>3
  <2> HIDE DEF D
  <2>3. QED
    BY <2>1, <2>2
<1>6. QED
  BY <1>5

(***************************************************************************)
(* Records.                                                                *)
(***************************************************************************)
Pcs == {"idle", "refresh", "query", "install", "wait", "lookup", "active", "lock",
        "load", "mint", "sign", "begin", "retire", "update", "commit", "done"}

(* The fields of x that are those of r, but for pc and ans.                *)
Carries(x, r) == /\ x.op = r.op /\ x.missed = r.missed /\ x.failed = r.failed
                 /\ x.gen = r.gen /\ x.snap = r.snap /\ x.targets = r.targets
                 /\ x.cutoff = r.cutoff /\ x.since = r.since /\ x.start = r.start

LEMMA IdleType == Idle \in Request
  BY KeysAssumption DEF Idle, Request, Kid, NoKid, KeyRow, Absent, Time

LEMMA AnswerType ==
  ASSUME TypeOK, NEW p \in Proc, NEW k \in Kid \cup {NoKid},
         NEW a \in {"none", "signed", "ok", "retired", "unknown", "rotated", "error"}
  PROVE  /\ Answer(p, a, k) \in Request /\ Answer(p, a, k).pc = "done"
         /\ Answer(p, a, k).ans = a /\ Answer(p, a, k).kid = k
         /\ Answer(p, a, k).op = proc[p].op
<1>1. proc[p] \in Request
  BY DEF TypeOK
<1>2. Idle \in Request
  BY IdleType
<1>3. Idle.snap \in [Kid -> KeyRow] /\ Idle.targets \in SUBSET Kid
  BY <1>2 DEF Request
<1>4. QED
  BY ZenonT(60), <1>1, <1>2, <1>3 DEF Answer, Request

LEMMA PcEdit ==
  ASSUME NEW r \in Request, NEW c \in Pcs, NEW x, x = [r EXCEPT !.pc = c]
  PROVE  x \in Request /\ x.pc = c /\ x.kid = r.kid /\ Carries(x, r)
  BY DEF Request, Carries, Pcs

(***************************************************************************)
(* What each action does, field by field.                                  *)
(***************************************************************************)
ProcsTyped == proc \in [Proc -> Request]
MgrsTyped  == mgr \in [Manager -> MgrState]

Others(p)    == ProcsTyped' /\ \A q \in Proc : q # p => proc'[q] = proc[q]
MgrOthers(p) == MgrsTyped' /\ \A h \in Manager : h # Home[p] => mgr'[h] = mgr[h]

(* Request p goes on at c, or with key k.                                  *)
Moves(p, c)    == /\ Others(p) /\ proc'[p].pc = c /\ proc'[p].kid = proc[p].kid
                  /\ Carries(proc'[p], proc[p])
Takes(p, k, c) == /\ Others(p) /\ proc'[p].pc = c /\ proc'[p].kid = k
                  /\ Carries(proc'[p], proc[p])
Ends(p)        == Others(p) /\ proc'[p].pc \in {"done", "idle"}

LEMMA StepIs ==
  ASSUME TypeOK, NEW p \in Proc, NEW x \in Request, Step(p, x)
  PROVE  Others(p) /\ proc'[p] = x
  BY DEF TypeOK, Step, Others, ProcsTyped

LEMMA StepMoves ==
  ASSUME TypeOK, NEW p \in Proc, NEW c \in Pcs, Step(p, [proc[p] EXCEPT !.pc = c])
  PROVE  Moves(p, c)
<1>1. PICK x : x = [proc[p] EXCEPT !.pc = c]
  OBVIOUS
<1>2. proc[p] \in Request
  BY DEF TypeOK
<1>3. x \in Request /\ x.pc = c /\ x.kid = proc[p].kid /\ Carries(x, proc[p])
  BY <1>1, <1>2, PcEdit
<1>4. Others(p) /\ proc'[p] = x
  BY <1>1, <1>3, StepIs
<1>5. QED
  BY <1>3, <1>4 DEF Moves

LEMMA StepTakes ==
  ASSUME TypeOK, NEW p \in Proc, NEW c \in Pcs, NEW k \in Kid,
         Step(p, [proc[p] EXCEPT !.pc = c, !.kid = k])
  PROVE  Takes(p, k, c)
<1> DEFINE x == [proc[p] EXCEPT !.pc = c, !.kid = k]
<1>1. proc[p] \in Request
  BY DEF TypeOK
<1>2. x \in Request /\ x.pc = c /\ x.kid = k /\ Carries(x, proc[p])
  BY ZenonT(60), <1>1 DEF Request, Carries, Pcs
<1>3. Step(p, x)
  OBVIOUS
<1> HIDE DEF x
<1>4. Others(p) /\ proc'[p] = x
  BY <1>2, <1>3, StepIs
<1>5. QED
  BY <1>2, <1>4 DEF Takes

LEMMA StepEnds ==
  ASSUME TypeOK, NEW p \in Proc, NEW k \in Kid \cup {NoKid},
         NEW a \in {"none", "signed", "ok", "retired", "unknown", "rotated", "error"},
         Step(p, Answer(p, a, k))
  PROVE  /\ Ends(p) /\ proc'[p].pc = "done" /\ proc'[p].ans = a /\ proc'[p].kid = k
         /\ proc'[p].op = proc[p].op
<1>1. PICK x : x = Answer(p, a, k)
  OBVIOUS
<1>2. x \in Request /\ x.pc = "done" /\ x.ans = a /\ x.kid = k /\ x.op = proc[p].op
  BY <1>1, AnswerType
<1>3. Others(p) /\ proc'[p] = x
  BY <1>1, <1>2, StepIs
<1>4. QED
  BY <1>2, <1>3 DEF Ends

LEMMA StepIdles ==
  ASSUME TypeOK, NEW p \in Proc, Step(p, Idle)
  PROVE  Ends(p) /\ proc'[p].pc = "idle"
<1>1. Idle \in Request /\ Idle.pc = "idle"
  BY IdleType DEF Idle
<1>2. QED
  BY <1>1, StepIs DEF Ends

LEMMA UpdateIs ==
  ASSUME TypeOK, NEW p \in Proc, NEW m \in MgrState, Update(p, m)
  PROVE  MgrOthers(p) /\ mgr'[Home[p]] = m /\ Home[p] \in Manager
  BY KeysAssumption DEF TypeOK, Update, MgrOthers, MgrsTyped

LEMMA BeginShape ==
  ASSUME TypeOK, NEW p \in Proc, NEW k \in Kid \cup {NoKid},
         NEW op \in {"sign", "verify", "rotate"}, Begin(p, op, k)
  PROVE  /\ Others(p) /\ proc'[p].pc = IF op = "rotate" THEN "begin" ELSE "refresh"
         /\ proc'[p].op = op /\ proc'[p].kid = k /\ ~proc'[p].missed
         /\ ~proc'[p].failed /\ proc'[p].start = clock
         /\ UNCHANGED <<keys, mgr, expiry, clock>>
<1> DEFINE c == IF op = "rotate" THEN "begin" ELSE "refresh"
           x == [Idle EXCEPT !.pc = c, !.op = op, !.kid = k, !.start = clock]
<1>1. Idle \in Request /\ ~Idle.missed /\ ~Idle.failed
  BY IdleType DEF Idle
<1>2. clock \in Time /\ c \in {"begin", "refresh"}
  BY DEF TypeOK
<1> HIDE DEF c
<1>3. /\ x \in Request /\ x.pc = c /\ x.op = op /\ x.kid = k /\ ~x.missed /\ ~x.failed
      /\ x.start = clock
  BY ZenonT(60), <1>1, <1>2 DEF Request
<1>4. Step(p, x) /\ UNCHANGED <<keys, mgr, expiry, clock>>
  BY DEF Begin, c
<1> HIDE DEF x
<1>5. QED
  BY <1>3, <1>4, StepIs DEF c

LEMMA SkipShape ==
  ASSUME TypeOK, NEW p \in Proc, RefreshSkip(p)
  PROVE  /\ proc[p].pc = "refresh"
         /\ \/ Moves(p, "wait") /\ proc[p].missed
            \/ Moves(p, AfterRefresh(p))
         /\ UNCHANGED <<keys, mgr, expiry, clock>>
<1> DEFINE c == IF M(p).loading /\ proc[p].missed THEN "wait" ELSE AfterRefresh(p)
<1>1. c \in Pcs
  BY DEF Pcs, AfterRefresh
<1>2. Step(p, [proc[p] EXCEPT !.pc = c]) /\ UNCHANGED <<keys, mgr, expiry, clock>>
      /\ proc[p].pc = "refresh"
  BY DEF RefreshSkip
<1>3. Moves(p, c)
  BY <1>1, <1>2, StepMoves
<1>4. QED
  BY <1>2, <1>3

LEMMA StartShape ==
  ASSUME TypeOK, NEW p \in Proc, RefreshStart(p)
  PROVE  /\ proc[p].pc = "refresh" /\ ~M(p).loading /\ Home[p] \in Manager
         /\ MgrOthers(p)
         /\ mgr'[Home[p]].loading /\ ~mgr'[Home[p]].stale
         /\ mgr'[Home[p]].loadedAt = clock
         /\ mgr'[Home[p]].active = M(p).active /\ mgr'[Home[p]].byKID = M(p).byKID
         /\ mgr'[Home[p]].gen = M(p).gen /\ mgr'[Home[p]].mu = M(p).mu
         /\ Others(p) /\ proc'[p].pc = "query"
         /\ proc'[p].gen = M(p).gen /\ proc'[p].cutoff = Cutoff
         /\ proc'[p].op = proc[p].op /\ proc'[p].kid = proc[p].kid
         /\ proc'[p].missed = proc[p].missed /\ proc'[p].failed = proc[p].failed
         /\ proc'[p].targets = proc[p].targets /\ proc'[p].start = proc[p].start
         /\ UNCHANGED <<keys, expiry, clock>>
<1>1. /\ proc[p] \in Request /\ M(p) \in MgrState /\ Home[p] \in Manager /\ clock \in Time
      /\ retiredGrace \in Nat
  BY KeysAssumption DEF TypeOK, M, retiredGrace
<1>2. Cutoff \in Time
  BY <1>1, KeysAssumption DEF Cutoff, Time
<1> DEFINE m == [M(p) EXCEPT !.loading = TRUE, !.loadedAt = clock, !.stale = FALSE]
<1>3. m \in MgrState /\ m.loading /\ ~m.stale /\ m.loadedAt = clock /\ m.active = M(p).active
      /\ m.byKID = M(p).byKID /\ m.gen = M(p).gen /\ m.mu = M(p).mu
  BY <1>1 DEF MgrState
<1> DEFINE x == [proc[p] EXCEPT !.pc = "query", !.gen = M(p).gen, !.cutoff = Cutoff]
<1>4. M(p).gen \in 0..MaxKid
  BY <1>1 DEF MgrState
<1>5. PICK g, c : g = M(p).gen /\ c = Cutoff
  OBVIOUS
<1>6. /\ x \in Request /\ x.pc = "query" /\ x.gen = g /\ x.cutoff = c
      /\ x.op = proc[p].op /\ x.kid = proc[p].kid /\ x.missed = proc[p].missed
      /\ x.failed = proc[p].failed /\ x.targets = proc[p].targets /\ x.start = proc[p].start
  BY <1>1, <1>2, <1>4, <1>5 DEF Request
<1>7. /\ Update(p, m) /\ Step(p, x) /\ UNCHANGED <<keys, expiry, clock>>
      /\ proc[p].pc = "refresh" /\ ~M(p).loading
  BY DEF RefreshStart
<1> HIDE DEF m, x
<1>8. MgrOthers(p) /\ mgr'[Home[p]] = m
  BY <1>3, <1>7, UpdateIs
<1>9. Others(p) /\ proc'[p] = x
  BY <1>6, <1>7, StepIs
<1>10. QED
  BY <1>1, <1>3, <1>5, <1>6, <1>7, <1>8, <1>9

LEMMA QueryShape ==
  ASSUME TypeOK, NEW p \in Proc, QueryKeys(p)
  PROVE  /\ proc[p].pc = "query" /\ Others(p) /\ proc'[p].pc = "install"
         /\ proc'[p].gen = proc[p].gen /\ proc'[p].cutoff = proc[p].cutoff
         /\ proc'[p].op = proc[p].op /\ proc'[p].kid = proc[p].kid
         /\ proc'[p].missed = proc[p].missed /\ proc'[p].targets = proc[p].targets
         /\ proc'[p].start = proc[p].start
         /\ \/ Faults /\ proc'[p].failed
            \/ /\ proc'[p].failed = proc[p].failed
               /\ \A k \in Kid : proc'[p].snap[k] =
                    IF \/ keys[k].state = "active"
                       \/ keys[k].state = "retired" /\ keys[k].at >= proc[p].cutoff
                    THEN keys[k] ELSE Absent
         /\ UNCHANGED <<keys, mgr, expiry, clock>>
<1>1. /\ proc[p] \in Request /\ keys \in [Kid -> KeyRow] /\ proc[p].pc = "query"
      /\ UNCHANGED <<keys, mgr, expiry, clock>>
  BY DEF TypeOK, QueryKeys
<1> DEFINE s == [k \in Kid |->
                   IF \/ keys[k].state = "active"
                      \/ keys[k].state = "retired" /\ keys[k].at >= proc[p].cutoff
                   THEN keys[k] ELSE Absent]
           x == [proc[p] EXCEPT !.pc = "install", !.snap = s]
           y == [proc[p] EXCEPT !.pc = "install", !.failed = TRUE]
<1>2. /\ s \in [Kid -> KeyRow]
      /\ \A k \in Kid : s[k] = IF \/ keys[k].state = "active"
                                  \/ keys[k].state = "retired" /\ keys[k].at >= proc[p].cutoff
                               THEN keys[k] ELSE Absent
  BY <1>1, KeysAssumption DEF KeyRow, Absent, Time
<1>3. Step(p, x) \/ (Faults /\ Step(p, y))
  BY DEF QueryKeys
<1> HIDE DEF s
<1>4. /\ x \in Request /\ x.pc = "install" /\ x.snap = s /\ x.gen = proc[p].gen
      /\ x.cutoff = proc[p].cutoff /\ x.op = proc[p].op /\ x.kid = proc[p].kid
      /\ x.missed = proc[p].missed /\ x.targets = proc[p].targets
      /\ x.start = proc[p].start /\ x.failed = proc[p].failed
  BY <1>1, <1>2 DEF Request
<1>5. /\ y \in Request /\ y.pc = "install" /\ y.gen = proc[p].gen
      /\ y.cutoff = proc[p].cutoff /\ y.op = proc[p].op /\ y.kid = proc[p].kid
      /\ y.missed = proc[p].missed /\ y.targets = proc[p].targets
      /\ y.start = proc[p].start /\ y.failed
  BY <1>1 DEF Request
<1> HIDE DEF x, y
<1>6. CASE Step(p, x)
  <2>1. Others(p) /\ proc'[p] = x
    BY <1>4, <1>6, StepIs
  <2>2. QED
    BY <1>1, <1>2, <1>4, <2>1
<1>7. CASE Faults /\ Step(p, y)
  <2>1. Others(p) /\ proc'[p] = y
    BY <1>5, <1>7, StepIs
  <2>2. QED
    BY <1>1, <1>5, <1>7, <2>1
<1>8. QED
  BY <1>3, <1>6, <1>7

(* The cache after a reload.                                               *)
LEMMA InstalledShape ==
  ASSUME TypeOK, NEW p \in Proc, NEW m, m = [Installed(M(p), p) EXCEPT !.loading = FALSE]
  PROVE  /\ m \in MgrState /\ ~m.loading /\ m.loadedAt = M(p).loadedAt
         /\ m.gen = M(p).gen /\ m.mu = M(p).mu
         /\ \/ /\ proc[p].failed \/ M(p).gen # proc[p].gen
               /\ m.active = M(p).active /\ m.byKID = M(p).byKID
               /\ m.stale = IF proc[p].failed THEN M(p).stale ELSE TRUE
            \/ /\ ~proc[p].failed /\ M(p).gen = proc[p].gen
               /\ m.byKID = proc[p].snap /\ m.stale = M(p).stale
               /\ m.active = IF M(p).active # NoKid
                                /\ proc[p].snap[M(p).active].state # "active"
                             THEN NoKid ELSE M(p).active
<1>1. M(p) \in MgrState /\ proc[p].snap \in [Kid -> KeyRow]
  BY KeysAssumption DEF TypeOK, M, Request
<1>2. M(p).active \in Kid \cup {NoKid} /\ NoKid \notin Kid
  BY <1>1 DEF MgrState, Kid, NoKid
<1>3. CASE proc[p].failed
  <2>1. m = [M(p) EXCEPT !.loading = FALSE]
    BY <1>3 DEF Installed
  <2>2. QED
    BY <1>1, <1>3, <2>1 DEF MgrState
<1>4. CASE ~proc[p].failed /\ M(p).gen # proc[p].gen
  <2>1. m = [[M(p) EXCEPT !.stale = TRUE] EXCEPT !.loading = FALSE]
    BY <1>4 DEF Installed
  <2>2. QED
    BY <1>1, <1>4, <2>1 DEF MgrState
<1>5. CASE ~proc[p].failed /\ M(p).gen = proc[p].gen
  <2> DEFINE a == IF M(p).active # NoKid /\ proc[p].snap[M(p).active].state # "active"
                  THEN NoKid ELSE M(p).active
             s == proc[p].snap
             x == [M(p) EXCEPT !.byKID = s, !.active = a]
             y == [x EXCEPT !.loading = FALSE]
  <2>1. m = y
    BY <1>5 DEF Installed
  <2>2. a \in Kid \cup {NoKid} /\ s \in [Kid -> KeyRow]
    BY <1>1, <1>2
  <2> HIDE DEF a, s
  <2>3. /\ x \in MgrState /\ x.byKID = s /\ x.active = a /\ x.stale = M(p).stale
        /\ x.loadedAt = M(p).loadedAt /\ x.gen = M(p).gen /\ x.mu = M(p).mu
    BY <1>1, <2>2 DEF MgrState
  <2> HIDE DEF x
  <2>4. /\ y \in MgrState /\ y.byKID = s /\ y.active = a /\ y.stale = M(p).stale
        /\ y.loadedAt = M(p).loadedAt /\ y.gen = M(p).gen /\ y.mu = M(p).mu
        /\ ~y.loading
    BY <2>3 DEF MgrState
  <2>5. QED
    BY <1>5, <2>1, <2>4 DEF a, s
<1>6. QED
  BY <1>3, <1>4, <1>5

(* The reload of p changes the cache h, and lets those who wait go on.     *)
Reloads(p, h) ==
  /\ ~mgr'[h].loading /\ mgr'[h].loadedAt = mgr[h].loadedAt
  /\ mgr'[h].gen = mgr[h].gen /\ mgr'[h].mu = mgr[h].mu
  /\ \/ /\ proc[p].failed \/ mgr[h].gen # proc[p].gen
        /\ mgr'[h].active = mgr[h].active /\ mgr'[h].byKID = mgr[h].byKID
        /\ mgr'[h].stale = IF proc[p].failed THEN mgr[h].stale ELSE TRUE
     \/ /\ ~proc[p].failed /\ mgr[h].gen = proc[p].gen
        /\ mgr'[h].byKID = proc[p].snap /\ mgr'[h].stale = mgr[h].stale
        /\ mgr'[h].active = IF mgr[h].active # NoKid
                               /\ proc[p].snap[mgr[h].active].state # "active"
                            THEN NoKid ELSE mgr[h].active

Wakes(p) ==
  /\ ProcsTyped' /\ proc'[p].pc = AfterRefresh(p)
  /\ proc'[p].op = proc[p].op /\ proc'[p].kid = proc[p].kid
  /\ proc'[p].missed = proc[p].missed /\ ~proc'[p].failed
  /\ proc'[p].targets = proc[p].targets /\ proc'[p].start = proc[p].start
  /\ \A q \in Proc : q # p =>
       \/ proc'[q] = proc[q]
       \/ /\ proc[q].pc = "wait" /\ proc'[q].pc = "lookup"
          /\ proc'[q].kid = proc[q].kid /\ Carries(proc'[q], proc[q])

LEMMA InstallShape ==
  ASSUME TypeOK, NEW p \in Proc, Install(p), NEW h, h = Home[p]
  PROVE  /\ proc[p].pc = "install" /\ Unlocked(p) /\ h \in Manager /\ MgrOthers(p)
         /\ Reloads(p, h) /\ Wakes(p)
         /\ UNCHANGED <<keys, expiry, clock>>
<1>0. /\ \A q \in Proc : proc[q] \in Request
      /\ mgr[h] = M(p) /\ proc[p].pc = "install" /\ Unlocked(p)
      /\ UNCHANGED <<keys, expiry, clock>>
  BY DEF TypeOK, M, Install
<1>1. PICK m : m = [Installed(M(p), p) EXCEPT !.loading = FALSE]
  OBVIOUS
<1>2. /\ m \in MgrState /\ ~m.loading /\ m.loadedAt = M(p).loadedAt
      /\ m.gen = M(p).gen /\ m.mu = M(p).mu
      /\ \/ /\ proc[p].failed \/ M(p).gen # proc[p].gen
            /\ m.active = M(p).active /\ m.byKID = M(p).byKID
            /\ m.stale = IF proc[p].failed THEN M(p).stale ELSE TRUE
         \/ /\ ~proc[p].failed /\ M(p).gen = proc[p].gen
            /\ m.byKID = proc[p].snap /\ m.stale = M(p).stale
            /\ m.active = IF M(p).active # NoKid
                             /\ proc[p].snap[M(p).active].state # "active"
                          THEN NoKid ELSE M(p).active
  BY <1>1, InstalledShape
<1>3. Update(p, m)
  BY <1>1 DEF Install
<1>4. MgrOthers(p) /\ mgr'[h] = m /\ h \in Manager
  BY <1>2, <1>3, UpdateIs
<1> DEFINE c == AfterRefresh(p)
           s == [k \in Kid |-> Absent]
           x == [proc[p] EXCEPT !.pc = c, !.failed = FALSE, !.gen = 0,
                                !.cutoff = 0, !.snap = s]
           w(q) == [proc[q] EXCEPT !.pc = "lookup"]
<1>5. proc' = [q \in Proc |-> IF q = p THEN x ELSE IF q \in Woken(p) THEN w(q) ELSE proc[q]]
  BY DEF Install
<1>6. s \in [Kid -> KeyRow] /\ c \in {"active", "lookup"} /\ 0 \in 0..MaxKid /\ 0 \in Time
  BY KeysAssumption DEF KeyRow, Absent, Time, AfterRefresh
<1> HIDE DEF s, c
<1>7. /\ x \in Request /\ x.pc = c /\ x.op = proc[p].op /\ x.kid = proc[p].kid
      /\ x.missed = proc[p].missed /\ ~x.failed /\ x.targets = proc[p].targets
      /\ x.start = proc[p].start
  BY ZenonT(60), <1>0, <1>6 DEF Request
<1>8. ASSUME NEW q \in Proc
      PROVE  w(q) \in Request /\ w(q).pc = "lookup" /\ w(q).kid = proc[q].kid
             /\ Carries(w(q), proc[q])
  BY <1>0 DEF Request, Carries
<1> HIDE DEF x, w
<1>9. ProcsTyped' /\ proc'[p] = x
  BY <1>0, <1>5, <1>7, <1>8 DEF ProcsTyped
<1>10. ASSUME NEW q \in Proc, q # p
       PROVE  \/ proc'[q] = proc[q]
              \/ /\ proc[q].pc = "wait" /\ proc'[q].pc = "lookup"
                 /\ proc'[q].kid = proc[q].kid /\ Carries(proc'[q], proc[q])
  BY <1>5, <1>8, <1>10 DEF Woken
<1>11. QED
  <2>1. Reloads(p, h)
    BY <1>0, <1>2, <1>4 DEF Reloads
  <2>2. Wakes(p)
    BY <1>7, <1>9, <1>10 DEF c, Wakes
  <2>3. QED
    BY <1>0, <1>4, <2>1, <2>2

LEMMA GetShape ==
  ASSUME TypeOK, NEW p \in Proc, proc[p].kid \in Kid, Get(p), NEW k, k = proc[p].kid
  PROVE  /\ proc[p].pc = "lookup"
         /\ \/ /\ Ends(p) /\ proc'[p].pc = "done"
               /\ \/ proc'[p].ans = "retired" /\ expired(M(p).byKID[k])
                  \/ proc'[p].ans = "ok"
                  \/ proc'[p].ans = "unknown" /\ M(p).byKID[k].state = "none"
            \/ /\ Others(p) /\ proc'[p].pc = "refresh" /\ proc'[p].missed
               /\ proc'[p].op = proc[p].op /\ proc'[p].kid = proc[p].kid
               /\ proc'[p].failed = proc[p].failed
               /\ proc'[p].targets = proc[p].targets /\ proc'[p].start = proc[p].start
         /\ UNCHANGED <<keys, mgr, expiry, clock>>
<1>0. proc[p] \in Request /\ proc[p].pc = "lookup" /\ UNCHANGED <<keys, mgr, expiry, clock>>
  BY DEF TypeOK, Get
<1>1. CASE M(p).byKID[k].state # "none"
  <2>1. CASE expired(M(p).byKID[k])
    <3>1. Step(p, Answer(p, "retired", k))
      BY <1>1, <2>1 DEF Get
    <3>2. QED
      BY <1>0, <2>1, <3>1, StepEnds
  <2>2. CASE ~expired(M(p).byKID[k])
    <3>1. Step(p, Answer(p, "ok", k))
      BY <1>1, <2>2 DEF Get
    <3>2. QED
      BY <1>0, <3>1, StepEnds
  <2>3. QED
    BY <2>1, <2>2
<1>2. CASE M(p).byKID[k].state = "none"
  <2>1. CASE proc[p].missed
    <3>1. Step(p, Answer(p, "unknown", k))
      BY <1>2, <2>1 DEF Get
    <3>2. QED
      BY <1>0, <1>2, <3>1, StepEnds
  <2>2. CASE ~proc[p].missed
    <3> DEFINE x == [proc[p] EXCEPT !.pc = "refresh", !.missed = TRUE]
    <3>1. Step(p, x)
      BY <1>2, <2>2 DEF Get
    <3>2. /\ x \in Request /\ x.pc = "refresh" /\ x.missed
          /\ x.op = proc[p].op /\ x.kid = proc[p].kid /\ x.failed = proc[p].failed
          /\ x.targets = proc[p].targets /\ x.start = proc[p].start
      BY <1>0 DEF Request
    <3> HIDE DEF x
    <3>3. Others(p) /\ proc'[p] = x
      BY <3>1, <3>2, StepIs
    <3>4. QED
      BY <1>0, <3>2, <3>3
  <2>3. QED
    BY <2>1, <2>2
<1>3. QED
  BY <1>1, <1>2

(* Key k is generated.                                                     *)
KeysTyped == keys \in [Kid -> KeyRow]
Makes(k)  == /\ KeysTyped' /\ keys[k].state = "none" /\ keys'[k].state = "made"
             /\ \A j \in Kid : j # k => keys'[j] = keys[j]

(* Manager h signs with k from now on.                                     *)
Adopts(h, k) == /\ mgr'[h].active = k /\ mgr'[h].byKID[k] = Active
                /\ mgr'[h].loadedAt = mgr[h].loadedAt /\ mgr'[h].stale = mgr[h].stale
                /\ mgr'[h].loading = mgr[h].loading

LEMMA MakesIs ==
  ASSUME TypeOK, NEW k \in Kid, IsNextKid(k), keys' = [keys EXCEPT ![k].state = "made"]
  PROVE  Makes(k)
<1>1. keys[k].state = "none" /\ keys \in [Kid -> KeyRow]
  BY DEF TypeOK, IsNextKid, Ungenerated, Kid
<1>2. QED
  BY <1>1 DEF Makes, KeysTyped, KeyRow

LEMMA ReadShape ==
  ASSUME TypeOK, NEW p \in Proc, ReadActive(p)
  PROVE  /\ proc[p].pc = "active" /\ Unlocked(p)
         /\ \/ M(p).active \in Kid /\ Takes(p, M(p).active, "sign")
            \/ Moves(p, "lock")
         /\ UNCHANGED <<keys, mgr, expiry, clock>>
<1>1. M(p).active \in Kid \cup {NoKid}
  BY KeysAssumption DEF TypeOK, M, MgrState
<1>2. "sign" \in Pcs /\ "lock" \in Pcs
  BY DEF Pcs
<1>3. QED
  BY <1>1, <1>2, StepTakes, StepMoves DEF ReadActive, Chosen

LEMMA LockShape ==
  ASSUME TypeOK, NEW p \in Proc, LockActive(p), NEW h, h = Home[p]
  PROVE  /\ proc[p].pc = "lock" /\ Unlocked(p) /\ h \in Manager
         /\ \/ /\ M(p).active \in Kid /\ Takes(p, M(p).active, "sign")
               /\ UNCHANGED mgr
            \/ /\ Moves(p, "load") /\ MgrOthers(p) /\ mgr'[h].mu = p
               /\ mgr'[h].active = mgr[h].active /\ mgr'[h].byKID = mgr[h].byKID
               /\ mgr'[h].loadedAt = mgr[h].loadedAt /\ mgr'[h].stale = mgr[h].stale
               /\ mgr'[h].loading = mgr[h].loading /\ mgr'[h].gen = mgr[h].gen
         /\ UNCHANGED <<keys, expiry, clock>>
<1>0. /\ M(p) \in MgrState /\ h \in Manager /\ M(p) = mgr[h] /\ proc[p].pc = "lock"
      /\ Unlocked(p) /\ UNCHANGED <<keys, expiry, clock>>
  BY KeysAssumption DEF TypeOK, M, LockActive
<1>1. M(p).active \in Kid \cup {NoKid} /\ "sign" \in Pcs /\ "load" \in Pcs
  BY <1>0 DEF MgrState, Pcs
<1>2. CASE M(p).active # NoKid
  BY <1>0, <1>1, <1>2, StepTakes DEF LockActive, Chosen
<1>3. CASE M(p).active = NoKid
  <2> DEFINE m == [M(p) EXCEPT !.mu = p]
  <2>1. /\ m \in MgrState /\ m.mu = p /\ m.active = M(p).active /\ m.byKID = M(p).byKID
        /\ m.loadedAt = M(p).loadedAt /\ m.stale = M(p).stale
        /\ m.loading = M(p).loading /\ m.gen = M(p).gen
    BY <1>0 DEF MgrState
  <2>2. Update(p, m) /\ Step(p, [proc[p] EXCEPT !.pc = "load"])
    BY <1>3 DEF LockActive
  <2> HIDE DEF m
  <2>3. MgrOthers(p) /\ mgr'[h] = m
    BY <2>1, <2>2, UpdateIs
  <2>4. Moves(p, "load")
    BY <1>1, <2>2, StepMoves
  <2>5. QED
    BY <1>0, <2>1, <2>3, <2>4
<1>4. QED
  BY <1>2, <1>3

LEMMA AdoptShape ==
  ASSUME NEW r \in MgrState, NEW k \in Kid, NEW m, m = Release(Adopt(r, k))
  PROVE  /\ m \in MgrState /\ m.active = k
         /\ \A j \in Kid : m.byKID[j] = IF j = k THEN Active ELSE r.byKID[j]
         /\ m.loadedAt = r.loadedAt /\ m.stale = r.stale /\ m.loading = r.loading
         /\ m.gen = r.gen
<1> DEFINE b == [r.byKID EXCEPT ![k] = Active]
           x == [r EXCEPT !.active = k, !.byKID = b]
<1>1. b \in [Kid -> KeyRow]
  BY KeysAssumption DEF MgrState, KeyRow, Active, Time
<1>2. Adopt(r, k) = x
  BY DEF Adopt, MgrState
<1>3. \A j \in Kid : b[j] = IF j = k THEN Active ELSE r.byKID[j]
  BY DEF MgrState
<1> HIDE DEF b
<1>4. /\ x \in MgrState /\ x.active = k /\ x.byKID = b /\ x.loadedAt = r.loadedAt
      /\ x.stale = r.stale /\ x.loading = r.loading /\ x.gen = r.gen
  BY <1>1 DEF MgrState
<1> HIDE DEF x
<1>5. m = [x EXCEPT !.mu = None]
  BY <1>2 DEF Release
<1>6. QED
  BY <1>3, <1>4, <1>5 DEF MgrState

LEMMA LoadShape ==
  ASSUME TypeOK, NEW p \in Proc, LoadActive(p), NEW h, h = Home[p]
  PROVE  /\ proc[p].pc = "load" /\ h \in Manager
         /\ \/ \E k \in Current :
                 /\ Takes(p, k, "sign") /\ MgrOthers(p) /\ Adopts(h, k)
                 /\ mgr'[h].gen = mgr[h].gen
                 /\ \A j \in Kid : j # k => mgr'[h].byKID[j] = mgr[h].byKID[j]
                 /\ UNCHANGED keys
            \/ /\ Current = {}
               /\ \E k \in Kid : Makes(k) /\ Takes(p, k, "mint") /\ UNCHANGED mgr
         /\ UNCHANGED <<expiry, clock>>
<1>0. /\ M(p) \in MgrState /\ h \in Manager /\ M(p) = mgr[h] /\ proc[p].pc = "load"
      /\ UNCHANGED <<expiry, clock>>
  BY KeysAssumption DEF TypeOK, M, LoadActive
<1>1. "sign" \in Pcs /\ "mint" \in Pcs
  BY DEF Pcs
<1>2. CASE Current # {}
  <2> DEFINE c == CHOOSE k \in Current : \A j \in Current : j <= k
  <2>1. \E k \in Current : \A j \in Current : j <= k
    <3>1. Current \subseteq Kid /\ Current \subseteq Nat /\ IsFiniteSet(Current)
      <4>1. IsFiniteSet(Kid) /\ Kid \subseteq Nat
        BY FS_Interval, KeysAssumption DEF Kid
      <4>2. Current \subseteq Kid
        BY DEF Current
      <4>3. QED
        BY <4>1, <4>2, FS_Subset
    <3>2. \A j \in Current : j <= MaxKid
      BY <3>1 DEF Kid
    <3>3. Current \in SUBSET Nat /\ MaxKid \in Nat
      BY <3>1, KeysAssumption
    <3>4. QED
      BY <1>2, <3>2, <3>3, MaxExists
  <2>2. PICK k \in Current : k = c
    BY <2>1
  <2>3. PICK m : m = Release(Adopt(M(p), k))
    OBVIOUS
  <2>4. Update(p, m) /\ Step(p, [proc[p] EXCEPT !.pc = "sign", !.kid = k]) /\ UNCHANGED keys
    BY <1>2, <2>2, <2>3 DEF LoadActive, Chosen
  <2>5. k \in Kid
    BY DEF Current
  <2>6. /\ m \in MgrState /\ m.active = k
        /\ \A j \in Kid : m.byKID[j] = IF j = k THEN Active ELSE M(p).byKID[j]
        /\ m.loadedAt = M(p).loadedAt /\ m.stale = M(p).stale
        /\ m.loading = M(p).loading /\ m.gen = M(p).gen
    BY <1>0, <2>3, <2>5, AdoptShape
  <2>7. MgrOthers(p) /\ mgr'[h] = m
    BY <2>4, <2>6, UpdateIs
  <2>8. Takes(p, k, "sign")
    BY <1>1, <2>4, <2>5, StepTakes
  <2>9. QED
    BY <1>0, <2>4, <2>5, <2>6, <2>7, <2>8 DEF Adopts
<1>3. CASE Current = {}
  BY <1>0, <1>1, <1>3, MakesIs, StepTakes DEF LoadActive
<1>4. QED
  BY <1>2, <1>3

LEMMA InsertShape ==
  ASSUME TypeOK, NEW p \in Proc, InsertKey(p), NEW k \in Kid, k = proc[p].kid,
         NEW h, h = Home[p], mgr[h].gen + 1 \in 0..MaxKid
  PROVE  /\ proc[p].pc = "mint" /\ h \in Manager /\ Takes(p, k, "sign")
         /\ MgrOthers(p) /\ Adopts(h, k) /\ mgr'[h].gen = mgr[h].gen + 1
         /\ \A j \in Kid : j # k => mgr'[h].byKID[j] = mgr[h].byKID[j]
         /\ KeysTyped' /\ keys'[k] = Active /\ \A j \in Kid : j # k => keys'[j] = keys[j]
         /\ UNCHANGED <<expiry, clock>>
<1>0. /\ M(p) \in MgrState /\ h \in Manager /\ M(p) = mgr[h] /\ proc[p].pc = "mint"
      /\ UNCHANGED <<expiry, clock>> /\ keys' = [keys EXCEPT ![k] = Active]
      /\ keys \in [Kid -> KeyRow]
  BY KeysAssumption DEF TypeOK, M, InsertKey
<1>1. KeysTyped' /\ keys'[k] = Active /\ \A j \in Kid : j # k => keys'[j] = keys[j]
  BY <1>0, KeysAssumption DEF KeysTyped, KeyRow, Active, Time
<1>2. PICK r : r = [M(p) EXCEPT !.gen = @ + 1]
  OBVIOUS
<1>3. /\ r \in MgrState /\ r.gen = M(p).gen + 1 /\ r.active = M(p).active
      /\ r.byKID = M(p).byKID /\ r.loadedAt = M(p).loadedAt /\ r.stale = M(p).stale
      /\ r.loading = M(p).loading
  BY <1>0, <1>2 DEF MgrState
<1>4. PICK m : m = Release(Adopt(r, k))
  OBVIOUS
<1>5. /\ m \in MgrState /\ m.active = k
      /\ \A j \in Kid : m.byKID[j] = IF j = k THEN Active ELSE r.byKID[j]
      /\ m.loadedAt = r.loadedAt /\ m.stale = r.stale /\ m.loading = r.loading
      /\ m.gen = r.gen
  BY <1>3, <1>4, AdoptShape
<1>6. Update(p, m) /\ Step(p, [proc[p] EXCEPT !.pc = "sign", !.kid = k])
  BY <1>2, <1>4 DEF InsertKey, Chosen
<1>7. MgrOthers(p) /\ mgr'[h] = m
  BY <1>5, <1>6, UpdateIs
<1>8. "sign" \in Pcs
  BY DEF Pcs
<1>9. Takes(p, k, "sign")
  BY <1>6, <1>8, StepTakes
<1>10. QED
  BY <1>0, <1>1, <1>3, <1>5, <1>7, <1>9 DEF Adopts

LEMMA SignShape ==
  ASSUME TypeOK, NEW p \in Proc, signSession(p), NEW k \in Kid, k = proc[p].kid
  PROVE  /\ proc[p].pc = "sign" /\ Ends(p) /\ proc'[p].pc = "done" /\ proc'[p].ans = "signed"
         /\ expiry' \in [Kid -> 0..(MaxClock + Life)] /\ expiry'[k] = clock + Life
         /\ \A j \in Kid : j # k => expiry'[j] = expiry[j]
         /\ UNCHANGED <<keys, mgr, clock>>
<1>1. clock + Life \in 0..(MaxClock + Life)
  BY KeysAssumption DEF TypeOK, Time
<1>2. QED
  BY <1>1, StepEnds DEF TypeOK, signSession

LEMMA GenerateShape ==
  ASSUME TypeOK, NEW p \in Proc, GenerateKey(p)
  PROVE  /\ proc[p].pc = "begin"
         /\ \E k \in Kid : Makes(k) /\ Takes(p, k, "retire")
         /\ UNCHANGED <<mgr, expiry, clock>>
<1>1. "retire" \in Pcs
  BY DEF Pcs
<1>2. QED
  BY <1>1, MakesIs, StepTakes DEF GenerateKey

LEMMA RetireStartShape ==
  ASSUME TypeOK, NEW p \in Proc, RetireStart(p), NEW h, h = Home[p]
  PROVE  /\ proc[p].pc = "retire" /\ Unlocked(p) /\ h \in Manager
         /\ Others(p) /\ proc'[p].pc = "update" /\ proc'[p].kid = proc[p].kid
         /\ proc'[p].targets = Current /\ proc'[p].since = clock
         /\ proc'[p].start = proc[p].start /\ proc'[p].failed = proc[p].failed
         /\ MgrOthers(p) /\ mgr'[h].mu = p
         /\ mgr'[h].active = mgr[h].active /\ mgr'[h].byKID = mgr[h].byKID
         /\ mgr'[h].loadedAt = mgr[h].loadedAt /\ mgr'[h].stale = mgr[h].stale
         /\ mgr'[h].loading = mgr[h].loading /\ mgr'[h].gen = mgr[h].gen
         /\ UNCHANGED <<keys, expiry, clock>>
<1>0. /\ M(p) \in MgrState /\ h \in Manager /\ M(p) = mgr[h] /\ proc[p].pc = "retire"
      /\ Unlocked(p) /\ UNCHANGED <<keys, expiry, clock>>
      /\ proc[p] \in Request /\ clock \in Time /\ Current \in SUBSET Kid
  BY KeysAssumption DEF TypeOK, M, RetireStart, Current
<1> DEFINE m == [M(p) EXCEPT !.mu = p]
<1>1. /\ m \in MgrState /\ m.mu = p /\ m.active = M(p).active /\ m.byKID = M(p).byKID
      /\ m.loadedAt = M(p).loadedAt /\ m.stale = M(p).stale
      /\ m.loading = M(p).loading /\ m.gen = M(p).gen
  BY <1>0 DEF MgrState
<1> DEFINE C == Current
           x == [proc[p] EXCEPT !.pc = "update", !.targets = C, !.since = clock]
<1>2. C \in SUBSET Kid /\ C = Current
  BY <1>0
<1>3. Update(p, m) /\ Step(p, x)
  BY DEF RetireStart
<1> HIDE DEF C, m
<1>4. /\ x \in Request /\ x.pc = "update" /\ x.targets = C /\ x.since = clock
      /\ x.kid = proc[p].kid /\ x.start = proc[p].start /\ x.failed = proc[p].failed
  BY <1>0, <1>2 DEF Request
<1> HIDE DEF x
<1>5. MgrOthers(p) /\ mgr'[h] = m
  BY <1>1, <1>3, UpdateIs
<1>6. Others(p) /\ proc'[p] = x
  BY <1>3, <1>4, StepIs
<1>7. QED
  BY <1>0, <1>1, <1>2, <1>4, <1>5, <1>6

LEMMA RetireFinishShape ==
  ASSUME TypeOK, NEW p \in Proc, RetireFinish(p)
  PROVE  /\ proc[p].pc = "update" /\ \A k \in proc[p].targets : ~Locked(k)
         /\ Others(p) /\ proc'[p].pc = "commit" /\ proc'[p].kid = proc[p].kid
         /\ proc'[p].targets = proc[p].targets \cap Current
         /\ proc'[p].since = proc[p].since
         /\ proc'[p].start = proc[p].start /\ proc'[p].failed = proc[p].failed
         /\ UNCHANGED <<keys, mgr, expiry, clock>>
<1>0. /\ proc[p] \in Request /\ proc[p].pc = "update" /\ UNCHANGED <<keys, mgr, expiry, clock>>
      /\ \A k \in proc[p].targets : ~Locked(k)
  BY DEF TypeOK, RetireFinish
<1> DEFINE C == proc[p].targets \cap Current
           x == [proc[p] EXCEPT !.pc = "commit", !.targets = C]
<1>1. C \in SUBSET Kid /\ C = proc[p].targets \cap Current
  BY DEF Current
<1>2. Step(p, x)
  BY <1>0 DEF RetireFinish, Request
<1> HIDE DEF C
<1>3. /\ x \in Request /\ x.pc = "commit" /\ x.targets = C /\ x.since = proc[p].since
      /\ x.kid = proc[p].kid /\ x.start = proc[p].start /\ x.failed = proc[p].failed
  BY <1>0, <1>1 DEF Request
<1> HIDE DEF x
<1>4. Others(p) /\ proc'[p] = x
  BY <1>2, <1>3, StepIs
<1>5. QED
  BY <1>0, <1>1, <1>3, <1>4

LEMMA StampedShape ==
  ASSUME TypeOK, NEW r \in MgrState, NEW m, m = Stamped(r)
  PROVE  /\ m \in MgrState /\ m.active = r.active /\ m.loadedAt = r.loadedAt
         /\ m.stale = r.stale /\ m.loading = r.loading /\ m.gen = r.gen
         /\ \A j \in Kid : m.byKID[j] = IF j = r.active
                                        THEN [state |-> "retired", at |-> clock]
                                        ELSE r.byKID[j]
<1>1. /\ r.active \in Kid \cup {NoKid} /\ r.byKID \in [Kid -> KeyRow] /\ NoKid \notin Kid
      /\ clock \in Time
  BY DEF MgrState, Kid, NoKid, TypeOK
<1>2. CASE r.active = NoKid
  BY <1>1, <1>2 DEF Stamped
<1>3. CASE r.active # NoKid
  <2> DEFINE b == [r.byKID EXCEPT ![r.active] = [state |-> "retired", at |-> clock]]
  <2>1. /\ b \in [Kid -> KeyRow]
        /\ \A j \in Kid : b[j] = IF j = r.active THEN [state |-> "retired", at |-> clock]
                                 ELSE r.byKID[j]
    BY <1>1, <1>3 DEF KeyRow
  <2>2. m = [r EXCEPT !.byKID = b]
    BY <1>3 DEF Stamped, MgrState
  <2> HIDE DEF b
  <2>3. QED
    BY <2>1, <2>2 DEF MgrState
<1>4. QED
  BY <1>2, <1>3

(* Manager h takes the key it signed with, unless it is k, for retired.     *)
Stamps(h, k) ==
  \A j \in Kid : j # k => mgr'[h].byKID[j] =
    IF j = mgr[h].active THEN [state |-> "retired", at |-> clock] ELSE mgr[h].byKID[j]

LEMMA CommitShape ==
  ASSUME TypeOK, NEW p \in Proc, CommitRotation(p), NEW k \in Kid, k = proc[p].kid,
         NEW h, h = Home[p], mgr[h].gen + 1 \in 0..MaxKid
  PROVE  /\ proc[p].pc = "commit" /\ h \in Manager
         /\ Ends(p) /\ proc'[p].pc = "done" /\ proc'[p].ans = "rotated"
         /\ MgrOthers(p) /\ Adopts(h, k) /\ mgr'[h].gen = mgr[h].gen + 1
         /\ Stamps(h, k) /\ KeysTyped'
         /\ \A j \in Kid : keys'[j] =
              IF j = k THEN Active
              ELSE IF j \in proc[p].targets
                   THEN [state |-> "retired", at |-> proc[p].since] ELSE keys[j]
         /\ UNCHANGED <<expiry, clock>>
<1>0. /\ M(p) \in MgrState /\ h \in Manager /\ M(p) = mgr[h] /\ proc[p].pc = "commit"
      /\ UNCHANGED <<expiry, clock>> /\ keys' = Rotated(p)
      /\ keys \in [Kid -> KeyRow] /\ proc[p].since \in Time
  BY KeysAssumption DEF TypeOK, M, CommitRotation, Request
<1>1. /\ KeysTyped'
      /\ \A j \in Kid : keys'[j] =
           IF j = k THEN Active
           ELSE IF j \in proc[p].targets
                THEN [state |-> "retired", at |-> proc[p].since] ELSE keys[j]
  BY <1>0, KeysAssumption DEF KeysTyped, Rotated, KeyRow, Active, Time
<1>2. PICK r : r = [M(p) EXCEPT !.gen = @ + 1]
  OBVIOUS
<1>3. /\ r \in MgrState /\ r.gen = M(p).gen + 1 /\ r.active = M(p).active
      /\ r.byKID = M(p).byKID /\ r.loadedAt = M(p).loadedAt /\ r.stale = M(p).stale
      /\ r.loading = M(p).loading
  BY <1>0, <1>2 DEF MgrState
<1>4. PICK s : s = Stamped(r)
  OBVIOUS
<1>5. /\ s \in MgrState /\ s.loadedAt = r.loadedAt
      /\ s.stale = r.stale /\ s.loading = r.loading /\ s.gen = r.gen
      /\ \A j \in Kid : s.byKID[j] = IF j = r.active
                                     THEN [state |-> "retired", at |-> clock]
                                     ELSE r.byKID[j]
  BY <1>3, <1>4, StampedShape
<1>6. PICK m : m = Release(Adopt(s, k))
  OBVIOUS
<1>7. /\ m \in MgrState /\ m.active = k
      /\ \A j \in Kid : m.byKID[j] = IF j = k THEN Active ELSE s.byKID[j]
      /\ m.loadedAt = s.loadedAt /\ m.stale = s.stale /\ m.loading = s.loading
      /\ m.gen = s.gen
  BY <1>5, <1>6, AdoptShape
<1>8. Update(p, m) /\ Step(p, Answer(p, "rotated", k))
  BY <1>2, <1>4, <1>6 DEF CommitRotation
<1>9. MgrOthers(p) /\ mgr'[h] = m
  BY <1>7, <1>8, UpdateIs
<1>10. Ends(p) /\ proc'[p].pc = "done" /\ proc'[p].ans = "rotated"
  BY <1>8, StepEnds
<1>11. QED
  <2>1. Stamps(h, k)
    BY <1>0, <1>3, <1>5, <1>7, <1>9 DEF Stamps
  <2>2. QED
    BY <1>0, <1>1, <1>3, <1>5, <1>7, <1>9, <1>10, <2>1 DEF Adopts

LEMMA FailShape ==
  ASSUME TypeOK, NEW p \in Proc, StatementFails(p), NEW h, h = Home[p]
  PROVE  /\ Faults /\ proc[p].pc \in {"load", "mint", "update", "commit"} /\ h \in Manager
         /\ Ends(p) /\ proc'[p].pc = "done" /\ proc'[p].ans = "error"
         /\ KeysTyped'
         /\ \A k \in Kid : keys'[k] = IF k = proc[p].kid THEN Absent ELSE keys[k]
         /\ MgrOthers(p)
         /\ mgr'[h].active = mgr[h].active /\ mgr'[h].byKID = mgr[h].byKID
         /\ mgr'[h].loadedAt = mgr[h].loadedAt /\ mgr'[h].stale = mgr[h].stale
         /\ mgr'[h].loading = mgr[h].loading /\ mgr'[h].gen = mgr[h].gen
         /\ UNCHANGED <<expiry, clock>>
<1>0. /\ M(p) \in MgrState /\ h \in Manager /\ M(p) = mgr[h]
      /\ proc[p].pc \in {"load", "mint", "update", "commit"} /\ Faults
      /\ UNCHANGED <<expiry, clock>> /\ keys \in [Kid -> KeyRow]
      /\ keys' = [k \in Kid |-> IF k = proc[p].kid THEN Absent ELSE keys[k]]
  BY KeysAssumption DEF TypeOK, M, StatementFails
<1>1. KeysTyped'
  BY <1>0, KeysAssumption DEF KeysTyped, KeyRow, Absent, Time
<1>2. PICK m : m = Release(M(p))
  OBVIOUS
<1>3. /\ m \in MgrState /\ m.active = M(p).active /\ m.byKID = M(p).byKID
      /\ m.loadedAt = M(p).loadedAt /\ m.stale = M(p).stale
      /\ m.loading = M(p).loading /\ m.gen = M(p).gen
  BY <1>0, <1>2 DEF MgrState, Release
<1>4. Update(p, m) /\ Step(p, Answer(p, "error", NoKid))
  BY <1>2 DEF StatementFails
<1>5. MgrOthers(p) /\ mgr'[h] = m
  BY <1>3, <1>4, UpdateIs
<1>6. QED
  BY <1>0, <1>1, <1>3, <1>4, <1>5, StepEnds

LEMMA EndShape ==
  ASSUME TypeOK, NEW p \in Proc, GiveUp(p) \/ Return(p)
  PROVE  /\ proc[p].pc \in {"wait", "done"} /\ Ends(p) /\ proc'[p].pc = "idle"
         /\ UNCHANGED <<keys, mgr, expiry, clock>>
  BY StepIdles DEF GiveUp, Return
-----------------------------------------------------------------------------
(***************************************************************************)
(* Type correctness.  A manager's generation counts keys it stored, so it  *)
(* stays below the number of keys; and the key a request generated is its  *)
(* own until it is stored.                                                 *)
(***************************************************************************)
Stored == {k \in Kid : keys[k].state \in {"active", "retired"}}

(* What a request is about, at each of its steps.                          *)
Means(r) ==
  /\ r.pc \in {"refresh", "query", "install"} => r.op \in {"sign", "verify"}
  /\ r.pc \in {"wait", "lookup"} => r.op = "verify"
  /\ r.pc \in {"active", "lock", "load"} => r.op = "sign"
  /\ r.pc \in {"refresh", "query", "install", "wait", "lookup"} /\ r.op = "verify"
       => r.kid \in Kid
  /\ r.pc \in {"refresh", "query", "install", "active", "lock", "load"} /\ r.op = "sign"
       => r.kid = NoKid /\ ~r.missed
  /\ r.pc \in {"mint", "sign", "retire", "update", "commit"} => r.kid \in Kid

MeansOK == \A p \in Proc : Means(proc[p])

Making(p)   == proc[p].pc \in {"mint", "retire", "update", "commit"}
Rotating(p) == proc[p].pc \in {"update", "commit"}

MakingOK ==
  /\ \A p \in Proc : Making(p) => keys[proc[p].kid].state = "made"
  /\ \A p, q \in Proc : Making(p) /\ Making(q) /\ p # q => proc[p].kid # proc[q].kid

TargetsStored == \A p \in Proc : Rotating(p) => proc[p].targets \subseteq Stored

Counts == \A h \in Manager : mgr[h].gen <= Cardinality(Stored)

Base == TypeOK /\ MeansOK /\ MakingOK /\ TargetsStored /\ Counts

LEMMA StoredCount ==
  /\ Stored \subseteq Kid /\ IsFiniteSet(Stored) /\ Cardinality(Stored) \in 0..MaxKid
  /\ \A k \in Kid : k \notin Stored => Cardinality(Stored) + 1 \in 0..MaxKid
<1>1. /\ IsFiniteSet(Kid) /\ Cardinality(Kid) = MaxKid
  <2>1. MaxKid \in Int /\ 1 \in Int /\ MaxKid \in Nat
    BY KeysAssumption
  <2>2. IsFiniteSet(1..MaxKid) /\ Cardinality(1..MaxKid) = IF 1 > MaxKid THEN 0 ELSE MaxKid - 1 + 1
    BY <2>1, FS_Interval
  <2>3. QED
    BY <2>1, <2>2 DEF Kid
<1>2. Stored \subseteq Kid
  BY DEF Stored
<1>3. IsFiniteSet(Stored) /\ Cardinality(Stored) <= MaxKid /\ Cardinality(Stored) \in Nat
  BY <1>1, <1>2, FS_Subset, FS_CardinalityType
<1>4. ASSUME NEW k \in Kid, k \notin Stored
      PROVE  Cardinality(Stored) + 1 <= MaxKid
  <2>1. Cardinality(Stored \cup {k}) = Cardinality(Stored) + 1 /\ IsFiniteSet(Stored \cup {k})
    BY <1>3, <1>4, FS_AddElement, Zenon
  <2>2. Stored \cup {k} \subseteq Kid
    BY <1>2
  <2>3. Cardinality(Stored \cup {k}) <= Cardinality(Kid)
    BY <1>1, <2>2, FS_Subset
  <2>4. QED
    BY <1>1, <2>1, <2>3
<1>5. MaxKid \in Nat
  BY KeysAssumption
<1>6. QED
  BY <1>2, <1>3, <1>4, <1>5

(* A generation grows only when a key is stored.                           *)
LEMMA CountsStep ==
  ASSUME Counts, MgrsTyped, MgrsTyped', Stored \subseteq Stored',
         \/ \A h \in Manager : mgr'[h].gen = mgr[h].gen
         \/ /\ \E k \in Kid : k \in Stored' /\ k \notin Stored
            /\ \A h \in Manager : mgr'[h].gen <= mgr[h].gen + 1
  PROVE  Counts'
<1>1. /\ IsFiniteSet(Stored) /\ Cardinality(Stored) \in Nat
      /\ IsFiniteSet(Stored') /\ Cardinality(Stored') \in Nat
  <2>1. Stored \subseteq Kid /\ Stored' \subseteq Kid /\ IsFiniteSet(Kid)
    BY FS_Interval, KeysAssumption DEF Stored, Kid
  <2>2. QED
    BY <2>1, FS_Subset, FS_CardinalityType
<1>2. \A h \in Manager : mgr[h].gen \in Nat /\ mgr'[h].gen \in Nat
  BY DEF MgrsTyped, MgrState
<1>3. Cardinality(Stored) <= Cardinality(Stored')
  BY <1>1, FS_Subset
<1>4. CASE \A h \in Manager : mgr'[h].gen = mgr[h].gen
  BY <1>1, <1>2, <1>3, <1>4 DEF Counts
<1>5. ASSUME NEW k \in Kid, k \in Stored', k \notin Stored,
             \A h \in Manager : mgr'[h].gen <= mgr[h].gen + 1
      PROVE  Counts'
  <2>1. Cardinality(Stored \cup {k}) = Cardinality(Stored) + 1 /\ IsFiniteSet(Stored \cup {k})
    BY <1>1, <1>5, FS_AddElement, Zenon
  <2>2. Stored \cup {k} \subseteq Stored'
    BY <1>5
  <2>3. Cardinality(Stored \cup {k}) <= Cardinality(Stored')
    BY <1>1, <2>2, FS_Subset
  <2>4. QED
    BY <1>1, <1>2, <1>5, <2>1, <2>3 DEF Counts
<1>6. QED
  BY <1>4, <1>5

(* One request goes on.                                                    *)
LEMMA OneBase ==
  ASSUME Base, NEW p \in Proc, Others(p), Means(proc[p])',
         KeysTyped', MgrsTyped', expiry' \in [Kid -> 0..(MaxClock + Life)], clock' \in Time,
         Stored \subseteq Stored', Counts',
         \A k \in Kid : keys[k].state = "made" /\ keys'[k].state # "made"
                          => Making(p) /\ k = proc[p].kid,
         Making(p)' => /\ keys'[proc'[p].kid].state = "made"
                       /\ \/ Making(p) /\ proc'[p].kid = proc[p].kid
                          \/ keys[proc'[p].kid].state = "none",
         Rotating(p)' => proc'[p].targets \subseteq Stored'
  PROVE  Base'
<1>1. TypeOK'
  BY DEF TypeOK, Others, ProcsTyped, KeysTyped, MgrsTyped
<1>2. ASSUME NEW q \in Proc, q # p
      PROVE  /\ proc'[q] = proc[q] /\ Means(proc[q])
             /\ Making(q) => proc[q].kid \in Kid /\ keys[proc[q].kid].state = "made"
  BY <1>2 DEF Others, Base, MeansOK, MakingOK, Means, Making
<1>3. ASSUME NEW q \in Proc PROVE Means(proc[q])'
  <2>1. CASE q # p
    BY <1>2, <2>1 DEF Means
  <2>2. QED
    BY <2>1
<1>4. ASSUME NEW q \in Proc, q # p, Making(q)
      PROVE  keys'[proc[q].kid].state = "made"
  <2>1. Making(p) => proc[p].kid # proc[q].kid
    BY <1>4 DEF Base, MakingOK
  <2>2. QED
    BY <1>2, <1>4, <2>1
<1>5. ASSUME NEW q \in Proc, q # p, Making(q), Making(p)'
      PROVE  proc'[p].kid # proc[q].kid
  BY <1>2, <1>5 DEF Base, MakingOK
<1>6. MakingOK'
  <2>1. ASSUME NEW q \in Proc, Making(q)'
        PROVE  keys'[proc'[q].kid].state = "made"
    <3>1. CASE q # p
      <4>1. Making(q) /\ proc'[q] = proc[q]
        BY <1>2, <2>1, <3>1 DEF Making
      <4>2. QED
        BY <1>4, <3>1, <4>1
    <3>2. QED
      BY <2>1, <3>1
  <2>2. ASSUME NEW q \in Proc, NEW r \in Proc, Making(q)', Making(r)', q # r
        PROVE  proc'[q].kid # proc'[r].kid
    <3>1. \A s \in Proc : s # p /\ Making(s)' => Making(s) /\ proc'[s] = proc[s]
      BY <1>2 DEF Making
    <3>2. CASE q # p /\ r # p
      BY <2>2, <3>1, <3>2 DEF Base, MakingOK
    <3>3. CASE q = p
      BY <1>5, <2>2, <3>1, <3>3
    <3>4. CASE r = p
      BY <1>5, <2>2, <3>1, <3>4
    <3>5. QED
      BY <3>2, <3>3, <3>4
  <2>3. QED
    BY <2>1, <2>2 DEF MakingOK
<1>7. TargetsStored'
  BY <1>2 DEF Base, TargetsStored, Rotating
<1>8. QED
  BY <1>1, <1>3, <1>6, <1>7 DEF Base, MeansOK

(* A request that generates nothing, in a step that leaves the table.      *)
LEMMA QuietBase ==
  ASSUME Base, NEW p \in Proc, Others(p), Means(proc[p])', UNCHANGED keys,
         MgrsTyped', \A h \in Manager : mgr'[h].gen = mgr[h].gen,
         expiry' \in [Kid -> 0..(MaxClock + Life)], clock' \in Time,
         Making(p)' => Making(p) /\ proc'[p].kid = proc[p].kid,
         Rotating(p)' => proc'[p].targets \subseteq Stored
  PROVE  Base'
<1>1. KeysTyped' /\ MgrsTyped /\ Stored' = Stored
  BY DEF Base, TypeOK, KeysTyped, MgrsTyped, Stored
<1>2. Counts'
  BY <1>1, CountsStep DEF Base
<1>3. Making(p)' => keys'[proc'[p].kid].state = "made"
  BY DEF Base, MakingOK
<1>4. QED
  BY <1>1, <1>2, <1>3, OneBase

(* A key is generated.                                                     *)
LEMMA MakesBase ==
  ASSUME Base, NEW p \in Proc, NEW k \in Kid, Makes(k), NEW c \in {"mint", "retire"},
         Takes(p, k, c), UNCHANGED <<mgr, expiry, clock>>
  PROVE  Base'
<1>1. MgrsTyped /\ MgrsTyped' /\ expiry' \in [Kid -> 0..(MaxClock + Life)] /\ clock' \in Time
  BY DEF Base, TypeOK, MgrsTyped
<1>2. Others(p) /\ proc'[p].pc = c /\ proc'[p].kid = k
  BY DEF Takes
<1>3. KeysTyped' /\ Stored' = Stored
  BY DEF Makes, Stored
<1>4. Counts'
  BY <1>1, <1>3, CountsStep DEF Base
<1>5. Means(proc[p])'
  BY <1>2 DEF Means
<1>6. ~Rotating(p)' /\ keys'[proc'[p].kid].state = "made" /\ keys[proc'[p].kid].state = "none"
  BY <1>2 DEF Rotating, Makes
<1>7. \A j \in Kid : keys[j].state = "made" => keys'[j].state = "made"
  BY DEF Makes
<1>8. QED
  BY <1>1, <1>2, <1>3, <1>4, <1>5, <1>6, <1>7, OneBase

(* The key a request generated is stored.                                  *)
LEMMA StoresBase ==
  ASSUME Base, NEW p \in Proc, Making(p), NEW k \in Kid, k = proc[p].kid,
         Others(p), Means(proc[p])', ~Making(p)', ~Rotating(p)', MgrsTyped',
         \A h \in Manager : mgr'[h].gen <= mgr[h].gen + 1, KeysTyped', keys'[k] = Active,
         \A j \in Kid : j # k => \/ keys'[j] = keys[j]
                                 \/ j \in Stored /\ keys'[j].state = "retired",
         UNCHANGED <<expiry, clock>>
  PROVE  Base'
<1>1. MgrsTyped /\ expiry' \in [Kid -> 0..(MaxClock + Life)] /\ clock' \in Time
      /\ keys[k].state = "made"
  BY DEF Base, TypeOK, MgrsTyped, MakingOK
<1>2. Stored \subseteq Stored' /\ k \notin Stored /\ k \in Stored'
  BY <1>1 DEF Stored, Active
<1>3. Counts'
  BY <1>1, <1>2, CountsStep DEF Base
<1>4. \A j \in Kid : keys[j].state = "made" /\ keys'[j].state # "made" => j = k
  BY DEF Stored
<1>5. QED
  BY <1>1, <1>2, <1>3, <1>4, OneBase

LEMMA InitBase ==
  ASSUME Init
  PROVE  Base
<1>1. /\ \A k \in Kid : keys[k].state = "none"
      /\ \A p \in Proc : proc[p] = Idle /\ proc[p].pc = "idle"
      /\ \A h \in Manager : mgr[h].gen = 0
  BY DEF Init, Absent, Idle
<1>2. TypeOK
  <2>1. Absent \in KeyRow /\ 0 \in Time /\ 0 \in 0..(MaxClock + Life) /\ 0 \in 0..MaxKid
    BY KeysAssumption DEF Absent, KeyRow, Time
  <2>2. keys \in [Kid -> KeyRow] /\ expiry \in [Kid -> 0..(MaxClock + Life)] /\ clock \in Time
    BY <2>1 DEF Init
  <2>3. proc \in [Proc -> Request]
    BY IdleType DEF Init
  <2>4. mgr \in [Manager -> MgrState]
    BY <2>1 DEF Init, MgrState
  <2>5. QED
    BY <2>2, <2>3, <2>4 DEF TypeOK
<1>3. Stored = {} /\ Cardinality(Stored) = 0
  BY <1>1, FS_EmptySet DEF Stored
<1>4. MeansOK /\ MakingOK /\ TargetsStored /\ Counts
  BY <1>1, <1>3 DEF MeansOK, Means, MakingOK, Making, TargetsStored, Rotating, Counts
<1>5. QED
  BY <1>2, <1>4 DEF Base

(* The generation may grow while a key waits to be stored.                 *)
LEMMA GenerationLeft ==
  ASSUME Base, NEW p \in Proc, Making(p), NEW h, h = Home[p]
  PROVE  mgr[h].gen + 1 \in 0..MaxKid /\ proc[p].kid \in Kid
<1>1. h \in Manager /\ mgr[h].gen \in Nat /\ mgr[h].gen <= Cardinality(Stored)
  BY KeysAssumption DEF Base, TypeOK, MgrState, Counts
<1>2. proc[p].kid \in Kid /\ proc[p].kid \notin Stored
  BY DEF Base, MeansOK, Means, MakingOK, Making, Stored
<1>3. Cardinality(Stored) + 1 \in 0..MaxKid /\ Cardinality(Stored) \in 0..MaxKid
  BY <1>2, StoredCount
<1>4. QED
  BY <1>1, <1>2, <1>3, KeysAssumption

(* An answer, or the end of a request that made nothing.                   *)
LEMMA EndsBase ==
  ASSUME Base, NEW p \in Proc, Ends(p), UNCHANGED <<keys, mgr, clock>>,
         expiry' \in [Kid -> 0..(MaxClock + Life)]
  PROVE  Base'
<1>1. Means(proc[p])' /\ ~Making(p)' /\ ~Rotating(p)' /\ Others(p)
  BY DEF Ends, Means, Making, Rotating
<1>2. MgrsTyped' /\ \A h \in Manager : mgr'[h].gen = mgr[h].gen
  BY DEF Base, TypeOK, MgrsTyped
<1>3. clock' \in Time
  BY DEF Base, TypeOK
<1>4. QED
  BY <1>1, <1>2, <1>3, QuietBase

(* A reload that is not one of its own wakes those who wait for it.        *)
LEMMA InstallBase ==
  ASSUME Base, NEW p \in Proc, Install(p)
  PROVE  Base'
<1>0. TypeOK
  BY DEF Base
<1>1. PICK h : h = Home[p]
  OBVIOUS
<1>2. /\ proc[p].pc = "install" /\ h \in Manager /\ MgrOthers(p) /\ Reloads(p, h)
      /\ Wakes(p) /\ UNCHANGED <<keys, expiry, clock>>
  BY <1>0, <1>1, InstallShape
<1>3. TypeOK'
  BY <1>2 DEF Base, TypeOK, ProcsTyped, MgrOthers, MgrsTyped, Wakes
<1>4. ASSUME NEW q \in Proc
      PROVE  /\ Means(proc[q])'
             /\ Making(q)' => Making(q) /\ proc'[q] = proc[q]
             /\ Rotating(q)' => Rotating(q) /\ proc'[q] = proc[q]
  <2>1. Means(proc[q])
    BY DEF Base, MeansOK
  <2>2. CASE q = p
    BY <1>2, <2>1, <2>2 DEF Wakes, AfterRefresh, Means, Making, Rotating
  <2>3. CASE q # p /\ proc'[q] = proc[q]
    BY <2>1, <2>3 DEF Means, Making, Rotating
  <2>4. CASE q # p /\ proc[q].pc = "wait" /\ proc'[q].pc = "lookup"
             /\ proc'[q].kid = proc[q].kid /\ Carries(proc'[q], proc[q])
    BY <2>1, <2>4 DEF Means, Making, Rotating, Carries
  <2>5. QED
    BY <1>2, <2>2, <2>3, <2>4 DEF Wakes
<1>5. Stored' = Stored
  BY <1>2 DEF Stored
<1>6. MakingOK'
  BY <1>2, <1>4 DEF Base, MakingOK
<1>7. TargetsStored'
  BY <1>4, <1>5 DEF Base, TargetsStored
<1>8. Counts'
  BY <1>1, <1>2, <1>5 DEF Base, Counts, MgrOthers, Reloads
<1>9. QED
  BY <1>3, <1>4, <1>6, <1>7, <1>8 DEF Base, MeansOK

(* The key a failed request generated is dropped.                          *)
LEMMA FailBase ==
  ASSUME Base, NEW p \in Proc, StatementFails(p)
  PROVE  Base'
<1>1. PICK h : h = Home[p]
  OBVIOUS
<1>2. /\ proc[p].pc \in {"load", "mint", "update", "commit"} /\ h \in Manager
      /\ Ends(p) /\ KeysTyped'
      /\ \A k \in Kid : keys'[k] = IF k = proc[p].kid THEN Absent ELSE keys[k]
      /\ MgrOthers(p) /\ mgr'[h].gen = mgr[h].gen
      /\ UNCHANGED <<expiry, clock>>
  BY <1>1, FailShape DEF Base
<1>3. Means(proc[p])' /\ ~Making(p)' /\ ~Rotating(p)' /\ Others(p)
  BY <1>2 DEF Ends, Means, Making, Rotating
<1>4. \A k \in Kid : keys'[k] # keys[k] => Making(p) /\ k = proc[p].kid
  <2>1. proc[p].pc = "load" => proc[p].kid \notin Kid
    BY DEF Base, MeansOK, Means, NoKid, Kid
  <2>2. QED
    BY <1>2, <2>1 DEF Making
<1>5. \A k \in Kid : keys'[k] # keys[k] => keys[k].state = "made" /\ keys'[k].state = "none"
  BY <1>2, <1>4 DEF Base, MakingOK, Absent
<1>6. Stored \subseteq Stored'
  BY <1>5 DEF Stored
<1>7. MgrsTyped /\ MgrsTyped' /\ \A g \in Manager : mgr'[g].gen = mgr[g].gen
  BY <1>1, <1>2 DEF Base, TypeOK, MgrsTyped, MgrOthers
<1>8. Counts'
  BY <1>6, <1>7, CountsStep DEF Base
<1>9. expiry' \in [Kid -> 0..(MaxClock + Life)] /\ clock' \in Time
  BY <1>2 DEF Base, TypeOK
<1>10. QED
  BY <1>2, <1>3, <1>4, <1>6, <1>7, <1>8, <1>9, OneBase

LEMMA StepBase ==
  ASSUME Base, [Next]_vars
  PROVE  Base'
<1>0. /\ TypeOK /\ MgrsTyped /\ expiry \in [Kid -> 0..(MaxClock + Life)] /\ clock \in Time
      /\ \A q \in Proc : Home[q] \in Manager /\ Means(proc[q])
  BY KeysAssumption DEF Base, TypeOK, MgrsTyped, MeansOK
<1>1. ASSUME NEW p \in Proc, NEW k \in Kid \cup {NoKid}, NEW op \in {"sign", "verify", "rotate"},
             op = "verify" => k \in Kid, op # "verify" => k = NoKid, Begin(p, op, k)
      PROVE  Base'
  <2>1. /\ Others(p) /\ proc'[p].pc = IF op = "rotate" THEN "begin" ELSE "refresh"
        /\ proc'[p].op = op /\ proc'[p].kid = k /\ ~proc'[p].missed
        /\ UNCHANGED <<keys, mgr, expiry, clock>>
    BY <1>0, <1>1, BeginShape
  <2>2. Means(proc[p])' /\ ~Making(p)' /\ ~Rotating(p)'
    BY <1>1, <2>1 DEF Means, Making, Rotating
  <2>3. QED
    BY <1>0, <2>1, <2>2, QuietBase DEF MgrsTyped
<1>2. ASSUME NEW p \in Proc, RefreshSkip(p) PROVE Base'
  <2>1. /\ proc[p].pc = "refresh"
        /\ \/ Moves(p, "wait") /\ proc[p].missed
           \/ Moves(p, AfterRefresh(p))
        /\ UNCHANGED <<keys, mgr, expiry, clock>>
    BY <1>0, <1>2, SkipShape
  <2>2. Means(proc[p])' /\ ~Making(p)' /\ ~Rotating(p)' /\ Others(p)
    BY <1>0, <2>1 DEF Moves, Carries, AfterRefresh, Means, Making, Rotating
  <2>3. QED
    BY <1>0, <2>1, <2>2, QuietBase DEF MgrsTyped
<1>3. ASSUME NEW p \in Proc, RefreshStart(p) PROVE Base'
  <2>1. /\ proc[p].pc = "refresh" /\ MgrOthers(p) /\ mgr'[Home[p]].gen = M(p).gen
        /\ Others(p) /\ proc'[p].pc = "query"
        /\ proc'[p].op = proc[p].op /\ proc'[p].kid = proc[p].kid
        /\ proc'[p].missed = proc[p].missed
        /\ UNCHANGED <<keys, expiry, clock>>
    BY <1>0, <1>3, StartShape
  <2>2. Means(proc[p])' /\ ~Making(p)' /\ ~Rotating(p)'
    BY <1>0, <2>1 DEF Means, Making, Rotating
  <2>3. MgrsTyped' /\ \A h \in Manager : mgr'[h].gen = mgr[h].gen
    BY <2>1 DEF MgrOthers, M
  <2>4. QED
    BY <1>0, <2>1, <2>2, <2>3, QuietBase
<1>4. ASSUME NEW p \in Proc, QueryKeys(p) PROVE Base'
  <2>1. /\ proc[p].pc = "query" /\ Others(p) /\ proc'[p].pc = "install"
        /\ proc'[p].op = proc[p].op /\ proc'[p].kid = proc[p].kid
        /\ proc'[p].missed = proc[p].missed
        /\ UNCHANGED <<keys, mgr, expiry, clock>>
    BY <1>0, <1>4, QueryShape
  <2>2. Means(proc[p])' /\ ~Making(p)' /\ ~Rotating(p)'
    BY <1>0, <2>1 DEF Means, Making, Rotating
  <2>3. QED
    BY <1>0, <2>1, <2>2, QuietBase DEF MgrsTyped
<1>5. ASSUME NEW p \in Proc, Get(p) PROVE Base'
  <2>1. proc[p].pc = "lookup" /\ proc[p].op = "verify" /\ proc[p].kid \in Kid
    BY <1>0, <1>5 DEF Get, Means
  <2>2. UNCHANGED <<keys, mgr, expiry, clock>>
    BY <1>5 DEF Get
  <2>3. PICK k : k = proc[p].kid
    OBVIOUS
  <2>4. \/ Ends(p)
        \/ /\ Others(p) /\ proc'[p].pc = "refresh"
           /\ proc'[p].op = proc[p].op /\ proc'[p].kid = proc[p].kid
    BY <1>0, <1>5, <2>1, <2>3, GetShape
  <2>5. CASE Ends(p)
    BY <1>0, <2>2, <2>5, EndsBase
  <2>6. CASE Others(p) /\ proc'[p].pc = "refresh" /\ proc'[p].op = proc[p].op
             /\ proc'[p].kid = proc[p].kid
    <3>1. Means(proc[p])' /\ ~Making(p)' /\ ~Rotating(p)'
      BY <2>1, <2>6 DEF Means, Making, Rotating
    <3>2. QED
      BY <1>0, <2>2, <2>6, <3>1, QuietBase DEF MgrsTyped
  <2>7. QED
    BY <2>4, <2>5, <2>6
<1>6. ASSUME NEW p \in Proc, ReadActive(p) PROVE Base'
  <2>1. /\ proc[p].pc = "active"
        /\ \/ M(p).active \in Kid /\ Takes(p, M(p).active, "sign")
           \/ Moves(p, "lock")
        /\ UNCHANGED <<keys, mgr, expiry, clock>>
    BY <1>0, <1>6, ReadShape
  <2>2. Means(proc[p])' /\ ~Making(p)' /\ ~Rotating(p)' /\ Others(p)
    BY <1>0, <2>1 DEF Moves, Takes, Carries, Means, Making, Rotating
  <2>3. QED
    BY <1>0, <2>1, <2>2, QuietBase DEF MgrsTyped
<1>7. ASSUME NEW p \in Proc, LockActive(p) PROVE Base'
  <2>0. PICK h : h = Home[p]
    OBVIOUS
  <2>1. /\ proc[p].pc = "lock"
        /\ \/ /\ M(p).active \in Kid /\ Takes(p, M(p).active, "sign")
              /\ UNCHANGED mgr
           \/ Moves(p, "load") /\ MgrOthers(p) /\ mgr'[h].gen = mgr[h].gen
        /\ UNCHANGED <<keys, expiry, clock>>
    BY <1>0, <1>7, <2>0, LockShape
  <2>2. Means(proc[p])' /\ ~Making(p)' /\ ~Rotating(p)' /\ Others(p)
    BY <1>0, <2>1 DEF Moves, Takes, Carries, Means, Making, Rotating
  <2>3. MgrsTyped' /\ \A g \in Manager : mgr'[g].gen = mgr[g].gen
    BY <1>0, <2>0, <2>1 DEF MgrOthers, MgrsTyped
  <2>4. QED
    BY <1>0, <2>1, <2>2, <2>3, QuietBase
<1>8. ASSUME NEW p \in Proc, LoadActive(p) PROVE Base'
  <2>0. PICK h : h = Home[p]
    OBVIOUS
  <2>1. /\ \/ \E k \in Current :
                /\ Takes(p, k, "sign") /\ MgrOthers(p)
                /\ mgr'[h].gen = mgr[h].gen /\ UNCHANGED keys
           \/ \E k \in Kid : Makes(k) /\ Takes(p, k, "mint") /\ UNCHANGED mgr
        /\ UNCHANGED <<expiry, clock>>
    BY <1>0, <1>8, <2>0, LoadShape
  <2>2. ASSUME NEW k \in Current, Takes(p, k, "sign"), MgrOthers(p),
               mgr'[h].gen = mgr[h].gen, UNCHANGED keys
        PROVE  Base'
    <3>1. Means(proc[p])' /\ ~Making(p)' /\ ~Rotating(p)' /\ Others(p)
      BY <2>2 DEF Takes, Means, Making, Rotating, Current
    <3>2. MgrsTyped' /\ \A g \in Manager : mgr'[g].gen = mgr[g].gen
      BY <2>0, <2>2 DEF MgrOthers
    <3>3. QED
      BY <1>0, <2>1, <2>2, <3>1, <3>2, QuietBase
  <2>3. ASSUME NEW k \in Kid, Makes(k), Takes(p, k, "mint"), UNCHANGED mgr
        PROVE  Base'
    BY <2>1, <2>3, MakesBase
  <2>4. QED
    BY <2>1, <2>2, <2>3
<1>9. ASSUME NEW p \in Proc, InsertKey(p) PROVE Base'
  <2>0. PICK h : h = Home[p]
    OBVIOUS
  <2>1. PICK k : k = proc[p].kid
    OBVIOUS
  <2>2. Making(p)
    BY <1>9 DEF InsertKey, Making
  <2>3. k \in Kid /\ mgr[h].gen + 1 \in 0..MaxKid
    BY <2>0, <2>1, <2>2, GenerationLeft
  <2>4. /\ Takes(p, k, "sign") /\ MgrOthers(p) /\ mgr'[h].gen = mgr[h].gen + 1
        /\ KeysTyped' /\ keys'[k] = Active /\ \A j \in Kid : j # k => keys'[j] = keys[j]
        /\ UNCHANGED <<expiry, clock>>
    BY <1>0, <1>9, <2>0, <2>1, <2>3, InsertShape
  <2>5. Means(proc[p])' /\ ~Making(p)' /\ ~Rotating(p)' /\ Others(p)
    BY <2>3, <2>4 DEF Takes, Means, Making, Rotating
  <2>6. MgrsTyped' /\ \A g \in Manager : mgr'[g].gen <= mgr[g].gen + 1
    BY <1>0, <2>0, <2>4 DEF MgrOthers, MgrsTyped, MgrState
  <2>7. QED
    BY <2>1, <2>2, <2>3, <2>4, <2>5, <2>6, StoresBase
<1>10. ASSUME NEW p \in Proc, signSession(p) PROVE Base'
  <2>1. PICK k : k = proc[p].kid
    OBVIOUS
  <2>2. k \in Kid
    BY <1>0, <1>10, <2>1 DEF signSession, Means
  <2>3. /\ Ends(p) /\ expiry' \in [Kid -> 0..(MaxClock + Life)]
        /\ UNCHANGED <<keys, mgr, clock>>
    BY <1>0, <1>10, <2>1, <2>2, SignShape
  <2>4. QED
    BY <2>3, EndsBase
<1>11. ASSUME NEW p \in Proc, GenerateKey(p) PROVE Base'
  BY <1>0, <1>11, GenerateShape, MakesBase
<1>12. ASSUME NEW p \in Proc, RetireStart(p) PROVE Base'
  <2>0. PICK h : h = Home[p]
    OBVIOUS
  <2>1. /\ proc[p].pc = "retire"
        /\ Others(p) /\ proc'[p].pc = "update" /\ proc'[p].kid = proc[p].kid
        /\ proc'[p].targets = Current
        /\ MgrOthers(p) /\ mgr'[h].gen = mgr[h].gen
        /\ UNCHANGED <<keys, expiry, clock>>
    BY <1>0, <1>12, <2>0, RetireStartShape
  <2>2. Means(proc[p])' /\ Making(p) /\ Current \subseteq Stored
    BY <1>0, <2>1 DEF Means, Making, Current, Stored
  <2>3. MgrsTyped' /\ \A g \in Manager : mgr'[g].gen = mgr[g].gen
    BY <2>0, <2>1 DEF MgrOthers
  <2>4. QED
    BY <1>0, <2>1, <2>2, <2>3, QuietBase
<1>13. ASSUME NEW p \in Proc, RetireFinish(p) PROVE Base'
  <2>1. /\ proc[p].pc = "update"
        /\ Others(p) /\ proc'[p].pc = "commit" /\ proc'[p].kid = proc[p].kid
        /\ proc'[p].targets = proc[p].targets \cap Current
        /\ UNCHANGED <<keys, mgr, expiry, clock>>
    BY <1>0, <1>13, RetireFinishShape
  <2>2. Means(proc[p])' /\ Making(p) /\ Current \subseteq Stored
    BY <1>0, <2>1 DEF Means, Making, Current, Stored
  <2>3. QED
    BY <1>0, <2>1, <2>2, QuietBase DEF MgrsTyped
<1>14. ASSUME NEW p \in Proc, CommitRotation(p) PROVE Base'
  <2>0. PICK h : h = Home[p]
    OBVIOUS
  <2>1. PICK k : k = proc[p].kid
    OBVIOUS
  <2>2. Making(p) /\ Rotating(p)
    BY <1>14 DEF CommitRotation, Making, Rotating
  <2>3. k \in Kid /\ mgr[h].gen + 1 \in 0..MaxKid
    BY <2>0, <2>1, <2>2, GenerationLeft
  <2>4. Ends(p) /\ MgrOthers(p) /\ mgr'[h].gen = mgr[h].gen + 1 /\ UNCHANGED <<expiry, clock>>
    BY <1>0, <1>14, <2>0, <2>1, <2>3, CommitShape
  <2>5. /\ KeysTyped'
        /\ \A j \in Kid : keys'[j] =
             IF j = k THEN Active
             ELSE IF j \in proc[p].targets
                  THEN [state |-> "retired", at |-> proc[p].since] ELSE keys[j]
    BY <1>0, <1>14, <2>0, <2>1, <2>3, CommitShape
  <2>6. Means(proc[p])' /\ ~Making(p)' /\ ~Rotating(p)' /\ Others(p)
    BY <2>4 DEF Ends, Means, Making, Rotating
  <2>7. MgrsTyped' /\ \A g \in Manager : mgr'[g].gen <= mgr[g].gen + 1
    <3>1. \A g \in Manager : mgr[g].gen \in Nat
      BY <1>0 DEF MgrsTyped, MgrState
    <3>2. MgrsTyped' /\ \A g \in Manager : g # h => mgr'[g] = mgr[g]
      BY <2>0, <2>4 DEF MgrOthers
    <3>3. ASSUME NEW g \in Manager PROVE mgr'[g].gen <= mgr[g].gen + 1
      <4>1. mgr'[g].gen = mgr[g].gen + 1 \/ mgr'[g].gen = mgr[g].gen
        BY <2>4, <3>2
      <4>2. QED
        BY <3>1, <4>1
    <3>4. QED
      BY <3>2, <3>3
  <2>8. proc[p].targets \subseteq Stored
    BY <2>2 DEF Base, TargetsStored
  <2>9. /\ keys'[k] = Active
        /\ \A j \in Kid : j # k => \/ keys'[j] = keys[j]
                                   \/ j \in Stored /\ keys'[j].state = "retired"
    BY <2>3, <2>5, <2>8
  <2>10. QED
    BY <2>1, <2>2, <2>3, <2>4, <2>5, <2>6, <2>7, <2>9, StoresBase
<1>15. ASSUME NEW p \in Proc, GiveUp(p) \/ Return(p) PROVE Base'
  <2>1. Ends(p) /\ UNCHANGED <<keys, mgr, expiry, clock>>
    BY <1>0, <1>15, EndShape
  <2>2. QED
    BY <1>0, <2>1, EndsBase
<1>16. CASE Tick
  <2>1. clock' \in Time /\ UNCHANGED <<keys, mgr, proc, expiry>>
    BY <1>0, <1>16, KeysAssumption DEF Tick, Time
  <2>2. QED
    BY <1>0, <2>1 DEF Base, TypeOK, MeansOK, Means, MakingOK, Making, TargetsStored, Rotating,
                      Counts, Stored
<1>17. CASE UNCHANGED vars
  BY <1>17 DEF vars, Base, TypeOK, MeansOK, Means, MakingOK, Making, TargetsStored, Rotating,
               Counts, Stored
<1>18. NoKid \in Kid \cup {NoKid}
  OBVIOUS
<1>19. ASSUME NEW p \in Proc, BeginActive(p) PROVE Base'
  BY <1>1, <1>18, <1>19 DEF BeginActive
<1>20. ASSUME NEW p \in Proc, BeginRotate(p) PROVE Base'
  BY <1>1, <1>18, <1>20 DEF BeginRotate
<1>21. ASSUME NEW p \in Proc, NEW k \in Kid, BeginGet(p, k) PROVE Base'
  BY <1>1, <1>21 DEF BeginGet
<1>22. QED
  BY <1>2, <1>3, <1>4, <1>5, <1>6, <1>7, <1>8, <1>9, <1>10, <1>11, <1>12, <1>13, <1>14,
     <1>15, <1>16, <1>17, <1>19, <1>20, <1>21, InstallBase, FailBase, Zenon
  DEF Next, Serve

(* A manager's cache, the requests and the table keep their types; each    *)
(* request works for the key its operation says.                           *)
THEOREM TypeCorrect == Spec => []TypeOK
<1>1. Base => TypeOK
  BY DEF Base
<1>2. QED
  BY <1>1, InitBase, StepBase, PTL DEF Spec
-----------------------------------------------------------------------------
(***************************************************************************)
(* The caches.  A row of a cache, or of rows on their way to it, may be    *)
(* old but is never wrong: a key it calls retired is, and was when the row *)
(* says or before.  The mutex and the row locks keep it so: a manager      *)
(* changes the key it signs with while no rotation of its own runs, and    *)
(* two rotations never retire the same key.                                *)
(***************************************************************************)
Reflects(row, k) ==
  /\ row.state # "made"
  /\ row.state = "active" => k \in Stored
  /\ row.state = "retired" => /\ keys[k].state = "retired"
                              /\ keys[k].at <= row.at /\ row.at <= clock

CacheOK(h) ==
  /\ \A k \in Kid : Reflects(mgr[h].byKID[k], k)
  /\ mgr[h].active # NoKid => mgr[h].byKID[mgr[h].active].state = "active"
  /\ mgr[h].loadedAt <= clock

KeyOK(k) ==
  /\ keys[k].state = "retired" => keys[k].at <= clock
  /\ expiry[k] > 0 => k \in Stored
  /\ expiry[k] <= clock + Life

Holding(p) == proc[p].pc \in {"load", "mint", "update", "commit"}
Loader(p)  == proc[p].pc \in {"query", "install"}

MutexOK(p)  == Holding(p) => M(p).mu = p
LoaderOK(p) == Loader(p) => M(p).loading /\ proc[p].gen <= M(p).gen
SnapOK(p)   == proc[p].pc = "install" /\ ~proc[p].failed =>
                 \A k \in Kid : /\ Reflects(proc[p].snap[k], k)
                                /\ proc[p].snap[k].state = "retired"
                                     => proc[p].snap[k] = keys[k]
RotationOK(p) ==
  Rotating(p) => /\ proc[p].start <= proc[p].since /\ proc[p].since <= clock
                 /\ M(p).active \in Current => M(p).active \in proc[p].targets
                 /\ proc[p].pc = "commit" => proc[p].targets \subseteq Current
ChosenOK(p) == proc[p].pc = "sign" => proc[p].kid \in Stored
TimeOK(p)   == proc[p].pc \notin {"idle", "done"}
                 => proc[p].start <= clock /\ clock <= proc[p].start + Slow

RequestOK(p) == /\ MutexOK(p) /\ LoaderOK(p) /\ SnapOK(p) /\ RotationOK(p)
                /\ ChosenOK(p) /\ TimeOK(p)

(* Two requests do not load into one cache or retire one key.              *)
PairOK(p, q) ==
  /\ Loader(p) /\ Loader(q) => Home[p] # Home[q]
  /\ proc[p].pc = "commit" /\ proc[q].pc = "commit"
       => proc[p].targets \cap proc[q].targets = {}

KInv == /\ Base
        /\ \A p \in Proc : RequestOK(p)
        /\ \A p, q \in Proc : p # q => PairOK(p, q)
        /\ \A h \in Manager : CacheOK(h)
        /\ \A k \in Kid : KeyOK(k)

(* What a step of p leaves of the table: a key in use may be retired, and  *)
(* no other rotation had it.                                               *)
Kept(p) ==
  /\ KeysTyped'
  /\ \A k \in Stored : \/ keys'[k] = keys[k]
                       \/ /\ k \in Current /\ keys'[k].state = "retired"
                          /\ keys'[k].at <= clock
                          /\ \A q \in Proc : q # p /\ proc[q].pc = "commit"
                                               => k \notin proc[q].targets
  /\ \A k \in Kid \ Stored : keys'[k].state # "retired"

(* What it leaves of the other requests.                                   *)
Rest(p) ==
  \A q \in Proc : q # p =>
    \/ proc'[q] = proc[q]
    \/ proc[q].pc = "wait" /\ proc'[q].pc = "lookup" /\ proc'[q].start = proc[q].start

Yields(p) ==
  \A q \in Proc : q # p /\ Home[q] = Home[p] =>
    /\ Holding(q) => /\ mgr'[Home[p]].mu = mgr[Home[p]].mu
                     /\ mgr'[Home[p]].active = mgr[Home[p]].active
    /\ Loader(q) => /\ mgr'[Home[p]].loading = mgr[Home[p]].loading
                    /\ mgr[Home[p]].gen <= mgr'[Home[p]].gen

LEMMA ReflectsKept ==
  ASSUME KInv, NEW p \in Proc, Kept(p), UNCHANGED clock,
         NEW k \in Kid, NEW row, Reflects(row, k)
  PROVE  Reflects(row, k)'
<1>1. keys[k].state = "retired" => keys'[k] = keys[k]
  BY DEF Kept, Stored, Current
<1>2. k \in Stored => k \in Stored'
  BY DEF Kept, Stored
<1>3. QED
  BY <1>1, <1>2 DEF Reflects

(* A request that did not move, and whose manager and table moved as they  *)
(* may, is as sound as it was.                                             *)
LEMMA OtherOK ==
  ASSUME KInv, Base', NEW p \in Proc, NEW q \in Proc, q # p, Kept(p), Yields(p),
         UNCHANGED clock,
         \A h \in Manager : h # Home[p] => mgr'[h] = mgr[h],
         proc'[q] = proc[q]
  PROVE  RequestOK(q)'
<1>0. /\ Home[q] \in Manager /\ RequestOK(q) /\ TypeOK /\ MgrsTyped
      /\ CacheOK(Home[q]) /\ mgr[Home[q]] \in MgrState /\ mgr'[Home[q]] \in MgrState
  BY KeysAssumption DEF KInv, Base, TypeOK, MgrsTyped
<1>1. /\ Holding(q) => mgr'[Home[q]].mu = mgr[Home[q]].mu
                       /\ mgr'[Home[q]].active = mgr[Home[q]].active
      /\ Loader(q) => /\ mgr'[Home[q]].loading = mgr[Home[q]].loading
                      /\ mgr[Home[q]].gen <= mgr'[Home[q]].gen
  <2>1. CASE Home[q] = Home[p]
    BY <2>1 DEF Yields
  <2>2. CASE Home[q] # Home[p]
    BY <1>0, <2>2 DEF MgrState
  <2>3. QED
    BY <2>1, <2>2
<1>2. MutexOK(q)'
  BY <1>0, <1>1 DEF RequestOK, MutexOK, Holding, M
<1>3. LoaderOK(q)'
  <2>1. Loader(q) => mgr'[Home[q]].loading /\ proc[q].gen <= mgr'[Home[q]].gen
    <3>1. SUFFICES ASSUME Loader(q)
                   PROVE  mgr'[Home[q]].loading /\ proc[q].gen <= mgr'[Home[q]].gen
      OBVIOUS
    <3>2. proc[q].gen <= mgr[Home[q]].gen /\ mgr[Home[q]].loading
      BY <1>0, <3>1 DEF RequestOK, LoaderOK, M
    <3>3. proc[q].gen \in Nat /\ mgr[Home[q]].gen \in Nat
      BY <1>0 DEF TypeOK, Request, MgrState
    <3>4. mgr[Home[q]].gen <= mgr'[Home[q]].gen /\ mgr'[Home[q]].gen \in Nat
      BY <1>0, <1>1, <3>1 DEF MgrState
    <3>5. proc[q].gen <= mgr'[Home[q]].gen
      BY <3>2, <3>3, <3>4
    <3>6. mgr'[Home[q]].loading
      BY <1>1, <3>1, <3>2, Zenon
    <3>7. QED
      BY <3>5, <3>6
  <2>2. QED
    BY <2>1 DEF LoaderOK, Loader, M
<1>4. SnapOK(q)'
  <2>1. SUFFICES ASSUME proc[q].pc = "install", ~proc[q].failed, NEW k \in Kid
                 PROVE  /\ Reflects(proc[q].snap[k], k)'
                        /\ proc[q].snap[k].state = "retired" => proc[q].snap[k] = keys'[k]
    BY DEF SnapOK
  <2>2. /\ Reflects(proc[q].snap[k], k)
        /\ proc[q].snap[k].state = "retired" => proc[q].snap[k] = keys[k]
    BY <1>0, <2>1 DEF RequestOK, SnapOK
  <2>3. PICK row : row = proc[q].snap[k]
    OBVIOUS
  <2>4. Reflects(row, k)'
    BY <2>2, <2>3, ReflectsKept
  <2>5. keys[k].state = "retired" => keys'[k] = keys[k]
    BY DEF Kept, Stored, Current
  <2>6. QED
    BY <2>2, <2>3, <2>4, <2>5
<1>5. RotationOK(q)'
  <2>1. SUFFICES ASSUME Rotating(q)
                 PROVE  /\ mgr'[Home[q]].active \in Current'
                             => mgr'[Home[q]].active \in proc[q].targets
                        /\ proc[q].pc = "commit" => proc[q].targets \subseteq Current'
    BY <1>0 DEF RequestOK, RotationOK, Rotating, M
  <2>2. /\ M(q).active \in Current => M(q).active \in proc[q].targets
        /\ proc[q].pc = "commit" => proc[q].targets \subseteq Current
    BY <1>0, <2>1 DEF RequestOK, RotationOK
  <2>3. mgr'[Home[q]].active = M(q).active
    BY <1>1, <2>1 DEF Rotating, Holding, M
  <2>4. M(q).active # NoKid => M(q).active \in Stored
    BY <1>0 DEF M, CacheOK, Reflects, MgrState
  <2>5. M(q).active \in Current' => M(q).active \in Current
    BY <2>4 DEF Kept, Current, Stored, Kid, NoKid
  <2>6. proc[q].pc = "commit" => proc[q].targets \subseteq Current'
    BY <2>2 DEF Kept, Current, Stored
  <2>7. QED
    BY <2>2, <2>3, <2>5, <2>6
<1>6. ChosenOK(q)'
  BY <1>0 DEF RequestOK, ChosenOK, Kept, Stored
<1>7. TimeOK(q)'
  BY <1>0 DEF RequestOK, TimeOK
<1>8. QED
  BY <1>2, <1>3, <1>4, <1>5, <1>6, <1>7 DEF RequestOK

(* One request goes on.                                                    *)
LEMMA OneStep ==
  ASSUME KInv, Base', NEW p \in Proc, Kept(p), Rest(p), Yields(p), UNCHANGED clock,
         \A h \in Manager : h # Home[p] => mgr'[h] = mgr[h],
         RequestOK(p)', CacheOK(Home[p])', \A q \in Proc : q # p => PairOK(p, q)',
         \A k \in Kid : \/ expiry'[k] = expiry[k]
                        \/ k \in Stored /\ expiry'[k] = clock + Life
  PROVE  KInv'
<1>1. ASSUME NEW q \in Proc PROVE RequestOK(q)'
  <2>1. CASE q = p
    BY <2>1
  <2>2. CASE q # p /\ proc'[q] = proc[q]
    BY <2>2, OtherOK
  <2>3. CASE q # p /\ proc[q].pc = "wait" /\ proc'[q].pc = "lookup"
             /\ proc'[q].start = proc[q].start
    BY <2>3 DEF KInv, RequestOK, MutexOK, Holding, LoaderOK, Loader, SnapOK, RotationOK,
                Rotating, ChosenOK, TimeOK
  <2>4. QED
    BY <2>1, <2>2, <2>3 DEF Rest
<1>2. ASSUME NEW q \in Proc, NEW r \in Proc, q # r PROVE PairOK(q, r)'
  <2>1. CASE q = p
    BY <1>2, <2>1
  <2>2. CASE r = p
    <3>1. PairOK(r, q)'
      BY <1>2, <2>2
    <3>2. QED
      BY <3>1 DEF PairOK
  <2>3. CASE q # p /\ r # p
    <3>1. PairOK(q, r)
      BY <1>2 DEF KInv
    <3>2. /\ proc'[q] = proc[q] \/ (~Loader(q)' /\ proc'[q].pc # "commit")
          /\ proc'[r] = proc[r] \/ (~Loader(r)' /\ proc'[r].pc # "commit")
      BY <2>3 DEF Rest, Loader
    <3>3. QED
      BY <3>1, <3>2 DEF PairOK, Loader
  <2>4. QED
    BY <2>1, <2>2, <2>3
<1>3. ASSUME NEW h \in Manager PROVE CacheOK(h)'
  <2>1. CASE h = Home[p]
    BY <2>1
  <2>2. CASE h # Home[p]
    <3>1. CacheOK(h) /\ mgr'[h] = mgr[h]
      BY <2>2 DEF KInv
    <3>2. ASSUME NEW k \in Kid PROVE Reflects(mgr[h].byKID[k], k)'
      <4>1. PICK row : row = mgr[h].byKID[k]
        OBVIOUS
      <4>2. Reflects(row, k)'
        BY <3>1, <4>1, ReflectsKept DEF CacheOK
      <4>3. QED
        BY <3>1, <4>1, <4>2 DEF Reflects
    <3>3. QED
      BY <3>1, <3>2 DEF CacheOK
  <2>3. QED
    BY <2>1, <2>2
<1>4. ASSUME NEW k \in Kid PROVE KeyOK(k)'
  <2>1. KeyOK(k)
    BY DEF KInv
  <2>2. keys'[k].state = "retired" => keys'[k].at <= clock
    BY <2>1 DEF Kept, KeyOK, Stored
  <2>3. k \in Stored => k \in Stored'
    BY DEF Kept, Stored
  <2>4. clock + Life <= clock + Life
    BY KeysAssumption DEF KInv, Base, TypeOK, Time
  <2>5. QED
    BY <2>1, <2>2, <2>3, <2>4 DEF KeyOK
<1>5. QED
  BY <1>1, <1>2, <1>3, <1>4 DEF KInv

(* A step that leaves the table and the caches.                            *)
LEMMA QuietStep ==
  ASSUME KInv, Base', NEW p \in Proc, Others(p), UNCHANGED <<keys, mgr, clock>>,
         RequestOK(p)', \A q \in Proc : q # p => PairOK(p, q)',
         \A k \in Kid : \/ expiry'[k] = expiry[k]
                        \/ k \in Stored /\ expiry'[k] = clock + Life
  PROVE  KInv'
<1>1. Kept(p)
  BY DEF KInv, Base, TypeOK, Kept, KeysTyped, Stored
<1>2. Rest(p)
  BY DEF Others, Rest
<1>3. Yields(p)
  <2>1. Home[p] \in Manager /\ mgr[Home[p]].gen \in Nat
    BY KeysAssumption DEF KInv, Base, TypeOK, MgrState
  <2>2. QED
    BY <2>1 DEF Yields
<1>4. CacheOK(Home[p])'
  <2>1. CacheOK(Home[p])
    BY KeysAssumption DEF KInv
  <2>2. QED
    BY <2>1 DEF CacheOK, Reflects, Stored
<1>5. QED
  BY <1>1, <1>2, <1>3, <1>4, OneStep

(* Nothing holds but the time of a request that is neither loading, nor    *)
(* rotating, nor signing.                                                  *)
LEMMA Plain ==
  ASSUME NEW p \in Proc, TimeOK(p)',
         proc'[p].pc \notin {"query", "install", "load", "mint", "sign", "update", "commit"}
  PROVE  RequestOK(p)' /\ \A q \in Proc : q # p => PairOK(p, q)'
BY DEF RequestOK, MutexOK, Holding, LoaderOK, Loader, SnapOK, RotationOK, Rotating,
       ChosenOK, PairOK

(* A manager whose mutex is free, or whose only loader moves, disturbs no  *)
(* other request.                                                          *)
LEMMA FreeYields ==
  ASSUME KInv, NEW p \in Proc,
         \/ Unlocked(p) \/ Holding(p)
         \/ /\ mgr'[Home[p]].mu = mgr[Home[p]].mu
            /\ mgr'[Home[p]].active = mgr[Home[p]].active,
         mgr[Home[p]].gen <= mgr'[Home[p]].gen,
         \/ mgr'[Home[p]].loading = mgr[Home[p]].loading
         \/ Loader(p) \/ ~mgr[Home[p]].loading
  PROVE  Yields(p)
<1>1. ASSUME NEW q \in Proc, q # p, Home[q] = Home[p]
      PROVE  /\ Holding(q) => mgr[Home[p]].mu = q /\ q # None
             /\ Loader(q) => mgr[Home[p]].loading /\ ~Loader(p)
             /\ Holding(p) => mgr[Home[p]].mu = p
  BY <1>1, KeysAssumption DEF KInv, RequestOK, MutexOK, LoaderOK, PairOK, M
<1>2. QED
  BY <1>1 DEF Yields, Unlocked, M

LEMMA InitK ==
  ASSUME Init
  PROVE  KInv
<1>1. /\ \A k \in Kid : keys[k].state = "none" /\ expiry[k] = 0
      /\ \A p \in Proc : proc[p].pc = "idle"
      /\ \A h \in Manager : /\ mgr[h].active = NoKid /\ mgr[h].loadedAt = 0
                            /\ \A k \in Kid : mgr[h].byKID[k].state = "none"
      /\ clock = 0
  BY DEF Init, Absent, Idle
<1>2. 0 <= clock /\ 0 <= clock + Life
  BY <1>1, KeysAssumption
<1>3. \A h \in Manager : CacheOK(h)
  BY <1>1, <1>2 DEF CacheOK, Reflects
<1>4. \A k \in Kid : KeyOK(k)
  BY <1>1, <1>2 DEF KeyOK
<1>5. \A p \in Proc : RequestOK(p)
  BY <1>1 DEF RequestOK, MutexOK, Holding, LoaderOK, Loader, SnapOK, RotationOK, Rotating,
              ChosenOK, TimeOK
<1>6. \A p, q \in Proc : PairOK(p, q)
  BY <1>1 DEF PairOK, Loader
<1>7. QED
  BY <1>3, <1>4, <1>5, <1>6, InitBase DEF KInv

LEMMA BeginK ==
  ASSUME KInv, Base', NEW p \in Proc, NEW k \in Kid \cup {NoKid},
         NEW op \in {"sign", "verify", "rotate"}, Begin(p, op, k)
  PROVE  KInv'
<1>1. /\ Others(p) /\ proc'[p].pc = IF op = "rotate" THEN "begin" ELSE "refresh"
      /\ proc'[p].start = clock /\ UNCHANGED <<keys, mgr, expiry, clock>>
  BY BeginShape DEF KInv, Base
<1>2. TimeOK(p)'
  <2>1. clock \in Nat /\ Slow \in Nat
    BY KeysAssumption DEF KInv, Base, TypeOK, Time
  <2>2. QED
    BY <1>1, <2>1 DEF TimeOK
<1>3. QED
  BY <1>1, <1>2, Plain, QuietStep

LEMMA SkipK ==
  ASSUME KInv, Base', NEW p \in Proc, RefreshSkip(p)
  PROVE  KInv'
<1>1. /\ proc[p].pc = "refresh" /\ Others(p) /\ proc'[p].pc \in {"wait", "active", "lookup"}
      /\ proc'[p].start = proc[p].start /\ UNCHANGED <<keys, mgr, expiry, clock>>
  BY SkipShape DEF KInv, Base, Moves, Carries, AfterRefresh
<1>2. TimeOK(p)'
  BY <1>1 DEF KInv, RequestOK, TimeOK
<1>3. QED
  BY <1>1, <1>2, Plain, QuietStep

LEMMA EndsK ==
  ASSUME KInv, Base', NEW p \in Proc, Ends(p), UNCHANGED <<keys, mgr, clock>>,
         \A k \in Kid : \/ expiry'[k] = expiry[k]
                        \/ k \in Stored /\ expiry'[k] = clock + Life
  PROVE  KInv'
<1>1. Others(p) /\ proc'[p].pc \in {"done", "idle"}
  BY DEF Ends
<1>2. TimeOK(p)'
  BY <1>1 DEF TimeOK
<1>3. QED
  BY <1>1, <1>2, Plain, QuietStep

LEMMA GetK ==
  ASSUME KInv, Base', NEW p \in Proc, Get(p)
  PROVE  KInv'
<1>0. TypeOK /\ proc[p].pc = "lookup" /\ proc[p].kid \in Kid
      /\ UNCHANGED <<keys, mgr, expiry, clock>>
  BY DEF KInv, Base, MeansOK, Means, Get
<1>1. PICK k : k = proc[p].kid
  OBVIOUS
<1>2. \/ Ends(p)
      \/ Others(p) /\ proc'[p].pc = "refresh" /\ proc'[p].start = proc[p].start
  BY <1>0, <1>1, GetShape
<1>3. CASE Ends(p)
  BY <1>0, <1>3, EndsK
<1>4. CASE Others(p) /\ proc'[p].pc = "refresh" /\ proc'[p].start = proc[p].start
  <2>1. TimeOK(p)'
    BY <1>0, <1>4 DEF KInv, RequestOK, TimeOK
  <2>2. QED
    BY <1>0, <1>4, <2>1, Plain, QuietStep
<1>5. QED
  BY <1>2, <1>3, <1>4

(* The key a manager signs with is stored.                                 *)
LEMMA ActiveStored ==
  ASSUME KInv, NEW h \in Manager, mgr[h].active # NoKid
  PROVE  mgr[h].active \in Stored
  BY DEF KInv, Base, TypeOK, MgrState, CacheOK, Reflects

(* A request is given a stored key to sign with.                           *)
LEMMA TakesSign ==
  ASSUME KInv, NEW p \in Proc, NEW k \in Kid, Takes(p, k, "sign"), k \in Stored',
         UNCHANGED clock, proc[p].pc \notin {"idle", "done"}
  PROVE  RequestOK(p)' /\ \A q \in Proc : q # p => PairOK(p, q)'
<1>1. proc'[p].pc = "sign" /\ proc'[p].kid = k /\ proc'[p].start = proc[p].start
  BY DEF Takes, Carries
<1>2. TimeOK(p)'
  BY <1>1 DEF KInv, RequestOK, TimeOK
<1>3. QED
  BY <1>1, <1>2 DEF RequestOK, MutexOK, Holding, LoaderOK, Loader, SnapOK, RotationOK,
                    Rotating, ChosenOK, PairOK

LEMMA ReadK ==
  ASSUME KInv, Base', NEW p \in Proc, ReadActive(p)
  PROVE  KInv'
<1>0. Home[p] \in Manager /\ TypeOK
  BY KeysAssumption DEF KInv, Base
<1>1. /\ proc[p].pc = "active"
      /\ \/ M(p).active \in Kid /\ Takes(p, M(p).active, "sign")
         \/ Moves(p, "lock")
      /\ UNCHANGED <<keys, mgr, expiry, clock>>
  BY <1>0, ReadShape
<1>2. CASE M(p).active \in Kid /\ Takes(p, M(p).active, "sign")
  <2>1. PICK k \in Kid : k = M(p).active /\ k \in Stored
    BY <1>0, <1>2, ActiveStored DEF M, NoKid, Kid
  <2>2. k \in Stored' /\ Others(p) /\ Takes(p, k, "sign")
    BY <1>1, <1>2, <2>1 DEF Stored, Takes
  <2>3. RequestOK(p)' /\ \A q \in Proc : q # p => PairOK(p, q)'
    BY <1>1, <2>2, TakesSign
  <2>4. QED
    BY <1>1, <2>2, <2>3, QuietStep
<1>3. CASE Moves(p, "lock")
  <2>1. Others(p) /\ proc'[p].pc = "lock" /\ TimeOK(p)'
    BY <1>1, <1>3 DEF Moves, Carries, KInv, RequestOK, TimeOK
  <2>2. QED
    BY <1>1, <2>1, Plain, QuietStep
<1>4. QED
  BY <1>1, <1>2, <1>3

LEMMA QueryK ==
  ASSUME KInv, Base', NEW p \in Proc, QueryKeys(p)
  PROVE  KInv'
<1>1. /\ proc[p].pc = "query" /\ Others(p) /\ proc'[p].pc = "install"
      /\ proc'[p].gen = proc[p].gen /\ proc'[p].start = proc[p].start
      /\ UNCHANGED <<keys, mgr, expiry, clock>>
  BY QueryShape DEF KInv, Base
<1>2. \/ proc'[p].failed
      \/ \A k \in Kid : proc'[p].snap[k] \in {keys[k], Absent}
                        /\ proc'[p].snap[k].state # "made"
  BY QueryShape DEF KInv, Base, Absent
<1>3. RequestOK(p) /\ \A k \in Kid : KeyOK(k)
  BY DEF KInv
<1>4. \A k \in Kid : keys[k].state = "retired" => keys[k].at <= keys[k].at
  BY DEF KInv, Base, TypeOK, KeyRow, Time
<1>5. SnapOK(p)'
  <2>1. SUFFICES ASSUME ~proc'[p].failed, NEW k \in Kid
                 PROVE  /\ Reflects(proc[p].snap[k], k)'
                        /\ proc'[p].snap[k].state = "retired" => proc'[p].snap[k] = keys'[k]
    BY DEF SnapOK
  <2>2. proc'[p].snap[k] \in {keys[k], Absent} /\ proc'[p].snap[k].state # "made"
    BY <1>2, <2>1
  <2>3. QED
    BY <1>1, <1>3, <1>4, <2>2 DEF Reflects, KeyOK, Absent, Stored
<1>6. RequestOK(p)'
  BY <1>1, <1>3, <1>5 DEF RequestOK, MutexOK, Holding, LoaderOK, Loader, RotationOK, Rotating,
                          ChosenOK, TimeOK, M
<1>7. ASSUME NEW q \in Proc, q # p PROVE PairOK(p, q)'
  <2>1. PairOK(p, q) /\ proc'[q] = proc[q]
    BY <1>1, <1>7 DEF KInv, Others
  <2>2. QED
    BY <1>1, <2>1 DEF PairOK, Loader
<1>8. QED
  BY <1>1, <1>6, <1>7, QuietStep

LEMMA StartK ==
  ASSUME KInv, Base', NEW p \in Proc, RefreshStart(p)
  PROVE  KInv'
<1>0. TypeOK /\ CacheOK(Home[p]) /\ RequestOK(p) /\ clock \in Nat /\ M(p) \in MgrState
  BY KeysAssumption DEF KInv, Base, TypeOK, Time, M
<1>1. /\ proc[p].pc = "refresh" /\ ~M(p).loading /\ Home[p] \in Manager
      /\ MgrOthers(p) /\ mgr'[Home[p]].loading /\ mgr'[Home[p]].loadedAt = clock
      /\ mgr'[Home[p]].active = M(p).active /\ mgr'[Home[p]].byKID = M(p).byKID
      /\ mgr'[Home[p]].gen = M(p).gen /\ mgr'[Home[p]].mu = M(p).mu
      /\ UNCHANGED <<keys, expiry, clock>>
  BY <1>0, StartShape
<1>2. /\ Others(p) /\ proc'[p].pc = "query" /\ proc'[p].gen = M(p).gen
      /\ proc'[p].start = proc[p].start
  BY <1>0, StartShape
<1>3. Kept(p) /\ Rest(p)
  BY <1>0, <1>1, <1>2 DEF TypeOK, Kept, KeysTyped, Stored, Others, Rest
<1>4. Yields(p)
  <2>1. mgr[Home[p]].gen <= mgr'[Home[p]].gen
    BY <1>0, <1>1 DEF M, MgrState
  <2>2. QED
    BY <1>1, <2>1, FreeYields DEF M
<1>5. RequestOK(p)'
  <2>1. M(p).gen <= M(p).gen
    BY <1>0 DEF MgrState
  <2>2. QED
    BY <1>0, <1>1, <1>2, <2>1 DEF RequestOK, MutexOK, Holding, LoaderOK, Loader, SnapOK,
                                  RotationOK, Rotating, ChosenOK, TimeOK, M
<1>6. ASSUME NEW q \in Proc, q # p PROVE PairOK(p, q)'
  <2>1. Loader(q) => Home[q] # Home[p]
    BY <1>1 DEF KInv, RequestOK, LoaderOK, M
  <2>2. proc'[q] = proc[q]
    BY <1>2, <1>6 DEF Others
  <2>3. QED
    BY <1>2, <2>1, <2>2 DEF PairOK, Loader
<1>7. CacheOK(Home[p])'
  BY SMTT(60), <1>0, <1>1 DEF CacheOK, Reflects, Stored, M
<1>8. QED
  BY <1>1, <1>3, <1>4, <1>5, <1>6, <1>7, OneStep DEF MgrOthers

LEMMA InstallK ==
  ASSUME KInv, Base', NEW p \in Proc, Install(p)
  PROVE  KInv'
<1>1. PICK h : h = Home[p]
  OBVIOUS
<1>0. /\ TypeOK /\ h \in Manager /\ CacheOK(h) /\ RequestOK(p) /\ mgr[h] \in MgrState
      /\ proc[p] \in Request
  BY <1>1, KeysAssumption DEF KInv, Base, TypeOK
<1>2. /\ proc[p].pc = "install" /\ Unlocked(p) /\ MgrOthers(p) /\ Reloads(p, h)
      /\ Wakes(p) /\ UNCHANGED <<keys, expiry, clock>>
  BY <1>0, <1>1, InstallShape
<1>3. Kept(p)
  BY <1>0, <1>2 DEF TypeOK, Kept, KeysTyped, Stored
<1>4. Rest(p)
  BY <1>2 DEF Wakes, Carries, Rest
<1>5. Yields(p)
  <2>1. mgr[Home[p]].gen <= mgr'[Home[p]].gen
    BY <1>0, <1>1, <1>2 DEF Reloads, MgrState
  <2>2. QED
    BY <1>2, <2>1, FreeYields DEF Loader
<1>6. TimeOK(p)' /\ proc'[p].pc \in {"active", "lookup"}
  BY <1>0, <1>2 DEF Wakes, AfterRefresh, RequestOK, TimeOK
<1>7. RequestOK(p)' /\ \A q \in Proc : q # p => PairOK(p, q)'
  BY <1>6, Plain
<1>8. CacheOK(h)'
  <2>1. CASE mgr'[h].active = mgr[h].active /\ mgr'[h].byKID = mgr[h].byKID
    BY <1>0, <1>2, <2>1 DEF CacheOK, Reflects, Stored, Reloads
  <2>2. CASE /\ ~proc[p].failed /\ mgr'[h].byKID = proc[p].snap
             /\ mgr'[h].active = IF mgr[h].active # NoKid
                                    /\ proc[p].snap[mgr[h].active].state # "active"
                                 THEN NoKid ELSE mgr[h].active
    <3>1. ASSUME NEW k \in Kid PROVE Reflects(mgr[h].byKID[k], k)'
      <4>1. Reflects(proc[p].snap[k], k)
        BY <1>0, <1>2, <2>2 DEF RequestOK, SnapOK
      <4>2. QED
        BY <1>2, <2>2, <4>1 DEF Reflects, Stored
    <3>2. mgr'[h].active # NoKid => mgr'[h].byKID[mgr'[h].active].state = "active"
      BY <2>2
    <3>3. QED
      BY <1>0, <1>2, <3>1, <3>2 DEF CacheOK, Reloads
  <2>3. QED
    BY <1>2, <2>1, <2>2 DEF Reloads
<1>9. QED
  BY <1>1, <1>2, <1>3, <1>4, <1>5, <1>7, <1>8, OneStep DEF MgrOthers

LEMMA SignK ==
  ASSUME KInv, Base', NEW p \in Proc, signSession(p)
  PROVE  KInv'
<1>0. TypeOK /\ proc[p].pc = "sign" /\ proc[p].kid \in Stored
  BY DEF KInv, Base, RequestOK, ChosenOK, signSession
<1>1. PICK k \in Kid : k = proc[p].kid
  BY <1>0 DEF Stored
<1>2. Ends(p) /\ UNCHANGED <<keys, mgr, clock>>
  BY <1>0, <1>1, SignShape
<1>3. \A j \in Kid : \/ expiry'[j] = expiry[j]
                     \/ j \in Stored /\ expiry'[j] = clock + Life
  BY <1>0, <1>1, SignShape
<1>4. QED
  BY <1>2, <1>3, EndsK

(* The mutex is taken, or the table changes, and the request goes on with  *)
(* its manager's cache as it was.                                          *)
LEMMA SameCache ==
  ASSUME KInv, NEW p \in Proc, Kept(p), UNCHANGED clock, NEW h \in Manager,
         mgr'[h].active = mgr[h].active, mgr'[h].byKID = mgr[h].byKID,
         mgr'[h].loadedAt = mgr[h].loadedAt
  PROVE  CacheOK(h)'
<1>1. CacheOK(h)
  BY DEF KInv
<1>2. ASSUME NEW k \in Kid PROVE Reflects(mgr[h].byKID[k], k)'
  <2>1. PICK row : row = mgr[h].byKID[k]
    OBVIOUS
  <2>2. Reflects(row, k)'
    BY <1>1, <2>1, ReflectsKept DEF CacheOK
  <2>3. QED
    BY <2>1, <2>2 DEF Reflects
<1>3. QED
  BY <1>1, <1>2 DEF CacheOK

(* A table that is left as it is, or where a key is generated, is kept.    *)
LEMMA KeptSame ==
  ASSUME KInv, NEW p \in Proc,
         UNCHANGED keys \/ \E k \in Kid : Makes(k)
  PROVE  Kept(p)
<1>1. CASE UNCHANGED keys
  BY <1>1 DEF KInv, Base, TypeOK, Kept, KeysTyped, Stored
<1>2. CASE \E k \in Kid : Makes(k)
  BY <1>2 DEF Makes, Kept, KeysTyped, Stored
<1>3. QED
  BY <1>1, <1>2

LEMMA LockK ==
  ASSUME KInv, Base', NEW p \in Proc, LockActive(p)
  PROVE  KInv'
<1>1. PICK h : h = Home[p]
  OBVIOUS
<1>0. /\ TypeOK /\ h \in Manager /\ M(p) = mgr[h] /\ mgr[h].gen \in Nat
  BY <1>1, KeysAssumption DEF KInv, Base, TypeOK, MgrState, M
<1>2. /\ proc[p].pc = "lock" /\ Unlocked(p) /\ UNCHANGED <<keys, expiry, clock>>
      /\ \/ M(p).active \in Kid /\ Takes(p, M(p).active, "sign") /\ UNCHANGED mgr
         \/ /\ Moves(p, "load") /\ MgrOthers(p) /\ mgr'[h].mu = p
            /\ mgr'[h].active = mgr[h].active /\ mgr'[h].byKID = mgr[h].byKID
            /\ mgr'[h].loadedAt = mgr[h].loadedAt
            /\ mgr'[h].loading = mgr[h].loading /\ mgr'[h].gen = mgr[h].gen
  BY <1>0, <1>1, LockShape
<1>3. CASE M(p).active \in Kid /\ Takes(p, M(p).active, "sign") /\ UNCHANGED mgr
  <2>1. PICK k \in Kid : k = M(p).active /\ k \in Stored
    BY <1>0, <1>3, ActiveStored DEF NoKid, Kid
  <2>2. k \in Stored' /\ Others(p) /\ Takes(p, k, "sign")
    BY <1>2, <1>3, <2>1 DEF Stored, Takes
  <2>3. RequestOK(p)' /\ \A q \in Proc : q # p => PairOK(p, q)'
    BY <1>2, <2>2, TakesSign
  <2>4. QED
    BY <1>2, <1>3, <2>2, <2>3, QuietStep
<1>4. CASE /\ Moves(p, "load") /\ MgrOthers(p) /\ mgr'[h].mu = p
           /\ mgr'[h].active = mgr[h].active /\ mgr'[h].byKID = mgr[h].byKID
           /\ mgr'[h].loadedAt = mgr[h].loadedAt
           /\ mgr'[h].loading = mgr[h].loading /\ mgr'[h].gen = mgr[h].gen
  <2>1. Kept(p) /\ Rest(p)
    BY <1>2, <1>4, KeptSame DEF Moves, Others, Rest
  <2>2. Yields(p)
    BY <1>0, <1>1, <1>2, <1>4, FreeYields
  <2>3. proc'[p].pc = "load" /\ proc'[p].start = proc[p].start
    BY <1>4 DEF Moves, Carries
  <2>4. RequestOK(p)'
    BY <1>1, <1>2, <1>4, <2>3 DEF KInv, RequestOK, MutexOK, LoaderOK, Loader, SnapOK,
       RotationOK, Rotating, ChosenOK, TimeOK, M
  <2>5. \A q \in Proc : PairOK(p, q)'
    BY <2>3 DEF PairOK, Loader
  <2>6. CacheOK(h)'
    BY <1>0, <1>2, <1>4, <2>1, SameCache
  <2>7. QED
    BY <1>1, <1>2, <1>4, <2>1, <2>2, <2>4, <2>5, <2>6, OneStep DEF MgrOthers
<1>5. QED
  BY <1>2, <1>3, <1>4

(* A key is generated.                                                     *)
LEMMA MakesK ==
  ASSUME KInv, Base', NEW p \in Proc, NEW k \in Kid, NEW c \in {"mint", "retire"},
         Makes(k), Takes(p, k, c), UNCHANGED <<mgr, expiry, clock>>,
         c = "mint" => Holding(p), proc[p].pc \notin {"idle", "done"}
  PROVE  KInv'
<1>0. Home[p] \in Manager /\ mgr[Home[p]].gen \in Nat
  BY KeysAssumption DEF KInv, Base, TypeOK, MgrState
<1>1. Kept(p) /\ Rest(p)
  BY KeptSame DEF Takes, Others, Rest
<1>2. Yields(p)
  BY <1>0 DEF Yields
<1>3. proc'[p].pc = c /\ proc'[p].start = proc[p].start
  BY DEF Takes, Carries
<1>4. RequestOK(p)'
  BY <1>3 DEF KInv, RequestOK, MutexOK, Holding, LoaderOK, Loader, SnapOK,
     RotationOK, Rotating, ChosenOK, TimeOK, M
<1>5. \A q \in Proc : PairOK(p, q)'
  BY <1>3 DEF PairOK, Loader
<1>6. CacheOK(Home[p])'
  BY <1>0, <1>1, SameCache
<1>7. QED
  BY <1>1, <1>2, <1>4, <1>5, <1>6, OneStep

(* A stored key is adopted by the manager whose mutex p holds.             *)
LEMMA AdoptsK ==
  ASSUME KInv, Base', NEW p \in Proc, NEW h \in Manager, h = Home[p], NEW k \in Kid,
         Holding(p), Adopts(h, k), k \in Stored', Kept(p), Rest(p), MgrOthers(p),
         mgr[h].gen <= mgr'[h].gen, UNCHANGED <<expiry, clock>>,
         \A j \in Kid : j # k => Reflects(mgr[h].byKID[j], j)',
         RequestOK(p)', \A q \in Proc : q # p => PairOK(p, q)'
  PROVE  KInv'
<1>1. Yields(p)
  BY FreeYields DEF Adopts
<1>2. Reflects(mgr[h].byKID[k], k)'
  BY DEF Adopts, Reflects, Active
<1>3. CacheOK(h) /\ mgr'[h].byKID[mgr'[h].active].state = "active"
  BY DEF KInv, Adopts, Active
<1>4. CacheOK(h)'
  BY <1>2, <1>3 DEF CacheOK, Adopts
<1>5. QED
  BY <1>1, <1>4, OneStep DEF MgrOthers

LEMMA LoadK ==
  ASSUME KInv, Base', NEW p \in Proc, LoadActive(p)
  PROVE  KInv'
<1>1. PICK h : h = Home[p]
  OBVIOUS
<1>0. /\ TypeOK /\ h \in Manager /\ mgr[h].gen \in Nat /\ CacheOK(h)
  BY <1>1, KeysAssumption DEF KInv, Base, TypeOK, MgrState
<1>2. /\ proc[p].pc = "load" /\ UNCHANGED <<expiry, clock>>
      /\ \/ \E k \in Current :
              /\ Takes(p, k, "sign") /\ MgrOthers(p) /\ Adopts(h, k)
              /\ mgr'[h].gen = mgr[h].gen
              /\ \A j \in Kid : j # k => mgr'[h].byKID[j] = mgr[h].byKID[j]
              /\ UNCHANGED keys
         \/ \E k \in Kid : Makes(k) /\ Takes(p, k, "mint") /\ UNCHANGED mgr
  BY <1>0, <1>1, LoadShape
<1>3. ASSUME NEW k \in Current,
             Takes(p, k, "sign"), MgrOthers(p), Adopts(h, k), mgr'[h].gen = mgr[h].gen,
             \A j \in Kid : j # k => mgr'[h].byKID[j] = mgr[h].byKID[j], UNCHANGED keys
      PROVE  KInv'
  <2>1. k \in Kid /\ k \in Stored'
    BY <1>3 DEF Current, Stored
  <2>2. Kept(p) /\ Rest(p) /\ Holding(p)
    BY <1>2, <1>3, KeptSame DEF Takes, Others, Rest, Holding
  <2>3. \A j \in Kid : j # k => Reflects(mgr[h].byKID[j], j)'
    BY <1>0, <1>2, <1>3 DEF CacheOK, Reflects, Stored
  <2>4. RequestOK(p)' /\ \A q \in Proc : q # p => PairOK(p, q)'
    BY <1>2, <1>3, <2>1, TakesSign
  <2>5. QED
    BY <1>0, <1>1, <1>2, <1>3, <2>1, <2>2, <2>3, <2>4, AdoptsK
<1>4. ASSUME NEW k \in Kid, Makes(k), Takes(p, k, "mint"), UNCHANGED mgr
      PROVE  KInv'
  BY <1>2, <1>4, MakesK DEF Holding
<1>5. QED
  BY <1>2, <1>3, <1>4

LEMMA GenerateK ==
  ASSUME KInv, Base', NEW p \in Proc, GenerateKey(p)
  PROVE  KInv'
<1>1. /\ proc[p].pc = "begin" /\ UNCHANGED <<mgr, expiry, clock>>
      /\ \E k \in Kid : Makes(k) /\ Takes(p, k, "retire")
  BY GenerateShape DEF KInv, Base
<1>2. QED
  BY <1>1, MakesK

LEMMA InsertK ==
  ASSUME KInv, Base', NEW p \in Proc, InsertKey(p)
  PROVE  KInv'
<1>1. PICK h : h = Home[p]
  OBVIOUS
<1>2. PICK k : k = proc[p].kid
  OBVIOUS
<1>0. /\ TypeOK /\ Base /\ h \in Manager /\ mgr[h].gen \in Nat /\ CacheOK(h)
  BY <1>1, KeysAssumption DEF KInv, Base, TypeOK, MgrState
<1>3. Making(p) /\ Holding(p) /\ proc[p].pc = "mint"
  BY DEF InsertKey, Making, Holding
<1>4. k \in Kid /\ mgr[h].gen + 1 \in 0..MaxKid /\ k \notin Stored
  BY <1>0, <1>1, <1>2, <1>3, GenerationLeft DEF Base, MakingOK, Stored
<1>5. /\ Takes(p, k, "sign") /\ MgrOthers(p) /\ Adopts(h, k) /\ mgr'[h].gen = mgr[h].gen + 1
      /\ \A j \in Kid : j # k => mgr'[h].byKID[j] = mgr[h].byKID[j]
      /\ UNCHANGED <<expiry, clock>>
  BY <1>0, <1>1, <1>2, <1>4, InsertShape
<1>6. KeysTyped' /\ keys'[k] = Active /\ \A j \in Kid : j # k => keys'[j] = keys[j]
  BY <1>0, <1>1, <1>2, <1>4, InsertShape
<1>7. k \in Stored' /\ Kept(p) /\ Rest(p)
  BY <1>4, <1>5, <1>6 DEF Stored, Active, Kept, Takes, Others, Rest
<1>8. ASSUME NEW j \in Kid, j # k PROVE Reflects(mgr[h].byKID[j], j)'
  <2>1. Reflects(mgr[h].byKID[j], j)
    BY <1>0 DEF CacheOK
  <2>2. QED
    BY <1>5, <1>6, <1>8, <2>1 DEF Reflects, Stored
<1>9. RequestOK(p)' /\ \A q \in Proc : q # p => PairOK(p, q)'
  BY <1>3, <1>4, <1>5, <1>7, TakesSign
<1>10. mgr[h].gen <= mgr'[h].gen
  BY <1>0, <1>5
<1>11. QED
  BY <1>0, <1>1, <1>3, <1>4, <1>5, <1>7, <1>8, <1>9, <1>10, AdoptsK

LEMMA RetireStartK ==
  ASSUME KInv, Base', NEW p \in Proc, RetireStart(p)
  PROVE  KInv'
<1>1. PICK h : h = Home[p]
  OBVIOUS
<1>0. /\ TypeOK /\ h \in Manager /\ M(p) = mgr[h] /\ mgr[h].gen \in Nat /\ RequestOK(p)
      /\ clock \in Nat
  BY <1>1, KeysAssumption DEF KInv, Base, TypeOK, MgrState, M, Time
<1>2. /\ proc[p].pc = "retire" /\ Unlocked(p)
      /\ Others(p) /\ proc'[p].pc = "update" /\ proc'[p].targets = Current
      /\ proc'[p].since = clock /\ proc'[p].start = proc[p].start
      /\ MgrOthers(p) /\ mgr'[h].mu = p
      /\ mgr'[h].active = mgr[h].active /\ mgr'[h].byKID = mgr[h].byKID
      /\ mgr'[h].loadedAt = mgr[h].loadedAt
      /\ mgr'[h].loading = mgr[h].loading /\ mgr'[h].gen = mgr[h].gen
      /\ UNCHANGED <<keys, expiry, clock>>
  BY <1>0, <1>1, RetireStartShape
<1>3. Kept(p) /\ Rest(p)
  BY <1>2, KeptSame DEF Others, Rest
<1>4. Yields(p)
  BY <1>0, <1>1, <1>2, FreeYields
<1>5. TimeOK(p)' /\ RotationOK(p)'
  BY <1>0, <1>2 DEF RequestOK, TimeOK, RotationOK, M, Current
<1>6. RequestOK(p)'
  BY <1>1, <1>2, <1>5 DEF RequestOK, MutexOK, LoaderOK, Loader, SnapOK, ChosenOK, M
<1>7. \A q \in Proc : PairOK(p, q)'
  BY <1>2 DEF PairOK, Loader
<1>8. CacheOK(h)'
  BY <1>0, <1>2, <1>3, SameCache
<1>9. QED
  BY <1>1, <1>2, <1>3, <1>4, <1>6, <1>7, <1>8, OneStep DEF MgrOthers

LEMMA RetireFinishK ==
  ASSUME KInv, Base', NEW p \in Proc, RetireFinish(p)
  PROVE  KInv'
<1>0. RequestOK(p) /\ TypeOK
  BY DEF KInv, Base
<1>1. /\ proc[p].pc = "update" /\ \A k \in proc[p].targets : ~Locked(k)
      /\ Others(p) /\ proc'[p].pc = "commit"
      /\ proc'[p].targets = proc[p].targets \cap Current
      /\ proc'[p].since = proc[p].since /\ proc'[p].start = proc[p].start
      /\ UNCHANGED <<keys, mgr, expiry, clock>>
  BY <1>0, RetireFinishShape
<1>2. RotationOK(p)'
  BY <1>0, <1>1 DEF RequestOK, RotationOK, Rotating, M, Current
<1>3. RequestOK(p)'
  BY <1>0, <1>1, <1>2 DEF RequestOK, MutexOK, Holding, LoaderOK, Loader, SnapOK, ChosenOK,
                          TimeOK, M
<1>4. ASSUME NEW q \in Proc, q # p PROVE PairOK(p, q)'
  <2>1. proc'[q] = proc[q]
    BY <1>1, <1>4 DEF Others
  <2>2. proc[q].pc = "commit" => proc[p].targets \cap proc[q].targets = {}
    BY <1>1 DEF Locked
  <2>3. QED
    BY <1>1, <2>1, <2>2 DEF PairOK, Loader
<1>5. QED
  BY <1>1, <1>3, <1>4, QuietStep

LEMMA CommitK ==
  ASSUME KInv, Base', NEW p \in Proc, CommitRotation(p)
  PROVE  KInv'
<1>1. PICK h : h = Home[p]
  OBVIOUS
<1>2. PICK k : k = proc[p].kid
  OBVIOUS
<1>0. /\ TypeOK /\ Base /\ h \in Manager /\ mgr[h].gen \in Nat /\ CacheOK(h) /\ RequestOK(p)
      /\ mgr[h].active \in Kid \cup {NoKid} /\ NoKid \notin Kid /\ M(p) = mgr[h]
      /\ \A j \in Kid : KeyOK(j)
  BY <1>1, KeysAssumption DEF KInv, Base, TypeOK, MgrState, Kid, NoKid, M
<1>15. TypeOK
  BY <1>0
<1>3. Making(p) /\ Holding(p) /\ Rotating(p) /\ proc[p].pc = "commit"
  BY DEF CommitRotation, Making, Holding, Rotating
<1>4. k \in Kid /\ mgr[h].gen + 1 \in 0..MaxKid /\ k \notin Stored
  BY <1>0, <1>1, <1>2, <1>3, GenerationLeft DEF Base, MakingOK, Stored
<1>5. /\ Ends(p) /\ MgrOthers(p) /\ Adopts(h, k) /\ mgr'[h].gen = mgr[h].gen + 1
      /\ UNCHANGED <<expiry, clock>>
  BY <1>1, <1>2, <1>4, <1>15, CommitShape
<1>6. ASSUME NEW j \in Kid, j # k
      PROVE  mgr'[h].byKID[j] = IF j = mgr[h].active THEN [state |-> "retired", at |-> clock]
                                ELSE mgr[h].byKID[j]
  <2>1. Stamps(h, k)
    BY <1>1, <1>2, <1>4, <1>15, CommitShape
  <2>2. QED
    BY <1>6, <2>1 DEF Stamps
<1>7. /\ KeysTyped'
      /\ \A j \in Kid : keys'[j] =
           IF j = k THEN Active
           ELSE IF j \in proc[p].targets
                THEN [state |-> "retired", at |-> proc[p].since] ELSE keys[j]
  BY <1>1, <1>2, <1>4, <1>15, CommitShape
<1>8. /\ proc[p].since <= clock /\ proc[p].targets \subseteq Current
      /\ mgr[h].active \in Current => mgr[h].active \in proc[p].targets
  BY <1>0, <1>3 DEF RequestOK, RotationOK
<1>9. Kept(p)
  <2>1. ASSUME NEW q \in Proc, q # p, proc[q].pc = "commit"
        PROVE  proc[p].targets \cap proc[q].targets = {}
    BY <1>3, <2>1 DEF KInv, PairOK
  <2>2. ASSUME NEW j \in Stored
        PROVE  \/ keys'[j] = keys[j]
               \/ /\ j \in Current /\ keys'[j].state = "retired"
                  /\ keys'[j].at <= clock
                  /\ \A q \in Proc : q # p /\ proc[q].pc = "commit"
                                       => j \notin proc[q].targets
    <3>1. j \in Kid /\ j # k
      BY <1>4 DEF Stored
    <3>2. CASE j \in proc[p].targets
      BY <1>7, <1>8, <2>1, <3>1, <3>2
    <3>3. CASE j \notin proc[p].targets
      BY <1>7, <3>1, <3>3
    <3>4. QED
      BY <3>2, <3>3
  <2>3. \A j \in Kid \ Stored : keys'[j].state # "retired"
    BY <1>7, <1>8 DEF Active, Stored, Current
  <2>4. QED
    BY <1>7, <2>2, <2>3 DEF Kept
<1>10. k \in Stored' /\ Rest(p)
  BY <1>4, <1>5, <1>7 DEF Stored, Active, Ends, Others, Rest
<1>11. ASSUME NEW j \in Kid, j # k PROVE Reflects(mgr[h].byKID[j], j)'
  <2>1. Reflects(mgr[h].byKID[j], j)
    BY <1>0 DEF CacheOK
  <2>2. CASE j # mgr[h].active
    <3>1. PICK row : row = mgr[h].byKID[j]
      OBVIOUS
    <3>2. Reflects(row, j)'
      BY <1>5, <1>9, <2>1, <3>1, ReflectsKept
    <3>3. mgr'[h].byKID[j] = row
      BY <1>6, <1>11, <2>2, <3>1
    <3>4. QED
      BY <3>2, <3>3 DEF Reflects
  <2>3. CASE j = mgr[h].active
    <3>1. j \in Stored
      BY <1>0, <2>3, ActiveStored
    <3>2. keys'[j].state = "retired" /\ keys'[j].at <= clock
      <4>1. CASE j \in Current
        BY <1>7, <1>8, <1>11, <2>3, <4>1
      <4>2. CASE j \notin Current
        <5>1. keys[j].state = "retired" /\ j \notin proc[p].targets
          BY <1>8, <3>1, <4>2 DEF Stored, Current
        <5>2. keys'[j] = keys[j]
          BY <1>7, <1>11, <5>1
        <5>3. QED
          BY <1>0, <5>1, <5>2 DEF KeyOK
      <4>3. QED
        BY <4>1, <4>2
    <3>3. mgr'[h].byKID[j] = [state |-> "retired", at |-> clock] /\ clock <= clock
      BY <1>0, <1>6, <1>11, <2>3 DEF TypeOK, Time
    <3>4. QED
      BY <1>5, <3>2, <3>3 DEF Reflects
  <2>4. QED
    BY <2>2, <2>3
<1>12. RequestOK(p)' /\ \A q \in Proc : q # p => PairOK(p, q)'
  <2>1. TimeOK(p)' /\ proc'[p].pc \in {"done", "idle"}
    BY <1>5 DEF Ends, TimeOK
  <2>2. QED
    BY <2>1, Plain
<1>13. mgr[h].gen <= mgr'[h].gen
  BY <1>0, <1>5
<1>14. QED
  BY <1>0, <1>1, <1>3, <1>4, <1>5, <1>9, <1>10, <1>11, <1>12, <1>13, AdoptsK

LEMMA FailK ==
  ASSUME KInv, Base', NEW p \in Proc, StatementFails(p)
  PROVE  KInv'
<1>1. PICK h : h = Home[p]
  OBVIOUS
<1>0. /\ TypeOK /\ Base /\ h \in Manager /\ mgr[h].gen \in Nat
  BY <1>1, KeysAssumption DEF KInv, Base, TypeOK, MgrState
<1>2. /\ proc[p].pc \in {"load", "mint", "update", "commit"}
      /\ Ends(p) /\ MgrOthers(p)
      /\ mgr'[h].active = mgr[h].active /\ mgr'[h].byKID = mgr[h].byKID
      /\ mgr'[h].loadedAt = mgr[h].loadedAt
      /\ mgr'[h].loading = mgr[h].loading /\ mgr'[h].gen = mgr[h].gen
      /\ UNCHANGED <<expiry, clock>>
  BY <1>0, <1>1, FailShape
<1>3. /\ KeysTyped'
      /\ \A k \in Kid : keys'[k] = IF k = proc[p].kid THEN Absent ELSE keys[k]
  BY <1>0, <1>1, FailShape
<1>4. proc[p].kid \in Kid => proc[p].kid \notin Stored
  BY <1>0, <1>2 DEF Base, MeansOK, Means, MakingOK, Making, Stored, NoKid, Kid
<1>5. Kept(p)
  BY <1>3, <1>4 DEF Kept, Stored, Absent
<1>6. Rest(p)
  BY <1>2 DEF Ends, Others, Rest
<1>7. Holding(p)
  BY <1>2 DEF Holding
<1>8. Yields(p)
  BY <1>0, <1>1, <1>2, <1>7, FreeYields
<1>9. RequestOK(p)' /\ \A q \in Proc : q # p => PairOK(p, q)'
  <2>1. TimeOK(p)' /\ proc'[p].pc \in {"done", "idle"}
    BY <1>2 DEF Ends, TimeOK
  <2>2. QED
    BY <2>1, Plain
<1>10. CacheOK(h)'
  BY <1>0, <1>2, <1>5, SameCache
<1>11. QED
  BY <1>1, <1>2, <1>5, <1>6, <1>8, <1>9, <1>10, OneStep DEF MgrOthers

LEMMA TickK ==
  ASSUME KInv, Base', Tick
  PROVE  KInv'
<1>1. /\ clock' = clock + 1 /\ clock \in Nat /\ UNCHANGED <<keys, mgr, proc, expiry>>
      /\ \A p \in Proc : proc[p].pc \notin {"idle", "done"} => clock + 1 <= proc[p].start + Slow
      /\ Slow \in Nat /\ Life \in Nat
  BY KeysAssumption DEF KInv, Base, TypeOK, Time, Tick
<1>2. ASSUME NEW k \in Kid PROVE KeyOK(k)'
  <2>1. KeyOK(k) /\ keys[k].at \in Nat /\ expiry[k] \in Nat
    BY KeysAssumption DEF KInv, Base, TypeOK, KeyRow, Time
  <2>2. QED
    BY <1>1, <2>1 DEF KeyOK, Stored
<1>3. ASSUME NEW row \in KeyRow, NEW k \in Kid, Reflects(row, k)
      PROVE  Reflects(row, k)'
  BY <1>1, <1>3 DEF Reflects, Stored, KeyRow, Time
<1>4. ASSUME NEW h \in Manager PROVE CacheOK(h)'
  <2>1. CacheOK(h) /\ mgr[h].loadedAt \in Nat /\ \A k \in Kid : mgr[h].byKID[k] \in KeyRow
    BY DEF KInv, Base, TypeOK, MgrState, Time
  <2>2. ASSUME NEW k \in Kid PROVE Reflects(mgr[h].byKID[k], k)'
    <3>1. PICK row \in KeyRow : row = mgr[h].byKID[k]
      BY <2>1
    <3>2. Reflects(row, k)'
      BY <1>3, <2>1, <3>1 DEF CacheOK
    <3>3. QED
      BY <1>1, <3>1, <3>2 DEF Reflects
  <2>3. mgr[h].loadedAt <= clock + 1
    BY <1>1, <2>1 DEF CacheOK
  <2>4. QED
    BY <1>1, <2>1, <2>2, <2>3 DEF CacheOK
<1>5. ASSUME NEW p \in Proc PROVE RequestOK(p)'
  <2>1. /\ RequestOK(p) /\ proc[p].start \in Nat /\ proc[p].since \in Nat
        /\ \A k \in Kid : proc[p].snap[k] \in KeyRow
    BY DEF KInv, Base, TypeOK, Request, Time
  <2>2. SnapOK(p)'
    <3>1. SUFFICES ASSUME proc[p].pc = "install", ~proc[p].failed, NEW k \in Kid
                   PROVE  /\ Reflects(proc[p].snap[k], k)'
                          /\ proc[p].snap[k].state = "retired" => proc[p].snap[k] = keys[k]
      BY <1>1 DEF SnapOK
    <3>2. PICK row \in KeyRow : row = proc[p].snap[k]
      BY <2>1
    <3>3. Reflects(row, k) /\ (row.state = "retired" => row = keys[k])
      BY <2>1, <3>1, <3>2 DEF RequestOK, SnapOK
    <3>4. Reflects(row, k)'
      BY <1>3, <3>3
    <3>5. QED
      BY <1>1, <3>2, <3>3, <3>4 DEF Reflects
  <2>3. RotationOK(p)'
    BY <1>1, <2>1 DEF RequestOK, RotationOK, Rotating, M, Current
  <2>4. TimeOK(p)'
    BY <1>1, <2>1 DEF RequestOK, TimeOK
  <2>5. QED
    BY <1>1, <2>1, <2>2, <2>3, <2>4 DEF RequestOK, MutexOK, Holding, LoaderOK, Loader,
                                        ChosenOK, Stored, M
<1>6. ASSUME NEW p \in Proc, NEW q \in Proc, p # q PROVE PairOK(p, q)'
  BY <1>1, <1>6 DEF KInv, PairOK, Loader
<1>7. QED
  BY <1>2, <1>4, <1>5, <1>6 DEF KInv

LEMMA StepK ==
  ASSUME KInv, [Next]_vars
  PROVE  KInv'
<1>1. Base'
  BY StepBase DEF KInv
<1>2. ASSUME NEW p \in Proc, GiveUp(p) \/ Return(p) PROVE KInv'
  <2>1. TypeOK
    BY DEF KInv, Base
  <2>2. Ends(p) /\ UNCHANGED <<keys, mgr, expiry, clock>>
    BY <1>2, <2>1, EndShape
  <2>3. QED
    BY <1>1, <2>2, EndsK
<1>3. CASE UNCHANGED vars
  BY <1>1, <1>3 DEF vars, KInv, CacheOK, Reflects, KeyOK, RequestOK, MutexOK, Holding,
     LoaderOK, Loader, SnapOK, RotationOK, Rotating, ChosenOK, TimeOK, PairOK, M, Stored, Current
<1>4. NoKid \in Kid \cup {NoKid} /\ \A k \in Kid : k \in Kid \cup {NoKid}
  OBVIOUS
<1>5. ASSUME NEW p \in Proc, BeginActive(p) PROVE KInv'
  BY <1>1, <1>4, <1>5, BeginK DEF BeginActive
<1>6. ASSUME NEW p \in Proc, BeginRotate(p) PROVE KInv'
  BY <1>1, <1>4, <1>6, BeginK DEF BeginRotate
<1>7. ASSUME NEW p \in Proc, NEW k \in Kid, BeginGet(p, k) PROVE KInv'
  BY <1>1, <1>4, <1>7, BeginK DEF BeginGet
<1>8. QED
  BY <1>1, <1>2, <1>3, <1>5, <1>6, <1>7, SkipK, StartK, QueryK, InstallK, GetK, ReadK, LockK,
     LoadK, InsertK, SignK, GenerateK, RetireStartK, RetireFinishK, CommitK, FailK, TickK, Zenon
  DEF Next, Serve

(* Only four steps answer a request.                                       *)
LEMMA WhoAnswers ==
  ASSUME Base, [Next]_vars, NEW p \in Proc, proc[p].pc # "done", proc'[p].pc = "done"
  PROVE  \/ Get(p) /\ proc'[p].ans \in {"retired", "ok", "unknown"}
         \/ signSession(p) /\ proc'[p].ans = "signed"
         \/ CommitRotation(p) /\ proc'[p].ans = "rotated"
         \/ StatementFails(p) /\ proc'[p].ans = "error"
<1>0. TypeOK /\ \A q \in Proc : Means(proc[q])
  BY DEF Base, MeansOK
<1>1. ASSUME NEW q \in Proc, Others(q), proc'[q].pc = "done" => q # p PROVE FALSE
  BY <1>1 DEF Others
<1>2. ASSUME NEW q \in Proc, NEW k \in Kid \cup {NoKid}, NEW op \in {"sign", "verify", "rotate"},
             Begin(q, op, k)
      PROVE  FALSE
  <2>1. Others(q) /\ proc'[q].pc # "done"
    BY <1>0, <1>2, BeginShape
  <2>2. QED
    BY <1>1, <2>1
<1>3. ASSUME NEW q \in Proc, RefreshSkip(q) PROVE FALSE
  BY <1>0, <1>1, <1>3, SkipShape DEF Moves, AfterRefresh
<1>4. ASSUME NEW q \in Proc, RefreshStart(q) PROVE FALSE
  <2>1. Others(q) /\ proc'[q].pc # "done"
    BY <1>0, <1>4, StartShape
  <2>2. QED
    BY <1>1, <2>1
<1>5. ASSUME NEW q \in Proc, QueryKeys(q) PROVE FALSE
  <2>1. Others(q) /\ proc'[q].pc # "done"
    BY <1>0, <1>5, QueryShape
  <2>2. QED
    BY <1>1, <2>1
<1>6. ASSUME NEW q \in Proc, Install(q) PROVE FALSE
  <2>1. PICK h : h = Home[q]
    OBVIOUS
  <2>2. Wakes(q)
    BY <1>0, <1>6, <2>1, InstallShape
  <2>3. QED
    BY <2>2 DEF Wakes, AfterRefresh
<1>7. ASSUME NEW q \in Proc, Get(q)
      PROVE  q = p /\ proc'[q].ans \in {"retired", "ok", "unknown"}
  <2>1. PICK k : k = proc[q].kid
    OBVIOUS
  <2>2. proc[q].kid \in Kid
    BY <1>0, <1>7 DEF Get, Means
  <2>3. /\ Others(q)
        /\ proc'[q].pc = "done" => proc'[q].ans \in {"retired", "ok", "unknown"}
    BY <1>0, <1>7, <2>1, <2>2, GetShape DEF Ends
  <2>4. QED
    BY <1>1, <2>3
<1>8. ASSUME NEW q \in Proc, ReadActive(q) PROVE FALSE
  BY <1>0, <1>1, <1>8, ReadShape DEF Moves, Takes
<1>9. ASSUME NEW q \in Proc, LockActive(q) PROVE FALSE
  <2>1. PICK h : h = Home[q]
    OBVIOUS
  <2>2. \/ Takes(q, M(q).active, "sign")
        \/ Moves(q, "load")
    BY <1>0, <1>9, <2>1, LockShape
  <2>3. QED
    BY <1>1, <2>2 DEF Moves, Takes
<1>10. ASSUME NEW q \in Proc, LoadActive(q) PROVE FALSE
  <2>1. PICK h : h = Home[q]
    OBVIOUS
  <2>2. \E k \in Kid : Takes(q, k, "sign") \/ Takes(q, k, "mint")
    BY <1>0, <1>10, <2>1, LoadShape DEF Current
  <2>3. QED
    BY <1>1, <2>2 DEF Takes
<1>11. ASSUME NEW q \in Proc, InsertKey(q) PROVE FALSE
  <2>1. proc[q].pc = "mint" /\ Making(q)
    BY <1>11 DEF InsertKey, Making
  <2>2. PICK h, k : h = Home[q] /\ k = proc[q].kid
    OBVIOUS
  <2>3. k \in Kid /\ mgr[h].gen + 1 \in 0..MaxKid
    BY <2>1, <2>2, GenerationLeft
  <2>4. Takes(q, k, "sign")
    BY <1>0, <1>11, <2>2, <2>3, InsertShape
  <2>5. QED
    BY <1>1, <2>4 DEF Takes
<1>12. ASSUME NEW q \in Proc, signSession(q)
       PROVE  q = p /\ proc'[q].ans = "signed"
  <2>1. PICK k : k = proc[q].kid
    OBVIOUS
  <2>2. k \in Kid
    BY <1>0, <1>12, <2>1 DEF signSession, Means
  <2>3. Ends(q) /\ proc'[q].ans = "signed"
    BY <1>0, <1>12, <2>1, <2>2, SignShape
  <2>4. QED
    BY <1>1, <2>3 DEF Ends
<1>13. ASSUME NEW q \in Proc, GenerateKey(q) PROVE FALSE
  BY <1>0, <1>1, <1>13, GenerateShape DEF Takes
<1>14. ASSUME NEW q \in Proc, RetireStart(q) PROVE FALSE
  <2>1. PICK h : h = Home[q]
    OBVIOUS
  <2>2. Others(q) /\ proc'[q].pc = "update"
    BY <1>0, <1>14, <2>1, RetireStartShape
  <2>3. QED
    BY <1>1, <2>2
<1>15. ASSUME NEW q \in Proc, RetireFinish(q) PROVE FALSE
  <2>1. Others(q) /\ proc'[q].pc = "commit"
    BY <1>0, <1>15, RetireFinishShape
  <2>2. QED
    BY <1>1, <2>1
<1>16. ASSUME NEW q \in Proc, CommitRotation(q)
       PROVE  q = p /\ proc'[q].ans = "rotated"
  <2>1. Making(q)
    BY <1>16 DEF CommitRotation, Making
  <2>2. PICK h, k : h = Home[q] /\ k = proc[q].kid
    OBVIOUS
  <2>3. k \in Kid /\ mgr[h].gen + 1 \in 0..MaxKid
    BY <2>1, <2>2, GenerationLeft
  <2>4. Ends(q) /\ proc'[q].ans = "rotated"
    BY <1>0, <1>16, <2>2, <2>3, CommitShape
  <2>5. QED
    BY <1>1, <2>4 DEF Ends
<1>17. ASSUME NEW q \in Proc, StatementFails(q)
       PROVE  q = p /\ proc'[q].ans = "error"
  <2>1. PICK h : h = Home[q]
    OBVIOUS
  <2>2. Ends(q) /\ proc'[q].ans = "error"
    BY <1>0, <1>17, <2>1, FailShape
  <2>3. QED
    BY <1>1, <2>2 DEF Ends
<1>18. ASSUME NEW q \in Proc, GiveUp(q) \/ Return(q) PROVE FALSE
  <2>1. Ends(q) /\ proc'[q].pc = "idle"
    BY <1>0, <1>18, EndShape
  <2>2. QED
    BY <1>1, <2>1 DEF Ends
<1>19. ~Tick /\ ~UNCHANGED vars
  BY DEF Tick, vars
<1>20. NoKid \in Kid \cup {NoKid} /\ \A k \in Kid : k \in Kid \cup {NoKid}
  OBVIOUS
<1>21. ASSUME NEW q \in Proc, BeginActive(q) \/ BeginRotate(q) PROVE FALSE
  BY <1>2, <1>20, <1>21 DEF BeginActive, BeginRotate
<1>22. ASSUME NEW q \in Proc, NEW k \in Kid, BeginGet(q, k) PROVE FALSE
  BY <1>2, <1>20, <1>22 DEF BeginGet
<1>23. PICK q \in Proc : \/ Get(q) \/ signSession(q) \/ CommitRotation(q) \/ StatementFails(q)
  BY <1>3, <1>4, <1>5, <1>6, <1>8, <1>9, <1>10, <1>11, <1>13, <1>14, <1>15, <1>18, <1>19, <1>21,
     <1>22, Zenon
  DEF Next, Serve
<1>24. QED
  BY <1>7, <1>12, <1>16, <1>17, <1>23

(* The key a manager signs with is one its own Get accepts, on any number  *)
(* of managers, whatever reloads, rotations and failures overlap.          *)
THEOREM ActiveVerifiesHolds == Spec => []ActiveVerifies
<1>1. KInv => ActiveVerifies
  BY DEF KInv, CacheOK, ActiveVerifies
<1>2. QED
  BY <1>1, InitK, StepK, PTL DEF Spec

(* Get refuses no key for being retired while a token signed before its    *)
(* retirement is unexpired, on any number of managers.                     *)
THEOREM GraceCoversTokensHolds == Spec => GraceCoversTokens
<1> DEFINE Graced(p) == /\ keys[proc[p].kid].state = "retired"
                        /\ clock > keys[proc[p].kid].at + Life
<1>1. ASSUME KInv, Next, NEW p \in Proc, Answers(p, {"retired"})
      PROVE  Graced(p)
  <2>1. PICK k : k = proc[p].kid
    OBVIOUS
  <2>2. Get(p) /\ proc[p].pc # "done" /\ proc'[p].pc = "done" /\ proc'[p].ans = "retired"
    BY <1>1, WhoAnswers DEF KInv, Answers
  <2>3. /\ k \in Kid /\ TypeOK /\ Home[p] \in Manager /\ mgr[Home[p]] \in MgrState
        /\ Reflects(mgr[Home[p]].byKID[k], k)
    BY <1>1, <2>1, <2>2, KeysAssumption DEF KInv, Base, TypeOK, MeansOK, Means, Get, CacheOK
  <2>4. expired(M(p).byKID[k])
    BY <1>1, <2>1, <2>2, <2>3, GetShape
  <2>5. PICK row \in KeyRow : row = mgr[Home[p]].byKID[k]
    BY <2>3 DEF MgrState
  <2>6. row.state = "retired" /\ clock - row.at > Life + Leeway
        /\ keys[k].state = "retired" /\ keys[k].at <= row.at
    BY <2>3, <2>4, <2>5 DEF expired, retiredGrace, M, Reflects
  <2>7. clock \in Nat /\ row.at \in Nat /\ keys[k].at \in Nat /\ Life \in Nat /\ Leeway \in Nat
    BY <2>3, <2>5, KeysAssumption DEF TypeOK, KeyRow, Time
  <2>8. QED
    BY <2>1, <2>6, <2>7
<1>2. ASSUME KInv, [Next]_vars
      PROVE  [RefusesPastGrace]_vars
  BY <1>1, <1>2 DEF vars, RefusesPastGrace
<1>3. QED
  BY <1>2, InitK, StepK, PTL DEF Spec, GraceCoversTokens
-----------------------------------------------------------------------------
(***************************************************************************)
(* What a step may do to the table, to a cache and to a request, whichever *)
(* action it is.                                                           *)
(***************************************************************************)

(* The key p generated is stored, and its manager's generation grows.      *)
Stores(p) ==
  /\ proc[p].kid \in Kid \ Stored /\ keys'[proc[p].kid] = Active
  /\ mgr'[Home[p]].gen = mgr[Home[p]].gen + 1
  /\ mgr'[Home[p]].active = proc[p].kid /\ mgr'[Home[p]].byKID[proc[p].kid] = Active
  /\ UNCHANGED <<expiry, clock>>

Inserts(p) ==
  /\ proc[p].pc = "mint" /\ Stores(p) /\ Takes(p, proc[p].kid, "sign")
  /\ \A k \in Kid : k # proc[p].kid => keys'[k] = keys[k]

Commits(p) ==
  /\ proc[p].pc = "commit" /\ Stores(p) /\ Ends(p)
  /\ \A k \in Kid : k # proc[p].kid => keys'[k] =
       IF k \in proc[p].targets THEN [state |-> "retired", at |-> proc[p].since]
       ELSE keys[k]

TableSame == \A k \in Kid : k \in Stored \/ k \in Stored' => keys'[k] = keys[k]

TableMoves == TableSame \/ \E p \in Proc : Inserts(p) \/ Commits(p)

CacheSame(h) == /\ mgr'[h].active = mgr[h].active /\ mgr'[h].byKID = mgr[h].byKID
                /\ mgr'[h].loadedAt = mgr[h].loadedAt
                /\ mgr'[h].stale = mgr[h].stale /\ mgr'[h].loading = mgr[h].loading

(* Cache h begins to load.                                                 *)
CacheLoads(h) == /\ mgr'[h].active = mgr[h].active /\ mgr'[h].byKID = mgr[h].byKID
                 /\ mgr'[h].loading /\ mgr'[h].loadedAt = clock /\ ~mgr[h].loading

CacheReloads(h) == \E p \in Proc : /\ Home[p] = h /\ proc[p].pc = "install"
                                   /\ Reloads(p, h) /\ UNCHANGED <<keys, clock>>

CacheAdopts(h) ==
  \E k \in Current' :
    /\ Adopts(h, k)
    /\ \A j \in Kid : j # k => \/ mgr'[h].byKID[j] = mgr[h].byKID[j]
                               \/ j = mgr[h].active /\ mgr'[h].byKID[j].state = "retired"

CacheMoves(h) == CacheSame(h) \/ CacheLoads(h) \/ CacheReloads(h) \/ CacheAdopts(h)

(* How a request comes to load, to generate, to sign and to rotate.        *)
Caching(p) == proc[p].pc \in {"refresh", "query", "install", "wait", "lookup"}

QueryMove(p) ==
  /\ proc[p].pc = "refresh" /\ proc'[p].pc = "query" /\ proc'[p].cutoff = Cutoff
  /\ proc'[p].failed = proc[p].failed /\ UNCHANGED <<keys, clock>>

InstallMove(p) ==
  /\ proc[p].pc = "query" /\ proc'[p].pc = "install"
  /\ proc'[p].gen = proc[p].gen /\ proc'[p].cutoff = proc[p].cutoff
  /\ \/ Faults
     \/ proc'[p].failed = proc[p].failed
  /\ ~proc'[p].failed =>
       \A k \in Kid : proc'[p].snap[k] =
         IF \/ keys[k].state = "active"
            \/ keys[k].state = "retired" /\ keys[k].at >= proc[p].cutoff
         THEN keys[k] ELSE Absent
  /\ UNCHANGED <<keys, mgr, clock>>

MintMove(p) == proc'[p].pc = "mint" /\ Current = {} /\ TableSame

SignMove(p) ==
  /\ proc'[p].pc = "sign" /\ proc'[p].start = proc[p].start
  /\ proc[p].pc \notin {"idle", "done"} /\ UNCHANGED clock
  /\ Unlocked(p) \/ Holding(p)
  /\ \/ Holding(p) /\ keys'[proc'[p].kid].state = "active"
     \/ proc'[p].kid = M(p).active /\ UNCHANGED <<keys, mgr>>

UpdateMove(p) ==
  /\ proc'[p].pc = "update" /\ proc'[p].targets = Current /\ proc'[p].since = clock
  /\ UNCHANGED <<keys, expiry, clock>> /\ Others(p)

CommitMove(p) ==
  /\ proc[p].pc = "update" /\ proc'[p].pc = "commit" /\ proc'[p].since = proc[p].since
  /\ proc'[p].targets = proc[p].targets \cap Current
  /\ UNCHANGED <<keys, mgr, expiry, clock>> /\ Others(p)

ProcMoves(p) ==
  \/ proc'[p] = proc[p]
  \/ /\ proc'[p].pc \notin {"query", "install", "mint", "sign", "update", "commit"}
     /\ Caching(p)' /\ proc'[p].failed => Caching(p) /\ proc[p].failed
  \/ QueryMove(p) \/ InstallMove(p) \/ MintMove(p) \/ SignMove(p)
  \/ UpdateMove(p) \/ CommitMove(p)

ClockMoves == \/ UNCHANGED clock
              \/ clock' = clock + 1 /\ UNCHANGED <<keys, mgr, proc, expiry>>

ExpiryMoves ==
  \/ UNCHANGED expiry
  \/ \E p \in Proc : /\ proc[p].pc = "sign" /\ Ends(p) /\ UNCHANGED <<keys, mgr, clock>>
                     /\ \A k \in Kid : expiry'[k] = IF k = proc[p].kid THEN clock + Life
                                                    ELSE expiry[k]

Coarse == /\ TableMoves /\ ClockMoves /\ ExpiryMoves
          /\ \A h \in Manager : CacheMoves(h) /\ mgr[h].gen <= mgr'[h].gen
          /\ \A p \in Proc : ProcMoves(p)

LEMMA OneMoves ==
  ASSUME NEW p \in Proc, Others(p), ProcMoves(p)
  PROVE  \A q \in Proc : ProcMoves(q)
  BY DEF Others, ProcMoves

LEMMA OneCacheMoves ==
  ASSUME KInv, NEW p \in Proc, CacheMoves(Home[p]), MgrOthers(p),
         mgr[Home[p]].gen <= mgr'[Home[p]].gen
  PROVE  \A h \in Manager : CacheMoves(h) /\ mgr[h].gen <= mgr'[h].gen
<1>1. \A h \in Manager : mgr[h].gen \in Nat
  BY DEF KInv, Base, TypeOK, MgrState
<1>2. ASSUME NEW h \in Manager, h # Home[p]
      PROVE  CacheMoves(h) /\ mgr[h].gen <= mgr'[h].gen
  <2>1. mgr'[h] = mgr[h]
    BY <1>2 DEF MgrOthers
  <2>2. QED
    BY <1>1, <2>1 DEF CacheMoves, CacheSame
<1>3. QED
  BY <1>2

(* A step that moves p and leaves the table and the caches.                *)
LEMMA QuietCoarse ==
  ASSUME KInv, NEW p \in Proc, Others(p), ProcMoves(p), UNCHANGED <<keys, mgr, expiry, clock>>
  PROVE  Coarse
<1>1. \A h \in Manager : mgr[h].gen \in Nat
  BY DEF KInv, Base, TypeOK, MgrState
<1>2. \A h \in Manager : CacheMoves(h) /\ mgr[h].gen <= mgr'[h].gen
  BY <1>1 DEF CacheMoves, CacheSame
<1>3. QED
  BY <1>2, OneMoves DEF Coarse, TableMoves, TableSame, ClockMoves, ExpiryMoves

LEMMA AdoptsCoarse ==
  ASSUME KInv, NEW p \in Proc, NEW h \in Manager, h = Home[p], Holding(p),
         NEW k \in Current', Adopts(h, k), mgr[h].gen <= mgr'[h].gen, MgrOthers(p),
         \A j \in Kid : j # k => \/ mgr'[h].byKID[j] = mgr[h].byKID[j]
                                 \/ j = mgr[h].active /\ mgr'[h].byKID[j].state = "retired",
         TableMoves, Others(p), UNCHANGED <<expiry, clock>>,
         Ends(p) \/ Takes(p, k, "sign")
  PROVE  Coarse
<1>1. CacheMoves(h)
  BY DEF CacheMoves, CacheAdopts
<1>2. \A g \in Manager : CacheMoves(g) /\ mgr[g].gen <= mgr'[g].gen
  BY <1>1, OneCacheMoves
<1>3. ProcMoves(p)
  <2>1. CASE Ends(p)
    BY <2>1 DEF Ends, ProcMoves, Caching
  <2>2. CASE Takes(p, k, "sign")
    BY <2>2 DEF Takes, Carries, ProcMoves, SignMove, Current, Holding
  <2>3. QED
    BY <2>1, <2>2
<1>4. QED
  BY <1>2, <1>3, OneMoves DEF Coarse, ClockMoves, ExpiryMoves

(* A step that changes p and the mutex.                                    *)
LEMMA MutexCoarse ==
  ASSUME KInv, NEW p \in Proc, NEW h \in Manager, h = Home[p], CacheSame(h) \/ CacheLoads(h),
         mgr'[h].gen = mgr[h].gen,
         MgrOthers(p), TableMoves, Others(p), ProcMoves(p), UNCHANGED <<expiry, clock>>
  PROVE  Coarse
<1>1. mgr[Home[p]].gen <= mgr'[Home[p]].gen
  BY DEF KInv, Base, TypeOK, MgrState
<1>2. CacheMoves(Home[p])
  BY DEF CacheMoves
<1>3. \A g \in Manager : CacheMoves(g) /\ mgr[g].gen <= mgr'[g].gen
  BY <1>1, <1>2, OneCacheMoves
<1>4. QED
  BY <1>3, OneMoves DEF Coarse, ClockMoves, ExpiryMoves

LEMMA CoarseStep ==
  ASSUME KInv, [Next]_vars
  PROVE  Coarse
<1>0. /\ TypeOK /\ Base /\ \A q \in Proc : Means(proc[q])
      /\ \A q \in Proc : Home[q] \in Manager /\ RequestOK(q)
      /\ \A h \in Manager : mgr[h].gen \in Nat /\ CacheOK(h)
  BY KeysAssumption DEF KInv, Base, TypeOK, MgrState, MeansOK
<1>1. UNCHANGED keys => TableMoves
  BY DEF TableMoves, TableSame
<1>2. ASSUME NEW p \in Proc, NEW k \in Kid \cup {NoKid}, NEW op \in {"sign", "verify", "rotate"},
             Begin(p, op, k)
      PROVE  Coarse
  <2>1. /\ Others(p) /\ proc'[p].pc = IF op = "rotate" THEN "begin" ELSE "refresh"
        /\ ~proc'[p].failed /\ UNCHANGED <<keys, mgr, expiry, clock>>
    BY <1>0, <1>2, BeginShape
  <2>2. ProcMoves(p)
    BY <2>1 DEF ProcMoves
  <2>3. QED
    BY <2>1, <2>2, QuietCoarse
<1>3. ASSUME NEW p \in Proc, RefreshSkip(p) PROVE Coarse
  <2>1. /\ proc[p].pc = "refresh" /\ Others(p)
        /\ proc'[p].pc \in {"wait", "active", "lookup"}
        /\ proc'[p].failed = proc[p].failed /\ UNCHANGED <<keys, mgr, expiry, clock>>
    BY <1>0, <1>3, SkipShape DEF Moves, Carries, AfterRefresh
  <2>2. ProcMoves(p)
    BY <2>1 DEF ProcMoves, Caching
  <2>3. QED
    BY <2>1, <2>2, QuietCoarse
<1>4. ASSUME NEW p \in Proc, RefreshStart(p) PROVE Coarse
  <2>1. /\ proc[p].pc = "refresh" /\ ~M(p).loading /\ MgrOthers(p)
        /\ mgr'[Home[p]].loading /\ mgr'[Home[p]].loadedAt = clock
        /\ mgr'[Home[p]].active = M(p).active /\ mgr'[Home[p]].byKID = M(p).byKID
        /\ mgr'[Home[p]].gen = M(p).gen
    BY <1>0, <1>4, StartShape
  <2>2. /\ Others(p) /\ proc'[p].pc = "query" /\ proc'[p].cutoff = Cutoff
        /\ proc'[p].failed = proc[p].failed /\ UNCHANGED <<keys, expiry, clock>>
    BY <1>0, <1>4, StartShape
  <2>3. CacheLoads(Home[p]) /\ mgr'[Home[p]].gen = mgr[Home[p]].gen
    BY <2>1 DEF CacheLoads, M
  <2>4. ProcMoves(p)
    BY <2>1, <2>2 DEF ProcMoves, QueryMove
  <2>5. QED
    BY <1>0, <1>1, <2>1, <2>2, <2>3, <2>4, MutexCoarse
<1>5. ASSUME NEW p \in Proc, QueryKeys(p) PROVE Coarse
  <2>1. /\ proc[p].pc = "query" /\ Others(p) /\ proc'[p].pc = "install"
        /\ proc'[p].gen = proc[p].gen /\ proc'[p].cutoff = proc[p].cutoff
        /\ UNCHANGED <<keys, mgr, expiry, clock>>
    BY <1>0, <1>5, QueryShape
  <2>2. \/ Faults /\ proc'[p].failed
        \/ /\ proc'[p].failed = proc[p].failed
           /\ \A k \in Kid : proc'[p].snap[k] =
                IF \/ keys[k].state = "active"
                   \/ keys[k].state = "retired" /\ keys[k].at >= proc[p].cutoff
                THEN keys[k] ELSE Absent
    BY <1>0, <1>5, QueryShape
  <2>3. ProcMoves(p)
    BY <2>1, <2>2 DEF ProcMoves, InstallMove
  <2>4. QED
    BY <2>1, <2>3, QuietCoarse
<1>6. ASSUME NEW p \in Proc, Install(p) PROVE Coarse
  <2>1. PICK h : h = Home[p]
    OBVIOUS
  <2>2. /\ proc[p].pc = "install" /\ MgrOthers(p) /\ Reloads(p, h)
        /\ Wakes(p) /\ UNCHANGED <<keys, expiry, clock>>
    BY <1>0, <1>6, <2>1, InstallShape
  <2>3. CacheMoves(h) /\ mgr[h].gen <= mgr'[h].gen
    <3>1. CacheReloads(h)
      BY <2>1, <2>2, Zenon DEF CacheReloads
    <3>2. h \in Manager /\ mgr'[h].gen = mgr[h].gen
      BY <1>0, <2>1, <2>2 DEF Reloads
    <3>3. QED
      BY <1>0, <3>1, <3>2 DEF CacheMoves
  <2>4. \A g \in Manager : CacheMoves(g) /\ mgr[g].gen <= mgr'[g].gen
    BY <2>1, <2>2, <2>3, OneCacheMoves
  <2>5. ASSUME NEW q \in Proc PROVE ProcMoves(q)
    BY <2>2 DEF Wakes, Carries, AfterRefresh, ProcMoves, Caching
  <2>6. QED
    BY <1>1, <2>2, <2>4, <2>5 DEF Coarse, ClockMoves, ExpiryMoves
<1>7. ASSUME NEW p \in Proc, Get(p) PROVE Coarse
  <2>1. PICK k : k = proc[p].kid
    OBVIOUS
  <2>2. /\ proc[p].kid \in Kid /\ proc[p].pc = "lookup"
        /\ UNCHANGED <<keys, mgr, expiry, clock>>
    BY <1>0, <1>7 DEF Get, Means
  <2>3. \/ Ends(p)
        \/ Others(p) /\ proc'[p].pc = "refresh" /\ proc'[p].failed = proc[p].failed
    BY <1>0, <1>7, <2>1, <2>2, GetShape
  <2>4. ProcMoves(p) /\ Others(p)
    BY <2>2, <2>3 DEF ProcMoves, Ends, Caching
  <2>5. QED
    BY <2>2, <2>4, QuietCoarse
<1>8. ASSUME NEW p \in Proc, ReadActive(p) PROVE Coarse
  <2>1. /\ proc[p].pc = "active" /\ Unlocked(p)
        /\ \/ M(p).active \in Kid /\ Takes(p, M(p).active, "sign")
           \/ Moves(p, "lock")
        /\ UNCHANGED <<keys, mgr, expiry, clock>>
    BY <1>0, <1>8, ReadShape
  <2>2. ProcMoves(p) /\ Others(p)
    BY <2>1 DEF Takes, Moves, Carries, ProcMoves, SignMove, Caching
  <2>3. QED
    BY <2>1, <2>2, QuietCoarse
<1>9. ASSUME NEW p \in Proc, LockActive(p) PROVE Coarse
  <2>1. PICK h : h = Home[p]
    OBVIOUS
  <2>2. /\ proc[p].pc = "lock" /\ Unlocked(p) /\ UNCHANGED <<keys, expiry, clock>>
        /\ \/ M(p).active \in Kid /\ Takes(p, M(p).active, "sign") /\ UNCHANGED mgr
           \/ /\ Moves(p, "load") /\ MgrOthers(p)
              /\ mgr'[h].active = mgr[h].active /\ mgr'[h].byKID = mgr[h].byKID
              /\ mgr'[h].loadedAt = mgr[h].loadedAt /\ mgr'[h].stale = mgr[h].stale
              /\ mgr'[h].loading = mgr[h].loading /\ mgr'[h].gen = mgr[h].gen
    BY <1>0, <1>9, <2>1, LockShape
  <2>3. ProcMoves(p) /\ Others(p)
    BY <2>2 DEF Takes, Moves, Carries, ProcMoves, SignMove, Caching
  <2>4. CASE UNCHANGED mgr
    BY <2>2, <2>3, <2>4, QuietCoarse
  <2>5. CASE MgrOthers(p) /\ CacheSame(h) /\ mgr'[h].gen = mgr[h].gen
    BY <1>0, <1>1, <2>1, <2>2, <2>3, <2>5, MutexCoarse
  <2>6. QED
    BY <2>2, <2>4, <2>5 DEF CacheSame
<1>10. ASSUME NEW p \in Proc, LoadActive(p) PROVE Coarse
  <2>1. PICK h : h = Home[p]
    OBVIOUS
  <2>2. /\ proc[p].pc = "load" /\ UNCHANGED <<expiry, clock>>
        /\ \/ \E k \in Current :
                /\ Takes(p, k, "sign") /\ MgrOthers(p) /\ Adopts(h, k)
                /\ mgr'[h].gen = mgr[h].gen
                /\ \A j \in Kid : j # k => mgr'[h].byKID[j] = mgr[h].byKID[j]
                /\ UNCHANGED keys
           \/ /\ Current = {}
              /\ \E k \in Kid : Makes(k) /\ Takes(p, k, "mint") /\ UNCHANGED mgr
    BY <1>0, <1>10, <2>1, LoadShape
  <2>3. ASSUME NEW k \in Current, Takes(p, k, "sign"), MgrOthers(p), Adopts(h, k),
               mgr'[h].gen = mgr[h].gen, UNCHANGED keys,
               \A j \in Kid : j # k => mgr'[h].byKID[j] = mgr[h].byKID[j]
        PROVE  Coarse
    <3>1. k \in Current' /\ Holding(p) /\ Others(p) /\ mgr[h].gen <= mgr'[h].gen
      BY <1>0, <2>1, <2>2, <2>3 DEF Current, Holding, Takes
    <3>2. QED
      BY <1>0, <1>1, <2>1, <2>2, <2>3, <3>1, AdoptsCoarse
  <2>4. ASSUME Current = {}, NEW k \in Kid, Makes(k), Takes(p, k, "mint"), UNCHANGED mgr
        PROVE  Coarse
    <3>1. TableSame /\ Others(p)
      BY <2>4 DEF TableSame, Makes, Stored, Takes
    <3>2. ProcMoves(p)
      BY <2>4, <3>1 DEF ProcMoves, MintMove, Takes
    <3>3. \A g \in Manager : CacheMoves(g) /\ mgr[g].gen <= mgr'[g].gen
      BY <1>0, <2>4 DEF CacheMoves, CacheSame
    <3>4. QED
      BY <2>2, <3>1, <3>2, <3>3, OneMoves DEF Coarse, TableMoves, ClockMoves, ExpiryMoves
  <2>5. QED
    BY <2>2, <2>3, <2>4
<1>11. ASSUME NEW p \in Proc, GenerateKey(p) PROVE Coarse
  <2>1. /\ UNCHANGED <<mgr, expiry, clock>>
        /\ \E k \in Kid : Makes(k) /\ Takes(p, k, "retire")
    BY <1>0, <1>11, GenerateShape
  <2>2. TableSame /\ Others(p) /\ ProcMoves(p)
    BY <2>1 DEF TableSame, Makes, Stored, Takes, ProcMoves, Caching
  <2>3. \A g \in Manager : CacheMoves(g) /\ mgr[g].gen <= mgr'[g].gen
    BY <1>0, <2>1 DEF CacheMoves, CacheSame
  <2>4. QED
    BY <2>1, <2>2, <2>3, OneMoves DEF Coarse, TableMoves, ClockMoves, ExpiryMoves
<1>12. ASSUME NEW p \in Proc, InsertKey(p) PROVE Coarse
  <2>1. PICK h, k : h = Home[p] /\ k = proc[p].kid
    OBVIOUS
  <2>2. Making(p) /\ Holding(p) /\ proc[p].pc = "mint"
    BY <1>12 DEF InsertKey, Making, Holding
  <2>3. k \in Kid /\ mgr[h].gen + 1 \in 0..MaxKid /\ k \notin Stored
    BY <1>0, <2>1, <2>2, GenerationLeft DEF Base, MakingOK, Stored
  <2>4. /\ Takes(p, k, "sign") /\ MgrOthers(p) /\ Adopts(h, k)
        /\ mgr'[h].gen = mgr[h].gen + 1
        /\ \A j \in Kid : j # k => mgr'[h].byKID[j] = mgr[h].byKID[j]
        /\ UNCHANGED <<expiry, clock>>
    BY <1>0, <1>12, <2>1, <2>3, InsertShape
  <2>5. keys'[k] = Active /\ \A j \in Kid : j # k => keys'[j] = keys[j]
    BY <1>0, <1>12, <2>1, <2>3, InsertShape
  <2>6. TableMoves
    BY <2>1, <2>2, <2>3, <2>4, <2>5 DEF TableMoves, Inserts, Stores, Adopts
  <2>7. k \in Current' /\ Others(p) /\ mgr[h].gen <= mgr'[h].gen
    BY <1>0, <2>1, <2>3, <2>4, <2>5 DEF Current, Active, Takes
  <2>8. QED
    BY <1>0, <2>1, <2>2, <2>4, <2>6, <2>7, AdoptsCoarse
<1>13. ASSUME NEW p \in Proc, signSession(p) PROVE Coarse
  <2>1. PICK k : k = proc[p].kid
    OBVIOUS
  <2>2. k \in Kid /\ proc[p].pc = "sign"
    BY <1>0, <1>13, <2>1 DEF signSession, Means
  <2>3. /\ Ends(p) /\ expiry' \in [Kid -> 0..(MaxClock + Life)]
        /\ expiry'[k] = clock + Life /\ \A j \in Kid : j # k => expiry'[j] = expiry[j]
        /\ UNCHANGED <<keys, mgr, clock>>
    BY <1>0, <1>13, <2>1, <2>2, SignShape
  <2>4. ProcMoves(p) /\ Others(p)
    BY <2>3 DEF Ends, ProcMoves, Caching
  <2>5. \A g \in Manager : CacheMoves(g) /\ mgr[g].gen <= mgr'[g].gen
    BY <1>0, <2>3 DEF CacheMoves, CacheSame
  <2>6. ExpiryMoves
    BY <2>1, <2>2, <2>3 DEF ExpiryMoves
  <2>7. QED
    BY <1>1, <2>3, <2>4, <2>5, <2>6, OneMoves DEF Coarse, ClockMoves
<1>14. ASSUME NEW p \in Proc, RetireStart(p) PROVE Coarse
  <2>1. PICK h : h = Home[p]
    OBVIOUS
  <2>2. /\ Others(p) /\ proc'[p].pc = "update" /\ proc'[p].targets = Current
        /\ proc'[p].since = clock /\ MgrOthers(p)
        /\ mgr'[h].active = mgr[h].active /\ mgr'[h].byKID = mgr[h].byKID
        /\ mgr'[h].loadedAt = mgr[h].loadedAt /\ mgr'[h].stale = mgr[h].stale
        /\ mgr'[h].loading = mgr[h].loading /\ mgr'[h].gen = mgr[h].gen
        /\ UNCHANGED <<keys, expiry, clock>>
    BY <1>0, <1>14, <2>1, RetireStartShape
  <2>3. ProcMoves(p) /\ CacheSame(h)
    BY <2>2 DEF ProcMoves, UpdateMove, CacheSame
  <2>4. QED
    BY <1>0, <1>1, <2>1, <2>2, <2>3, MutexCoarse
<1>15. ASSUME NEW p \in Proc, RetireFinish(p) PROVE Coarse
  <2>1. /\ proc[p].pc = "update" /\ Others(p) /\ proc'[p].pc = "commit"
        /\ proc'[p].targets = proc[p].targets \cap Current
        /\ proc'[p].since = proc[p].since /\ UNCHANGED <<keys, mgr, expiry, clock>>
    BY <1>0, <1>15, RetireFinishShape
  <2>2. ProcMoves(p)
    BY <2>1 DEF ProcMoves, CommitMove
  <2>3. QED
    BY <2>1, <2>2, QuietCoarse
<1>16. ASSUME NEW p \in Proc, CommitRotation(p) PROVE Coarse
  <2>1. PICK h, k : h = Home[p] /\ k = proc[p].kid
    OBVIOUS
  <2>2. Making(p) /\ Holding(p) /\ proc[p].pc = "commit"
    BY <1>16 DEF CommitRotation, Making, Holding
  <2>3. k \in Kid /\ mgr[h].gen + 1 \in 0..MaxKid /\ k \notin Stored
    BY <1>0, <2>1, <2>2, GenerationLeft DEF Base, MakingOK, Stored
  <2>4. TypeOK
    BY <1>0
  <2>5. /\ Ends(p) /\ MgrOthers(p) /\ Adopts(h, k) /\ mgr'[h].gen = mgr[h].gen + 1
        /\ Stamps(h, k) /\ UNCHANGED <<expiry, clock>>
    BY <1>16, <2>1, <2>3, <2>4, CommitShape
  <2>6. \A j \in Kid : keys'[j] =
          IF j = k THEN Active
          ELSE IF j \in proc[p].targets
               THEN [state |-> "retired", at |-> proc[p].since] ELSE keys[j]
    BY <1>16, <2>1, <2>3, <2>4, CommitShape
  <2>7. TableMoves
    BY <2>1, <2>2, <2>3, <2>5, <2>6 DEF TableMoves, Commits, Stores, Adopts
  <2>8. k \in Current' /\ Others(p) /\ mgr[h].gen <= mgr'[h].gen
    BY <1>0, <2>1, <2>3, <2>5, <2>6 DEF Current, Active, Ends
  <2>9. \A j \in Kid : j # k => \/ mgr'[h].byKID[j] = mgr[h].byKID[j]
                                \/ j = mgr[h].active /\ mgr'[h].byKID[j].state = "retired"
    BY <2>5 DEF Stamps
  <2>10. QED
    BY <1>0, <2>1, <2>2, <2>5, <2>7, <2>8, <2>9, AdoptsCoarse
<1>17. ASSUME NEW p \in Proc, StatementFails(p) PROVE Coarse
  <2>1. PICK h : h = Home[p]
    OBVIOUS
  <2>2. /\ proc[p].pc \in {"load", "mint", "update", "commit"}
        /\ Ends(p) /\ MgrOthers(p)
        /\ mgr'[h].active = mgr[h].active /\ mgr'[h].byKID = mgr[h].byKID
        /\ mgr'[h].loadedAt = mgr[h].loadedAt /\ mgr'[h].stale = mgr[h].stale
        /\ mgr'[h].loading = mgr[h].loading /\ mgr'[h].gen = mgr[h].gen
        /\ UNCHANGED <<expiry, clock>>
    BY <1>0, <1>17, <2>1, FailShape
  <2>3. \A k \in Kid : keys'[k] = IF k = proc[p].kid THEN Absent ELSE keys[k]
    BY <1>0, <1>17, <2>1, FailShape
  <2>4. proc[p].kid \in Kid => proc[p].kid \notin Stored
    BY <1>0, <2>2 DEF Base, MeansOK, Means, MakingOK, Making, Stored, NoKid, Kid
  <2>5. TableMoves
    BY <2>3, <2>4 DEF TableMoves, TableSame, Stored, Absent
  <2>6. ProcMoves(p) /\ Others(p) /\ CacheSame(h)
    BY <2>2 DEF Ends, ProcMoves, Caching, CacheSame
  <2>7. QED
    BY <1>0, <2>1, <2>2, <2>5, <2>6, MutexCoarse
<1>18. ASSUME NEW p \in Proc, GiveUp(p) \/ Return(p) PROVE Coarse
  <2>1. Ends(p) /\ UNCHANGED <<keys, mgr, expiry, clock>>
    BY <1>0, <1>18, EndShape
  <2>2. ProcMoves(p) /\ Others(p)
    BY <2>1 DEF Ends, ProcMoves, Caching
  <2>3. QED
    BY <2>1, <2>2, QuietCoarse
<1>19. CASE Tick
  BY <1>0, <1>1, <1>19 DEF Tick, Coarse, ClockMoves, ExpiryMoves, CacheMoves, CacheSame, ProcMoves
<1>20. CASE UNCHANGED vars
  BY <1>0, <1>1, <1>20 DEF vars, Coarse, ClockMoves, ExpiryMoves, CacheMoves, CacheSame, ProcMoves
<1>21. NoKid \in Kid \cup {NoKid} /\ \A k \in Kid : k \in Kid \cup {NoKid}
  OBVIOUS
<1>22. ASSUME NEW p \in Proc, BeginActive(p) \/ BeginRotate(p) PROVE Coarse
  BY <1>2, <1>21, <1>22 DEF BeginActive, BeginRotate
<1>23. ASSUME NEW p \in Proc, NEW k \in Kid, BeginGet(p, k) PROVE Coarse
  BY <1>2, <1>21, <1>23 DEF BeginGet
<1>24. QED
  BY <1>3, <1>4, <1>5, <1>6, <1>7, <1>8, <1>9, <1>10, <1>11, <1>12, <1>13, <1>14, <1>15, <1>16,
     <1>17, <1>18, <1>19, <1>20, <1>22, <1>23, Zenon
  DEF Next, Serve

(* A retirement is for good, and dated by the rotation that did it.        *)
LEMMA RetiredStays ==
  ASSUME KInv, Coarse, NEW k \in Kid, keys[k].state = "retired"
  PROVE  keys'[k] = keys[k]
<1>1. k \in Stored /\ k \notin Current
  BY DEF Stored, Current
<1>2. CASE TableSame
  BY <1>1, <1>2 DEF TableSame
<1>3. ASSUME NEW p \in Proc, Inserts(p) PROVE keys'[k] = keys[k]
  BY <1>1, <1>3 DEF Inserts, Stores
<1>4. ASSUME NEW p \in Proc, Commits(p) PROVE keys'[k] = keys[k]
  <2>1. k # proc[p].kid /\ proc[p].pc = "commit"
    BY <1>1, <1>4 DEF Commits, Stores
  <2>2. k \notin proc[p].targets
    BY <1>1, <2>1 DEF KInv, RequestOK, RotationOK, Rotating
  <2>3. QED
    BY <1>4, <2>1, <2>2 DEF Commits
<1>5. QED
  BY <1>2, <1>3, <1>4 DEF Coarse, TableMoves

LEMMA NewlyRetired ==
  ASSUME KInv, Coarse, NEW k \in Kid, keys'[k].state = "retired", keys[k].state # "retired"
  PROVE  \E p \in Proc : /\ Commits(p) /\ k \in proc[p].targets /\ k \in Current
                         /\ keys'[k].at = proc[p].since
<1>1. ~TableSame
  BY DEF TableSame, Stored
<1>2. ASSUME NEW p \in Proc, Inserts(p) PROVE FALSE
  BY <1>2 DEF Inserts, Stores, Active
<1>3. ASSUME NEW p \in Proc, Commits(p)
      PROVE  k \in proc[p].targets /\ k \in Current /\ keys'[k].at = proc[p].since
  <2>1. k # proc[p].kid /\ proc[p].pc = "commit"
    BY <1>3 DEF Commits, Stores, Active
  <2>2. k \in proc[p].targets
    BY <1>3, <2>1 DEF Commits
  <2>3. keys'[k] = [state |-> "retired", at |-> proc[p].since]
    BY <1>3, <2>1, <2>2 DEF Commits
  <2>4. QED
    BY <2>1, <2>2, <2>3 DEF KInv, RequestOK, RotationOK, Rotating
<1>4. QED
  BY <1>1, <1>2, <1>3 DEF Coarse, TableMoves

LEMMA ClockGrows ==
  ASSUME KInv, KInv', Coarse
  PROVE  clock \in Nat /\ clock' \in Nat /\ clock <= clock'
<1>1. clock \in Nat /\ clock' \in Nat
  BY DEF KInv, Base, TypeOK, Time
<1>2. QED
  BY <1>1 DEF Coarse, ClockMoves
-----------------------------------------------------------------------------
(***************************************************************************)
(* One process.  The mutex then orders the uses and the rotations of its   *)
(* goroutines: a key is generated while none is in use, a rotation retires *)
(* the one in use, and the key the manager signs with is that one.         *)
(***************************************************************************)
OneProcess == \A a, b \in Manager : a = b

Sole(p) == /\ proc[p].pc = "mint" => Current = {}
           /\ Rotating(p) => proc[p].targets = Current

OneInv == /\ KInv
          /\ \A j, k \in Current : j = k
          /\ \A p \in Proc : Sole(p)
          /\ \A h \in Manager : mgr[h].active # NoKid => mgr[h].active \in Current

LEMMA OneHolder ==
  ASSUME OneProcess, KInv, NEW p \in Proc, NEW q \in Proc, Holding(p),
         Holding(q) \/ Unlocked(q)
  PROVE  p = q /\ ~Unlocked(q)
<1>1. Home[p] = Home[q] /\ p # None
  BY KeysAssumption DEF OneProcess
<1>2. M(p).mu = p /\ (Holding(q) => M(q).mu = q)
  BY DEF KInv, RequestOK, MutexOK
<1>3. QED
  BY <1>1, <1>2 DEF Unlocked, M

(* The key that is stored is then the one in use.                          *)
LEMMA OneStores ==
  ASSUME OneInv, NEW p \in Proc, Inserts(p) \/ Commits(p)
  PROVE  Current' = {proc[p].kid} /\ ~TableSame /\ Holding(p) /\ ~Holding(p)'
<1>1. Stores(p) /\ Holding(p) /\ ~Holding(p)'
  BY DEF Inserts, Commits, Takes, Ends, Holding
<1>2. proc[p].kid \in Current' /\ ~TableSame
  BY <1>1 DEF Stores, Current, Active, TableSame, Stored
<1>3. ASSUME NEW k \in Current', k # proc[p].kid PROVE FALSE
  <2>1. k \in Kid /\ keys'[k].state = "active"
    BY DEF Current
  <2>2. CASE Inserts(p)
    <3>1. Current = {} /\ keys'[k] = keys[k]
      BY <1>3, <2>1, <2>2 DEF OneInv, Sole, Inserts
    <3>2. QED
      BY <2>1, <3>1 DEF Current
  <2>3. CASE Commits(p)
    <3>1. proc[p].targets = Current
      BY <2>3 DEF OneInv, Sole, Commits, Rotating
    <3>2. QED
      BY <1>3, <2>1, <2>3, <3>1 DEF Commits, Current
  <2>4. QED
    BY <2>2, <2>3
<1>4. QED
  BY <1>1, <1>2, <1>3

LEMMA SoleStep ==
  ASSUME OneProcess, OneInv, KInv', Coarse, NEW p \in Proc
  PROVE  Sole(p)'
<1>0. KInv /\ Sole(p) /\ ProcMoves(p)
  BY DEF OneInv, Coarse
<1>1. TableSame => Current' = Current
  BY DEF TableSame, Current, Stored
<1>2. CASE MintMove(p)
  BY <1>1, <1>2 DEF MintMove, Sole, Rotating
<1>3. CASE UpdateMove(p)
  BY <1>3 DEF UpdateMove, Sole, Current
<1>4. CASE CommitMove(p)
  <2>1. proc[p].targets = Current /\ Current' = Current
    BY <1>0, <1>4 DEF CommitMove, Sole, Rotating, Current
  <2>2. QED
    BY <1>4, <2>1 DEF CommitMove, Sole
<1>5. CASE proc'[p] = proc[p]
  <2>1. CASE TableSame
    BY <1>0, <1>1, <1>5, <2>1 DEF Sole, Rotating
  <2>2. ASSUME NEW q \in Proc, Inserts(q) \/ Commits(q) PROVE Sole(p)'
    <3>1. Holding(q) /\ ~Holding(q)'
      BY <2>2, OneStores
    <3>2. CASE Holding(p)
      <4>1. p = q
        BY <1>0, <3>1, <3>2, OneHolder
      <4>2. QED
        BY <1>5, <3>1, <3>2, <4>1 DEF Holding
    <3>3. CASE ~Holding(p)
      BY <1>5, <3>3 DEF Holding, Sole, Rotating
    <3>4. QED
      BY <3>2, <3>3
  <2>3. QED
    BY <2>1, <2>2 DEF Coarse, TableMoves
<1>6. CASE proc'[p].pc \notin {"mint", "update", "commit"}
  BY <1>6 DEF Sole, Rotating
<1>7. QED
  BY <1>0, <1>2, <1>3, <1>4, <1>5, <1>6
  DEF ProcMoves, QueryMove, InstallMove, SignMove

LEMMA InitOne ==
  ASSUME Init
  PROVE  OneInv
<1>1. Current = {}
  BY DEF Init, Absent, Current
<1>2. \A p \in Proc : proc[p].pc = "idle"
  BY DEF Init, Idle
<1>3. \A h \in Manager : mgr[h].active = NoKid
  BY DEF Init
<1>4. QED
  BY <1>1, <1>2, <1>3, InitK DEF OneInv, Sole, Rotating

LEMMA StepOne ==
  ASSUME OneProcess, OneInv, [Next]_vars
  PROVE  OneInv'
<1>0. KInv
  BY DEF OneInv
<1>1. KInv' /\ Coarse
  BY <1>0, StepK, CoarseStep
<1>2. \A p \in Proc : Sole(p)'
  BY <1>1, SoleStep
<1>3. /\ \A j, k \in Current' : j = k
      /\ \A h \in Manager : mgr'[h].active # NoKid => mgr'[h].active \in Current'
  <2>1. CASE TableSame
    <3>1. Current' = Current
      BY <2>1 DEF TableSame, Current, Stored
    <3>2. ASSUME NEW h \in Manager, mgr'[h].active # NoKid
          PROVE  mgr'[h].active = mgr[h].active \/ mgr'[h].active \in Current'
      BY <1>1, <3>2 DEF Coarse, CacheMoves, CacheSame, CacheLoads, CacheReloads, Reloads,
                        CacheAdopts, Adopts
    <3>3. QED
      BY <3>1, <3>2 DEF OneInv
  <2>2. ASSUME NEW p \in Proc, Inserts(p) \/ Commits(p)
        PROVE  /\ \A j, k \in Current' : j = k
               /\ \A h \in Manager : mgr'[h].active # NoKid => mgr'[h].active \in Current'
    <3>1. Current' = {proc[p].kid} /\ Stores(p)
      BY <2>2, OneStores DEF Inserts, Commits
    <3>2. \A h \in Manager : h = Home[p]
      BY KeysAssumption DEF OneProcess
    <3>3. ASSUME NEW h \in Manager PROVE mgr'[h].active = proc[p].kid
      <4>1. h = Home[p] /\ mgr'[Home[p]].active = proc[p].kid
        BY <3>1, <3>2 DEF Stores
      <4>2. QED
        BY <4>1
    <3>4. QED
      BY <3>1, <3>3
  <2>3. QED
    BY <1>1, <2>1, <2>2 DEF Coarse, TableMoves
<1>4. QED
  BY <1>1, <1>2, <1>3 DEF OneInv

LEMMA OneAgrees ==
  ASSUME OneInv
  PROVE  KeysAgree
<1>1. ActiveVerifies
  BY DEF OneInv, KInv, CacheOK, ActiveVerifies
<1>2. OneCurrentKey
  <2>1. CASE Current = {}
    BY <2>1, FS_EmptySet DEF OneCurrentKey
  <2>2. CASE Current # {}
    <3>1. PICK k : Current = {k}
      BY <2>2 DEF OneInv
    <3>2. QED
      BY <3>1, FS_Singleton DEF OneCurrentKey
  <2>3. QED
    BY <2>1, <2>2
<1>3. QED
  BY <1>1, <1>2 DEF KeysAgree

(* One process has one key in use and signs with it, whatever first uses,  *)
(* rotations, reloads and failures of statements overlap.                  *)
THEOREM OneProcessAgrees == OneProcess => (Spec => []KeysAgree)
<1> SUFFICES ASSUME OneProcess PROVE Spec => []KeysAgree
  OBVIOUS
<1>1. OneInv /\ [Next]_vars => OneInv'
  BY StepOne
<1>2. OneInv => KeysAgree
  BY OneAgrees
<1>3. QED
  BY <1>1, <1>2, InitOne, PTL DEF Spec

(* In one process a rotation leaves the new key as the only one in use.    *)
THEOREM OneProcessRotates == OneProcess => (Spec => RotationRetiresAll)
<1> SUFFICES ASSUME OneProcess PROVE Spec => RotationRetiresAll
  OBVIOUS
<1>1. ASSUME OneInv, Next, NEW p \in Proc, Answers(p, {"rotated"})
      PROVE  Current' = {proc[p].kid}
  <2>0. Base /\ TypeOK /\ Home[p] \in Manager
    BY <1>1, KeysAssumption DEF OneInv, KInv, Base
  <2>1. CommitRotation(p)
    <3>1. proc[p].pc # "done" /\ proc'[p].pc = "done" /\ proc'[p].ans = "rotated"
      BY <1>1 DEF Answers
    <3>2. \/ proc'[p].ans \in {"retired", "ok", "unknown", "signed", "error"}
          \/ CommitRotation(p)
      BY <1>1, <2>0, <3>1, WhoAnswers
    <3>3. QED
      BY <3>1, <3>2
  <2>2. PICK h, k : h = Home[p] /\ k = proc[p].kid
    OBVIOUS
  <2>3. Making(p) /\ Rotating(p)
    BY <2>1 DEF CommitRotation, Making, Rotating
  <2>4. k \in Kid /\ mgr[h].gen + 1 \in 0..MaxKid /\ k \notin Stored
    BY <2>0, <2>2, <2>3, GenerationLeft DEF Base, MakingOK, Stored
  <2>5. \A j \in Kid : keys'[j] =
          IF j = k THEN Active
          ELSE IF j \in proc[p].targets
               THEN [state |-> "retired", at |-> proc[p].since] ELSE keys[j]
    BY <2>0, <2>1, <2>2, <2>4, CommitShape
  <2>6. proc[p].targets = Current
    BY <1>1, <2>3 DEF OneInv, Sole
  <2>7. QED
    BY <2>2, <2>4, <2>5, <2>6 DEF Current, Active
<1>2. ASSUME OneInv, [Next]_vars
      PROVE  [\A p \in Proc : Answers(p, {"rotated"}) => Current' = {proc[p].kid}]_vars
  BY <1>1, <1>2 DEF vars
<1>3. OneInv /\ [Next]_vars => OneInv'
  BY StepOne
<1>4. QED
  BY <1>2, <1>3, InitOne, PTL DEF Spec, RotationRetiresAll
-----------------------------------------------------------------------------
(***************************************************************************)
(* Tokens verify until they expire.  A request signs within Slow of its    *)
(* start, and began before the rotation of its key, so the tokens of a     *)
(* retired key expire Slow + Life after its retirement at the latest.  And *)
(* no cache loses a key before its grace ends: a reload that misses a key  *)
(* the table holds is discarded, for the generation tells it from the      *)
(* stored one.                                                             *)
(***************************************************************************)
Dropped(k) == keys[k].state = "retired" /\ keys[k].at + retiredGrace < clock

Dated(k) == keys[k].state = "retired" => expiry[k] <= keys[k].at + Slow + Life

SignDated(p) == proc[p].pc = "sign" /\ keys[proc[p].kid].state = "retired"
                  => proc[p].start <= keys[proc[p].kid].at

RotationDated(p) ==
  Rotating(p) => /\ \A k \in Current : expiry[k] <= proc[p].since + Slow + Life
                 /\ \A q \in Proc : proc[q].pc = "sign" => proc[q].start <= proc[p].since

Knows(h) == \A k \in Stored : mgr[h].byKID[k].state # "none" \/ Dropped(k)

CutoffOK(p) == Loader(p) /\ proc[p].cutoff > 0 => proc[p].cutoff + retiredGrace <= clock

SnapKnows(p) ==
  proc[p].pc = "install" /\ ~proc[p].failed /\ proc[p].gen = M(p).gen
    => \A k \in Stored : proc[p].snap[k].state # "none" \/ Dropped(k)

TokenInv == /\ OneInv
            /\ \A k \in Kid : Dated(k)
            /\ \A p \in Proc : /\ SignDated(p) /\ RotationDated(p)
                               /\ CutoffOK(p) /\ SnapKnows(p)
            /\ \A h \in Manager : Knows(h)

(* The numbers involved.                                                   *)
LEMMA Numbers ==
  ASSUME TypeOK
  PROVE  /\ clock \in Nat /\ Slow \in Nat /\ Life \in Nat /\ Leeway \in Nat
         /\ retiredGrace = Life + Leeway /\ retiredGrace \in Nat
         /\ \A k \in Kid : keys[k].at \in Nat /\ expiry[k] \in Nat
         /\ \A p \in Proc : /\ proc[p].start \in Nat /\ proc[p].since \in Nat
                            /\ proc[p].cutoff \in Nat /\ proc[p].gen \in Nat
         /\ \A h \in Manager : mgr[h].gen \in Nat
  BY KeysAssumption DEF TypeOK, Time, KeyRow, Request, MgrState, retiredGrace

LEMMA DroppedStays ==
  ASSUME KInv, KInv', Coarse, NEW k \in Kid, Dropped(k)
  PROVE  Dropped(k)'
<1>1. keys'[k] = keys[k] /\ keys[k].state = "retired" /\ keys[k].at + retiredGrace < clock
  BY RetiredStays DEF Dropped
<1>2. keys[k].at \in Nat /\ retiredGrace \in Nat
  BY Numbers DEF KInv, Base
<1>3. keys[k].at + retiredGrace < clock'
  BY <1>1, <1>2, ClockGrows
<1>4. QED
  BY <1>1, <1>3 DEF Dropped, retiredGrace

LEMMA DatedStep ==
  ASSUME TokenInv, KInv', Coarse, NEW k \in Kid
  PROVE  Dated(k)'
<1>0. KInv /\ TypeOK /\ Dated(k) /\ OneInv
  BY DEF TokenInv, OneInv, KInv, Base
<1>1. SUFFICES ASSUME keys'[k].state = "retired"
               PROVE  expiry'[k] <= keys'[k].at + Slow + Life
  BY DEF Dated
<1>2. CASE keys[k].state = "retired"
  <2>1. keys'[k] = keys[k] /\ expiry[k] <= keys[k].at + Slow + Life
    BY <1>0, <1>2, RetiredStays DEF Dated
  <2>2. CASE expiry'[k] = expiry[k]
    BY <2>1, <2>2
  <2>3. ASSUME NEW p \in Proc, proc[p].pc = "sign", k = proc[p].kid,
               expiry'[k] = clock + Life
        PROVE  expiry'[k] <= keys'[k].at + Slow + Life
    <3>1. proc[p].start <= keys[k].at /\ clock <= proc[p].start + Slow
      BY <1>0, <1>2, <2>3 DEF TokenInv, SignDated, KInv, RequestOK, TimeOK
    <3>2. QED
      BY <1>0, <2>1, <2>3, <3>1, Numbers
  <2>4. QED
    BY <2>2, <2>3 DEF Coarse, ExpiryMoves
<1>3. CASE keys[k].state # "retired"
  <2>1. PICK p \in Proc : Commits(p) /\ k \in Current /\ keys'[k].at = proc[p].since
    BY <1>0, <1>1, <1>3, NewlyRetired
  <2>2. expiry'[k] = expiry[k] /\ Rotating(p)
    BY <2>1 DEF Commits, Stores, Rotating
  <2>3. QED
    BY <2>1, <2>2 DEF TokenInv, RotationDated
<1>4. QED
  BY <1>2, <1>3

LEMMA SignDatedStep ==
  ASSUME TokenInv, KInv', Coarse, NEW p \in Proc
  PROVE  SignDated(p)'
<1>0. KInv /\ KInv' /\ OneInv /\ ProcMoves(p) /\ Home[p] \in Manager /\ SignDated(p)
  BY KeysAssumption DEF TokenInv, OneInv, Coarse
<1>1. SUFFICES ASSUME proc'[p].pc = "sign", keys'[proc'[p].kid].state = "retired"
               PROVE  proc'[p].start <= keys'[proc'[p].kid].at
  BY DEF SignDated
<1>2. CASE proc'[p] = proc[p]
  <2>1. PICK k \in Kid : k = proc[p].kid
    BY <1>0, <1>1, <1>2 DEF KInv, RequestOK, ChosenOK, Stored
  <2>2. CASE keys[k].state = "retired"
    BY <1>0, <1>1, <1>2, <2>1, <2>2, RetiredStays DEF SignDated
  <2>3. CASE keys[k].state # "retired"
    <3>1. PICK q \in Proc : Commits(q) /\ keys'[k].at = proc[q].since
      BY <1>0, <1>1, <1>2, <2>1, <2>3, NewlyRetired
    <3>2. RotationDated(q) /\ Rotating(q)
      BY <3>1 DEF TokenInv, Commits, Rotating
    <3>3. QED
      BY <1>1, <1>2, <2>1, <3>1, <3>2 DEF RotationDated
  <2>4. QED
    BY <2>2, <2>3
<1>3. CASE SignMove(p)
  <2>1. CASE keys'[proc'[p].kid].state = "active"
    BY <1>1, <2>1
  <2>2. CASE proc'[p].kid = M(p).active /\ UNCHANGED <<keys, mgr>>
    <3>1. M(p).active \in Stored
      BY <1>0, <1>1, <2>2 DEF KInv, RequestOK, ChosenOK, Stored
    <3>2. M(p).active # NoKid
      BY <3>1 DEF Stored, Kid, NoKid
    <3>3. M(p).active \in Current
      BY <1>0, <3>2 DEF OneInv, M
    <3>4. QED
      BY <1>1, <2>2, <3>3 DEF Current
  <2>3. QED
    BY <1>3, <2>1, <2>2 DEF SignMove
<1>4. QED
  BY <1>0, <1>1, <1>2, <1>3
  DEF ProcMoves, QueryMove, InstallMove, MintMove, UpdateMove, CommitMove

LEMMA RotationDatedStep ==
  ASSUME OneProcess, TokenInv, KInv', Coarse, NEW p \in Proc
  PROVE  RotationDated(p)'
<1>0. KInv /\ OneInv /\ TypeOK /\ ProcMoves(p) /\ RotationDated(p)
  BY DEF TokenInv, OneInv, KInv, Base, Coarse
<1>1. CASE proc'[p] = proc[p] /\ Rotating(p)
  <2>1. Holding(p) /\ RotationDated(p)
    BY <1>0, <1>1 DEF Rotating, Holding
  <2>2. ASSUME NEW k \in Current'
        PROVE  expiry'[k] <= proc[p].since + Slow + Life
    <3>1. k \in Kid /\ keys'[k].state = "active"
      BY DEF Current
    <3>2. k \in Current
      <4>1. ASSUME NEW q \in Proc, Inserts(q) \/ Commits(q) PROVE FALSE
        <5>1. Holding(q) /\ ~Holding(q)'
          BY <1>0, <4>1, OneStores
        <5>2. p = q
          BY <1>0, <2>1, <5>1, OneHolder
        <5>3. QED
          BY <1>1, <5>1, <5>2 DEF Holding
      <4>2. TableSame
        BY <4>1 DEF Coarse, TableMoves
      <4>3. QED
        BY <3>1, <4>2 DEF TableSame, Current, Stored
    <3>3. expiry[k] <= proc[p].since + Slow + Life
      BY <1>1, <2>1, <3>2 DEF RotationDated
    <3>4. ASSUME NEW q \in Proc, proc[q].pc = "sign", expiry'[k] = clock + Life
          PROVE  expiry'[k] <= proc[p].since + Slow + Life
      <4>1. proc[q].start <= proc[p].since /\ clock <= proc[q].start + Slow
        BY <1>0, <1>1, <2>1, <3>4 DEF RotationDated, KInv, RequestOK, TimeOK
      <4>2. QED
        BY <1>0, <3>4, <4>1, Numbers
    <3>5. expiry'[k] = expiry[k]
          \/ \E q \in Proc : proc[q].pc = "sign" /\ expiry'[k] = clock + Life
      BY <3>1 DEF Coarse, ExpiryMoves
    <3>6. QED
      BY <3>3, <3>4, <3>5
  <2>3. ASSUME NEW q \in Proc, proc'[q].pc = "sign"
        PROVE  proc'[q].start <= proc[p].since
    <3>1. ProcMoves(q)
      BY DEF Coarse
    <3>2. CASE proc'[q] = proc[q]
      BY <1>1, <2>1, <2>3, <3>2 DEF RotationDated
    <3>3. CASE SignMove(q)
      <4>1. p = q
        BY <1>0, <2>1, <3>3, OneHolder DEF SignMove
      <4>2. QED
        BY <1>1, <2>3, <4>1 DEF Rotating
    <3>4. QED
      BY <2>3, <3>1, <3>2, <3>3
      DEF ProcMoves, QueryMove, InstallMove, MintMove, UpdateMove, CommitMove
  <2>4. QED
    BY <1>1, <2>2, <2>3 DEF RotationDated
<1>2. CASE UpdateMove(p)
  <2>1. /\ proc'[p].pc = "update" /\ proc'[p].since = clock
        /\ UNCHANGED <<keys, expiry, clock>> /\ Others(p)
    BY <1>2 DEF UpdateMove
  <2>2. ASSUME NEW k \in Current'
        PROVE  expiry'[k] <= proc'[p].since + Slow + Life
    <3>1. k \in Kid /\ expiry[k] <= clock + Life
      BY <1>0 DEF Current, KInv, KeyOK
    <3>2. QED
      BY <1>0, <2>1, <3>1, Numbers
  <2>3. ASSUME NEW q \in Proc, proc'[q].pc = "sign"
        PROVE  proc'[q].start <= proc'[p].since
    <3>1. proc'[q] = proc[q]
      BY <2>1, <2>3 DEF Others
    <3>2. proc[q].start <= clock
      BY <1>0, <2>3, <3>1 DEF KInv, RequestOK, TimeOK
    <3>3. QED
      BY <2>1, <3>1, <3>2
  <2>4. QED
    BY <2>2, <2>3 DEF RotationDated
<1>3. CASE CommitMove(p)
  <2>1. /\ Rotating(p) /\ proc'[p].pc = "commit" /\ proc'[p].since = proc[p].since
        /\ UNCHANGED <<keys, expiry>> /\ Others(p) /\ Current' = Current
    BY <1>3 DEF CommitMove, Rotating, Current
  <2>2. \A q \in Proc : proc'[q].pc = "sign" => proc'[q] = proc[q]
    BY <2>1 DEF Others
  <2>3. QED
    BY <1>0, <2>1, <2>2 DEF RotationDated
<1>4. CASE ~Rotating(p)'
  BY <1>4 DEF RotationDated
<1>5. QED
  BY <1>0, <1>1, <1>2, <1>3, <1>4
  DEF ProcMoves, QueryMove, InstallMove, MintMove, SignMove, Rotating

LEMMA KnowsStep ==
  ASSUME OneProcess, TokenInv, KInv', Coarse, NEW h \in Manager
  PROVE  Knows(h)'
<1>0. KInv /\ KInv' /\ Knows(h) /\ CacheMoves(h) /\ \A p \in Proc : Home[p] \in Manager
  BY KeysAssumption DEF TokenInv, OneInv, Coarse
<1>1. SUFFICES ASSUME NEW k \in Kid, k \in Stored', ~Dropped(k)'
               PROVE  mgr'[h].byKID[k].state # "none"
  BY DEF Knows, Stored
<1>2. CASE k \in Stored
  <2>1. mgr[h].byKID[k].state # "none"
    BY <1>0, <1>1, <1>2, DroppedStays DEF Knows
  <2>2. ASSUME NEW p \in Proc, Home[p] = h, proc[p].pc = "install", Reloads(p, h)
        PROVE  mgr'[h].byKID[k].state # "none"
    <3>1. CASE mgr'[h].byKID = mgr[h].byKID
      BY <2>1, <3>1
    <3>2. CASE ~proc[p].failed /\ mgr[h].gen = proc[p].gen /\ mgr'[h].byKID = proc[p].snap
      <4>1. proc[p].snap[k].state # "none" \/ Dropped(k)
        BY <1>2, <2>2, <3>2 DEF TokenInv, SnapKnows, M
      <4>2. QED
        BY <1>0, <1>1, <3>2, <4>1, DroppedStays
    <3>3. QED
      BY <2>2, <3>1, <3>2 DEF Reloads
  <2>3. QED
    BY <1>0, <2>1, <2>2
    DEF CacheMoves, CacheSame, CacheLoads, CacheReloads, CacheAdopts, Adopts, Active
<1>3. CASE k \notin Stored
  <2>1. PICK p \in Proc : Inserts(p) \/ Commits(p)
    BY <1>1, <1>3 DEF Coarse, TableMoves, TableSame, Stored
  <2>2. k = proc[p].kid /\ Stores(p)
    <3>1. Stores(p)
      BY <2>1 DEF Inserts, Commits
    <3>2. CASE Inserts(p)
      BY <1>1, <1>3, <3>2 DEF Inserts, Stored
    <3>3. CASE Commits(p)
      <4>1. proc[p].targets \subseteq Current
        BY <1>0, <3>3 DEF KInv, RequestOK, RotationOK, Rotating, Commits
      <4>2. k \notin Current
        BY <1>3 DEF Stored, Current
      <4>3. QED
        BY <1>1, <1>3, <3>1, <3>3, <4>1, <4>2 DEF Commits, Stored
    <3>4. QED
      BY <2>1, <3>1, <3>2, <3>3
  <2>3. Home[p] = h
    BY <1>0 DEF OneProcess
  <2>4. QED
    BY <2>2, <2>3 DEF Stores, Active
<1>4. QED
  BY <1>2, <1>3

LEMMA CutoffStep ==
  ASSUME TokenInv, KInv', Coarse, NEW p \in Proc
  PROVE  CutoffOK(p)'
<1>0. KInv /\ TypeOK /\ CutoffOK(p) /\ ProcMoves(p)
  BY DEF TokenInv, OneInv, KInv, Base, Coarse
<1>1. SUFFICES ASSUME Loader(p)', proc'[p].cutoff > 0
               PROVE  proc'[p].cutoff + retiredGrace <= clock'
  BY DEF CutoffOK, retiredGrace
<1>2. /\ clock \in Nat /\ clock' \in Nat /\ clock <= clock' /\ retiredGrace \in Nat
      /\ proc[p].cutoff \in Nat
  BY <1>0, ClockGrows, Numbers
<1>3. CASE proc'[p].cutoff = proc[p].cutoff /\ Loader(p)
  <2>1. proc[p].cutoff + retiredGrace <= clock
    BY <1>0, <1>1, <1>3 DEF CutoffOK
  <2>2. QED
    BY <1>2, <1>3, <2>1
<1>4. CASE QueryMove(p)
  <2>1. proc'[p].cutoff = IF clock > retiredGrace THEN clock - retiredGrace ELSE 0
    BY <1>4 DEF QueryMove, Cutoff
  <2>2. QED
    BY <1>1, <1>2, <2>1
<1>5. QED
  BY <1>0, <1>1, <1>3, <1>4
  DEF ProcMoves, InstallMove, MintMove, SignMove, UpdateMove, CommitMove, Loader

LEMMA SnapKnowsStep ==
  ASSUME OneProcess, TokenInv, KInv', Coarse, NEW p \in Proc
  PROVE  SnapKnows(p)'
<1>0. KInv /\ KInv' /\ TypeOK /\ SnapKnows(p) /\ CutoffOK(p) /\ ProcMoves(p)
      /\ Home[p] \in Manager /\ \A q \in Proc : Home[q] = Home[p]
  BY KeysAssumption DEF TokenInv, OneInv, KInv, Base, Coarse, OneProcess
<1>1. SUFFICES ASSUME proc'[p].pc = "install", ~proc'[p].failed,
                      proc'[p].gen = mgr'[Home[p]].gen,
                      NEW k \in Kid, k \in Stored', ~Dropped(k)'
               PROVE  proc'[p].snap[k].state # "none"
  BY DEF SnapKnows, M, Stored
<1>2. CASE proc'[p] = proc[p]
  <2>1. proc[p].gen <= mgr[Home[p]].gen /\ mgr[Home[p]].gen <= mgr'[Home[p]].gen
    BY <1>0, <1>1, <1>2 DEF KInv, RequestOK, LoaderOK, Loader, M, Coarse
  <2>2. proc[p].gen \in Nat /\ mgr[Home[p]].gen \in Nat
    BY <1>0, Numbers
  <2>3. mgr[Home[p]].gen = proc[p].gen /\ mgr'[Home[p]].gen = mgr[Home[p]].gen
    BY <1>1, <1>2, <2>1, <2>2
  <2>4. ASSUME NEW q \in Proc, Inserts(q) \/ Commits(q) PROVE FALSE
    <3>1. mgr'[Home[p]].gen = mgr[Home[p]].gen + 1
      BY <1>0, <2>4 DEF Inserts, Commits, Stores
    <3>2. QED
      BY <2>2, <2>3, <3>1
  <2>5. k \in Stored
    BY <1>1, <2>4 DEF Coarse, TableMoves, TableSame, Stored
  <2>6. proc[p].snap[k].state # "none" \/ Dropped(k)
    BY <1>0, <1>1, <1>2, <2>3, <2>5 DEF SnapKnows, M
  <2>7. QED
    BY <1>0, <1>1, <1>2, <2>6, DroppedStays
<1>3. CASE InstallMove(p)
  <2>1. /\ proc'[p].snap[k] = IF \/ keys[k].state = "active"
                                 \/ keys[k].state = "retired" /\ keys[k].at >= proc[p].cutoff
                              THEN keys[k] ELSE Absent
        /\ proc[p].pc = "query" /\ UNCHANGED <<keys, clock>>
    BY <1>1, <1>3 DEF InstallMove
  <2>2. k \in Stored /\ ~Dropped(k)
    BY <1>1, <2>1 DEF Stored, Dropped, retiredGrace
  <2>3. CASE keys[k].state = "retired" /\ ~(keys[k].at >= proc[p].cutoff)
    <3>1. /\ keys[k].at \in Nat /\ proc[p].cutoff \in Nat /\ retiredGrace \in Nat
          /\ clock \in Nat
      BY <1>0, Numbers
    <3>2. proc[p].cutoff + retiredGrace <= clock
      BY <1>0, <2>1, <2>3, <3>1 DEF CutoffOK, Loader
    <3>3. keys[k].at + retiredGrace < clock
      BY <2>3, <3>1, <3>2
    <3>4. QED
      BY <2>2, <2>3, <3>3 DEF Dropped
  <2>4. QED
    BY <2>1, <2>2, <2>3 DEF Stored
<1>4. QED
  BY <1>0, <1>1, <1>2, <1>3
  DEF ProcMoves, QueryMove, MintMove, SignMove, UpdateMove, CommitMove

LEMMA InitToken ==
  ASSUME Init
  PROVE  TokenInv
<1>1. \A k \in Kid : keys[k].state = "none"
  BY DEF Init, Absent
<1>2. \A p \in Proc : proc[p].pc = "idle"
  BY DEF Init, Idle
<1>3. QED
  BY <1>1, <1>2, InitOne
  DEF TokenInv, Dated, SignDated, RotationDated, Rotating, CutoffOK, Loader, SnapKnows, Knows,
      Stored

LEMMA StepToken ==
  ASSUME OneProcess, TokenInv, [Next]_vars
  PROVE  TokenInv'
<1>1. KInv /\ OneInv
  BY DEF TokenInv, OneInv
<1>2. KInv' /\ Coarse /\ OneInv'
  BY <1>1, StepK, CoarseStep, StepOne
<1>3. QED
  BY <1>2, DatedStep, SignDatedStep, RotationDatedStep, KnowsStep, CutoffStep, SnapKnowsStep
  DEF TokenInv

(* In one process, when a request signs within the leeway of its start,    *)
(* Get accepts every token until it expires, whatever rotations, reloads   *)
(* and failures of statements come between.                                *)
THEOREM OneProcessVerifies == OneProcess /\ Slow <= Leeway => (Spec => TokensVerify)
<1> SUFFICES ASSUME OneProcess, Slow <= Leeway PROVE Spec => TokensVerify
  OBVIOUS
<1>1. ASSUME TokenInv, Next, NEW p \in Proc, Answers(p, {"retired", "unknown"})
      PROVE  expiry[proc[p].kid] <= clock
  <2>0. KInv /\ TypeOK /\ Base
    BY <1>1 DEF TokenInv, OneInv, KInv, Base
  <2>1. Get(p) /\ proc[p].pc # "done" /\ proc'[p].pc = "done"
        /\ proc'[p].ans \in {"retired", "unknown"}
    BY <1>1, <2>0, WhoAnswers DEF Answers
  <2>2. PICK k : k = proc[p].kid
    OBVIOUS
  <2>3. /\ k \in Kid /\ Home[p] \in Manager /\ Reflects(mgr[Home[p]].byKID[k], k)
        /\ mgr[Home[p]] \in MgrState
    BY <2>0, <2>1, <2>2, KeysAssumption DEF KInv, Base, TypeOK, MeansOK, Means, Get, CacheOK
  <2>4. \/ expired(mgr[Home[p]].byKID[k])
        \/ mgr[Home[p]].byKID[k].state = "none"
    <3>1. \/ expired(M(p).byKID[k])
          \/ M(p).byKID[k].state = "none"
      BY <2>0, <2>1, <2>2, <2>3, GetShape
    <3>2. QED
      BY <3>1 DEF M
  <2>5. Dated(k) /\ Knows(Home[p]) /\ KeyOK(k)
    BY <1>1, <2>0, <2>3 DEF TokenInv, KInv
  <2>6. ASSUME Dropped(k) PROVE expiry[k] <= clock
    <3>1. expiry[k] <= keys[k].at + Slow + Life /\ keys[k].at + retiredGrace < clock
      BY <2>5, <2>6 DEF Dated, Dropped
    <3>2. QED
      BY <2>0, <2>3, <3>1, Numbers
  <2>7. CASE expired(mgr[Home[p]].byKID[k])
    <3>1. PICK row \in KeyRow : row = mgr[Home[p]].byKID[k]
      BY <2>3 DEF MgrState
    <3>2. /\ row.state = "retired" /\ clock - row.at > retiredGrace
          /\ keys[k].state = "retired" /\ keys[k].at <= row.at /\ row.at \in Nat
      BY <2>3, <2>7, <3>1 DEF expired, Reflects, KeyRow, Time
    <3>3. Dropped(k)
      BY <2>0, <2>3, <3>2, Numbers DEF Dropped
    <3>4. QED
      BY <2>2, <2>6, <3>3
  <2>8. CASE mgr[Home[p]].byKID[k].state = "none"
    <3>1. k \notin Stored \/ Dropped(k)
      BY <2>5, <2>8 DEF Knows
    <3>2. CASE k \notin Stored
      <4>1. ~(expiry[k] > 0)
        BY <2>5, <3>2 DEF KeyOK
      <4>2. QED
        BY <2>0, <2>2, <2>3, <4>1, Numbers
    <3>3. QED
      BY <2>2, <2>6, <3>1, <3>2
  <2>9. QED
    BY <2>4, <2>7, <2>8
<1>2. ASSUME TokenInv, [Next]_vars
      PROVE  [\A p \in Proc : Answers(p, {"retired", "unknown"})
                                => expiry[proc[p].kid] <= clock]_vars
  BY <1>1, <1>2 DEF vars
<1>3. TokenInv /\ [Next]_vars => TokenInv'
  BY StepToken
<1>4. QED
  BY <1>2, <1>3, InitToken, PTL DEF Spec, TokensVerify
-----------------------------------------------------------------------------
(***************************************************************************)
(* Retirements are learnt, on any number of managers, when no statement    *)
(* fails.  A rotation lasts Slow at most from its UPDATE to its COMMIT, so *)
(* a cache loaded before the commit was loaded Slow after the retirement's *)
(* date at the latest; and rows read before it that reach a cache belong   *)
(* to such a load.                                                         *)
(***************************************************************************)
NeverFails(p) == Caching(p) => ~proc[p].failed

(* Manager h loaded its cache before k was retired, or hardly later.       *)
LoadedEarly(h, k) == mgr[h].loadedAt <= keys[k].at + Slow

SnapLearns(p) ==
  proc[p].pc = "install" =>
    \A k \in Kid : keys[k].state = "retired" /\ proc[p].snap[k] \notin {Absent, keys[k]}
                     => LoadedEarly(Home[p], k)

Learns(h, k) == Ignores(h, k) => \/ mgr[h].loading \/ mgr[h].stale
                                 \/ LoadedEarly(h, k)

LearnInv == /\ KInv
            /\ \A p \in Proc : NeverFails(p) /\ SnapLearns(p)
            /\ \A h \in Manager, k \in Kid : Learns(h, k)

LEMMA NeverFailsStep ==
  ASSUME ~Faults, NEW p \in Proc, NeverFails(p), ProcMoves(p)
  PROVE  NeverFails(p)'
<1>1. SUFFICES ASSUME Caching(p)', proc'[p].failed PROVE Caching(p) /\ proc[p].failed
  BY DEF NeverFails
<1>2. CASE proc'[p] = proc[p]
  BY <1>1, <1>2 DEF Caching
<1>3. CASE QueryMove(p)
  BY <1>1, <1>3 DEF Caching, QueryMove
<1>4. CASE InstallMove(p)
  BY <1>1, <1>4 DEF Caching, InstallMove
<1>5. QED
  BY <1>1, <1>2, <1>3, <1>4
  DEF ProcMoves, MintMove, SignMove, UpdateMove, CommitMove, Caching

(* A load is dated when it begins, and keeps its date until it ends.       *)
LEMMA LoadDates ==
  ASSUME KInv, KInv', Coarse, NEW h \in Manager
  PROVE  /\ mgr[h].loadedAt <= clock /\ mgr'[h].loadedAt <= clock
         /\ mgr'[h].loadedAt # mgr[h].loadedAt => CacheLoads(h)
<1>1. CacheMoves(h) /\ mgr[h].loadedAt <= clock
  BY DEF Coarse, KInv, CacheOK
<1>2. CacheLoads(h) \/ mgr'[h].loadedAt = mgr[h].loadedAt
  BY <1>1 DEF CacheMoves, CacheSame, CacheReloads, Reloads, CacheAdopts, Adopts
<1>3. clock \in Nat
  BY DEF KInv, Base, TypeOK, Time
<1>4. QED
  BY <1>1, <1>2, <1>3 DEF CacheLoads

(* Every load there is when a rotation commits is an early one.            *)
LEMMA LoadedBefore ==
  ASSUME KInv, KInv', Coarse, NEW h \in Manager, NEW k \in Kid,
         keys'[k].state = "retired", keys[k].state # "retired"
  PROVE  LoadedEarly(h, k)'
<1>1. PICK p \in Proc : Commits(p) /\ keys'[k].at = proc[p].since
  BY NewlyRetired
<1>2. proc[p].start <= proc[p].since /\ clock <= proc[p].start + Slow
  BY <1>1 DEF Commits, KInv, RequestOK, RotationOK, Rotating, TimeOK
<1>3. /\ proc[p].start \in Nat /\ proc[p].since \in Nat /\ clock \in Nat /\ Slow \in Nat
      /\ mgr'[h].loadedAt \in Nat
  BY Numbers DEF KInv, Base, TypeOK, MgrState, Time
<1>4. mgr'[h].loadedAt <= clock
  BY LoadDates
<1>5. mgr'[h].loadedAt <= keys'[k].at + Slow
  BY <1>1, <1>2, <1>3, <1>4
<1>6. QED
  BY <1>5 DEF LoadedEarly

LEMMA EarlyStays ==
  ASSUME KInv, KInv', Coarse, NEW h \in Manager, NEW k \in Kid, ~CacheLoads(h),
         keys[k].state = "retired", LoadedEarly(h, k)
  PROVE  LoadedEarly(h, k)'
<1>1. keys'[k] = keys[k] /\ mgr'[h].loadedAt = mgr[h].loadedAt
  BY RetiredStays, LoadDates
<1>2. QED
  BY <1>1 DEF LoadedEarly

LEMMA SnapLearnsStep ==
  ASSUME ~Faults, LearnInv, KInv', Coarse, NEW p \in Proc
  PROVE  SnapLearns(p)'
<1>0. KInv /\ SnapLearns(p) /\ NeverFails(p) /\ ProcMoves(p) /\ Home[p] \in Manager
  BY KeysAssumption DEF LearnInv, Coarse
<1>1. SUFFICES ASSUME NEW k \in Kid, proc'[p].pc = "install", keys'[k].state = "retired",
                      proc'[p].snap[k] \notin {Absent, keys'[k]}
               PROVE  LoadedEarly(Home[p], k)'
  BY DEF SnapLearns, LoadedEarly
<1>2. CASE proc'[p] = proc[p]
  <2>1. ~CacheLoads(Home[p])
    BY <1>0, <1>1, <1>2 DEF KInv, RequestOK, LoaderOK, Loader, M, CacheLoads
  <2>2. CASE keys[k].state = "retired"
    <3>1. keys'[k] = keys[k]
      BY <1>0, <2>2, RetiredStays
    <3>2. LoadedEarly(Home[p], k)
      BY <1>0, <1>1, <1>2, <2>2, <3>1 DEF SnapLearns
    <3>3. QED
      BY <1>0, <2>1, <2>2, <3>2, EarlyStays
  <2>3. CASE keys[k].state # "retired"
    BY <1>0, <1>1, <2>3, LoadedBefore
  <2>4. QED
    BY <2>2, <2>3
<1>3. CASE InstallMove(p)
  <2>1. ~proc'[p].failed /\ UNCHANGED keys
    BY <1>0, <1>3 DEF InstallMove, NeverFails, Caching
  <2>2. proc'[p].snap[k] \in {Absent, keys[k]}
    BY <1>3, <2>1 DEF InstallMove
  <2>3. QED
    BY <1>1, <2>1, <2>2
<1>4. QED
  BY <1>0, <1>1, <1>2, <1>3
  DEF ProcMoves, QueryMove, MintMove, SignMove, UpdateMove, CommitMove

LEMMA LearnsStep ==
  ASSUME ~Faults, LearnInv, KInv', Coarse, NEW h \in Manager, NEW k \in Kid
  PROVE  Learns(h, k)'
<1>0. KInv /\ Learns(h, k) /\ CacheMoves(h)
  BY DEF LearnInv, Coarse
<1>1. SUFFICES ASSUME keys'[k].state = "retired", ~mgr'[h].loading, ~mgr'[h].stale,
                      \/ mgr'[h].active = k
                      \/ mgr'[h].byKID[k] \notin {Absent, keys'[k]}
               PROVE  LoadedEarly(h, k)'
  BY DEF Learns, Ignores
<1>2. CASE keys[k].state # "retired"
  BY <1>0, <1>1, <1>2, LoadedBefore
<1>3. CASE keys[k].state = "retired"
  <2>1. keys'[k] = keys[k] /\ ~CacheLoads(h)
    BY <1>0, <1>1, <1>3, RetiredStays DEF CacheLoads
  <2>2. SUFFICES LoadedEarly(h, k)
    BY <1>0, <1>3, <2>1, EarlyStays
  <2>3. ASSUME Ignores(h, k), ~mgr[h].loading, ~mgr[h].stale
        PROVE  LoadedEarly(h, k)
    BY <1>0, <2>3 DEF Learns
  <2>4. CASE CacheSame(h)
    BY <1>1, <1>3, <2>1, <2>3, <2>4 DEF CacheSame, Ignores
  <2>5. ASSUME NEW p \in Proc, Home[p] = h, proc[p].pc = "install", Reloads(p, h)
        PROVE  LoadedEarly(h, k)
    <3>1. ~proc[p].failed /\ SnapLearns(p)
      BY <2>5 DEF LearnInv, NeverFails, Caching
    <3>2. /\ mgr'[h].byKID = proc[p].snap
          /\ mgr'[h].active = IF mgr[h].active # NoKid
                                 /\ proc[p].snap[mgr[h].active].state # "active"
                              THEN NoKid ELSE mgr[h].active
      BY <1>1, <2>5, <3>1 DEF Reloads
    <3>3. CASE mgr'[h].byKID[k] \notin {Absent, keys'[k]}
      BY <1>3, <2>1, <2>5, <3>1, <3>2, <3>3 DEF SnapLearns
    <3>4. CASE mgr'[h].active = k
      <4>1. k # NoKid
        BY DEF Kid, NoKid
      <4>2. proc[p].snap[k].state = "active"
        BY <3>2, <3>4, <4>1
      <4>3. proc[p].snap[k] \notin {Absent, keys[k]}
        BY <1>3, <4>2 DEF Absent
      <4>4. QED
        BY <1>3, <2>5, <3>1, <4>3 DEF SnapLearns
    <3>5. QED
      BY <1>1, <3>3, <3>4
  <2>6. ASSUME NEW j \in Current', Adopts(h, j),
               \A i \in Kid : i # j =>
                 \/ mgr'[h].byKID[i] = mgr[h].byKID[i]
                 \/ i = mgr[h].active /\ mgr'[h].byKID[i].state = "retired"
        PROVE  LoadedEarly(h, k)
    <3>1. k # j
      BY <1>1, <2>6 DEF Current
    <3>2. mgr[h].active = k \/ mgr'[h].byKID[k] = mgr[h].byKID[k]
      BY <2>6, <3>1
    <3>3. Ignores(h, k) /\ ~mgr[h].loading /\ ~mgr[h].stale
      BY <1>1, <1>3, <2>1, <2>6, <3>1, <3>2 DEF Ignores, Adopts
    <3>4. QED
      BY <2>3, <3>3
  <2>7. QED
    BY <1>0, <2>1, <2>4, <2>5, <2>6 DEF CacheMoves, CacheReloads, CacheAdopts
<1>4. QED
  BY <1>2, <1>3

LEMMA InitLearn ==
  ASSUME Init
  PROVE  LearnInv
<1>1. \A k \in Kid : keys[k].state = "none"
  BY DEF Init, Absent
<1>2. \A p \in Proc : proc[p].pc = "idle"
  BY DEF Init, Idle
<1>3. \A p \in Proc : NeverFails(p) /\ SnapLearns(p)
  BY <1>2 DEF NeverFails, Caching, SnapLearns
<1>4. \A h \in Manager, k \in Kid : Learns(h, k)
  BY <1>1 DEF Learns, Ignores
<1>5. QED
  BY <1>3, <1>4, InitK DEF LearnInv

LEMMA StepLearn ==
  ASSUME ~Faults, LearnInv, [Next]_vars
  PROVE  LearnInv'
<1>1. KInv
  BY DEF LearnInv
<1>2. KInv' /\ Coarse
  BY <1>1, StepK, CoarseStep
<1>3. ASSUME NEW p \in Proc PROVE NeverFails(p)' /\ SnapLearns(p)'
  BY <1>2, NeverFailsStep, SnapLearnsStep DEF LearnInv, Coarse
<1>4. QED
  BY <1>2, <1>3, LearnsStep DEF LearnInv

(* On any number of managers, when no statement fails: a retired key       *)
(* verifies the tokens it signed, and a manager takes it for a key in use, *)
(* or forgets its date, only until its next reload ends.                   *)
THEOREM RetirementIsTimelyHolds == ~Faults => (Spec => RetirementIsTimely)
<1> SUFFICES ASSUME ~Faults PROVE Spec => RetirementIsTimely
  OBVIOUS
<1>1. LearnInv => RetirementIsLearnt
  BY DEF LearnInv, Learns, LoadedEarly, RetirementIsLearnt
<1>2. LearnInv /\ [Next]_vars => LearnInv'
  BY StepLearn
<1>3. Spec => []RetirementIsLearnt
  BY <1>1, <1>2, InitLearn, PTL DEF Spec
<1>4. QED
  BY <1>3, GraceCoversTokensHolds, PTL DEF RetirementIsTimely, GraceCoversTokens
=============================================================================
