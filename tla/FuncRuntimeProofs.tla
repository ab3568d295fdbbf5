------------------------- MODULE FuncRuntimeProofs -------------------------
(***************************************************************************)
(* Proofs about FuncRuntime, for any pool, calls, reloaders and limits.    *)
(***************************************************************************)
EXTENDS FuncRuntime, FiniteSetTheorems, TLAPS

(***************************************************************************)
(* The inductive invariant.                                                *)
(***************************************************************************)
(* The worker n a restart of v has started and not installed yet.          *)
IsNext(v, n) == wk[v].restart \in {"spawn", "install"} /\ wk[v].next = n

Sent(c, w) == call[c].pc = "sent" /\ call[c].w = w

(* A process belongs to a runtime that was built; the flag that the        *)
(* compare-and-swap takes down is up until the one restart it allows.      *)
WorkersOK ==
  \A w \in Worker :
    /\ wk[w].proc = "none" => wk[w] = NoWorker
    /\ wk[w].proc # "none" => wk[w].rt \in Rt /\ rt[wk[w].rt].pc # "none"
    /\ wk[w].healthy => wk[w].restart = "no" /\ wk[w].restarts = 0
    /\ wk[w].restarts <= 1
    /\ wk[w].restart \in {"spawn", "install"} => wk[w].next \in Worker

(* A slot holds a worker of its own runtime, and while the runtime runs a  *)
(* worker found dead is being replaced.                                    *)
SlotsOK ==
  \A r \in Rt, w \in Worker : InSlot(r, w) =>
    /\ wk[w].proc # "none" /\ wk[w].rt = r
    /\ rt[r].pc = "run" /\ ~wk[w].healthy => wk[w].restart # "no"

CallsOK ==
  \A c \in Call :
    /\ call[c].pc = "loaded" => call[c].rt \in Rt
    /\ call[c].pc = "sent" => /\ call[c].rt \in Rt /\ call[c].w \in Worker
                              /\ wk[call[c].w].proc # "none"

(* Until it is installed the replacement is its restart's alone: nothing   *)
(* calls, probes or restarts it.                                           *)
NextsOK ==
  \A v, n \in Worker : IsNext(v, n) =>
    /\ wk[n].proc # "none" /\ wk[n].rt = wk[v].rt
    /\ wk[n].healthy /\ wk[n].probe = "no"
    /\ \A r \in Rt : ~InSlot(r, n)
    /\ \A c \in Call : ~Sent(c, n)
    /\ \A u \in Worker : IsNext(u, n) => u = v

(* The workers of a runtime that is not built yet are not started.         *)
UnbuiltOK ==
  \A r \in Rt, s \in Slot :
    rt[r].pc = "none" => wk[First(r, s)].proc = "none"

(* What a reload is about to swap in runs, and is neither the current      *)
(* runtime nor another reload's.                                           *)
Holds(l, r) == reload[l].pc = "swap" /\ reload[l].new = r

OwnersOK ==
  /\ cur # None => rt[cur].pc = "run" /\ ~swapClosed
  /\ \A r \in Rt : rt[r].pc = "run" => cur = r \/ \E l \in Reloader : Holds(l, r)
  /\ \A l \in Reloader :
       /\ reload[l].pc = "idle" => reload[l].new = None
       /\ reload[l].pc = "close" => reload[l].old \in Rt
       /\ \A r \in Rt : Holds(l, r) =>
            /\ rt[r].pc = "run" /\ cur # r
            /\ \A k \in Reloader : Holds(k, r) => k = l

(* A runtime admits no more than its limit, and a drain that was not cut   *)
(* short has taken every slot.                                             *)
DrainsOK ==
  \A r \in Rt :
    /\ InFlight(r) <= MaxInFlight
    /\ rt[r].pc \in {"wait", "scan", "closed"} /\ ~rt[r].timedOut
         => rt[r].drained = MaxInFlight

IInv == /\ TypeOK /\ WorkersOK /\ SlotsOK /\ CallsOK /\ NextsOK /\ UnbuiltOK
        /\ OwnersOK /\ DrainsOK
-----------------------------------------------------------------------------
(* Type correctness.                                                       *)

(* The workers of distinct slots of distinct runtimes have distinct        *)
(* numbers, none of which a restart hands out.                             *)
LEMMA FirstType ==
  ASSUME NEW r \in Rt, NEW s \in Slot
  PROVE  First(r, s) \in Worker /\ First(r, s) <= MaxRt * PoolSize
<1>1. r \in Nat /\ r >= 1 /\ r <= MaxRt /\ s \in Nat /\ s >= 1 /\ s <= PoolSize
      /\ MaxRt \in Nat /\ PoolSize \in Nat /\ MaxFault \in Nat
  BY FuncAssumption DEF Rt, Slot
<1>2. (r - 1) * PoolSize \in Nat /\ (r - 1) * PoolSize <= (MaxRt - 1) * PoolSize
  BY <1>1
<1>3. (MaxRt - 1) * PoolSize = MaxRt * PoolSize - PoolSize
  BY <1>1
<1>4. MaxRt * PoolSize \in Nat
  BY <1>1
<1>5. QED
  BY <1>1, <1>2, <1>3, <1>4 DEF First, Worker

LEMMA FirstInjective ==
  ASSUME NEW r \in Rt, NEW q \in Rt, NEW s \in Slot, NEW t \in Slot,
         First(r, s) = First(q, t)
  PROVE  r = q
<1>1. /\ r \in Nat /\ q \in Nat /\ s \in Nat /\ t \in Nat /\ PoolSize \in Nat
      /\ s >= 1 /\ s <= PoolSize /\ t >= 1 /\ t <= PoolSize
  BY FuncAssumption DEF Rt, Slot
<1>2. ASSUME NEW a \in Nat, NEW b \in Nat, a < b
      PROVE  a * PoolSize + PoolSize <= b * PoolSize
  <2>1. (a + 1) * PoolSize <= b * PoolSize
    BY <1>1, <1>2
  <2>2. QED
    BY <1>1, <2>1
<1>3. /\ (r - 1) * PoolSize = r * PoolSize - PoolSize
      /\ (q - 1) * PoolSize = q * PoolSize - PoolSize
      /\ r * PoolSize \in Nat /\ q * PoolSize \in Nat
  BY <1>1
<1>4. ~(r < q) /\ ~(q < r)
  BY <1>1, <1>2, <1>3 DEF First
<1>5. QED
  BY <1>1, <1>4

LEMMA SpawnedType ==
  /\ NoWorker \in WorkerState
  /\ \A r \in Rt \cup {None} : Spawned(r) \in WorkerState
  /\ \A r \in Rt : [Spawned(r) EXCEPT !.proc = "up"] \in WorkerState
<1>1. NoWorker \in WorkerState
  BY DEF NoWorker, WorkerState
<1>2. ASSUME NEW r \in Rt \cup {None}
      PROVE  Spawned(r) \in WorkerState /\ [Spawned(r) EXCEPT !.proc = "up"] \in WorkerState
  BY <1>1, <1>2 DEF Spawned, WorkerState
<1>3. QED
  BY <1>1, <1>2

LEMMA InitType == Init => TypeOK
<1> SUFFICES ASSUME Init PROVE TypeOK
  OBVIOUS
<1>1. 1 \in Rt /\ None \notin Rt /\ 0 \in 0..MaxInFlight /\ 0 \in 0..MaxFault
  BY FuncAssumption DEF Rt, None
<1>2. NoRt \in RtState
  BY <1>1 DEF NoRt, RtState
<1>3. [NoRt EXCEPT !.pc = "run", !.slots = [s \in Slot |-> First(1, s)]] \in RtState
  BY <1>1, FirstType DEF NoRt, RtState
<1>4. NoWorker \in WorkerState /\ [Spawned(1) EXCEPT !.proc = "up"] \in WorkerState
  BY <1>1, SpawnedType
<1>5. NoCall \in CallState /\ NoReload \in ReloadState
  BY DEF NoCall, CallState, NoReload, ReloadState
<1>6. QED
  BY <1>1, <1>2, <1>3, <1>4, <1>5 DEF Init, TypeOK

(* What each action that writes workers makes of their records.            *)
Untouched(S) == \A v \in Worker : v \notin S => wk'[v] = wk[v]

SameBut(v, F) ==
  /\ "rt" \notin F       => wk'[v].rt = wk[v].rt
  /\ "proc" \notin F     => wk'[v].proc = wk[v].proc
  /\ "healthy" \notin F  => wk'[v].healthy = wk[v].healthy
  /\ "probe" \notin F    => wk'[v].probe = wk[v].probe
  /\ "restart" \notin F  => wk'[v].restart = wk[v].restart
  /\ "restarts" \notin F => wk'[v].restarts = wk[v].restarts
  /\ "next" \notin F     => wk'[v].next = wk[v].next

LEMMA EditWorker ==
  ASSUME TypeOK, NEW w \in Worker, NEW k \in WorkerState,
         wk' = [wk EXCEPT ![w] = k]
  PROVE  wk' \in [Worker -> WorkerState] /\ wk'[w] = k /\ Untouched({w})
  BY DEF TypeOK, Untouched

LEMMA RestartRecord ==
  ASSUME NEW w, NEW k \in WorkerState, k = wk[w], k.restarts = 0
  PROVE  /\ Closed(k.rt) => triggerRestart(w) = [k EXCEPT !.healthy = FALSE]
         /\ ~Closed(k.rt) => triggerRestart(w) =
              [k EXCEPT !.healthy = FALSE, !.restart = "reap", !.restarts = 1]
<1>1. CASE Closed(k.rt)
  BY <1>1 DEF triggerRestart, WorkerState
<1>2. CASE ~Closed(k.rt)
  BY <1>2 DEF triggerRestart, WorkerState
<1>3. QED
  BY <1>1, <1>2

LEMMA RestartEdit ==
  ASSUME NEW w, NEW k \in WorkerState, k = wk[w], k.restarts = 0
  PROVE  /\ triggerRestart(w) \in WorkerState
         /\ triggerRestart(w).rt = k.rt /\ triggerRestart(w).proc = k.proc
         /\ triggerRestart(w).probe = k.probe /\ triggerRestart(w).next = k.next
         /\ triggerRestart(w).healthy = FALSE /\ triggerRestart(w).restarts <= 1
         /\ triggerRestart(w).restart = IF Closed(k.rt) THEN k.restart ELSE "reap"
<1>1. CASE Closed(k.rt)
  <2> DEFINE b == [k EXCEPT !.healthy = FALSE]
  <2>1. /\ b \in WorkerState /\ b.rt = k.rt /\ b.proc = k.proc /\ b.probe = k.probe
        /\ b.next = k.next /\ b.healthy = FALSE /\ b.restart = k.restart
        /\ b.restarts = k.restarts
    BY DEF WorkerState
  <2>2. triggerRestart(w) = b
    BY <1>1, RestartRecord
  <2> HIDE DEF b
  <2>3. QED
    BY <1>1, <2>1, <2>2
<1>2. CASE ~Closed(k.rt)
  <2> DEFINE b == [k EXCEPT !.healthy = FALSE, !.restart = "reap"]
  <2>1. /\ b \in WorkerState /\ b.rt = k.rt /\ b.proc = k.proc /\ b.probe = k.probe
        /\ b.next = k.next /\ b.healthy = FALSE /\ b.restart = "reap"
    BY DEF WorkerState
  <2>2. triggerRestart(w) = [b EXCEPT !.restarts = 1]
    BY <1>2, RestartRecord
  <2> HIDE DEF b
  <2>3. QED
    BY <1>2, <2>1, <2>2 DEF WorkerState
<1>3. QED
  BY <1>1, <1>2

LEMMA ProbeEdit ==
  ASSUME NEW k \in WorkerState, NEW x \in {"no", "ask", "dead"}
  PROVE  /\ [k EXCEPT !.probe = x] \in WorkerState
         /\ [k EXCEPT !.probe = x].rt = k.rt
         /\ [k EXCEPT !.probe = x].proc = k.proc
         /\ [k EXCEPT !.probe = x].next = k.next
         /\ [k EXCEPT !.probe = x].healthy = k.healthy
         /\ [k EXCEPT !.probe = x].restarts = k.restarts
         /\ [k EXCEPT !.probe = x].restart = k.restart
         /\ [k EXCEPT !.probe = x].probe = x
  BY DEF WorkerState

(* A step that starts, installs and discards no worker: what it may do to  *)
(* the records of the workers, the runtimes and the calls.                 *)
CalmWorker(v) ==
  /\ wk'[v].rt = wk[v].rt /\ wk'[v].next = wk[v].next
  /\ wk[v].proc = "none" => wk'[v] = wk[v]
  /\ wk[v].proc # "none" => wk'[v].proc # "none"
  /\ wk'[v].healthy => wk[v].healthy /\ wk'[v].restart = wk[v].restart
                                     /\ wk'[v].restarts = wk[v].restarts
  /\ wk'[v].restarts <= 1
  /\ wk'[v].restart \in {"spawn", "install"} => wk[v].restart \in {"spawn", "install"}
  /\ (\E u \in Worker : IsNext(u, v)) => wk'[v].healthy /\ wk'[v].probe = "no"
  /\ \A r \in Rt : InSlot(r, v) /\ rt[r].pc = "run" /\ ~wk'[v].healthy
                    => wk'[v].restart # "no"

CalmRuntime(r) ==
  /\ rt'[r].slots = rt[r].slots
  /\ (rt'[r].pc = "none") <=> (rt[r].pc = "none")
  /\ rt'[r].pc = "run" => rt[r].pc = "run"

CalmCall(c) ==
  /\ call'[c].pc = "loaded" => call'[c].rt \in Rt
  /\ call'[c].pc = "sent" =>
       /\ call'[c].rt \in Rt /\ call'[c].w \in Worker
       /\ Sent(c, call'[c].w) \/ \E r \in Rt : InSlot(r, call'[c].w)

PoolsOK == WorkersOK /\ SlotsOK /\ CallsOK /\ NextsOK /\ UnbuiltOK

LEMMA CalmKeeps ==
  ASSUME TypeOK, TypeOK', PoolsOK,
         \A v \in Worker : CalmWorker(v),
         \A r \in Rt : CalmRuntime(r),
         \A c \in Call : CalmCall(c)
  PROVE  PoolsOK'
<1>1. \A r \in Rt, v \in Worker : InSlot(r, v)' <=> InSlot(r, v)
  BY DEF CalmRuntime, InSlot
<1>2. \A u, v \in Worker : IsNext(u, v)' => IsNext(u, v)
  BY DEF CalmWorker, IsNext
<1>3. WorkersOK'
  BY DEF PoolsOK, WorkersOK, CalmWorker, CalmRuntime
<1>4. SlotsOK'
  BY <1>1 DEF PoolsOK, SlotsOK, CalmWorker, CalmRuntime
<1>5. CallsOK'
  BY DEF PoolsOK, CallsOK, SlotsOK, CalmCall, CalmWorker, Sent
<1>6. NextsOK'
  <2> SUFFICES ASSUME NEW u \in Worker, NEW n \in Worker, IsNext(u, n)'
      PROVE  /\ wk'[n].proc # "none" /\ wk'[n].rt = wk'[u].rt
             /\ wk'[n].healthy /\ wk'[n].probe = "no"
             /\ \A r \in Rt : ~InSlot(r, n)'
             /\ \A c \in Call : ~Sent(c, n)'
             /\ \A v \in Worker : IsNext(v, n)' => v = u
    BY DEF NextsOK
  <2>1. IsNext(u, n)
    BY <1>2
  <2>2. /\ wk'[n].proc # "none" /\ wk'[n].rt = wk'[u].rt
        /\ wk'[n].healthy /\ wk'[n].probe = "no"
    BY <2>1 DEF PoolsOK, NextsOK, CalmWorker
  <2>3. \A r \in Rt : ~InSlot(r, n) /\ ~InSlot(r, n)'
    BY <1>1, <2>1 DEF PoolsOK, NextsOK
  <2>4. \A c \in Call : ~Sent(c, n)'
    BY <2>1, <2>3 DEF PoolsOK, NextsOK, CalmCall, Sent
  <2>5. \A v \in Worker : IsNext(v, n)' => v = u
    BY <1>2, <2>1 DEF PoolsOK, NextsOK
  <2>6. QED
    BY <2>2, <2>3, <2>4, <2>5
<1>7. UnbuiltOK'
  BY FirstType DEF PoolsOK, UnbuiltOK, CalmWorker, CalmRuntime
<1>8. QED
  BY <1>3, <1>4, <1>5, <1>6, <1>7 DEF PoolsOK

(* What the actions that write one worker make of its record.              *)
Restarted(w) ==
  /\ wk[w].healthy /\ wk'[w].healthy = FALSE /\ wk'[w].restarts <= 1
  /\ wk'[w].restart = IF Closed(wk[w].rt) THEN wk[w].restart ELSE "reap"

LEMMA TransportFields ==
  ASSUME TypeOK, PoolsOK, NEW c \in Call, classifyTransport(c), NEW w, w = call[c].w
  PROVE  /\ w \in Worker /\ Sent(c, w)
         /\ wk' \in [Worker -> WorkerState] /\ Untouched({w})
         /\ SameBut(w, {"healthy", "restart", "restarts"})
         /\ Restarted(w) \/ SameBut(w, {})
<1>1. w \in Worker /\ wk[w] \in WorkerState /\ Sent(c, w)
  BY DEF TypeOK, PoolsOK, CallsOK, classifyTransport, Sent
<1> DEFINE k == IF WinsCAS(w) THEN triggerRestart(w) ELSE wk[w]
<1>2. wk' = [wk EXCEPT ![w] = k]
  BY DEF classifyTransport
<1>3. CASE wk[w].healthy
  <2>1. wk[w].restarts = 0
    BY <1>1, <1>3 DEF PoolsOK, WorkersOK
  <2>2. k = triggerRestart(w)
    BY <1>3 DEF WinsCAS
  <2>3. k \in WorkerState
    BY <1>1, <2>1, <2>2, RestartEdit
  <2>4. wk' \in [Worker -> WorkerState] /\ wk'[w] = triggerRestart(w) /\ Untouched({w})
    BY <1>1, <1>2, <2>2, <2>3, EditWorker
  <2>5. /\ triggerRestart(w).rt = wk[w].rt /\ triggerRestart(w).proc = wk[w].proc
        /\ triggerRestart(w).probe = wk[w].probe /\ triggerRestart(w).next = wk[w].next
        /\ triggerRestart(w).healthy = FALSE /\ triggerRestart(w).restarts <= 1
        /\ triggerRestart(w).restart = IF Closed(wk[w].rt) THEN wk[w].restart ELSE "reap"
    BY <1>1, <2>1, RestartEdit
  <2>6. QED
    BY <1>1, <1>3, <2>4, <2>5 DEF SameBut, Restarted
<1>4. CASE ~wk[w].healthy
  <2>1. k = wk[w]
    BY <1>4 DEF WinsCAS
  <2>2. wk' \in [Worker -> WorkerState] /\ wk'[w] = wk[w] /\ Untouched({w})
    BY <1>1, <1>2, <2>1, EditWorker
  <2>3. QED
    BY <1>1, <2>2 DEF SameBut
<1>5. QED
  BY <1>3, <1>4

LEMMA ReplaceFields ==
  ASSUME TypeOK, PoolsOK, NEW w \in Worker, ProbeReplaces(w)
  PROVE  /\ wk' \in [Worker -> WorkerState] /\ Untouched({w})
         /\ SameBut(w, {"healthy", "restart", "restarts", "probe"})
         /\ wk'[w].probe = "no"
         /\ Restarted(w) \/ SameBut(w, {"probe"})
<1>1. wk[w] \in WorkerState
  BY DEF TypeOK
<1> DEFINE j == IF ~Closed(wk[w].rt) /\ WinsCAS(w) THEN triggerRestart(w) ELSE wk[w]
           k == [j EXCEPT !.probe = "no"]
<1>2. wk' = [wk EXCEPT ![w] = k]
  BY DEF ProbeReplaces
<1>3. CASE ~Closed(wk[w].rt) /\ wk[w].healthy
  <2>1. wk[w].restarts = 0
    BY <1>1, <1>3 DEF PoolsOK, WorkersOK
  <2>2. j = triggerRestart(w)
    BY <1>3 DEF WinsCAS
  <2>3. j \in WorkerState
    BY <1>1, <2>1, <2>2, RestartEdit
  <2> HIDE DEF j
  <2>4. wk' \in [Worker -> WorkerState] /\ wk'[w] = k /\ Untouched({w})
    BY <1>1, <1>2, <2>3, EditWorker, ProbeEdit
  <2>5. /\ triggerRestart(w).rt = wk[w].rt /\ triggerRestart(w).proc = wk[w].proc
        /\ triggerRestart(w).probe = wk[w].probe /\ triggerRestart(w).next = wk[w].next
        /\ triggerRestart(w).healthy = FALSE /\ triggerRestart(w).restarts <= 1
        /\ triggerRestart(w).restart = IF Closed(wk[w].rt) THEN wk[w].restart ELSE "reap"
    BY <1>1, <2>1, RestartEdit
  <2>6. /\ k.rt = j.rt /\ k.proc = j.proc /\ k.next = j.next /\ k.healthy = j.healthy
        /\ k.restarts = j.restarts /\ k.restart = j.restart /\ k.probe = "no"
    BY <2>3, ProbeEdit
  <2> HIDE DEF k
  <2>7. QED
    BY <1>1, <1>3, <2>2, <2>4, <2>5, <2>6 DEF SameBut, Restarted
<1>4. CASE ~(~Closed(wk[w].rt) /\ wk[w].healthy)
  <2>1. j = wk[w]
    BY <1>4 DEF WinsCAS
  <2> HIDE DEF j
  <2>2. wk' \in [Worker -> WorkerState] /\ wk'[w] = k /\ Untouched({w})
    BY <1>1, <1>2, <2>1, EditWorker, ProbeEdit
  <2>3. QED
    BY <1>1, <2>1, <2>2, ProbeEdit DEF SameBut
<1>5. QED
  BY <1>3, <1>4

LEMMA ProbeFields ==
  ASSUME TypeOK, NEW w \in Worker, NEW x \in {"no", "ask", "dead"},
         wk' = [wk EXCEPT ![w].probe = x]
  PROVE  /\ wk' \in [Worker -> WorkerState] /\ Untouched({w})
         /\ SameBut(w, {"probe"})
<1>1. wk[w] \in WorkerState
  BY DEF TypeOK
<1> DEFINE k == [wk[w] EXCEPT !.probe = x]
<1>2. wk' = [wk EXCEPT ![w] = k]
  OBVIOUS
<1>3. /\ k \in WorkerState /\ k.rt = wk[w].rt /\ k.proc = wk[w].proc
      /\ k.healthy = wk[w].healthy /\ k.restart = wk[w].restart
      /\ k.restarts = wk[w].restarts /\ k.next = wk[w].next
  BY <1>1, ProbeEdit
<1> HIDE DEF k
<1>4. QED
  BY <1>1, <1>2, <1>3, EditWorker DEF SameBut

LEMMA DeadlineFields ==
  ASSUME TypeOK, PoolsOK, NEW c \in Call, classifyDeadline(c), NEW w, w = call[c].w
  PROVE  /\ w \in Worker /\ Sent(c, w)
         /\ wk' \in [Worker -> WorkerState] /\ Untouched({w})
         /\ SameBut(w, {"probe"})
<1>1. w \in Worker /\ wk[w] \in WorkerState /\ Sent(c, w)
  BY DEF TypeOK, PoolsOK, CallsOK, classifyDeadline, Sent
<1> DEFINE x == IF wk[w].probe = "no" THEN "ask" ELSE wk[w].probe
<1>2. x \in {"no", "ask", "dead"}
  BY <1>1 DEF WorkerState
<1>3. wk' = [wk EXCEPT ![w].probe = x]
  BY DEF classifyDeadline
<1>4. QED
  <2> HIDE DEF x
  <2> QED BY <1>1, <1>2, <1>3, ProbeFields

LEMMA ReapFields ==
  ASSUME TypeOK, NEW w \in Worker, Reap(w)
  PROVE  /\ wk' \in [Worker -> WorkerState] /\ Untouched({w})
         /\ SameBut(w, {"proc", "restart"}) /\ wk'[w].proc = "gone"
         /\ wk'[w].restart = IF InSlot(wk[w].rt, w) THEN "loop" ELSE "no"
<1>1. wk[w] \in WorkerState
  BY DEF TypeOK
<1> DEFINE b == IF InSlot(wk[w].rt, w) THEN "loop" ELSE "no"
<1>2. b \in {"loop", "no"}
  OBVIOUS
<1>3. wk' = [wk EXCEPT ![w] = [wk[w] EXCEPT !.proc = "gone", !.restart = b]]
  BY DEF Reap
<1> HIDE DEF b
<1>4. ASSUME NEW k \in WorkerState, NEW a, a = [k EXCEPT !.proc = "gone", !.restart = b]
      PROVE  /\ a \in WorkerState /\ a.rt = k.rt /\ a.proc = "gone" /\ a.healthy = k.healthy
             /\ a.probe = k.probe /\ a.restart = b /\ a.restarts = k.restarts /\ a.next = k.next
  BY <1>2, <1>4 DEF WorkerState
<1>5. wk' \in [Worker -> WorkerState] /\ Untouched({w})
  BY <1>1, <1>3, <1>4, EditWorker
<1>6. wk'[w] = [wk[w] EXCEPT !.proc = "gone", !.restart = b]
  BY <1>1, <1>3, <1>4, EditWorker
<1>7. QED
  BY ZenonT(60), <1>1, <1>4, <1>5, <1>6 DEF SameBut, b

LEMMA FaultFields ==
  ASSUME TypeOK, NEW w \in Worker, Fault(w)
  PROVE  /\ wk' \in [Worker -> WorkerState] /\ Untouched({w})
         /\ SameBut(w, {"proc"}) /\ wk[w].proc # "none" /\ wk'[w].proc # "none"
<1>1. wk[w] \in WorkerState /\ wk[w].proc # "none"
  BY DEF TypeOK, Fault
<1>2. PICK p \in {"gone", "hung"} : wk' = [wk EXCEPT ![w] = [wk[w] EXCEPT !.proc = p]]
  BY DEF Fault
<1>3. ASSUME NEW k \in WorkerState, NEW a, a = [k EXCEPT !.proc = p]
      PROVE  /\ a \in WorkerState /\ a.rt = k.rt /\ a.proc = p /\ a.healthy = k.healthy
             /\ a.probe = k.probe /\ a.restart = k.restart /\ a.restarts = k.restarts
             /\ a.next = k.next
  BY <1>3 DEF WorkerState
<1>4. PICK x : x = [wk[w] EXCEPT !.proc = p]
  OBVIOUS
<1>5. /\ x \in WorkerState /\ x.rt = wk[w].rt /\ x.proc = p
      /\ x.healthy = wk[w].healthy /\ x.probe = wk[w].probe
      /\ x.restart = wk[w].restart /\ x.restarts = wk[w].restarts /\ x.next = wk[w].next
  BY <1>1, <1>3, <1>4
<1>6. wk' = [wk EXCEPT ![w] = x]
  BY <1>2, <1>4
<1>7. wk' \in [Worker -> WorkerState] /\ Untouched({w}) /\ wk'[w] = x
  BY <1>5, <1>6, EditWorker
<1>8. QED
  BY <1>1, <1>5, <1>7 DEF SameBut

(* The actions that write two workers: one restarts, the other is its      *)
(* replacement.                                                            *)
LEMMA EditTwo ==
  ASSUME TypeOK, NEW w \in Worker, NEW n \in Worker, n # w,
         NEW k \in WorkerState, NEW j \in WorkerState,
         wk' = [wk EXCEPT ![w] = k, ![n] = j]
  PROVE  /\ wk' \in [Worker -> WorkerState]
         /\ wk'[w] = k /\ wk'[n] = j /\ Untouched({w, n})
  BY DEF TypeOK, Untouched

LEMMA ProcTo ==
  ASSUME NEW k \in WorkerState, NEW b \in {"up", "gone"}
  PROVE  LET a == [k EXCEPT !.proc = b]
         IN  /\ a \in WorkerState /\ a.rt = k.rt /\ a.proc = b
             /\ a.healthy = k.healthy /\ a.probe = k.probe
             /\ a.restarts = k.restarts /\ a.restart = k.restart /\ a.next = k.next
  BY DEF WorkerState

(* A restart with a replacement: two distinct workers.                     *)
LEMMA NextFacts ==
  ASSUME TypeOK, PoolsOK, NEW w \in Worker, wk[w].restart \in {"spawn", "install"},
         NEW n, n = wk[w].next
  PROVE  /\ n \in Worker /\ n # w /\ IsNext(w, n)
         /\ wk[w] \in WorkerState /\ wk[n] \in WorkerState
         /\ wk[w].proc # "none" /\ wk[w].rt \in Rt
<1>1. n \in Worker /\ IsNext(w, n) /\ wk[w] \in WorkerState
  BY DEF PoolsOK, WorkersOK, IsNext, TypeOK
<1>2. wk[w].proc # "none"
  BY DEF PoolsOK, WorkersOK, NoWorker
<1>3. wk[n].healthy /\ ~wk[w].healthy
  BY <1>1 DEF PoolsOK, WorkersOK, NextsOK
<1>4. QED
  BY <1>1, <1>2, <1>3 DEF PoolsOK, WorkersOK, TypeOK

LEMMA HealthyFields ==
  ASSUME TypeOK, PoolsOK, NEW w \in Worker, waitHealthy(w), NEW n, n = wk[w].next
  PROVE  /\ wk' \in [Worker -> WorkerState] /\ Untouched({w, n})
         /\ n \in Worker /\ n # w /\ IsNext(w, n)
         /\ SameBut(w, {"restart"}) /\ wk'[w].restart = "install"
         /\ SameBut(n, {"proc"}) /\ wk'[n].proc = "up"
<1>1. /\ n \in Worker /\ n # w /\ IsNext(w, n)
      /\ wk[w] \in WorkerState /\ wk[n] \in WorkerState
  BY NextFacts DEF waitHealthy
<1> DEFINE k == [wk[w] EXCEPT !.restart = "install", !.next = n]
           j == [wk[n] EXCEPT !.proc = "up"]
<1>2. wk' = [wk EXCEPT ![w] = k, ![n] = j]
  <2>1. k = [wk[w] EXCEPT !.restart = "install"]
    BY <1>1 DEF WorkerState
  <2>2. wk' = [wk EXCEPT ![w] = [wk[w] EXCEPT !.restart = "install"], ![n] = j]
    BY <1>1 DEF waitHealthy, TypeOK
  <2> HIDE DEF k, j
  <2>3. QED
    BY <2>1, <2>2
<1>3. /\ k \in WorkerState /\ k.rt = wk[w].rt /\ k.proc = wk[w].proc
      /\ k.healthy = wk[w].healthy /\ k.probe = wk[w].probe
      /\ k.restarts = wk[w].restarts /\ k.restart = "install" /\ k.next = n
  BY ZenonT(60), <1>1 DEF WorkerState
<1>4. /\ j \in WorkerState /\ j.rt = wk[n].rt /\ j.proc = "up"
      /\ j.healthy = wk[n].healthy /\ j.probe = wk[n].probe
      /\ j.restarts = wk[n].restarts /\ j.restart = wk[n].restart /\ j.next = wk[n].next
  BY <1>1, ProcTo
<1> HIDE DEF k, j
<1>5. wk' \in [Worker -> WorkerState] /\ wk'[w] = k /\ wk'[n] = j /\ Untouched({w, n})
  BY <1>1, <1>2, <1>3, <1>4, EditTwo
<1>6. QED
  BY <1>1, <1>3, <1>4, <1>5 DEF SameBut

LEMMA FailFields ==
  ASSUME TypeOK, PoolsOK, NEW w \in Worker, SpawnFails(w), NEW n, n = wk[w].next
  PROVE  /\ wk' \in [Worker -> WorkerState] /\ Untouched({w, n})
         /\ n \in Worker /\ n # w /\ IsNext(w, n)
         /\ SameBut(w, {"restart", "next"}) /\ wk'[w].restart = "loop"
         /\ wk'[n] = NoWorker
<1>1. /\ n \in Worker /\ n # w /\ IsNext(w, n)
      /\ wk[w] \in WorkerState /\ wk[n] \in WorkerState
  BY NextFacts DEF SpawnFails
<1> DEFINE k == [wk[w] EXCEPT !.restart = "loop", !.next = None]
<1>2. wk' = [wk EXCEPT ![w] = k, ![n] = NoWorker]
  BY <1>1 DEF SpawnFails, TypeOK
<1>3. /\ k \in WorkerState /\ k.rt = wk[w].rt /\ k.proc = wk[w].proc
      /\ k.healthy = wk[w].healthy /\ k.probe = wk[w].probe
      /\ k.restarts = wk[w].restarts /\ k.restart = "loop"
  BY ZenonT(60), <1>1 DEF WorkerState
<1> HIDE DEF k
<1>4. wk' \in [Worker -> WorkerState] /\ wk'[w] = k /\ wk'[n] = NoWorker /\ Untouched({w, n})
  BY ZenonT(60), <1>1, <1>2, <1>3, SpawnedType, EditTwo
<1>5. QED
  BY <1>1, <1>3, <1>4 DEF SameBut

LEMMA SpawnFields ==
  ASSUME TypeOK, PoolsOK, NEW w \in Worker, spawnWorker(w)
  PROVE  /\ wk' \in [Worker -> WorkerState] /\ wk[w].proc # "none"
         /\ \/ /\ Untouched({w}) /\ Closed(wk[w].rt)
               /\ SameBut(w, {"restart"}) /\ wk'[w].restart = "no"
            \/ \E n \in Worker :
                 /\ Untouched({w, n}) /\ n # w /\ Spare(n)
                 /\ SameBut(w, {"restart", "next"})
                 /\ wk'[w].restart = "spawn" /\ wk'[w].next = n
                 /\ wk'[n] = Spawned(wk[w].rt)
<1>1. wk[w] \in WorkerState /\ wk[w].proc # "none" /\ wk[w].rt \in Rt
  BY DEF TypeOK, PoolsOK, WorkersOK, spawnWorker, NoWorker
<1>2. CASE Closed(wk[w].rt)
  <2> DEFINE k == [wk[w] EXCEPT !.restart = "no", !.next = wk[w].next]
  <2>1. wk[w].next \in Worker \cup {None}
    BY <1>1 DEF WorkerState
  <2>2. /\ k \in WorkerState /\ k.rt = wk[w].rt /\ k.proc = wk[w].proc
        /\ k.healthy = wk[w].healthy /\ k.probe = wk[w].probe
        /\ k.restarts = wk[w].restarts /\ k.restart = "no" /\ k.next = wk[w].next
    BY <1>1, <2>1 DEF WorkerState
  <2>3. wk' = [wk EXCEPT ![w] = k]
    <3>1. k = [wk[w] EXCEPT !.restart = "no"]
      BY <1>1 DEF WorkerState
    <3>2. QED
      BY <1>2, <3>1 DEF spawnWorker
  <2> HIDE DEF k
  <2>4. QED
    BY <1>1, <1>2, <2>2, <2>3, EditWorker DEF SameBut
<1>3. CASE ~Closed(wk[w].rt)
  <2>1. PICK n \in Worker :
          /\ Spare(n)
          /\ wk' = [wk EXCEPT ![n] = Spawned(wk[w].rt), ![w].restart = "spawn", ![w].next = n]
    BY <1>3 DEF spawnWorker
  <2>2. n # w
    BY <1>1, <2>1 DEF Spare
  <2> DEFINE k == [wk[w] EXCEPT !.restart = "spawn", !.next = n]
             j == Spawned(wk[w].rt)
  <2>3. /\ k \in WorkerState /\ k.rt = wk[w].rt /\ k.proc = wk[w].proc
        /\ k.healthy = wk[w].healthy /\ k.probe = wk[w].probe
        /\ k.restarts = wk[w].restarts /\ k.restart = "spawn" /\ k.next = n
    BY <1>1 DEF WorkerState
  <2>4. j \in WorkerState
    BY <1>1, SpawnedType
  <2>5. wk' = [wk EXCEPT ![w] = k, ![n] = j]
    <3> HIDE DEF j
    <3> DEFINE g == [wk EXCEPT ![n] = j]
    <3>1. g[w] = wk[w] /\ [wk EXCEPT ![w] = k, ![n] = j] = [g EXCEPT ![w] = k]
      <4> HIDE DEF k
      <4> QED BY <2>2 DEF TypeOK
    <3>2. wk' = [g EXCEPT ![w].restart = "spawn", ![w].next = n]
      BY <2>1 DEF j
    <3> HIDE DEF g
    <3>3. wk' = [g EXCEPT ![w] = [g[w] EXCEPT !.restart = "spawn", !.next = n]]
      BY <3>2
    <3>4. QED
      BY <3>1, <3>3
  <2> HIDE DEF k, j
  <2>6. wk' \in [Worker -> WorkerState] /\ wk'[w] = k /\ wk'[n] = j /\ Untouched({w, n})
    BY ZenonT(60), <2>2, <2>3, <2>4, <2>5, EditTwo
  <2>7. QED
    BY <1>1, <2>1, <2>2, <2>3, <2>6 DEF SameBut, j
<1>4. QED
  BY <1>2, <1>3

(* The actions that write the slots of a runtime.                          *)
LEMMA InstallFields ==
  ASSUME TypeOK, PoolsOK, NEW w \in Worker, Install(w), NEW n, n = wk[w].next,
         NEW r, r = wk[w].rt
  PROVE  /\ r \in Rt /\ n \in Worker /\ n # w /\ IsNext(w, n)
         /\ wk' \in [Worker -> WorkerState] /\ Untouched({w, n})
         /\ SameBut(w, {"restart", "next"}) /\ wk'[w].restart = "no"
         /\ SameBut(n, {"proc"}) /\ wk'[n].proc # "none"
         /\ rt' \in [Rt -> RtState] /\ \A q \in Rt : q # r => rt'[q] = rt[q]
         /\ rt'[r].pc = rt[r].pc /\ rt'[r].drained = rt[r].drained
         /\ rt'[r].timedOut = rt[r].timedOut
         /\ \A v \in Worker : InSlot(r, v)' => IF Closed(r) THEN InSlot(r, v)
                                               ELSE v = n \/ (v # w /\ InSlot(r, v))
<1>1. /\ n \in Worker /\ n # w /\ IsNext(w, n) /\ r \in Rt
      /\ wk[w] \in WorkerState /\ wk[n] \in WorkerState /\ wk[n].proc # "none"
      /\ rt \in [Rt -> RtState]
  BY NextFacts DEF Install, PoolsOK, NextsOK, TypeOK
<1> DEFINE k == [wk[w] EXCEPT !.restart = "no", !.next = None]
<1>2. /\ k \in WorkerState /\ k.rt = wk[w].rt /\ k.proc = wk[w].proc
      /\ k.healthy = wk[w].healthy /\ k.probe = wk[w].probe
      /\ k.restarts = wk[w].restarts /\ k.restart = "no"
  BY ZenonT(60), <1>1 DEF WorkerState
<1>3. CASE Installable(r)
  <2>1. wk' = [wk EXCEPT ![w] = k]
    BY <1>3 DEF Install
  <2> HIDE DEF k
  <2>2. wk' \in [Worker -> WorkerState] /\ wk'[w] = k /\ Untouched({w}) /\ wk'[n] = wk[n]
    BY <1>1, <1>2, <2>1, EditWorker DEF Untouched
  <2> DEFINE f == [s \in Slot |-> IF rt[r].slots[s] = w THEN n ELSE rt[r].slots[s]]
  <2>3. rt[r] \in RtState /\ f \in [Slot -> Worker \cup {None}]
    BY <1>1 DEF RtState
  <2>4. rt' = [rt EXCEPT ![r].slots = f]
    BY <1>3 DEF Install
  <2>5. \A v \in Worker : (\E s \in Slot : f[s] = v) => v = n \/ (v # w /\ InSlot(r, v))
    BY <1>1 DEF InSlot
  <2> HIDE DEF f
  <2>6. /\ rt' \in [Rt -> RtState] /\ \A q \in Rt : q # r => rt'[q] = rt[q]
        /\ rt'[r].pc = rt[r].pc /\ rt'[r].drained = rt[r].drained
        /\ rt'[r].timedOut = rt[r].timedOut /\ rt'[r].slots = f
    BY <1>1, <2>3, <2>4 DEF RtState
  <2>7. \A v \in Worker : InSlot(r, v)' => v = n \/ (v # w /\ InSlot(r, v))
    BY <2>5, <2>6 DEF InSlot
  <2>8. QED
    BY <1>1, <1>2, <1>3, <2>2, <2>6, <2>7 DEF SameBut, Untouched, Installable
<1>4. CASE ~Installable(r)
  <2> DEFINE j == [wk[n] EXCEPT !.proc = "gone"]
  <2>1. /\ j \in WorkerState /\ j.rt = wk[n].rt /\ j.proc = "gone"
        /\ j.healthy = wk[n].healthy /\ j.probe = wk[n].probe
        /\ j.restarts = wk[n].restarts /\ j.restart = wk[n].restart /\ j.next = wk[n].next
    BY <1>1 DEF WorkerState
  <2>2. wk' = [wk EXCEPT ![w] = k, ![n] = j] /\ UNCHANGED rt
    <3>1. wk' = [wk EXCEPT ![w].restart = "no", ![w].next = None, ![n].proc = "gone"]
          /\ UNCHANGED rt
      BY <1>4 DEF Install
    <3> DEFINE g == [wk EXCEPT ![w] = k]
    <3>2. g = [wk EXCEPT ![w].restart = "no", ![w].next = None] /\ g[n] = wk[n]
      BY <1>1 DEF TypeOK
    <3>3. wk' = [g EXCEPT ![n].proc = "gone"]
      BY <3>1, <3>2
    <3> HIDE DEF g
    <3>4. wk' = [g EXCEPT ![n] = j]
      BY <3>2, <3>3
    <3>5. QED
      <4> HIDE DEF k, j
      <4> QED BY <3>1, <3>4 DEF g
  <2> HIDE DEF k, j
  <2>3. wk' \in [Worker -> WorkerState] /\ wk'[w] = k /\ wk'[n] = j /\ Untouched({w, n})
    BY <1>1, <1>2, <2>1, <2>2, EditTwo
  <2>4. \A q \in Rt, v \in Worker : InSlot(q, v)' <=> InSlot(q, v)
    BY <2>2 DEF InSlot
  <2>5. QED
    BY <1>1, <1>2, <1>4, <2>1, <2>2, <2>3, <2>4 DEF SameBut, Installable
<1>5. QED
  BY <1>3, <1>4

LEMMA KillFields ==
  ASSUME TypeOK, NEW r \in Rt, KillWorkers(r)
  PROVE  /\ wk' \in [Worker -> WorkerState]
         /\ \A v \in Worker : \/ wk'[v] = wk[v]
                            \/ /\ SameBut(v, {"proc"}) /\ wk'[v].proc = "gone"
                               /\ InSlot(r, v)
<1>1. ASSUME NEW k \in WorkerState, NEW a, a = [k EXCEPT !.proc = "gone"]
      PROVE  /\ a \in WorkerState /\ a.rt = k.rt /\ a.proc = "gone" /\ a.healthy = k.healthy
             /\ a.probe = k.probe /\ a.restart = k.restart /\ a.restarts = k.restarts
             /\ a.next = k.next
  BY <1>1 DEF WorkerState
<1>2. wk' = [v \in Worker |-> IF InSlot(r, v) THEN [wk[v] EXCEPT !.proc = "gone"] ELSE wk[v]]
  BY DEF KillWorkers, Killed
<1>3. \A v \in Worker : wk[v] \in WorkerState
  BY DEF TypeOK
<1>4. QED
  BY <1>1, <1>2, <1>3 DEF SameBut

(* The runtime r that New builds.                                          *)
Built(r) ==
  /\ rt[r].pc = "none"
  /\ rt' = [rt EXCEPT ![r].pc = "run", ![r].slots = [s \in Slot |-> First(r, s)]]
  /\ wk' = [w \in Worker |-> IF \E s \in Slot : w = First(r, s)
                             THEN [Spawned(r) EXCEPT !.proc = "up"] ELSE wk[w]]

LEMMA BuiltFields ==
  ASSUME TypeOK, NEW r \in Rt, Built(r)
  PROVE  /\ rt' \in [Rt -> RtState] /\ wk' \in [Worker -> WorkerState]
         /\ \A q \in Rt : q # r => rt'[q] = rt[q]
         /\ rt'[r].pc = "run" /\ rt'[r].drained = rt[r].drained
         /\ \A v \in Worker : InSlot(r, v)' <=> \E s \in Slot : v = First(r, s)
         /\ \A v \in Worker :
              IF \E s \in Slot : v = First(r, s)
              THEN /\ wk'[v].rt = r /\ wk'[v].proc = "up" /\ wk'[v].healthy
                   /\ wk'[v].probe = "no" /\ wk'[v].restart = "no"
                   /\ wk'[v].restarts = 0
              ELSE wk'[v] = wk[v]
<1> DEFINE f == [s \in Slot |-> First(r, s)]
           up == [Spawned(r) EXCEPT !.proc = "up"]
<1>1. rt \in [Rt -> RtState] /\ rt[r] \in RtState /\ wk \in [Worker -> WorkerState]
  BY DEF TypeOK
<1>2. f \in [Slot -> Worker \cup {None}]
  BY FirstType
<1>3. /\ up \in WorkerState /\ up.rt = r /\ up.proc = "up" /\ up.healthy
      /\ up.probe = "no" /\ up.restart = "no" /\ up.restarts = 0
  BY SpawnedType DEF Spawned, NoWorker
<1>4. \A v \in Worker : (\E s \in Slot : f[s] = v) <=> (\E s \in Slot : v = First(r, s))
  OBVIOUS
<1>5. /\ rt' = [rt EXCEPT ![r].pc = "run", ![r].slots = f]
      /\ wk' = [w \in Worker |-> IF \E s \in Slot : w = First(r, s) THEN up ELSE wk[w]]
  BY DEF Built
<1> HIDE DEF f, up
<1>6. /\ rt' \in [Rt -> RtState] /\ \A q \in Rt : q # r => rt'[q] = rt[q]
      /\ rt'[r].pc = "run" /\ rt'[r].drained = rt[r].drained /\ rt'[r].slots = f
  BY <1>1, <1>2, <1>5 DEF RtState
<1>7. QED
  BY <1>1, <1>3, <1>4, <1>5, <1>6 DEF InSlot
-----------------------------------------------------------------------------
LEMMA ClosingType ==
  ASSUME TypeOK, NEW r \in Rt
  PROVE  /\ Closing(r) \in [Rt -> RtState]
         /\ \A q \in Rt : q # r => Closing(r)[q] = rt[q]
         /\ Closing(r)[r].slots = rt[r].slots /\ Closing(r)[r].drained = rt[r].drained
         /\ Closing(r)[r].timedOut = rt[r].timedOut
         /\ Closing(r)[r].pc = IF Closed(r) THEN rt[r].pc ELSE "drain"
<1>1. rt \in [Rt -> RtState] /\ rt[r] \in RtState
  BY DEF TypeOK
<1> DEFINE x == IF Closed(r) THEN rt[r].pc ELSE "drain"
<1>2. x \in {"none", "run", "drain", "wait", "scan", "closed"}
  BY <1>1 DEF RtState
<1>3. Closing(r) = [rt EXCEPT ![r].pc = x]
  BY DEF Closing
<1> HIDE DEF x
<1>4. QED
  BY SMTT(60), <1>1, <1>2, <1>3 DEF RtState, x

LEMMA StepType == TypeOK /\ PoolsOK /\ OwnersOK /\ [Next]_vars => TypeOK'
<1> SUFFICES ASSUME TypeOK, PoolsOK, OwnersOK, [Next]_vars PROVE TypeOK'
  OBVIOUS
<1>0. /\ cur \in Rt \cup {None} /\ swapClosed \in BOOLEAN
      /\ rt \in [Rt -> RtState] /\ wk \in [Worker -> WorkerState]
      /\ call \in [Call -> CallState] /\ reload \in [Reloader -> ReloadState]
      /\ faults \in 0..MaxFault
  BY DEF TypeOK
<1>1. NoCall \in CallState /\ NoReload \in ReloadState
  BY DEF NoCall, CallState, NoReload, ReloadState
<1>2. ASSUME NEW c \in Call, LoadCurrent(c) PROVE TypeOK'
  BY <1>1, <1>2 DEF LoadCurrent, Return, CallState, TypeOK
<1>3. ASSUME NEW c \in Call, Invoke(c) PROVE TypeOK'
  BY <1>1, <1>3 DEF Invoke, Return, CallState, pickWorker, TypeOK
<1>4. ASSUME NEW c \in Call, Answered(c) PROVE TypeOK'
  BY <1>1, <1>4 DEF Answered, Return, TypeOK
<1>5. ASSUME NEW c \in Call, classifyTransport(c) PROVE TypeOK'
  <2>1. wk' \in [Worker -> WorkerState]
    BY <1>5, TransportFields
  <2>2. faults' \in 0..MaxFault
    <3>1. faults' = faults \/ (faults < MaxFault /\ faults' = faults + 1)
      BY <1>5 DEF classifyTransport
    <3>2. QED
      BY <3>1, FuncAssumption DEF TypeOK
  <2>3. UNCHANGED <<cur, swapClosed, rt, reload>> /\ call' = [call EXCEPT ![c] = NoCall]
    BY <1>5 DEF classifyTransport, Return
  <2>4. QED
    BY <1>1, <2>1, <2>2, <2>3 DEF TypeOK
<1>6. ASSUME NEW c \in Call, classifyDeadline(c) PROVE TypeOK'
  <2>1. wk' \in [Worker -> WorkerState]
    BY <1>6, DeadlineFields
  <2>2. QED
    BY <1>1, <1>6, <2>1 DEF classifyDeadline, Return, TypeOK
<1>7. ASSUME NEW w \in Worker, responsive(w) PROVE TypeOK'
  BY FuncAssumption, <1>7 DEF responsive, WorkerState, TypeOK
<1>8. ASSUME NEW w \in Worker, ProbeReplaces(w) PROVE TypeOK'
  <2>1. wk' \in [Worker -> WorkerState]
    BY <1>8, ReplaceFields
  <2>2. QED
    BY <1>8, <2>1 DEF ProbeReplaces, TypeOK
<1>9. ASSUME NEW w \in Worker, Reap(w) PROVE TypeOK'
  BY <1>9, ReapFields DEF Reap, TypeOK
<1>10. ASSUME NEW w \in Worker, spawnWorker(w) PROVE TypeOK'
  <2>1. wk' \in [Worker -> WorkerState]
    BY <1>10, SpawnFields
  <2>2. QED
    BY <1>10, <2>1 DEF spawnWorker, TypeOK
<1>11. ASSUME NEW w \in Worker, waitHealthy(w) PROVE TypeOK'
  <2>1. wk' \in [Worker -> WorkerState]
    BY <1>11, HealthyFields
  <2>2. QED
    BY <1>11, <2>1 DEF waitHealthy, TypeOK
<1>12. ASSUME NEW w \in Worker, SpawnFails(w) PROVE TypeOK'
  <2>1. wk' \in [Worker -> WorkerState]
    BY <1>12, FailFields
  <2>2. QED
    BY <1>12, <2>1 DEF SpawnFails, TypeOK
<1>13. ASSUME NEW w \in Worker, Install(w) PROVE TypeOK'
  <2>1. wk' \in [Worker -> WorkerState] /\ rt' \in [Rt -> RtState]
    BY <1>13, InstallFields
  <2>2. QED
    BY <1>13, <2>1 DEF Install, TypeOK
<1>14. ASSUME NEW w \in Worker, Fault(w) PROVE TypeOK'
  <2>1. wk' \in [Worker -> WorkerState]
    BY <1>14, FaultFields
  <2>2. faults' \in 0..MaxFault
    BY <1>0, <1>14, FuncAssumption DEF Fault
  <2>3. QED
    BY <1>14, <2>1, <2>2 DEF Fault, TypeOK
<1>15. ASSUME NEW r \in Rt, drain(r) PROVE TypeOK'
  <2>1. rt[r] \in RtState /\ rt[r].drained \in 0..MaxInFlight
    BY <1>0 DEF RtState
  <2>2. CASE rt' = [rt EXCEPT ![r].drained = @ + 1] /\ rt[r].drained < MaxInFlight
    <3>1. rt[r].drained + 1 \in 0..MaxInFlight
      BY <2>1, <2>2, FuncAssumption
    <3> DEFINE d == rt[r].drained + 1
    <3>2. rt' = [rt EXCEPT ![r].drained = d]
      BY <2>2
    <3> HIDE DEF d
    <3>3. d \in 0..MaxInFlight
      BY <3>1 DEF d
    <3>4. rt' \in [Rt -> RtState]
      BY <1>0, <3>2, <3>3 DEF RtState
    <3>5. QED
      BY <1>15, <3>4 DEF drain, TypeOK
  <2>3. CASE rt' = [rt EXCEPT ![r].pc = "wait"]
    <3>1. rt' \in [Rt -> RtState]
      BY <1>0, <2>3 DEF RtState
    <3>2. QED
      BY <1>15, <3>1 DEF drain, TypeOK
  <2>4. QED
    BY <1>15, <2>2, <2>3 DEF drain
<1>16. ASSUME NEW r \in Rt, DrainTimeout(r) PROVE TypeOK'
  BY ZenonT(60), <1>16 DEF DrainTimeout, RtState, TypeOK
<1>17. ASSUME NEW r \in Rt, KillWorkers(r) PROVE TypeOK'
  <2>1. wk' \in [Worker -> WorkerState]
    BY <1>17, KillFields
  <2>2. rt' \in [Rt -> RtState]
    BY <1>0, <1>17 DEF KillWorkers, RtState
  <2>3. QED
    BY <1>17, <2>1, <2>2 DEF KillWorkers, TypeOK
<1>18. ASSUME NEW r \in Rt, Close(r) PROVE TypeOK'
  BY <1>18 DEF Close, RtState, TypeOK
<1>19. ASSUME NEW l \in Reloader, New(l) PROVE TypeOK'
  <2>1. ASSUME NEW r \in Rt, Built(r),
               reload' = [reload EXCEPT ![l].pc = "swap", ![l].new = r]
        PROVE  TypeOK'
    <3>1. reload' \in [Reloader -> ReloadState]
      BY <1>0, <2>1 DEF ReloadState
    <3>2. QED
      BY <1>19, <2>1, <3>1, BuiltFields DEF New, TypeOK
  <2>2. CASE reload' = [reload EXCEPT ![l].pc = "swap"] /\ UNCHANGED <<rt, wk>>
    BY <1>19, <2>2 DEF New, ReloadState, TypeOK
  <2>3. QED
    BY <1>19, <2>1, <2>2 DEF New, Built
<1>20. ASSUME NEW l \in Reloader, Swap(l) PROVE TypeOK'
  <2>1. Swapped(l) \in Rt \cup {None} /\ reload[l].new \in Rt \cup {None}
    BY <1>0 DEF Swapped, ReloadState
  <2>2. cur' \in Rt \cup {None}
    BY <1>0, <1>20, <2>1 DEF Swap
  <2>3. CASE Swapped(l) = None
    BY <1>1, <1>20, <2>2, <2>3 DEF Swap, TypeOK
  <2>4. CASE Swapped(l) # None
    <3>1. Swapped(l) \in Rt
      BY <2>1, <2>4
    <3>2. rt' \in [Rt -> RtState]
      BY <1>20, <2>4, <3>1, ClosingType DEF Swap
    <3>3. reload' \in [Reloader -> ReloadState]
      BY <1>0, <1>20, <2>1, <2>4 DEF Swap, ReloadState
    <3>4. QED
      BY <1>20, <2>2, <3>2, <3>3 DEF Swap, TypeOK
  <2>5. QED
    BY <2>3, <2>4
<1>21. ASSUME NEW l \in Reloader, EndReload(l) PROVE TypeOK'
  BY <1>1, <1>21 DEF EndReload, TypeOK
<1>22. CASE SwapClose
  <2>1. rt' \in [Rt -> RtState]
    BY <1>0, <1>22, ClosingType DEF SwapClose
  <2>2. QED
    BY <1>22, <2>1 DEF SwapClose, TypeOK
<1>23. CASE UNCHANGED vars
  BY <1>23 DEF vars, TypeOK
<1>24. QED
  BY <1>2, <1>3, <1>4, <1>5, <1>6, <1>7, <1>8, <1>9, <1>10, <1>11, <1>12,
     <1>13, <1>14, <1>15, <1>16, <1>17, <1>18, <1>19, <1>20, <1>21, <1>22, <1>23
  DEF Next, CallStep, RestartStep, CloseStep, ReloadStep
-----------------------------------------------------------------------------
(* The pools: workers, slots, calls and replacements.                      *)

Still(v) == wk'[v] = wk[v]

LEMMA CalmStep ==
  ASSUME TypeOK, TypeOK', PoolsOK,
         \A v \in Worker : Still(v) \/ CalmWorker(v),
         \A r \in Rt : rt'[r] = rt[r] \/ CalmRuntime(r),
         \A c \in Call : call'[c] = call[c] \/ call'[c] = NoCall \/ CalmCall(c)
  PROVE  PoolsOK'
<1>1. ASSUME NEW v \in Worker PROVE CalmWorker(v)
  BY DEF Still, CalmWorker, PoolsOK, WorkersOK, SlotsOK, NextsOK
<1>2. ASSUME NEW r \in Rt PROVE CalmRuntime(r)
  BY DEF CalmRuntime
<1>3. ASSUME NEW c \in Call PROVE CalmCall(c)
  BY DEF CalmCall, PoolsOK, CallsOK, Sent, NoCall
<1>4. QED
  BY <1>1, <1>2, <1>3, CalmKeeps

LEMMA NotNext ==
  ASSUME PoolsOK, NEW w \in Worker,
         \/ \E c \in Call : Sent(c, w)
         \/ wk[w].probe # "no" \/ wk[w].restart # "no"
  PROVE  wk[w].proc # "none" /\ ~\E u \in Worker : IsNext(u, w)
<1>1. wk[w].proc # "none"
  BY DEF PoolsOK, WorkersOK, CallsOK, Sent, NoWorker
<1>2. ~\E u \in Worker : IsNext(u, w)
  BY DEF PoolsOK, WorkersOK, NextsOK
<1>3. QED
  BY <1>1, <1>2

(* A restart starts: in a runtime that runs its worker's slot is waiting   *)
(* for the replacement.                                                    *)
LEMMA RestartedCalm ==
  ASSUME TypeOK, PoolsOK, NEW w \in Worker, Restarted(w),
         SameBut(w, {"healthy", "restart", "restarts", "probe"}),
         wk[w].proc # "none", ~\E u \in Worker : IsNext(u, w)
  PROVE  CalmWorker(w)
<1>1. wk'[w].rt = wk[w].rt /\ wk'[w].next = wk[w].next /\ wk'[w].proc = wk[w].proc
  BY DEF SameBut
<1>2. ASSUME NEW r \in Rt, InSlot(r, w), rt[r].pc = "run"
      PROVE  wk'[w].restart # "no"
  <2>1. wk[w].rt = r /\ ~Closed(r)
    BY <1>2 DEF PoolsOK, SlotsOK, Closed
  <2>2. QED
    BY <2>1 DEF Restarted
<1>3. QED
  BY <1>1, <1>2 DEF CalmWorker, Restarted

(* An edit that touches neither the flag nor the restart.                  *)
LEMMA SameCalm ==
  ASSUME TypeOK, PoolsOK, NEW w \in Worker, SameBut(w, {"proc", "probe"}),
         wk[w].proc # "none", wk'[w].proc # "none",
         (\E u \in Worker : IsNext(u, w)) => wk'[w].probe = wk[w].probe
  PROVE  CalmWorker(w)
<1>1. /\ wk'[w].rt = wk[w].rt /\ wk'[w].next = wk[w].next
      /\ wk'[w].healthy = wk[w].healthy /\ wk'[w].restart = wk[w].restart
      /\ wk'[w].restarts = wk[w].restarts
  BY DEF SameBut
<1>2. QED
  BY <1>1 DEF CalmWorker, PoolsOK, WorkersOK, SlotsOK, NextsOK

LEMMA StepCallPools ==
  ASSUME TypeOK, TypeOK', PoolsOK, NEW c \in Call, CallStep(c)
  PROVE  PoolsOK'
<1>0. call \in [Call -> CallState] /\ cur \in Rt \cup {None}
  BY DEF TypeOK
<1>1. CASE LoadCurrent(c)
  <2>1. \A d \in Call : call'[d] = call[d] \/ call'[d] = NoCall \/ CalmCall(d)
    <3>1. CASE cur = None
      BY <1>0, <1>1, <3>1 DEF LoadCurrent, Return
    <3>2. CASE cur # None
      <4>1. /\ \A d \in Call : d # c => call'[d] = call[d]
            /\ call'[c].pc = "loaded" /\ call'[c].rt = cur
        BY <1>0, <1>1, <3>2 DEF LoadCurrent, CallState
      <4>2. CalmCall(c)
        BY <1>0, <3>2, <4>1 DEF CalmCall
      <4>3. QED
        BY <4>1, <4>2
    <3>3. QED
      BY <3>1, <3>2
  <2>2. QED
    BY <1>1, <2>1, CalmStep DEF LoadCurrent, Still
<1>2. CASE Invoke(c)
  <2>1. \A d \in Call : call'[d] = call[d] \/ call'[d] = NoCall \/ CalmCall(d)
    <3>1. CASE Return(c)
      BY <1>0, <3>1 DEF Return
    <3>2. ASSUME NEW w \in pickWorker(call[c].rt),
                 call' = [call EXCEPT ![c].pc = "sent", ![c].w = w]
          PROVE  \A d \in Call : call'[d] = call[d] \/ CalmCall(d)
      <4>1. /\ \A d \in Call : d # c => call'[d] = call[d]
            /\ call'[c].pc = "sent" /\ call'[c].w = w /\ call'[c].rt = call[c].rt
        BY <1>0, <3>2 DEF CallState
      <4>2. call[c].rt \in Rt /\ w \in Worker /\ InSlot(call[c].rt, w)
        BY <1>2, <3>2 DEF Invoke, pickWorker, PoolsOK, CallsOK
      <4>3. CalmCall(c)
        BY <4>1, <4>2 DEF CalmCall
      <4>4. QED
        BY <4>1, <4>3
    <3>3. QED
      BY <1>2, <3>1, <3>2 DEF Invoke
  <2>2. QED
    BY <1>2, <2>1, CalmStep DEF Invoke, Still
<1>3. CASE Answered(c)
  <2>1. \A d \in Call : call'[d] = call[d] \/ call'[d] = NoCall
    BY <1>0, <1>3 DEF Answered, Return
  <2>2. QED
    BY <1>3, <2>1, CalmStep DEF Answered, Still
<1>4. CASE classifyTransport(c)
  <2> DEFINE w == call[c].w
  <2>1. /\ w \in Worker /\ Sent(c, w) /\ Untouched({w})
        /\ SameBut(w, {"healthy", "restart", "restarts"})
        /\ Restarted(w) \/ SameBut(w, {})
    BY <1>4, TransportFields
  <2> HIDE DEF w
  <2>2. wk[w].proc # "none" /\ ~\E u \in Worker : IsNext(u, w)
    BY <2>1, NotNext
  <2>3. CASE Restarted(w)
    <3>1. SameBut(w, {"healthy", "restart", "restarts", "probe"})
      BY <2>1 DEF SameBut
    <3>2. QED
      <4>1. CalmWorker(w)
        BY <2>1, <2>2, <2>3, <3>1, RestartedCalm
      <4>2. \A d \in Call : call'[d] = call[d] \/ call'[d] = NoCall
        BY <1>0, <1>4 DEF classifyTransport, Return
      <4>3. QED
        BY <1>4, <2>1, <4>1, <4>2, CalmStep DEF classifyTransport, Still, Untouched
  <2>4. CASE SameBut(w, {})
    <3>1. SameBut(w, {"proc", "probe"}) /\ wk'[w].proc # "none" /\ wk'[w].probe = wk[w].probe
      BY <2>2, <2>4 DEF SameBut
    <3>2. CalmWorker(w)
      BY <2>1, <2>2, <3>1, SameCalm
    <3>3. \A d \in Call : call'[d] = call[d] \/ call'[d] = NoCall
      BY <1>0, <1>4 DEF classifyTransport, Return
    <3>4. QED
      BY <1>4, <2>1, <3>2, <3>3, CalmStep DEF classifyTransport, Still, Untouched
  <2>5. QED
    BY <2>1, <2>3, <2>4
<1>5. CASE classifyDeadline(c)
  <2> DEFINE w == call[c].w
  <2>1. w \in Worker /\ Sent(c, w) /\ Untouched({w}) /\ SameBut(w, {"probe"})
    BY <1>5, DeadlineFields
  <2> HIDE DEF w
  <2>2. wk[w].proc # "none" /\ ~\E u \in Worker : IsNext(u, w)
    BY <2>1, NotNext
  <2>3. SameBut(w, {"proc", "probe"}) /\ wk'[w].proc # "none"
    BY <2>1, <2>2 DEF SameBut
  <2>4. CalmWorker(w)
    BY <2>1, <2>2, <2>3, SameCalm
  <2>5. \A d \in Call : call'[d] = call[d] \/ call'[d] = NoCall
    BY <1>0, <1>5 DEF classifyDeadline, Return
  <2>6. QED
    BY <1>5, <2>1, <2>4, <2>5, CalmStep DEF classifyDeadline, Still, Untouched
<1>6. QED
  BY <1>1, <1>2, <1>3, <1>4, <1>5 DEF CallStep

(* A worker is born for a restart: until then nothing referred to it.      *)
LEMMA SpawnPools ==
  ASSUME TypeOK, TypeOK', PoolsOK, NEW w \in Worker, spawnWorker(w),
         NEW n \in Worker, Untouched({w, n}), n # w, Spare(n),
         SameBut(w, {"restart", "next"}),
         wk'[w].restart = "spawn", wk'[w].next = n, wk'[n] = Spawned(wk[w].rt)
  PROVE  PoolsOK'
<1>0. UNCHANGED <<rt, call>> /\ wk[w].restart = "loop"
  BY DEF spawnWorker
<1>1. /\ wk[w].proc # "none" /\ wk[w].rt \in Rt /\ rt[wk[w].rt].pc # "none"
      /\ ~wk[w].healthy /\ wk[w].restarts <= 1
      /\ ~\E u \in Worker : IsNext(u, w)
  BY <1>0, NotNext DEF PoolsOK, WorkersOK
<1>2. /\ wk[n].proc = "none" /\ wk[n] = NoWorker
      /\ \A r \in Rt : ~InSlot(r, n)
      /\ \A c \in Call : ~Sent(c, n)
      /\ \A u \in Worker : ~IsNext(u, n)
  BY DEF Spare, PoolsOK, WorkersOK, SlotsOK, CallsOK, NextsOK, Sent
<1>3. /\ wk'[n].rt = wk[w].rt /\ wk'[n].proc = "starting" /\ wk'[n].healthy
      /\ wk'[n].probe = "no" /\ wk'[n].restart = "no" /\ wk'[n].restarts = 0
  BY DEF Spawned, NoWorker
<1>4. /\ wk'[w].rt = wk[w].rt /\ wk'[w].proc = wk[w].proc
      /\ wk'[w].healthy = wk[w].healthy /\ wk'[w].restarts = wk[w].restarts
      /\ wk'[w].probe = wk[w].probe
  BY DEF SameBut
<1>5. \A v \in Worker : v # w /\ v # n => wk'[v] = wk[v]
  BY DEF Untouched
<1>6. \A r \in Rt, v \in Worker : InSlot(r, v)' <=> InSlot(r, v)
  BY <1>0 DEF InSlot
<1>7. WorkersOK'
  BY <1>0, <1>1, <1>3, <1>4, <1>5 DEF PoolsOK, WorkersOK
<1>8. SlotsOK'
  BY <1>0, <1>2, <1>4, <1>5, <1>6 DEF PoolsOK, SlotsOK
<1>9. CallsOK'
  BY <1>0, <1>2, <1>4, <1>5 DEF PoolsOK, CallsOK, Sent
<1>10. \A u, v \in Worker : IsNext(u, v)' => (u = w /\ v = n) \/ (u # w /\ u # n /\ IsNext(u, v))
  BY <1>3, <1>5 DEF IsNext
<1>11. NextsOK'
  <2> SUFFICES ASSUME NEW u \in Worker, NEW v \in Worker, IsNext(u, v)'
      PROVE  /\ wk'[v].proc # "none" /\ wk'[v].rt = wk'[u].rt
             /\ wk'[v].healthy /\ wk'[v].probe = "no"
             /\ \A r \in Rt : ~InSlot(r, v)'
             /\ \A c \in Call : ~Sent(c, v)'
             /\ \A x \in Worker : IsNext(x, v)' => x = u
    BY DEF NextsOK
  <2>0. \A c \in Call : Sent(c, v)' <=> Sent(c, v)
    BY <1>0 DEF Sent
  <2>1. CASE u = w /\ v = n
    BY <1>2, <1>3, <1>4, <1>6, <1>10, <2>0, <2>1
  <2>2. CASE u # w /\ u # n /\ IsNext(u, v)
    <3>1. v # w /\ v # n
      BY <1>1, <1>2, <2>2
    <3>2. QED
      BY <1>5, <1>6, <1>10, <2>0, <2>2, <3>1 DEF PoolsOK, NextsOK
  <2>3. QED
    BY <1>10, <2>1, <2>2
<1>12. UnbuiltOK'
  <2> SUFFICES ASSUME NEW r \in Rt, NEW s \in Slot, rt[r].pc = "none"
      PROVE  wk'[First(r, s)].proc = "none"
    BY <1>0 DEF UnbuiltOK
  <2>1. wk[First(r, s)].proc = "none" /\ First(r, s) \in Worker /\ First(r, s) <= MaxRt * PoolSize
    BY FirstType DEF PoolsOK, UnbuiltOK
  <2>2. ~(First(r, s) > MaxRt * PoolSize)
    <3>1. First(r, s) \in Nat /\ MaxRt * PoolSize \in Nat
      BY <2>1, FuncAssumption DEF Worker
    <3>2. QED
      BY <2>1, <3>1
  <2>3. First(r, s) # n /\ First(r, s) # w
    BY <1>1, <2>1, <2>2 DEF Spare
  <2>4. QED
    BY <1>5, <2>1, <2>3
<1>13. QED
  BY <1>7, <1>8, <1>9, <1>11, <1>12 DEF PoolsOK

(* The replacement never came up: nothing but its restart knew it.         *)
LEMMA FailPools ==
  ASSUME TypeOK, TypeOK', PoolsOK, NEW w \in Worker, SpawnFails(w)
  PROVE  PoolsOK'
<1> DEFINE n == wk[w].next
<1>0. UNCHANGED <<rt, call>> /\ wk[w].restart = "spawn"
  BY DEF SpawnFails
<1>1. /\ Untouched({w, n}) /\ n \in Worker /\ n # w /\ IsNext(w, n)
      /\ SameBut(w, {"restart", "next"}) /\ wk'[w].restart = "loop"
      /\ wk'[n] = NoWorker
  BY FailFields
<1> HIDE DEF n
<1>2. /\ wk[w].proc # "none" /\ wk[w].rt \in Rt /\ rt[wk[w].rt].pc # "none"
      /\ ~wk[w].healthy /\ wk[w].restarts <= 1
      /\ ~\E u \in Worker : IsNext(u, w)
  BY <1>0, NotNext DEF PoolsOK, WorkersOK
<1>3. /\ \A r \in Rt : ~InSlot(r, n)
      /\ \A c \in Call : ~Sent(c, n)
      /\ \A u \in Worker : IsNext(u, n) => u = w
  BY <1>1 DEF PoolsOK, NextsOK
<1>4. /\ wk'[w].rt = wk[w].rt /\ wk'[w].proc = wk[w].proc
      /\ wk'[w].healthy = wk[w].healthy /\ wk'[w].restarts = wk[w].restarts
  BY <1>1 DEF SameBut
<1>5. \A v \in Worker : v # w /\ v # n => wk'[v] = wk[v]
  BY <1>1 DEF Untouched
<1>6. \A r \in Rt, v \in Worker : InSlot(r, v)' <=> InSlot(r, v)
  BY <1>0 DEF InSlot
<1>7. wk'[n].proc = "none" /\ ~wk'[n].healthy /\ wk'[n].restarts = 0 /\ wk'[n].restart = "no"
  BY <1>1 DEF NoWorker
<1>8. WorkersOK'
  BY <1>0, <1>1, <1>2, <1>4, <1>5, <1>7 DEF PoolsOK, WorkersOK
<1>9. SlotsOK'
  BY <1>0, <1>1, <1>3, <1>4, <1>5, <1>6 DEF PoolsOK, SlotsOK
<1>10. CallsOK'
  BY <1>0, <1>3, <1>4, <1>5 DEF PoolsOK, CallsOK, Sent
<1>11. \A u, v \in Worker : IsNext(u, v)' => u # w /\ u # n /\ IsNext(u, v)
  BY <1>1, <1>5, <1>7 DEF IsNext
<1>12. NextsOK'
  <2> SUFFICES ASSUME NEW u \in Worker, NEW v \in Worker, IsNext(u, v)'
      PROVE  /\ wk'[v].proc # "none" /\ wk'[v].rt = wk'[u].rt
             /\ wk'[v].healthy /\ wk'[v].probe = "no"
             /\ \A r \in Rt : ~InSlot(r, v)'
             /\ \A c \in Call : ~Sent(c, v)'
             /\ \A x \in Worker : IsNext(x, v)' => x = u
    BY DEF NextsOK
  <2>0. \A c \in Call : Sent(c, v)' <=> Sent(c, v)
    BY <1>0 DEF Sent
  <2>1. u # w /\ u # n /\ IsNext(u, v) /\ v # w /\ v # n
    BY <1>2, <1>3, <1>11
  <2>2. QED
    BY <1>5, <1>6, <1>11, <2>0, <2>1 DEF PoolsOK, NextsOK
<1>13. UnbuiltOK'
  BY <1>0, <1>2, <1>5, <1>7, FirstType DEF PoolsOK, UnbuiltOK
<1>14. QED
  BY <1>8, <1>9, <1>10, <1>12, <1>13 DEF PoolsOK

(* The replacement takes the slot, or is killed because Close came first.  *)
LEMMA InstallPools ==
  ASSUME TypeOK, TypeOK', PoolsOK, NEW w \in Worker, Install(w),
         NEW n, n = wk[w].next, NEW r, r = wk[w].rt
  PROVE  PoolsOK'
<1>0. UNCHANGED call /\ wk[w].restart = "install"
  BY DEF Install
<1>1. /\ r \in Rt /\ n \in Worker /\ n # w /\ IsNext(w, n) /\ Untouched({w, n})
      /\ SameBut(w, {"restart", "next"}) /\ wk'[w].restart = "no"
      /\ SameBut(n, {"proc"}) /\ wk'[n].proc # "none"
      /\ \A q \in Rt : q # r => rt'[q] = rt[q]
      /\ rt'[r].pc = rt[r].pc
      /\ \A v \in Worker : InSlot(r, v)' => IF Closed(r) THEN InSlot(r, v)
                                            ELSE v = n \/ (v # w /\ InSlot(r, v))
  BY InstallFields
<1>2. /\ wk[w].proc # "none" /\ rt[r].pc # "none"
      /\ ~wk[w].healthy /\ wk[w].restarts <= 1
      /\ ~\E u \in Worker : IsNext(u, w)
  BY <1>0, NotNext DEF PoolsOK, WorkersOK
<1>3. /\ \A q \in Rt : ~InSlot(q, n)
      /\ \A c \in Call : ~Sent(c, n)
      /\ \A u \in Worker : IsNext(u, n) => u = w
      /\ wk[n].proc # "none" /\ wk[n].rt = r /\ wk[n].healthy
  BY <1>1 DEF PoolsOK, NextsOK
<1>4. /\ wk'[w].rt = r /\ wk'[w].proc = wk[w].proc
      /\ wk'[w].healthy = wk[w].healthy /\ wk'[w].restarts = wk[w].restarts
  BY <1>1 DEF SameBut
<1>5. /\ wk'[n].rt = r /\ wk'[n].healthy /\ wk'[n].restarts = wk[n].restarts
      /\ wk'[n].restart = wk[n].restart /\ wk'[n].next = wk[n].next
  BY <1>1, <1>3 DEF SameBut
<1>6. \A v \in Worker : v # w /\ v # n => wk'[v] = wk[v]
  BY <1>1 DEF Untouched
<1>7. \A q \in Rt : rt'[q].pc = rt[q].pc
  BY <1>1
<1>8. \A q \in Rt, v \in Worker : q # r => (InSlot(q, v)' <=> InSlot(q, v))
  BY <1>1 DEF InSlot
<1>9. WorkersOK'
  BY <1>1, <1>2, <1>3, <1>4, <1>5, <1>6, <1>7 DEF PoolsOK, WorkersOK
<1>10. SlotsOK'
  <2> SUFFICES ASSUME NEW q \in Rt, NEW v \in Worker, InSlot(q, v)'
      PROVE  /\ wk'[v].proc # "none" /\ wk'[v].rt = q
             /\ rt'[q].pc = "run" /\ ~wk'[v].healthy => wk'[v].restart # "no"
    BY DEF SlotsOK
  <2>1. CASE q = r /\ v = n
    BY <1>1, <1>5, <2>1
  <2>2. CASE InSlot(q, v) /\ v # w
    <3>1. v # n
      BY <1>3, <2>2
    <3>2. QED
      BY <1>6, <1>7, <2>2, <3>1 DEF PoolsOK, SlotsOK
  <2>3. CASE InSlot(q, v) /\ v = w
    <3>1. q = r
      BY <2>3 DEF PoolsOK, SlotsOK
    <3>2. Closed(r)
      BY <1>1, <2>3, <3>1
    <3>3. rt'[q].pc # "run"
      BY <1>1, <3>1, <3>2 DEF Closed
    <3>4. QED
      BY <1>2, <1>4, <2>3, <3>1, <3>3
  <2>4. QED
    <3>1. CASE q = r
      BY <1>1, <2>1, <2>2, <2>3, <3>1
    <3>2. CASE q # r
      BY <1>8, <2>2, <2>3, <3>2
    <3>3. QED
      BY <3>1, <3>2
<1>11. CallsOK'
  BY <1>0, <1>1, <1>4, <1>6 DEF PoolsOK, CallsOK
<1>12. \A u, v \in Worker : IsNext(u, v)' => u # w /\ u # n /\ v # w /\ v # n /\ IsNext(u, v)
  <2> SUFFICES ASSUME NEW u \in Worker, NEW v \in Worker, IsNext(u, v)'
      PROVE  u # w /\ u # n /\ v # w /\ v # n /\ IsNext(u, v)
    OBVIOUS
  <2>1. u # w
    BY <1>1 DEF IsNext
  <2>2. u # n
    BY <1>3, <1>5 DEF IsNext, PoolsOK, WorkersOK
  <2>3. IsNext(u, v)
    BY <1>6, <2>1, <2>2 DEF IsNext
  <2>4. QED
    BY <1>2, <1>3, <2>1, <2>2, <2>3
<1>13. NextsOK'
  <2> SUFFICES ASSUME NEW u \in Worker, NEW v \in Worker, IsNext(u, v)'
      PROVE  /\ wk'[v].proc # "none" /\ wk'[v].rt = wk'[u].rt
             /\ wk'[v].healthy /\ wk'[v].probe = "no"
             /\ \A q \in Rt : ~InSlot(q, v)'
             /\ \A c \in Call : ~Sent(c, v)'
             /\ \A x \in Worker : IsNext(x, v)' => x = u
    BY DEF NextsOK
  <2>0. \A c \in Call : Sent(c, v)' <=> Sent(c, v)
    BY <1>0 DEF Sent
  <2>1. u # w /\ u # n /\ v # w /\ v # n /\ IsNext(u, v)
    BY <1>12
  <2>2. \A q \in Rt : ~InSlot(q, v)'
    BY <1>1, <1>8, <2>1 DEF PoolsOK, NextsOK
  <2>3. QED
    BY <1>6, <1>12, <2>0, <2>1, <2>2 DEF PoolsOK, NextsOK
<1>14. UnbuiltOK'
  BY <1>2, <1>3, <1>6, <1>7, FirstType DEF PoolsOK, UnbuiltOK
<1>15. QED
  BY <1>9, <1>10, <1>11, <1>13, <1>14 DEF PoolsOK

LEMMA StepRestartPools ==
  ASSUME TypeOK, TypeOK', PoolsOK, NEW w \in Worker, RestartStep(w) \/ Fault(w)
  PROVE  PoolsOK'
<1>1. CASE responsive(w)
  <2>1. Untouched({w}) /\ SameBut(w, {"probe"})
    BY <1>1, ProbeFields DEF responsive
  <2>2. wk[w].proc # "none" /\ ~\E u \in Worker : IsNext(u, w)
    BY <1>1, NotNext DEF responsive
  <2>3. SameBut(w, {"proc", "probe"}) /\ wk'[w].proc # "none"
    BY <2>1, <2>2 DEF SameBut
  <2>4. CalmWorker(w)
    BY <2>2, <2>3, SameCalm
  <2>5. QED
    BY <1>1, <2>1, <2>4, CalmStep DEF responsive, Still, Untouched
<1>2. CASE ProbeReplaces(w)
  <2>1. /\ Untouched({w}) /\ SameBut(w, {"healthy", "restart", "restarts", "probe"})
        /\ Restarted(w) \/ SameBut(w, {"probe"})
    BY <1>2, ReplaceFields
  <2>2. wk[w].proc # "none" /\ ~\E u \in Worker : IsNext(u, w)
    BY <1>2, NotNext DEF ProbeReplaces
  <2>3. CalmWorker(w)
    <3>1. CASE Restarted(w)
      BY <2>1, <2>2, <3>1, RestartedCalm
    <3>2. CASE SameBut(w, {"probe"})
      <4>1. SameBut(w, {"proc", "probe"}) /\ wk'[w].proc # "none"
        BY <2>2, <3>2 DEF SameBut
      <4>2. QED
        BY <2>2, <4>1, SameCalm
    <3>3. QED
      BY <2>1, <3>1, <3>2
  <2>4. QED
    BY <1>2, <2>1, <2>3, CalmStep DEF ProbeReplaces, Still, Untouched
<1>3. CASE Reap(w)
  <2>1. /\ Untouched({w}) /\ SameBut(w, {"proc", "restart"}) /\ wk'[w].proc = "gone"
        /\ wk'[w].restart = IF InSlot(wk[w].rt, w) THEN "loop" ELSE "no"
    BY <1>3, ReapFields
  <2>2. wk[w].proc # "none" /\ ~\E u \in Worker : IsNext(u, w)
    BY <1>3, NotNext DEF Reap
  <2>3. /\ wk'[w].rt = wk[w].rt /\ wk'[w].next = wk[w].next
        /\ wk'[w].healthy = wk[w].healthy /\ wk'[w].restarts = wk[w].restarts
    BY <2>1 DEF SameBut
  <2>4. ~wk[w].healthy /\ wk[w].restarts <= 1
    BY <1>3 DEF Reap, PoolsOK, WorkersOK
  <2>5. \A r \in Rt : InSlot(r, w) => wk'[w].restart = "loop"
    BY <2>1 DEF PoolsOK, SlotsOK
  <2>6. CalmWorker(w)
    BY <2>1, <2>2, <2>3, <2>4, <2>5 DEF CalmWorker
  <2>7. QED
    BY <1>3, <2>1, <2>6, CalmStep DEF Reap, Still, Untouched
<1>4. CASE spawnWorker(w)
  <2>1. CASE /\ Untouched({w}) /\ Closed(wk[w].rt)
             /\ SameBut(w, {"restart"}) /\ wk'[w].restart = "no"
    <3>1. /\ wk[w].proc # "none" /\ ~\E u \in Worker : IsNext(u, w)
          /\ ~wk[w].healthy /\ wk[w].restarts <= 1
      BY <1>4, NotNext DEF spawnWorker, PoolsOK, WorkersOK
    <3>2. /\ wk'[w].rt = wk[w].rt /\ wk'[w].next = wk[w].next /\ wk'[w].proc = wk[w].proc
          /\ wk'[w].healthy = wk[w].healthy /\ wk'[w].restarts = wk[w].restarts
      BY <2>1 DEF SameBut
    <3>3. \A r \in Rt : InSlot(r, w) => rt[r].pc # "run"
      BY <2>1 DEF PoolsOK, SlotsOK, Closed
    <3>4. CalmWorker(w)
      BY <2>1, <3>1, <3>2, <3>3 DEF CalmWorker
    <3>5. QED
      BY <1>4, <2>1, <3>4, CalmStep DEF spawnWorker, Still, Untouched
  <2>2. QED
    BY <1>4, <2>1, SpawnFields, SpawnPools
<1>5. CASE waitHealthy(w)
  <2> DEFINE n == wk[w].next
  <2>1. /\ Untouched({w, n}) /\ n \in Worker /\ n # w /\ IsNext(w, n)
        /\ SameBut(w, {"restart"}) /\ wk'[w].restart = "install"
        /\ SameBut(n, {"proc"}) /\ wk'[n].proc = "up"
    BY <1>5, HealthyFields
  <2> HIDE DEF n
  <2>2. wk[w].restart = "spawn" /\ wk[n].proc # "none" /\ wk[n].probe = "no"
    BY <1>5, <2>1 DEF waitHealthy, PoolsOK, NextsOK
  <2>3. /\ wk[w].proc # "none" /\ ~\E u \in Worker : IsNext(u, w)
        /\ ~wk[w].healthy /\ wk[w].restarts <= 1
    BY <2>2, NotNext DEF PoolsOK, WorkersOK
  <2>4. /\ wk'[w].rt = wk[w].rt /\ wk'[w].next = wk[w].next /\ wk'[w].proc = wk[w].proc
        /\ wk'[w].healthy = wk[w].healthy /\ wk'[w].restarts = wk[w].restarts
    BY <2>1 DEF SameBut
  <2>5. CalmWorker(w)
    BY <2>1, <2>2, <2>3, <2>4 DEF CalmWorker
  <2>6. SameBut(n, {"proc", "probe"}) /\ wk'[n].probe = wk[n].probe
    BY <2>1 DEF SameBut
  <2>7. CalmWorker(n)
    BY <2>1, <2>2, <2>6, SameCalm
  <2>8. QED
    BY <1>5, <2>1, <2>5, <2>7, CalmStep DEF waitHealthy, Still, Untouched
<1>6. CASE SpawnFails(w)
  BY <1>6, FailPools
<1>7. CASE Install(w)
  BY <1>7, InstallPools
<1>8. CASE Fault(w)
  <2>1. /\ Untouched({w}) /\ SameBut(w, {"proc"}) /\ wk[w].proc # "none"
        /\ wk'[w].proc # "none"
    BY <1>8, FaultFields
  <2>2. SameBut(w, {"proc", "probe"}) /\ wk'[w].probe = wk[w].probe
    BY <2>1 DEF SameBut
  <2>3. CalmWorker(w)
    BY <2>1, <2>2, SameCalm
  <2>4. QED
    BY <1>8, <2>1, <2>3, CalmStep DEF Fault, Still, Untouched
<1>9. QED
  BY <1>1, <1>2, <1>3, <1>4, <1>5, <1>6, <1>7, <1>8 DEF RestartStep

(* The phases of a runtime that its Close goes through.                    *)
LEMMA PhaseCalm ==
  ASSUME NEW r \in Rt, rt'[r].slots = rt[r].slots,
         rt[r].pc # "none", rt'[r].pc # "none", rt'[r].pc = "run" => rt[r].pc = "run"
  PROVE  CalmRuntime(r)
  BY DEF CalmRuntime

LEMMA ClosePhases ==
  ASSUME TypeOK, NEW r \in Rt, CloseStep(r)
  PROVE  /\ UNCHANGED <<cur, swapClosed, call, reload>>
         /\ \A q \in Rt : q # r => rt'[q] = rt[q]
         /\ rt'[r].slots = rt[r].slots
         /\ rt[r].pc \notin {"none", "run"} /\ rt'[r].pc \notin {"none", "run"}
  BY DEF CloseStep, drain, DrainTimeout, KillWorkers, Close, TypeOK, RtState

LEMMA StepClosePools ==
  ASSUME TypeOK, TypeOK', PoolsOK, NEW r \in Rt, CloseStep(r)
  PROVE  PoolsOK'
<1>1. /\ UNCHANGED call /\ \A q \in Rt : q # r => rt'[q] = rt[q]
      /\ CalmRuntime(r)
  BY ClosePhases, PhaseCalm
<1>2. CASE KillWorkers(r)
  <2>1. ASSUME NEW v \in Worker
        PROVE  Still(v) \/ CalmWorker(v)
    <3>1. wk'[v] = wk[v] \/ (SameBut(v, {"proc"}) /\ wk'[v].proc = "gone" /\ InSlot(r, v))
      BY <1>2, KillFields
    <3>2. ASSUME SameBut(v, {"proc"}), wk'[v].proc = "gone", InSlot(r, v)
          PROVE  CalmWorker(v)
      <4>1. SameBut(v, {"proc", "probe"}) /\ wk'[v].probe = wk[v].probe /\ wk[v].proc # "none"
        BY <3>2 DEF SameBut, PoolsOK, SlotsOK
      <4>2. QED
        BY <3>2, <4>1, SameCalm
    <3>3. QED
      BY <3>1, <3>2 DEF Still
  <2>2. QED
    BY <1>1, <2>1, CalmStep
<1>3. CASE UNCHANGED wk
  BY <1>1, <1>3, CalmStep DEF Still
<1>4. QED
  BY <1>2, <1>3 DEF CloseStep, drain, DrainTimeout, Close

(* A runtime is built from workers nothing referred to.                    *)
LEMMA BuiltPools ==
  ASSUME TypeOK, TypeOK', PoolsOK, NEW r \in Rt, Built(r), UNCHANGED call
  PROVE  PoolsOK'
<1> DEFINE Mine(v) == \E s \in Slot : v = First(r, s)
<1>1. /\ \A q \in Rt : q # r => rt'[q] = rt[q]
      /\ rt'[r].pc = "run"
      /\ \A v \in Worker : InSlot(r, v)' <=> Mine(v)
      /\ \A v \in Worker : IF Mine(v)
                          THEN /\ wk'[v].rt = r /\ wk'[v].proc = "up" /\ wk'[v].healthy
                               /\ wk'[v].probe = "no" /\ wk'[v].restart = "no"
                               /\ wk'[v].restarts = 0
                          ELSE wk'[v] = wk[v]
  BY BuiltFields
<1>2. rt[r].pc = "none"
  BY DEF Built
<1>3. ASSUME NEW v \in Worker, Mine(v)
      PROVE  /\ wk[v].proc = "none" /\ wk[v] = NoWorker
             /\ \A q \in Rt : ~InSlot(q, v)
             /\ \A c \in Call : ~Sent(c, v)
             /\ \A u \in Worker : ~IsNext(u, v) /\ ~IsNext(v, u)
  <2>1. wk[v].proc = "none"
    BY <1>2, <1>3 DEF PoolsOK, UnbuiltOK
  <2>2. wk[v] = NoWorker
    BY <2>1 DEF PoolsOK, WorkersOK
  <2>3. wk[v].restart = "no"
    BY <2>2 DEF NoWorker
  <2>4. QED
    BY <2>1, <2>2, <2>3 DEF PoolsOK, SlotsOK, CallsOK, NextsOK, Sent, IsNext
<1>4. \A q \in Rt, v \in Worker : q # r => (InSlot(q, v)' <=> InSlot(q, v))
  BY <1>1 DEF InSlot
<1>5. \A q \in Rt, s \in Slot : q # r => ~Mine(First(q, s))
  BY FirstInjective
<1> HIDE DEF Mine
<1>6. \A v \in Worker : ~Mine(v) => \A q \in Rt : InSlot(q, v)' => InSlot(q, v) /\ q # r
  BY <1>1, <1>4
<1>7. WorkersOK'
  BY <1>1, <1>3 DEF PoolsOK, WorkersOK
<1>8. SlotsOK'
  BY <1>1, <1>3, <1>4 DEF PoolsOK, SlotsOK
<1>9. CallsOK'
  BY <1>1 DEF PoolsOK, CallsOK
<1>10. \A u, v \in Worker : IsNext(u, v)' => ~Mine(u) /\ ~Mine(v) /\ IsNext(u, v)
  <2> SUFFICES ASSUME NEW u \in Worker, NEW v \in Worker, IsNext(u, v)'
      PROVE  ~Mine(u) /\ ~Mine(v) /\ IsNext(u, v)
    OBVIOUS
  <2>1. ~Mine(u)
    BY <1>1 DEF IsNext
  <2>2. IsNext(u, v)
    BY <1>1, <2>1 DEF IsNext
  <2>3. QED
    BY <1>3, <2>1, <2>2
<1>11. NextsOK'
  <2> SUFFICES ASSUME NEW u \in Worker, NEW v \in Worker, IsNext(u, v)'
      PROVE  /\ wk'[v].proc # "none" /\ wk'[v].rt = wk'[u].rt
             /\ wk'[v].healthy /\ wk'[v].probe = "no"
             /\ \A q \in Rt : ~InSlot(q, v)'
             /\ \A c \in Call : ~Sent(c, v)'
             /\ \A x \in Worker : IsNext(x, v)' => x = u
    BY DEF NextsOK
  <2>0. \A c \in Call : Sent(c, v)' <=> Sent(c, v)
    BY DEF Sent
  <2>1. ~Mine(u) /\ ~Mine(v) /\ IsNext(u, v)
    BY <1>10
  <2>2. wk'[u] = wk[u] /\ wk'[v] = wk[v]
    BY <1>1, <2>1
  <2>3. QED
    BY <1>6, <1>10, <2>0, <2>1, <2>2 DEF PoolsOK, NextsOK
<1>12. UnbuiltOK'
  BY <1>1, <1>5, FirstType DEF PoolsOK, UnbuiltOK
<1>13. QED
  BY <1>7, <1>8, <1>9, <1>11, <1>12 DEF PoolsOK

LEMMA StepReloadPools ==
  ASSUME TypeOK, TypeOK', PoolsOK, OwnersOK,
         (\E l \in Reloader : ReloadStep(l)) \/ SwapClose
  PROVE  PoolsOK'
<1>1. ASSUME UNCHANGED <<wk, call, rt>>
      PROVE  PoolsOK'
  BY <1>1, CalmStep DEF Still
<1>2. ASSUME NEW r \in Rt, rt[r].pc # "none", rt' = Closing(r), UNCHANGED <<wk, call>>
      PROVE  PoolsOK'
  <2>1. CalmRuntime(r) /\ \A q \in Rt : q # r => rt'[q] = rt[q]
    BY <1>2, ClosingType DEF CalmRuntime, Closed
  <2>2. QED
    BY <1>2, <2>1, CalmStep DEF Still
<1>3. ASSUME NEW l \in Reloader, New(l)
      PROVE  PoolsOK'
  BY <1>1, <1>3, BuiltPools DEF New, Built
<1>4. ASSUME NEW l \in Reloader, Swap(l)
      PROVE  PoolsOK'
  <2>1. CASE Swapped(l) = None
    BY <1>1, <1>4, <2>1 DEF Swap
  <2>2. CASE Swapped(l) # None
    <3>1. Swapped(l) \in Rt /\ rt[Swapped(l)].pc # "none"
      BY <1>4, <2>2 DEF Swap, Swapped, OwnersOK, Holds, TypeOK, ReloadState
    <3>2. QED
      BY <1>2, <1>4, <2>2, <3>1 DEF Swap
  <2>3. QED
    BY <2>1, <2>2
<1>5. CASE SwapClose
  <2>1. CASE cur = None
    BY <1>1, <1>5, <2>1 DEF SwapClose
  <2>2. CASE cur # None
    <3>1. cur \in Rt /\ rt[cur].pc # "none"
      BY <2>2 DEF OwnersOK, TypeOK
    <3>2. QED
      BY <1>2, <1>5, <2>2, <3>1 DEF SwapClose
  <2>3. QED
    BY <2>1, <2>2
<1>6. QED
  BY <1>1, <1>3, <1>4, <1>5 DEF ReloadStep, EndReload
-----------------------------------------------------------------------------
(* Owners: every runtime that runs is the current one or about to be.      *)

LEMMA OwnersStep ==
  ASSUME OwnersOK, UNCHANGED <<cur, swapClosed, reload>>,
         \A r \in Rt : (rt'[r].pc = "run") <=> (rt[r].pc = "run"), cur \in Rt \cup {None}
  PROVE  OwnersOK'
<1>1. \A l \in Reloader, r \in Rt : Holds(l, r)' <=> Holds(l, r)
  BY DEF Holds
<1>2. QED
  BY <1>1 DEF OwnersOK

(* The reload of l has moved to x, and no other has.                       *)
ReloadMoves(l, x) ==
  /\ reload'[l] = x
  /\ \A k \in Reloader : k # l => reload'[k] = reload[k]

LEMMA ReloadFields ==
  ASSUME TypeOK, NEW l \in Reloader, NEW x, reload' = [reload EXCEPT ![l] = x]
  PROVE  ReloadMoves(l, x)
  BY DEF TypeOK, ReloadMoves

LEMMA ReloadHolds ==
  ASSUME NEW l \in Reloader, NEW x, ReloadMoves(l, x)
  PROVE  \A k \in Reloader, r \in Rt :
           Holds(k, r)' <=> IF k = l THEN x.pc = "swap" /\ x.new = r ELSE Holds(k, r)
  BY DEF ReloadMoves, Holds

LEMMA ClosingFields ==
  ASSUME TypeOK, NEW r \in Rt, rt[r].pc = "run", rt' = Closing(r)
  PROVE  /\ rt'[r].pc = "drain" /\ rt'[r].drained = rt[r].drained
         /\ \A q \in Rt : q # r => rt'[q] = rt[q]
  BY DEF Closing, Closed, TypeOK, RtState

LEMMA EndOwners ==
  ASSUME TypeOK, OwnersOK, NEW l \in Reloader, EndReload(l)
  PROVE  OwnersOK'
<1> DEFINE x == NoReload
<1>1. x.pc = "idle" /\ x.new = None /\ reload' = [reload EXCEPT ![l] = x]
  BY DEF NoReload, EndReload
<1> HIDE DEF x
<1>2. UNCHANGED <<cur, swapClosed, rt>> /\ reload[l].pc # "swap"
  BY DEF EndReload
<1>3. ReloadMoves(l, x)
  BY <1>1, ReloadFields
<1>4. \A k \in Reloader, r \in Rt : Holds(k, r)' <=> Holds(k, r)
  BY <1>1, <1>2, <1>3, ReloadHolds DEF Holds
<1>5. \A k \in Reloader : reload'[k].pc = "idle" => reload'[k].new = None
  BY <1>1, <1>3 DEF OwnersOK, ReloadMoves
<1>6. \A k \in Reloader : reload'[k].pc = "close" => reload'[k].old \in Rt
  BY <1>1, <1>3 DEF OwnersOK, ReloadMoves
<1>7. QED
  BY <1>2, <1>4, <1>5, <1>6 DEF OwnersOK

LEMMA NewOwners ==
  ASSUME TypeOK, OwnersOK, NEW l \in Reloader, New(l)
  PROVE  OwnersOK'
<1>0. UNCHANGED <<cur, swapClosed>> /\ reload[l] \in ReloadState /\ None \notin Rt
      /\ reload[l].pc = "idle" /\ reload[l].new = None /\ cur \in Rt \cup {None}
  BY DEF New, TypeOK, OwnersOK, None, Rt
<1>1. ASSUME NEW x, ReloadMoves(l, x), UNCHANGED rt, x.new = None, x.pc # "close"
      PROVE  OwnersOK'
  <2>1. \A k \in Reloader, r \in Rt : Holds(k, r)' <=> Holds(k, r)
    BY <1>0, <1>1, ReloadHolds DEF Holds
  <2>2. \A k \in Reloader : reload'[k].pc = "idle" => reload'[k].new = None
    BY <1>1 DEF OwnersOK, ReloadMoves
  <2>3. \A k \in Reloader : reload'[k].pc = "close" => reload'[k].old \in Rt
    BY <1>1 DEF OwnersOK, ReloadMoves
  <2>4. QED
    BY <1>0, <1>1, <2>1, <2>2, <2>3 DEF OwnersOK
<1>2. CASE reload' = [reload EXCEPT ![l].pc = "swap"] /\ UNCHANGED rt
  <2> DEFINE x == [reload[l] EXCEPT !.pc = "swap"]
  <2>1. x.pc = "swap" /\ x.new = None
    BY <1>0 DEF ReloadState
  <2>2. reload' = [reload EXCEPT ![l] = x]
    BY <1>2
  <2> HIDE DEF x
  <2>3. ReloadMoves(l, x)
    BY <2>2, ReloadFields
  <2>4. QED
    BY <1>1, <1>2, <2>1, <2>3
<1>3. ASSUME NEW r \in Rt, Built(r),
             reload' = [reload EXCEPT ![l].pc = "swap", ![l].new = r]
      PROVE  OwnersOK'
  <2> DEFINE j == [reload[l] EXCEPT !.pc = "swap"]
             x == [j EXCEPT !.new = r]
  <2>1. j \in ReloadState /\ j.pc = "swap"
    BY <1>0 DEF ReloadState
  <2>2. reload' = [[reload EXCEPT ![l] = j] EXCEPT ![l] = [j EXCEPT !.new = r]]
    BY <1>3, <1>0 DEF TypeOK
  <2> HIDE DEF j
  <2>3. x.pc = "swap" /\ x.new = r
    BY <2>1 DEF ReloadState
  <2>4. reload' = [reload EXCEPT ![l] = x]
    BY <2>2 DEF TypeOK
  <2> HIDE DEF x
  <2>5. ReloadMoves(l, x)
    BY <2>4, ReloadFields
  <2>6. /\ rt[r].pc = "none" /\ rt'[r].pc = "run"
        /\ \A q \in Rt : q # r => rt'[q] = rt[q]
    BY <1>3, BuiltFields DEF Built
  <2>7. \A k \in Reloader, q \in Rt :
          Holds(k, q)' <=> IF k = l THEN q = r ELSE Holds(k, q)
    BY <2>3, <2>5, ReloadHolds
  <2>8. cur # r /\ \A k \in Reloader : ~Holds(k, r)
    BY <1>0, <2>6 DEF OwnersOK
  <2>9. \A k \in Reloader : reload'[k].pc = "idle" => reload'[k].new = None
    BY <2>3, <2>5 DEF OwnersOK, ReloadMoves
  <2>10. \A k \in Reloader : reload'[k].pc = "close" => reload'[k].old \in Rt
    BY <2>3, <2>5 DEF OwnersOK, ReloadMoves
  <2>11. \A q \in Rt : rt'[q].pc = "run" => cur = q \/ \E k \in Reloader : Holds(k, q)'
    <3> SUFFICES ASSUME NEW q \in Rt, rt'[q].pc = "run", cur # q
                 PROVE  \E k \in Reloader : Holds(k, q)'
      OBVIOUS
    <3>1. CASE q = r
      BY <3>1, <2>7
    <3>2. CASE q # r
      <4>1. PICK k \in Reloader : Holds(k, q)
        BY <3>2, <2>6 DEF OwnersOK
      <4>2. k # l
        BY <4>1, <1>0 DEF Holds
      <4>3. QED
        BY <4>1, <4>2, <2>7
    <3>3. QED
      BY <3>1, <3>2
  <2>12. \A k \in Reloader, q \in Rt : Holds(k, q)' =>
           /\ rt'[q].pc = "run" /\ cur # q
           /\ \A i \in Reloader : Holds(i, q)' => i = k
    BY <2>6, <2>7, <2>8 DEF OwnersOK
  <2>13. cur # None => rt'[cur].pc = "run" /\ ~swapClosed
    BY <1>0, <2>6, <2>8 DEF OwnersOK
  <2>14. QED
    BY <1>0, <2>9, <2>10, <2>11, <2>12, <2>13 DEF OwnersOK
<1>4. QED
  BY <1>2, <1>3 DEF New, Built

(* The previous runtime is closed by whoever swapped it out; after the     *)
(* close of the swap, the new one is.                                      *)
LEMMA SwapOwners ==
  ASSUME TypeOK, OwnersOK, NEW l \in Reloader, Swap(l)
  PROVE  OwnersOK'
<1>0. /\ reload[l] \in ReloadState /\ None \notin Rt /\ cur \in Rt \cup {None}
      /\ reload[l].pc = "swap" /\ UNCHANGED swapClosed
      /\ cur' = IF swapClosed THEN cur ELSE reload[l].new
  BY DEF Swap, TypeOK, None, Rt
<1>1. \A r \in Rt : Holds(l, r) <=> reload[l].new = r
  BY <1>0 DEF Holds
<1>2. reload[l].new # None => Holds(l, reload[l].new)
  BY <1>0, <1>1 DEF ReloadState
<1>3. Swapped(l) # None => Swapped(l) \in Rt /\ rt[Swapped(l)].pc = "run"
  BY <1>0, <1>2 DEF Swapped, OwnersOK, ReloadState
<1>4. PICK x : /\ ReloadMoves(l, x)
               /\ x.pc \in {"idle", "close"}
               /\ x.pc = "idle" => x.new = None
               /\ x.pc = "close" => x.old \in Rt
  <2>1. CASE Swapped(l) = None
    <3>1. ReloadMoves(l, NoReload) /\ NoReload.pc = "idle" /\ NoReload.new = None
      BY <2>1, ReloadFields DEF Swap, NoReload
    <3>2. QED
      BY <3>1
  <2>2. CASE Swapped(l) # None
    <3> DEFINE j == [reload[l] EXCEPT !.pc = "close"]
               y == [j EXCEPT !.old = Swapped(l)]
    <3>1. j \in ReloadState /\ j.pc = "close"
      BY <1>0 DEF ReloadState
    <3>2. reload' = [[reload EXCEPT ![l] = j] EXCEPT ![l] = [j EXCEPT !.old = Swapped(l)]]
      BY <2>2 DEF Swap, TypeOK
    <3> HIDE DEF j
    <3>3. y.pc = "close" /\ y.old = Swapped(l)
      BY <3>1 DEF ReloadState
    <3>4. reload' = [reload EXCEPT ![l] = y]
      BY <3>2 DEF TypeOK
    <3> HIDE DEF y
    <3>5. ReloadMoves(l, y)
      BY <3>4, ReloadFields
    <3>6. QED
      BY <1>3, <2>2, <3>3, <3>5
  <2>3. QED
    BY <2>1, <2>2
<1>5. \A k \in Reloader, r \in Rt : Holds(k, r)' <=> k # l /\ Holds(k, r)
  BY <1>4, ReloadHolds
<1>6. \A r \in Rt : rt'[r].pc = "run" <=> (rt[r].pc = "run" /\ r # Swapped(l))
  <2>1. CASE Swapped(l) = None
    BY <1>0, <2>1 DEF Swap
  <2>2. CASE Swapped(l) # None
    BY <1>3, <2>2, ClosingFields DEF Swap
  <2>3. QED
    BY <2>1, <2>2
<1>7. \A k \in Reloader :
        /\ reload'[k].pc = "idle" => reload'[k].new = None
        /\ reload'[k].pc = "close" => reload'[k].old \in Rt
  BY <1>4 DEF OwnersOK, ReloadMoves
<1>8. cur' # None => rt'[cur'].pc = "run" /\ ~swapClosed'
  <2>1. CASE swapClosed
    BY <1>0, <2>1 DEF OwnersOK
  <2>2. CASE ~swapClosed
    <3>1. cur' = reload[l].new /\ Swapped(l) = cur
      BY <1>0, <2>2 DEF Swapped
    <3>2. cur' # None => Holds(l, cur') /\ cur' \in Rt
      BY <1>0, <1>2, <3>1 DEF ReloadState
    <3>3. QED
      BY <1>0, <1>6, <2>2, <3>1, <3>2 DEF OwnersOK
  <2>3. QED
    BY <2>1, <2>2
<1>9. \A r \in Rt : rt'[r].pc = "run" => cur' = r \/ \E k \in Reloader : Holds(k, r)'
  <2> SUFFICES ASSUME NEW r \in Rt, rt'[r].pc = "run", cur' # r
               PROVE  \E k \in Reloader : Holds(k, r)'
    OBVIOUS
  <2>1. rt[r].pc = "run" /\ r # Swapped(l)
    BY <1>6
  <2>2. cur # r /\ ~Holds(l, r)
    BY <1>0, <1>1, <2>1 DEF Swapped, OwnersOK
  <2>3. PICK k \in Reloader : Holds(k, r)
    BY <2>1, <2>2 DEF OwnersOK
  <2>4. QED
    BY <1>5, <2>2, <2>3
<1>10. \A k \in Reloader, r \in Rt : Holds(k, r)' =>
         /\ rt'[r].pc = "run" /\ cur' # r
         /\ \A i \in Reloader : Holds(i, r)' => i = k
  <2> SUFFICES ASSUME NEW k \in Reloader, NEW r \in Rt, Holds(k, r)'
               PROVE  /\ rt'[r].pc = "run" /\ cur' # r
                      /\ \A i \in Reloader : Holds(i, r)' => i = k
    OBVIOUS
  <2>1. k # l /\ Holds(k, r) /\ rt[r].pc = "run" /\ cur # r /\ ~Holds(l, r)
    BY <1>5 DEF OwnersOK
  <2>2. r # reload[l].new
    BY <1>1, <2>1
  <2>3. QED
    BY <1>0, <1>5, <1>6, <2>1, <2>2 DEF Swapped, OwnersOK
<1>11. QED
  BY <1>7, <1>8, <1>9, <1>10 DEF OwnersOK

LEMMA SwapCloseOwners ==
  ASSUME TypeOK, OwnersOK, SwapClose
  PROVE  OwnersOK'
<1>0. UNCHANGED reload /\ cur' = None /\ None \notin Rt /\ cur \in Rt \cup {None}
  BY DEF SwapClose, TypeOK, None, Rt
<1>1. \A r \in Rt : rt'[r].pc = "run" <=> (rt[r].pc = "run" /\ r # cur)
  <2>1. CASE cur = None
    BY <1>0, <2>1 DEF SwapClose
  <2>2. CASE cur # None
    BY <1>0, <2>2, ClosingFields DEF SwapClose, OwnersOK
  <2>3. QED
    BY <2>1, <2>2
<1>2. \A l \in Reloader, r \in Rt : Holds(l, r)' <=> Holds(l, r)
  BY <1>0 DEF Holds
<1>3. QED
  BY <1>0, <1>1, <1>2 DEF OwnersOK

LEMMA StepOwners == IInv /\ [Next]_vars => OwnersOK'
<1> SUFFICES ASSUME IInv, [Next]_vars PROVE OwnersOK'
  OBVIOUS
<1>0. TypeOK /\ OwnersOK /\ PoolsOK /\ cur \in Rt \cup {None}
  BY DEF IInv, PoolsOK, TypeOK
<1>1. ASSUME NEW c \in Call, CallStep(c) PROVE OwnersOK'
  <2>1. UNCHANGED <<cur, swapClosed, rt, reload>>
    BY <1>1 DEF CallStep, LoadCurrent, Invoke, Answered, classifyTransport, classifyDeadline
  <2>2. QED
    BY <1>0, <2>1, OwnersStep
<1>2. ASSUME NEW w \in Worker, RestartStep(w) \/ Fault(w) PROVE OwnersOK'
  <2>1. UNCHANGED <<cur, swapClosed, reload>>
    BY <1>2 DEF RestartStep, responsive, ProbeReplaces, Reap, spawnWorker, waitHealthy,
       SpawnFails, Install, Fault
  <2>2. UNCHANGED rt \/ Install(w)
    BY <1>2 DEF RestartStep, responsive, ProbeReplaces, Reap, spawnWorker, waitHealthy,
       SpawnFails, Fault
  <2>3. \A r \in Rt : rt'[r].pc = rt[r].pc
    BY <1>0, <2>2, InstallFields
  <2>4. QED
    BY <1>0, <2>1, <2>3, OwnersStep
<1>3. ASSUME NEW r \in Rt, CloseStep(r) PROVE OwnersOK'
  <2>1. /\ UNCHANGED <<cur, swapClosed, reload>>
        /\ \A q \in Rt : (rt'[q].pc = "run") <=> (rt[q].pc = "run")
    BY <1>0, <1>3, ClosePhases
  <2>2. QED
    BY <1>0, <2>1, OwnersStep
<1>4. ASSUME NEW l \in Reloader, ReloadStep(l) PROVE OwnersOK'
  BY <1>0, <1>4, NewOwners, SwapOwners, EndOwners DEF ReloadStep
<1>5. CASE SwapClose
  BY <1>0, <1>5, SwapCloseOwners
<1>6. CASE UNCHANGED vars
  BY <1>0, <1>6, OwnersStep DEF vars
<1>7. QED
  BY <1>1, <1>2, <1>3, <1>4, <1>5, <1>6 DEF Next
-----------------------------------------------------------------------------
(* The drain: a runtime admits at most its limit, its drain included.      *)

LEMMA CountCalls ==
  ASSUME NEW H \in SUBSET Call
  PROVE  /\ IsFiniteSet(H) /\ Cardinality(H) \in Nat
         /\ \A G \in SUBSET H : Cardinality(G) \in Nat /\ Cardinality(G) <= Cardinality(H)
         /\ \A c \in Call : Cardinality(H \cup {c}) <= Cardinality(H) + 1
         /\ Cardinality(H) = 0 => H = {}
<1>1. IsFiniteSet(H) /\ Cardinality(H) \in Nat
  BY FuncAssumption, FS_Subset, FS_CardinalityType
<1>2. ASSUME NEW G \in SUBSET H
      PROVE  Cardinality(G) \in Nat /\ Cardinality(G) <= Cardinality(H)
  BY <1>1, FS_Subset, FS_CardinalityType
<1>3. ASSUME NEW c \in Call
      PROVE  Cardinality(H \cup {c}) <= Cardinality(H) + 1
  <2>1. Cardinality(H \cup {c}) = IF c \in H THEN Cardinality(H) ELSE Cardinality(H) + 1
    BY <1>1, FS_AddElement, Zenon
  <2>2. QED
    BY <1>1, <2>1
<1>4. Cardinality(H) = 0 => H = {}
  BY <1>1, FS_EmptySet
<1>5. QED
  BY <1>1, <1>2, <1>3, <1>4

(* What DrainsOK says of one runtime.                                      *)
Full(r) == rt[r].pc \in {"wait", "scan", "closed"} /\ ~rt[r].timedOut
DrainOK(r) == InFlight(r) <= MaxInFlight /\ (Full(r) => rt[r].drained = MaxInFlight)

(* Fewer calls, and no more slots drained.                                 *)
LEMMA CalmDrain ==
  ASSUME TypeOK, TypeOK', NEW r \in Rt, DrainOK(r), Holders(r)' \subseteq Holders(r),
         rt'[r].drained = rt[r].drained, Full(r)' => Full(r) \/ rt[r].drained = MaxInFlight
  PROVE  DrainOK(r)'
<1> DEFINE H == Holders(r)
           G == Holders(r)'
<1>1. H \in SUBSET Call /\ G \in SUBSET H
  BY DEF Holders
<1>2. rt[r].drained \in Nat /\ MaxInFlight \in Nat
  BY FuncAssumption DEF TypeOK, RtState
<1>3. InFlight(r) = Cardinality(H) + rt[r].drained
      /\ InFlight(r)' = Cardinality(G) + rt'[r].drained
  BY DEF InFlight
<1> HIDE DEF H, G
<1>4. Cardinality(H) \in Nat /\ Cardinality(G) \in Nat /\ Cardinality(G) <= Cardinality(H)
  BY <1>1, CountCalls
<1>5. InFlight(r)' <= MaxInFlight
  BY <1>2, <1>3, <1>4 DEF DrainOK
<1>6. QED
  BY <1>5 DEF DrainOK

(* One more call, or one more slot drained, where there was room.          *)
LEMMA InvokeDrain ==
  ASSUME TypeOK, NEW r \in Rt, NEW c \in Call, DrainOK(r), InFlight(r) < MaxInFlight,
         Holders(r)' \subseteq Holders(r) \cup {c}, UNCHANGED rt
  PROVE  DrainOK(r)'
<1> DEFINE H == Holders(r)
           G == Holders(r)'
<1>1. H \in SUBSET Call /\ H \cup {c} \in SUBSET Call /\ G \in SUBSET (H \cup {c})
  BY DEF Holders
<1>2. rt[r].drained \in Nat /\ MaxInFlight \in Nat
  BY FuncAssumption DEF TypeOK, RtState
<1>3. InFlight(r) = Cardinality(H) + rt[r].drained
      /\ InFlight(r)' = Cardinality(G) + rt[r].drained
  BY DEF InFlight
<1> HIDE DEF H, G
<1>4. /\ Cardinality(H) \in Nat /\ Cardinality(G) \in Nat
      /\ Cardinality(H \cup {c}) \in Nat
      /\ Cardinality(G) <= Cardinality(H \cup {c})
      /\ Cardinality(H \cup {c}) <= Cardinality(H) + 1
  BY <1>1, CountCalls
<1>5. InFlight(r)' <= MaxInFlight
  BY <1>2, <1>3, <1>4
<1>6. QED
  BY <1>5 DEF DrainOK, Full

LEMMA CloseDrain ==
  ASSUME TypeOK, TypeOK', NEW r \in Rt, DrainOK(r), CloseStep(r)
  PROVE  DrainOK(r)'
<1>0. /\ rt \in [Rt -> RtState] /\ rt[r] \in RtState /\ UNCHANGED call
      /\ MaxInFlight \in Nat
  BY FuncAssumption, ClosePhases DEF TypeOK
<1>1. Holders(r)' = Holders(r)
  BY <1>0 DEF Holders
<1>2. CASE /\ rt[r].pc = "drain" /\ InFlight(r) < MaxInFlight
           /\ rt' = [rt EXCEPT ![r].drained = @ + 1]
  <2>1. rt'[r].drained = rt[r].drained + 1 /\ rt'[r].pc = "drain" /\ rt[r].drained \in Nat
    BY <1>0, <1>2 DEF RtState
  <2>2. Cardinality(Holders(r)) \in Nat
    BY CountCalls DEF Holders
  <2>3. InFlight(r)' = Cardinality(Holders(r)) + rt'[r].drained
    BY <1>1 DEF InFlight
  <2>4. InFlight(r)' <= MaxInFlight
    BY <1>0, <1>2, <2>1, <2>2, <2>3 DEF InFlight
  <2>5. QED
    BY <2>1, <2>4 DEF DrainOK, Full
<1>3. CASE rt[r].drained = MaxInFlight /\ rt' = [rt EXCEPT ![r].pc = "wait"]
  <2>1. rt'[r].drained = rt[r].drained
    BY <1>0, <1>3 DEF RtState
  <2>2. QED
    BY <1>1, <1>3, <2>1, CalmDrain
<1>4. CASE DrainTimeout(r)
  <2>1. rt'[r].drained = rt[r].drained /\ rt'[r].timedOut
    BY <1>0, <1>4 DEF DrainTimeout, RtState
  <2>2. QED
    BY <1>1, <2>1, CalmDrain DEF Full
<1>5. CASE KillWorkers(r) \/ Close(r)
  <2>1. /\ rt'[r].drained = rt[r].drained /\ rt'[r].timedOut = rt[r].timedOut
        /\ rt[r].pc \in {"wait", "scan"}
    BY <1>0, <1>5 DEF KillWorkers, Close, RtState
  <2>2. QED
    BY <1>1, <2>1, CalmDrain DEF Full
<1>6. QED
  BY <1>2, <1>3, <1>4, <1>5 DEF CloseStep, drain

LEMMA StepDrains == IInv /\ TypeOK' /\ [Next]_vars => DrainsOK'
<1> SUFFICES ASSUME IInv, TypeOK', [Next]_vars, NEW r \in Rt PROVE DrainOK(r)'
  BY DEF DrainsOK, DrainOK, Full
<1>0. /\ TypeOK /\ OwnersOK /\ PoolsOK /\ DrainOK(r)
      /\ rt \in [Rt -> RtState] /\ call \in [Call -> CallState]
  BY DEF IInv, PoolsOK, TypeOK, DrainsOK, DrainOK, Full
<1>1. ASSUME UNCHANGED call, rt'[r].drained = rt[r].drained, Full(r)' => Full(r)
      PROVE  DrainOK(r)'
  <2>1. Holders(r)' = Holders(r)
    BY <1>1 DEF Holders
  <2>2. QED
    BY <1>0, <1>1, <2>1, CalmDrain
<1>2. ASSUME NEW c \in Call, CallStep(c) PROVE DrainOK(r)'
  <2>1. UNCHANGED rt
    BY <1>2 DEF CallStep, LoadCurrent, Invoke, Answered, classifyTransport, classifyDeadline
  <2>2. ASSUME \A d \in Call : d # c => call'[d] = call[d], call'[c].pc # "sent"
        PROVE  DrainOK(r)'
    <3>1. Holders(r)' \subseteq Holders(r)
      BY <2>2 DEF Holders
    <3>2. QED
      BY <1>0, <2>1, <3>1, CalmDrain DEF Full
  <2>3. ASSUME NEW w, InFlight(call[c].rt) < MaxInFlight,
               call' = [call EXCEPT ![c].pc = "sent", ![c].w = w]
        PROVE  DrainOK(r)'
    <3>1. /\ \A d \in Call : d # c => call'[d] = call[d]
          /\ call'[c].rt = call[c].rt
      BY <1>0, <2>3 DEF CallState
    <3>2. CASE call[c].rt = r
      <4>1. Holders(r)' \subseteq Holders(r) \cup {c}
        BY <3>1 DEF Holders
      <4>2. QED
        BY <1>0, <2>1, <2>3, <3>2, <4>1, InvokeDrain
    <3>3. CASE call[c].rt # r
      <4>1. Holders(r)' \subseteq Holders(r)
        BY <3>1, <3>3 DEF Holders
      <4>2. QED
        BY <1>0, <2>1, <4>1, CalmDrain DEF Full
    <3>4. QED
      BY <3>2, <3>3
  <2>4. CASE Return(c)
    <3>1. \A d \in Call : d # c => call'[d] = call[d]
      BY <1>0, <2>4 DEF Return
    <3>2. call'[c].pc # "sent"
      BY <1>0, <2>4 DEF Return, NoCall
    <3>3. QED
      BY <2>2, <3>1, <3>2
  <2>5. CASE call' = [call EXCEPT ![c].pc = "loaded", ![c].rt = cur]
    <3>1. /\ \A d \in Call : d # c => call'[d] = call[d]
          /\ call'[c].pc = "loaded"
      BY <1>0, <2>5 DEF CallState
    <3>2. QED
      BY <2>2, <3>1
  <2>6. QED
    BY <1>2, <2>3, <2>4, <2>5
    DEF CallStep, LoadCurrent, Invoke, Answered, classifyTransport, classifyDeadline
<1>3. ASSUME NEW w \in Worker, RestartStep(w) \/ Fault(w) PROVE DrainOK(r)'
  <2>1. UNCHANGED call
    BY <1>3 DEF RestartStep, responsive, ProbeReplaces, Reap, spawnWorker, waitHealthy,
       SpawnFails, Install, Fault
  <2>2. UNCHANGED rt \/ Install(w)
    BY <1>3 DEF RestartStep, responsive, ProbeReplaces, Reap, spawnWorker, waitHealthy,
       SpawnFails, Fault
  <2>3. /\ rt'[r].drained = rt[r].drained /\ rt'[r].pc = rt[r].pc
        /\ rt'[r].timedOut = rt[r].timedOut
    BY <1>0, <2>2, InstallFields
  <2>4. QED
    BY <1>1, <2>1, <2>3 DEF Full
<1>4. ASSUME NEW q \in Rt, CloseStep(q) PROVE DrainOK(r)'
  <2>1. CASE q = r
    BY <1>0, <1>4, <2>1, CloseDrain
  <2>2. CASE q # r
    BY <1>0, <1>1, <1>4, <2>2, ClosePhases DEF Full
  <2>3. QED
    BY <2>1, <2>2
<1>5. ASSUME NEW q \in Rt, rt' = Closing(q), UNCHANGED call PROVE DrainOK(r)'
  BY <1>0, <1>1, <1>5, ClosingType DEF Full, Closed
<1>6. ASSUME NEW q \in Rt, Built(q), UNCHANGED call PROVE DrainOK(r)'
  BY <1>0, <1>1, <1>6, BuiltFields DEF Full
<1>7. CASE UNCHANGED <<rt, call>>
  BY <1>1, <1>7 DEF Full
<1>8. ASSUME NEW l \in Reloader, ReloadStep(l) PROVE DrainOK(r)'
  <2>1. CASE Swap(l)
    <3>1. Swapped(l) # None => Swapped(l) \in Rt
      BY <1>0 DEF Swapped, TypeOK, ReloadState
    <3>2. QED
      BY <1>5, <1>7, <2>1, <3>1 DEF Swap
  <2>2. QED
    BY <1>6, <1>7, <1>8, <2>1 DEF ReloadStep, New, EndReload, Built
<1>9. CASE SwapClose
  BY <1>0, <1>5, <1>7, <1>9 DEF SwapClose, TypeOK
<1>10. CASE UNCHANGED vars
  BY <1>7, <1>10 DEF vars
<1>11. QED
  BY <1>2, <1>3, <1>4, <1>8, <1>9, <1>10 DEF Next
-----------------------------------------------------------------------------
(* The inductive invariant holds at first, and every step keeps it.        *)

LEMMA StepIInv == IInv /\ [Next]_vars => IInv'
<1> SUFFICES ASSUME IInv, [Next]_vars PROVE IInv'
  OBVIOUS
<1>1. TypeOK /\ PoolsOK /\ OwnersOK
  BY DEF IInv, PoolsOK
<1>2. TypeOK'
  BY <1>1, StepType
<1>3. OwnersOK' /\ DrainsOK'
  BY <1>2, StepOwners, StepDrains
<1>4. PoolsOK'
  <2>1. CASE UNCHANGED vars
    BY <1>1, <1>2, <2>1, CalmStep DEF vars, Still
  <2>2. QED
    BY <1>1, <1>2, <2>1, StepCallPools, StepRestartPools, StepClosePools, StepReloadPools
    DEF Next
<1>5. QED
  BY <1>2, <1>3, <1>4 DEF IInv, PoolsOK

LEMMA InitIInv == Init => IInv
<1> SUFFICES ASSUME Init PROVE IInv
  OBVIOUS
<1>0. /\ cur = 1 /\ swapClosed = FALSE /\ call = [c \in Call |-> NoCall]
      /\ reload = [l \in Reloader |-> NoReload]
      /\ 1 \in Rt /\ MaxInFlight \in Nat /\ TypeOK
  <2>1. 1 \in Rt /\ MaxInFlight \in Nat
    BY FuncAssumption DEF Rt
  <2>2. QED
    BY <2>1, InitType DEF Init
<1>a. None \notin Rt /\ None \notin Worker
  BY FuncAssumption DEF Rt, None, Worker
<1> DEFINE Up == [Spawned(1) EXCEPT !.proc = "up"]
<1>1. \A s \in Slot : First(1, s) = s
  BY FuncAssumption DEF First, Slot
<1>2. \A v \in Worker : wk[v] = IF v \in Slot THEN Up ELSE NoWorker
  BY DEF Init
<1>3. /\ Up.rt = 1 /\ Up.proc = "up" /\ Up.healthy /\ Up.probe = "no"
      /\ Up.restart = "no" /\ Up.restarts = 0
  BY DEF Spawned, NoWorker
<1>4. /\ NoWorker.proc = "none" /\ ~NoWorker.healthy /\ NoWorker.restart = "no"
      /\ NoWorker.restarts = 0
  BY DEF NoWorker
<1> HIDE DEF Up
<1> DEFINE f == [s \in Slot |-> First(1, s)]
           k == [NoRt EXCEPT !.pc = "run", !.slots = f]
<1>b. \A r \in Rt : rt[r] = IF r = 1 THEN k ELSE NoRt
  BY DEF Init
<1>d. \A s \in Slot : f[s] = First(1, s)
  OBVIOUS
<1> HIDE DEF f
<1>e. k.pc = "run" /\ k.drained = 0 /\ k.slots = f
  BY DEF NoRt
<1>f. NoRt.pc = "none" /\ NoRt.drained = 0 /\ \A s \in Slot : NoRt.slots[s] = None
  BY DEF NoRt
<1> HIDE DEF k
<1>5. \A r \in Rt : rt[r].pc = (IF r = 1 THEN "run" ELSE "none") /\ rt[r].drained = 0
  BY <1>b, <1>e, <1>f
<1>c. \A r \in Rt, s \in Slot : rt[r].slots[s] = IF r = 1 THEN First(1, s) ELSE None
  BY <1>b, <1>d, <1>e, <1>f
<1>6. \A r \in Rt, v \in Worker : InSlot(r, v) => r = 1 /\ v \in Slot
  <2> SUFFICES ASSUME NEW r \in Rt, NEW v \in Worker, NEW s \in Slot, rt[r].slots[s] = v
               PROVE  r = 1 /\ v \in Slot
    BY DEF InSlot
  <2>1. r = 1
    BY <1>a, <1>c
  <2>2. QED
    BY <1>1, <1>c, <2>1
<1>7. WorkersOK
  <2> SUFFICES ASSUME NEW w \in Worker
      PROVE  /\ wk[w].proc = "none" => wk[w] = NoWorker
             /\ wk[w].proc # "none" => wk[w].rt \in Rt /\ rt[wk[w].rt].pc # "none"
             /\ wk[w].healthy => wk[w].restart = "no" /\ wk[w].restarts = 0
             /\ wk[w].restarts = 0
             /\ wk[w].restart = "no"
    BY DEF WorkersOK
  <2>1. CASE w \in Slot
    BY <1>0, <1>2, <1>3, <1>5, <2>1
  <2>2. CASE w \notin Slot
    BY <1>2, <1>4, <2>2
  <2>3. QED
    BY <2>1, <2>2
<1>8. SlotsOK
  BY <1>2, <1>3, <1>6 DEF SlotsOK
<1>9. CallsOK
  BY <1>0 DEF CallsOK, NoCall
<1>10. NextsOK
  BY <1>2, <1>3, <1>4 DEF NextsOK, IsNext
<1>11. UnbuiltOK
  <2> SUFFICES ASSUME NEW r \in Rt, NEW s \in Slot, rt[r].pc = "none"
               PROVE  wk[First(r, s)].proc = "none"
    BY DEF UnbuiltOK
  <2>1. First(r, s) \notin Slot
    <3>1. r # 1
      BY <1>5
    <3>2. ASSUME NEW t \in Slot, First(r, s) = t PROVE FALSE
      <4>1. First(r, s) = First(1, t)
        BY <1>1, <3>2
      <4>2. QED
        BY <1>0, <3>1, <4>1, FirstInjective
    <3>3. QED
      BY <3>2
  <2>2. QED
    BY <1>2, <1>4, <2>1, FirstType
<1>12. OwnersOK
  BY <1>0, <1>a, <1>5 DEF OwnersOK, Holds, NoReload
<1>13. DrainsOK
  <2> SUFFICES ASSUME NEW r \in Rt
               PROVE  InFlight(r) <= MaxInFlight /\ rt[r].pc \in {"none", "run"}
    BY DEF DrainsOK
  <2>1. Holders(r) = {}
    <3>1. \A c \in Call : call[c].pc = "idle"
      BY <1>0 DEF NoCall
    <3>2. QED
      BY <3>1 DEF Holders
  <2>2. QED
    <3>1. InFlight(r) = 0 + 0
      BY <1>5, <2>1, FS_EmptySet DEF InFlight
    <3>2. rt[r].pc \in {"none", "run"}
      BY <1>5
    <3>3. QED
      BY <1>0, <3>1, <3>2
<1>14. QED
  BY <1>0, <1>7, <1>8, <1>9, <1>10, <1>11, <1>12, <1>13 DEF IInv

LEMMA Invariance == Spec => []IInv
<1>1. QED
  BY InitIInv, StepIInv, PTL DEF Spec
-----------------------------------------------------------------------------
(* Every variable keeps its type: no worker, slot, call or reload refers   *)
(* to a process or a runtime that does not exist.                          *)
THEOREM TypeCorrect == Spec => []TypeOK
<1>1. IInv => TypeOK
  BY DEF IInv
<1>2. QED
  BY <1>1, Invariance, PTL

(* However many calls, probes and closers meet a dead worker, it is        *)
(* replaced at most once, and it never stays in the slot of a runtime that *)
(* runs without a replacement under way.                                   *)
THEOREM CrashIsRepaired == Spec => []CrashIsRepairedOnce
<1>1. IInv => CrashIsRepairedOnce
  BY DEF IInv, WorkersOK, SlotsOK, CrashIsRepairedOnce, OneRestartPerCrash,
         DeadWorkerIsReplaced
<1>2. QED
  BY <1>1, Invariance, PTL

(* Close kills no worker under a running call, whatever the limit and the  *)
(* number of calls, unless the timer of its drain fired.                   *)
THEOREM CloseSparesRunningCalls == Spec => []CloseSparesCalls
<1>1. IInv => CloseSparesCalls
  <2> SUFFICES ASSUME IInv, NEW r \in Rt, rt[r].pc \in {"scan", "closed"}, ~rt[r].timedOut
               PROVE  Holders(r) = {}
    BY DEF CloseSparesCalls, Holders
  <2>1. InFlight(r) <= MaxInFlight /\ rt[r].drained = MaxInFlight
    BY DEF IInv, DrainsOK
  <2>2. Cardinality(Holders(r)) \in Nat /\ (Cardinality(Holders(r)) = 0 => Holders(r) = {})
    BY CountCalls DEF Holders
  <2>3. QED
    BY <2>1, <2>2, FuncAssumption DEF InFlight
<1>2. QED
  BY <1>1, Invariance, PTL

(* No reload and no SwapRuntime.Close loses a runtime: one that runs is    *)
(* the current one, or the reload that is about to swap it in holds it.    *)
THEOREM RuntimesAreOwned == Spec => []EveryRuntimeIsOwned
<1>1. IInv => EveryRuntimeIsOwned
  BY DEF IInv, OwnersOK, Holds, EveryRuntimeIsOwned
<1>2. QED
  BY <1>1, Invariance, PTL
=============================================================================
