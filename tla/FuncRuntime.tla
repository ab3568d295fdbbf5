---------------------------- MODULE FuncRuntime -----------------------------
(***************************************************************************)
(* Server functions: a Runtime keeps a pool of node workers, restarts the  *)
(* ones that die, and drains before it closes; a SwapRuntime replaces the  *)
(* current Runtime while calls run (internal/adapter/funcs).  Short        *)
(* critical sections of Runtime.mu and SwapRuntime.mu are one step each.   *)
(***************************************************************************)
EXTENDS Naturals, FiniteSets

CONSTANTS
  PoolSize,     \* workers of a pool
  Call,         \* goroutines of HTTP calls
  Reloader,     \* goroutines that rebuild the runtime (watchers)
  MaxInFlight,  \* calls a runtime admits at once
  MaxRt,        \* bound: runtimes built
  MaxFault      \* bound: crashes, hangs and slow probes of workers

ASSUME FuncAssumption ==
  /\ MaxInFlight \in Nat \ {0} /\ MaxRt \in Nat \ {0} /\ MaxFault \in Nat
  /\ PoolSize \in Nat \ {0} /\ IsFiniteSet(Call)

Rt     == 1..MaxRt
None   == 0
Slot   == 1..PoolSize
Worker == 1..(MaxRt * PoolSize + MaxFault)

VARIABLES
  cur,        \* SwapRuntime.cur
  swapClosed, \* SwapRuntime.closed
  rt,         \* the runtimes
  wk,         \* the worker processes, with their probe and restart goroutines
  call,       \* the calls
  reload,     \* the reloading goroutines
  faults      \* faults so far (bound)

vars == <<cur, swapClosed, rt, wk, call, reload, faults>>

RtState == [pc: {"none", "run", "drain", "wait", "scan", "closed"},
            slots: [Slot -> Worker \cup {None}],
            drained: 0..MaxInFlight, timedOut: BOOLEAN]
WorkerState ==
  [rt: Rt \cup {None}, proc: {"none", "starting", "up", "hung", "gone"},
   healthy: BOOLEAN, probe: {"no", "ask", "dead"},
   restart: {"no", "reap", "loop", "spawn", "install"},
   restarts: 0..2, next: Worker \cup {None}]
CallState == [pc: {"idle", "loaded", "sent"},
              rt: Rt \cup {None}, w: Worker \cup {None}]
ReloadState == [pc: {"idle", "swap", "close"},
                new: Rt \cup {None}, old: Rt \cup {None}]

TypeOK == /\ cur \in Rt \cup {None} /\ swapClosed \in BOOLEAN
          /\ rt \in [Rt -> RtState] /\ wk \in [Worker -> WorkerState]
          /\ call \in [Call -> CallState] /\ reload \in [Reloader -> ReloadState]
          /\ faults \in 0..MaxFault

NoWorker == [rt |-> None, proc |-> "none", healthy |-> FALSE, probe |-> "no",
             restart |-> "no", restarts |-> 0, next |-> None]
NoCall   == [pc |-> "idle", rt |-> None, w |-> None]
NoReload == [pc |-> "idle", new |-> None, old |-> None]
NoRt     == [pc |-> "none", slots |-> [s \in Slot |-> None],
             drained |-> 0, timedOut |-> FALSE]

Alive(w)  == wk[w].proc \in {"starting", "up", "hung"}
Closed(r) == rt[r].pc \in {"drain", "wait", "scan", "closed"}
InSlot(r, w) == \E s \in Slot : rt[r].slots[s] = w

(* Calls that hold one of the in-flight slots of r.                        *)
Holders(r) == {c \in Call : call[c].rt = r /\ call[c].pc = "sent"}
InFlight(r) == Cardinality(Holders(r)) + rt[r].drained
-----------------------------------------------------------------------------
(* The process spawnWorker starts for runtime r.                           *)
Spawned(r) == [NoWorker EXCEPT !.rt = r, !.proc = "starting", !.healthy = TRUE]
First(r, s) == (r - 1) * PoolSize + s
Spare(w) == w > MaxRt * PoolSize /\ wk[w].proc = "none"

Init == /\ cur = 1 /\ swapClosed = FALSE /\ faults = 0
        /\ rt = [r \in Rt |-> IF r = 1 THEN [NoRt EXCEPT !.pc = "run",
                                              !.slots = [s \in Slot |-> First(1, s)]]
                                       ELSE NoRt]
        /\ wk = [w \in Worker |-> IF w \in Slot THEN [Spawned(1) EXCEPT !.proc = "up"]
                                                ELSE NoWorker]
        /\ call = [c \in Call |-> NoCall]
        /\ reload = [l \in Reloader |-> NoReload]
-----------------------------------------------------------------------------
(* A call: SwapRuntime.Invoke, then Runtime.Invoke.                        *)

(* The answer (ok, saturated, failed, timeout or cancelled) is sent; the    *)
(* deferred receive frees the slot.                                        *)
Return(c) == call' = [call EXCEPT ![c] = NoCall]

LoadCurrent(c) ==
  /\ call[c].pc = "idle"
  /\ IF cur = None THEN Return(c)
                   ELSE call' = [call EXCEPT ![c].pc = "loaded", ![c].rt = cur]
  /\ UNCHANGED <<cur, swapClosed, rt, wk, reload, faults>>

(* A slot is taken, or the call refused at once; then a healthy worker is  *)
(* picked.  Nothing that happens between the two can tell them apart.      *)
pickWorker(r) == {w \in Worker : InSlot(r, w) /\ wk[w].healthy}

Invoke(c) ==
  LET r == call[c].rt
  IN  /\ call[c].pc = "loaded"
      /\ \/ InFlight(r) = MaxInFlight /\ Return(c)          \* ErrSaturated
         \/ InFlight(r) < MaxInFlight /\ pickWorker(r) = {} /\ Return(c)
         \/ /\ InFlight(r) < MaxInFlight
            /\ \E w \in pickWorker(r) :
                 call' = [call EXCEPT ![c].pc = "sent", ![c].w = w]
      /\ UNCHANGED <<cur, swapClosed, rt, wk, reload, faults>>

(* The worker answers, or the caller goes away.                            *)
Answered(c) ==
  /\ call[c].pc = "sent"
  /\ \/ wk[call[c].w].proc = "up" /\ Return(c)
     \/ Return(c)
  /\ UNCHANGED <<cur, swapClosed, rt, wk, reload, faults>>

\* Mutant: the flag is stored, not swapped.
WinsAlways(w) == TRUE
(* The compare-and-swap that only one of the users of a worker wins, and   *)
(* triggerRestart, which starts nothing once the runtime is closed.        *)
WinsCAS(w) == wk[w].healthy
triggerRestart(w) ==
  [wk[w] EXCEPT !.healthy = FALSE,
                !.restart = IF Closed(wk[w].rt) THEN @ ELSE "reap",
                !.restarts = IF Closed(wk[w].rt) THEN @ ELSE @ + 1]

(* The connection breaks, with its worker or by itself: the first to notice *)
(* restarts the worker, dead or not.                                       *)
classifyTransport(c) ==
  LET w == call[c].w
  IN  /\ call[c].pc = "sent"
      /\ \/ ~Alive(w) /\ UNCHANGED faults
         \/ Alive(w) /\ faults < MaxFault /\ faults' = faults + 1
      /\ Return(c)
      /\ wk' = [wk EXCEPT ![w] = IF WinsCAS(w) THEN triggerRestart(w) ELSE @]
      /\ UNCHANGED <<cur, swapClosed, rt, reload>>

\* Mutant: a call on a dead worker has no deadline.
classifyDeadlineIfUp(c) ==
  /\ call[c].pc = "sent" /\ wk[call[c].w].proc = "up" /\ Return(c)
  /\ UNCHANGED <<cur, swapClosed, rt, wk, reload, faults>>
(* The deadline passes: the first to notice probes the worker.             *)
classifyDeadline(c) ==
  LET w == call[c].w
  IN  /\ call[c].pc = "sent" /\ Return(c)
      /\ wk' = [wk EXCEPT ![w].probe = IF @ = "no" THEN "ask" ELSE @]
      /\ UNCHANGED <<cur, swapClosed, rt, reload, faults>>
-----------------------------------------------------------------------------
(* Restarting a worker.                                                    *)

(* The probe: a worker that is gone or hung does not answer, one that is   *)
(* up may be slow.                                                         *)
responsive(w) ==
  /\ wk[w].probe = "ask"
  /\ \/ wk[w].proc = "up" /\ wk' = [wk EXCEPT ![w].probe = "no"] /\ UNCHANGED faults
     \/ wk[w].proc = "up" /\ faults < MaxFault
        /\ wk' = [wk EXCEPT ![w].probe = "dead"] /\ faults' = faults + 1
     \/ wk[w].proc # "up" /\ wk' = [wk EXCEPT ![w].probe = "dead"] /\ UNCHANGED faults
  /\ UNCHANGED <<cur, swapClosed, rt, call, reload>>

ProbeReplaces(w) ==
  /\ wk[w].probe = "dead"
  /\ wk' = [wk EXCEPT ![w] = [(IF ~Closed(wk[w].rt) /\ WinsCAS(w) THEN triggerRestart(w) ELSE @)
                              EXCEPT !.probe = "no"]]
  /\ UNCHANGED <<cur, swapClosed, rt, call, reload, faults>>

(* The restart goroutine: kill and reap, find the slot, spawn, install.    *)
Reap(w) ==
  /\ wk[w].restart = "reap"
  /\ wk' = [wk EXCEPT ![w].proc = "gone",
                      ![w].restart = IF InSlot(wk[w].rt, w) THEN "loop" ELSE "no"]
  /\ UNCHANGED <<cur, swapClosed, rt, call, reload, faults>>

spawnWorker(w) ==
  /\ wk[w].restart = "loop"
  /\ IF Closed(wk[w].rt) THEN wk' = [wk EXCEPT ![w].restart = "no"]
     ELSE \E n \in Worker :
            /\ Spare(n) /\ \A m \in Worker : Spare(m) => n <= m
            /\ wk' = [wk EXCEPT ![n] = Spawned(wk[w].rt), ![w].restart = "spawn", ![w].next = n]
  /\ UNCHANGED <<cur, swapClosed, rt, call, reload, faults>>

waitHealthy(w) ==
  /\ wk[w].restart = "spawn"
  /\ wk' = [wk EXCEPT ![w].restart = "install", ![wk[w].next].proc = "up"]
  /\ UNCHANGED <<cur, swapClosed, rt, call, reload, faults>>

(* It never answers: it is killed; after the backoff, which Close cuts     *)
(* short, another one is tried.                                            *)
SpawnFails(w) ==
  /\ wk[w].restart = "spawn"
  /\ wk' = [wk EXCEPT ![w].restart = "loop", ![w].next = None, ![wk[w].next] = NoWorker]
  /\ UNCHANGED <<cur, swapClosed, rt, call, reload, faults>>
(* Under mu: a worker that lost the race with Close is killed.             *)
Installable(r) == ~Closed(r)
Install(w) ==
  LET r == wk[w].rt  n == wk[w].next
  IN  /\ wk[w].restart = "install"
      /\ IF Installable(r)
         THEN /\ rt' = [rt EXCEPT ![r].slots = [s \in Slot |-> IF @[s] = w THEN n ELSE @[s]]]
              /\ wk' = [wk EXCEPT ![w].restart = "no", ![w].next = None]
         ELSE /\ wk' = [wk EXCEPT ![w].restart = "no", ![w].next = None, ![n].proc = "gone"]
              /\ UNCHANGED rt
      /\ UNCHANGED <<cur, swapClosed, call, reload, faults>>

(* A worker crashes or its event loop blocks.                              *)
Fault(w) ==
  /\ wk[w].proc = "up" /\ faults < MaxFault
  /\ \E p \in {"gone", "hung"} : wk' = [wk EXCEPT ![w].proc = p]
  /\ faults' = faults + 1
  /\ UNCHANGED <<cur, swapClosed, rt, call, reload>>
-----------------------------------------------------------------------------
(* Runtime.Close, in the goroutine that owns r.                            *)

Closing(r) == [rt EXCEPT ![r].pc = IF Closed(r) THEN @ ELSE "drain"]

\* Mutant: the drain leaves one slot.
DrainShort(r) ==
  /\ rt[r].pc = "drain"
  /\ \/ rt[r].drained < MaxInFlight /\ InFlight(r) < MaxInFlight
        /\ rt' = [rt EXCEPT ![r].drained = @ + 1]
     \/ rt[r].drained = MaxInFlight - 1 /\ rt' = [rt EXCEPT ![r].pc = "wait"]
  /\ UNCHANGED <<cur, swapClosed, wk, call, reload, faults>>
(* drain takes every in-flight slot; a freed slot goes to the waiting send. *)
drain(r) ==
  /\ rt[r].pc = "drain"
  /\ \/ rt[r].drained < MaxInFlight /\ InFlight(r) < MaxInFlight
        /\ rt' = [rt EXCEPT ![r].drained = @ + 1]
     \/ rt[r].drained = MaxInFlight /\ rt' = [rt EXCEPT ![r].pc = "wait"]
  /\ UNCHANGED <<cur, swapClosed, wk, call, reload, faults>>
(* The timer of drain, with calls still running.                           *)
DrainTimeout(r) ==
  /\ rt[r].pc = "drain" /\ InFlight(r) = MaxInFlight /\ rt[r].drained < MaxInFlight
  /\ rt' = [rt EXCEPT ![r].pc = "wait", ![r].timedOut = TRUE]
  /\ UNCHANGED <<cur, swapClosed, wk, call, reload, faults>>

(* restartWG.Wait, then every worker in a slot is killed.                  *)
Killed(r, w) == InSlot(r, w)
KillWorkers(r) ==
  /\ rt[r].pc = "wait"
  /\ \A w \in Worker : wk[w].rt = r => wk[w].restart = "no"
  /\ rt' = [rt EXCEPT ![r].pc = "scan"]
  /\ wk' = [w \in Worker |-> IF Killed(r, w) THEN [wk[w] EXCEPT !.proc = "gone"] ELSE wk[w]]
  /\ UNCHANGED <<cur, swapClosed, call, reload, faults>>

(* scanWG.Wait: the log pipes close when their processes are gone.         *)
Close(r) ==
  /\ rt[r].pc = "scan" /\ \A w \in Worker : wk[w].rt = r => ~Alive(w)
  /\ rt' = [rt EXCEPT ![r].pc = "closed"]
  /\ UNCHANGED <<cur, swapClosed, wk, call, reload, faults>>
-----------------------------------------------------------------------------
(* A reload: build the next runtime, swap it in, close the previous one.   *)

(* New spawns a worker per slot.  Nothing sees the runtime before it       *)
(* returns; a build that fails closes what it spawned, and the previous    *)
(* runtime stays: nothing changes.                                         *)
New(l) ==
  /\ reload[l].pc = "idle" /\ \E r \in Rt : rt[r].pc = "none"
  /\ \/ \E r \in Rt :
          /\ rt[r].pc = "none" /\ \A q \in 1..(r - 1) : rt[q].pc # "none"
          /\ rt' = [rt EXCEPT ![r].pc = "run", ![r].slots = [s \in Slot |-> First(r, s)]]
          /\ wk' = [w \in Worker |-> IF \E s \in Slot : w = First(r, s)
                                     THEN [Spawned(r) EXCEPT !.proc = "up"] ELSE wk[w]]
          /\ reload' = [reload EXCEPT ![l].pc = "swap", ![l].new = r]
     \/ \* no function is left
        reload' = [reload EXCEPT ![l].pc = "swap"] /\ UNCHANGED <<rt, wk>>
  /\ UNCHANGED <<cur, swapClosed, call, faults>>

\* Mutant: a runtime swapped in after the close is nobody's.
SwappedForgets(l) == IF swapClosed THEN None ELSE cur
(* The runtime Swap leaves to its caller to close.                         *)
Swapped(l) == IF swapClosed THEN reload[l].new ELSE cur
Swap(l) ==
  LET old == Swapped(l)
  IN  /\ reload[l].pc = "swap"
      /\ cur' = IF swapClosed THEN cur ELSE reload[l].new
      /\ IF old = None THEN reload' = [reload EXCEPT ![l] = NoReload] /\ UNCHANGED rt
         ELSE reload' = [reload EXCEPT ![l].pc = "close", ![l].old = old] /\ rt' = Closing(old)
      /\ UNCHANGED <<swapClosed, wk, call, faults>>

EndReload(l) ==
  /\ reload[l].pc = "close" /\ rt[reload[l].old].pc = "closed"
  /\ reload' = [reload EXCEPT ![l] = NoReload]
  /\ UNCHANGED <<cur, swapClosed, rt, wk, call, faults>>

(* The deferred SwapRuntime.Close of serve and dev, at the end of main.    *)
SwapClose ==
  /\ ~swapClosed /\ swapClosed' = TRUE /\ cur' = None
  /\ rt' = IF cur = None THEN rt ELSE Closing(cur)
  /\ UNCHANGED <<wk, call, reload, faults>>
-----------------------------------------------------------------------------
CallStep(c) == \/ LoadCurrent(c) \/ Invoke(c) \/ Answered(c)
               \/ classifyTransport(c) \/ classifyDeadline(c)

RestartStep(w) == \/ responsive(w) \/ ProbeReplaces(w)
                  \/ Reap(w) \/ spawnWorker(w) \/ waitHealthy(w) \/ SpawnFails(w)
                  \/ Install(w)

CloseStep(r) == drain(r) \/ DrainTimeout(r) \/ KillWorkers(r) \/ Close(r)

ReloadStep(l) == New(l) \/ Swap(l) \/ EndReload(l)

Next == \/ \E c \in Call : CallStep(c)
        \/ \E w \in Worker : RestartStep(w) \/ Fault(w)
        \/ \E r \in Rt : CloseStep(r)
        \/ \E l \in Reloader : ReloadStep(l)
        \/ SwapClose

Spec == Init /\ [][Next]_vars

(* Goroutines are scheduled; a spawn that is retried for ever succeeds.    *)
FairSpec ==
  /\ Spec
  /\ \A c \in Call : WF_vars(Invoke(c) \/ classifyDeadline(c) \/ classifyTransport(c))
  /\ \A w \in Worker : /\ WF_vars(Reap(w) \/ spawnWorker(w) \/ SpawnFails(w) \/ Install(w))
                       /\ SF_vars(waitHealthy(w))
  /\ \A r \in Rt : WF_vars(drain(r) \/ KillWorkers(r) \/ Close(r))
-----------------------------------------------------------------------------
(* However many calls, probes and closers meet a dead worker, it is        *)
(* replaced at most once (the compare-and-swap of classifyDoErr).          *)
OneRestartPerCrash == \A w \in Worker : wk[w].restarts <= 1

(* Each slot of a runtime that runs holds a live worker, or one whose      *)
(* replacement is under way, or one whose failure nobody has met yet.      *)
DeadWorkerIsReplaced ==
  \A r \in Rt, w \in Worker :
    (rt[r].pc = "run" /\ InSlot(r, w) /\ ~wk[w].healthy)
      => wk[w].restart # "no"

(* Close kills no worker under a running call unless its timer fired.      *)
CloseSparesCalls ==
  \A r \in Rt : (rt[r].pc \in {"scan", "closed"} /\ ~rt[r].timedOut)
    => ~\E c \in Call : call[c].rt = r /\ call[c].pc = "sent"

(* A runtime that serves is the current one or a reload holds it; after    *)
(* SwapRuntime.Close none is current.                                      *)
EveryRuntimeIsOwned ==
  /\ \A r \in Rt : rt[r].pc = "run" => \/ cur = r
                                       \/ \E l \in Reloader : reload[l].new = r
  /\ cur # None => rt[cur].pc = "run" /\ ~swapClosed

(* Every call returns; Close returns; a slot whose worker was found dead   *)
(* gets a healthy one again, unless its runtime closes.                    *)
CallsReturn == \A c \in Call : call[c].pc # "idle" ~> call[c].pc = "idle"
CloseReturns == \A r \in Rt : Closed(r) ~> rt[r].pc = "closed"
Healthy(r, s) == \E w \in Worker : rt[r].slots[s] = w /\ wk[w].healthy
SlotsHeal ==
  \A r \in Rt, s \in Slot :
    (rt[r].pc = "run" /\ ~Healthy(r, s)) ~> (Closed(r) \/ Healthy(r, s))
(* A crash is repaired, once: see the two parts.                           *)
CrashIsRepairedOnce == OneRestartPerCrash /\ DeadWorkerIsReplaced

(* Whatever calls, closers and slots wait for comes (FairSpec).            *)
RuntimeMakesProgress == CallsReturn /\ CloseReturns /\ SlotsHeal
=============================================================================
