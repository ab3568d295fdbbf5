------------------------------ MODULE Requests ------------------------------
(***************************************************************************)
(* The REST and RPC API and the SQL editor (internal/adapter/http:         *)
(* crud_handler.go, rpc_handler.go, middleware.go, plan.go and the query   *)
(* handler of admin_handler.go) over the pool of adapter/postgres/pool.go. *)
(*                                                                         *)
(* A request passes the guards, takes the handlers of the live             *)
(* configuration, begins a transaction on a pooled connection under its    *)
(* own session, runs one statement, and commits or rolls back.  Postgres   *)
(* runs at READ COMMITTED: a statement sees the committed rows, and a      *)
(* write to a row another transaction has written waits for it.  The one   *)
(* policy of the table is owner = auth.uid().                              *)
(***************************************************************************)
EXTENDS Integers, Sequences, FiniteSets

CONSTANTS Req,        \* request slots
          Key, User,
          Conn, Owner,  \* connections of the request pool and of the owner's
          MaxInt,     \* the largest int
          Configs,    \* the configurations, in the order they go live
          Scenes,     \* [asks, pool, mode, last]: what is sent, on how many connections
          Stocks,     \* initial tables: the owner of each row, or Gone
          None, Gone

(* What a request may be: the method fits the route, numbers are numbers.  *)
Open == -1
WellFormed(a) ==
  /\ a.kind \in {"nothing", "list", "create", "upsert", "update", "delete", "rpc", "query"}
  /\ a.method \in {"GET", "HEAD"} => a.kind \in {"nothing", "list", "rpc"}
  /\ a.keys \subseteq Key /\ a.max \in Int /\ {"method", "page"} \subseteq DOMAIN a
  /\ "offset" \in DOMAIN a.page => a.page.offset \in Int
  /\ "limit" \in DOMAIN a.page => a.page.limit \in Int
  /\ "range" \in DOMAIN a.page => a.page.range[1] \in Nat /\ a.page.range[2] \in Nat \cup {Open}
ASSUME RequestsAssumption ==
  /\ MaxInt \in Nat /\ IsFiniteSet(Key) /\ Owner \notin Conn
  /\ None \notin User /\ Gone \notin User \cup {None}
  /\ Configs \in Seq({Configs[v] : v \in DOMAIN Configs})
  /\ \A v \in DOMAIN Configs :
       /\ Configs[v].max \in 0..MaxInt
       /\ \A f \in DOMAIN Configs[v].rpc : Configs[v].rpc[f].body \in {"read", "write"}
  /\ \A s \in Scenes : /\ s.pool \subseteq Conn /\ s.last \in DOMAIN Configs
                       /\ \A q \in Req : WellFormed(s.asks[q])

VARIABLES rows,    \* the committed table: [owner, by], or Gone
          conns,   \* app.user_id as the last committed session-wide SET left it
          live,    \* the engine's configuration
          built,   \* the configuration crudSet was built from, 0 before the first
          scene, job
vars == <<rows, conns, live, built, scene, job>>

NoLimit == -1
MinInt == -MaxInt - 1
IsInt(n) == n \in MinInt..MaxInt
wrap(n) == ((n - MinInt) % (2 * MaxInt + 2)) + MinInt
Larger(a, b) == IF a > b THEN a ELSE b
Smaller(a, b) == IF a < b THEN a ELSE b
Ask(q) == scene.asks[q]
Step(q, j) == job' = [job EXCEPT ![q] = j]
Goto(q, pc) == Step(q, [job[q] EXCEPT !.pc = pc])
Reply(q, ans) == Step(q, [job[q] EXCEPT !.pc = "done", !.ans = ans, !.conn = None])
(* A check is a status or 0; the answer is that of the first that fails. *)
Unless(bad, status) == IF bad THEN status ELSE 0
a ?? b == IF a # 0 THEN a ELSE b

----------------------------------------------------------------------------
\* Mutant: the sum may wrap.
addWrapped(a, b) == wrap(a + b)
(* Pages.  Only a GET's Range header counts; limit and offset are ints that *)
(* saturate.                                                               *)
addSat(a, b) ==
  LET s == wrap(a + b) IN IF b > 0 /\ s < a THEN MaxInt ELSE IF b < 0 /\ s > a THEN MinInt ELSE s
clampAtoi(n) == Smaller(n, MaxInt)
parseRangeHeader(r) == [lo |-> clampAtoi(r[1]), hi |-> IF r[2] = Open THEN MaxInt ELSE clampAtoi(r[2])]
Unsatisfiable == [ok |-> FALSE, lo |-> 0, n |-> 0]
intersectRange(a) ==
  LET offset == IF "offset" \in DOMAIN a.page THEN a.page.offset ELSE 0
      end    == addSat(offset, a.page.limit)
      capped == "limit" \in DOMAIN a.page
      ranged == "range" \in DOMAIN a.page /\ a.method = "GET"
      r  == IF ranged THEN parseRangeHeader(a.page.range) ELSE [lo |-> 0, hi |-> MaxInt]
      lo == Larger(Larger(offset, 0), r.lo)
      hi == Smaller(IF capped /\ end < MaxInt THEN Larger(end, MinInt + 1) - 1 ELSE MaxInt, r.hi)
  IN CASE capped /\ end = 0      -> [ok |-> TRUE, lo |-> 0, n |-> 0]
       [] ~(capped /\ end = 0) /\ (r.lo > r.hi \/ lo > hi) -> Unsatisfiable
       [] OTHER -> [ok |-> TRUE, lo |-> lo, n |-> IF hi = MaxInt THEN NoLimit ELSE hi - lo + 1]
capLimit(n, most) == IF most > 0 /\ (n < 0 \/ n > most) THEN most ELSE n
(* What LIMIT n OFFSET lo keeps of so many rows. *)
window(lo, n, count) == {i \in 0..count - 1 : lo <= i /\ (n # NoLimit => i < lo + n)}
rangeStatus(lo, n, total) == IF total < 0 THEN 200 ELSE IF lo > total THEN 416 ELSE IF n < total THEN 206 ELSE 200
(* Out of range numbers: an offset saturates and a limit is ignored here,  *)
(* as the handler that reads them refuses them.                            *)
rangeGuard(a) ==
  LET Clamp(x) == Larger(MinInt, Smaller(x, MaxInt))
      p == [f \in {g \in DOMAIN a.page : g = "limit" => IsInt(a.page.limit)} |->
              IF f = "offset" THEN Clamp(a.page.offset) ELSE a.page[f]]
      range == intersectRange([a EXCEPT !.page = p])
  IN Unless(~range.ok, 416) ?? Unless(a.method = "PUT" /\ (range.lo # 0 \/ range.n # NoLimit), 400)

----------------------------------------------------------------------------
(* Who is asking.  A bearer is [is] or a token [is, valid, sub, role].      *)
keyTier(key) == IF key \in {"publishable", "secret"} THEN key ELSE "none"
Anonymous == [role |-> "anon", uid |-> None, authed |-> FALSE, admin |-> FALSE]
jwtAuth(a) ==
  CASE keyTier(a.apikey) = "secret" -> [role |-> "service_role", uid |-> None, authed |-> TRUE, admin |-> TRUE]
    [] keyTier(a.apikey) # "secret" /\ a.bearer.is # "token" -> Anonymous
    [] OTHER -> IF a.bearer.sub = None THEN Anonymous
                ELSE [role |-> IF a.bearer.role = "" THEN "anon" ELSE a.bearer.role, uid |-> a.bearer.sub,
                      authed |-> a.bearer.role \notin {"", "anon"}, admin |-> FALSE]
(* service_role never arrives in a token, and the secret key is none. *)
badToken(a) ==
  /\ keyTier(a.apikey) # "secret"
  /\ \/ a.bearer.is = "secret"
     \/ /\ a.bearer.is = "token"
        /\ ~a.bearer.valid \/ (a.bearer.sub # None /\ a.bearer.role \notin {"", "anon", "authenticated"})
adminKeyAuth(a) == "secret" \in {keyTier(a.apikey), a.bearer.is}
(* The schemas are those of the configuration the routes were mounted with. *)
profileHeaderGuard(a) == a.profile \in {"", "public"} \cup Configs[1].schemas
apiKeyGuard(a) == keyTier(a.apikey) # "none"
(* Accept, by preference, is of "json", "plan", "wal" (a plan with an option *)
(* that needs ANALYZE) and "odd", a plan nobody can serve, which is skipped  *)
(* while something else is left.  A write or a call is never explained.     *)
parsePlanAccept(type) == type \in {"plan", "wal", "odd"}
negotiatePlan(a) ==
  LET servable == {i \in DOMAIN a.accept : a.accept[i] # "odd"}
  IN IF servable # {} THEN a.accept[CHOOSE i \in servable : \A j \in servable : i <= j]
     ELSE IF a.accept # << >> THEN "odd" ELSE "json"
explained(a) == a.kind = "list" /\ parsePlanAccept(negotiatePlan(a))
rejectPlan(a) == \E i \in DOMAIN a.accept : parsePlanAccept(a.accept[i])
Mount(a) ==
  IF a.kind = "query" THEN IF adminKeyAuth(a) THEN 0 ELSE 401
  ELSE Unless(~profileHeaderGuard(a), 406) ?? Unless(~apiKeyGuard(a), 401)
       ?? Unless(a.kind # "list" /\ rejectPlan(a), 406) ?? Unless(badToken(a), 401)
       ?? (IF a.kind # "list" THEN rangeGuard(a) ELSE 0)

(* A transaction's role and app.user_id: the session's, whatever an earlier *)
(* transaction left on the connection.                                     *)
AssumableFromSession(s) ==
  IF s.role \in {"service_role", "authenticated"} THEN s.role ELSE IF s.authed THEN "authenticated" ELSE "anon"

\* Mutant: app.user_id is set only when there is a user.
setOnlyIfKnown(s, left) ==
  [role |-> AssumableFromSession(s), uid |-> IF s.uid = None \/ s.role = "service_role" THEN left ELSE s.uid]
buildSessionSetup(s, left) ==
  [role |-> AssumableFromSession(s), uid |-> IF s.role = "service_role" THEN None ELSE s.uid]

----------------------------------------------------------------------------
(* What the handlers refuse before they reach the database.                 *)
enforceStrictPrefer(a) == ~a.strict
oddNumber(a) == \E f \in DOMAIN a.page \ {"range"} : ~IsInt(a.page[f])
parseQueryParams(a) ==
  Unless(a.query = "unknown" \/ oddNumber(a), 400) ?? Unless(~intersectRange(a).ok, 416)
refuseList(q, a) ==
  Unless(~enforceStrictPrefer(a), 400)
  ?? Unless(explained(a) /\ (negotiatePlan(a) = "odd" \/ ~jwtAuth(a).admin), 406)
  ?? Unless(explained(a) /\ negotiatePlan(a) = "wal", 400) ?? parseQueryParams(a)
parseRequestBody(a) == a.query \in {"ok", "keyless"}
refuseRecords(q, a) ==
  Unless(~enforceStrictPrefer(a) \/ ~parseRequestBody(a) \/ (a.kind = "upsert" /\ a.query = "keyless"), 400)
refuseChange(q, a) == Unless(~enforceStrictPrefer(a) \/ a.query # "ok", 400)
Volatile(f) == f.volatility = "volatile"
(* The arguments: complete, "missing" one, with one "unknown", or "single": *)
(* the whole body as the only one.  In a query string only the declared     *)
(* ones are looked up; what else is there filters the rows, if there are.   *)
collectRPCArgs(a, f) ==
  Unless(a.query = "single" /\ (f.args # 1 \/ a.method # "POST"), 400) ?? Unless(a.query = "unknown" /\ a.method = "POST", 400)
  ?? Unless(a.query = "missing" /\ f.args > 0, 404)
(* Only a function that returns rows is paged. *)
Chains(f) == f.category = "setof"
parseRPCChain(a, f) ==
  IF ~Chains(f) THEN 0
  ELSE Unless(oddNumber(a) \/ a.query = "unknown", 400) ?? Unless(~intersectRange(a).ok, 416)
refuseCall(q, a) ==
  IF a.fn \notin DOMAIN Configs[live].rpc THEN 404
  ELSE LET f == Configs[live].rpc[a.fn]
           s == jwtAuth(a)
       IN Unless(a.method \in {"GET", "HEAD"} /\ Volatile(f), 405)
          ?? Unless(f.auth /\ ~s.authed /\ ~s.admin, 401) ?? collectRPCArgs(a, f) ?? parseRPCChain(a, f)
refuseQuery(q, a) == Unless(scene.mode = "disabled", 403) ?? Unless(a.query # "ok" \/ a.sql = << >>, 400)
parse(q, a) ==
  CASE a.kind = "list" -> refuseList(q, a) [] a.kind \in {"create", "upsert"} -> refuseRecords(q, a)
    [] a.kind \in {"update", "delete"} -> refuseChange(q, a) [] a.kind = "rpc" -> refuseCall(q, a)
    [] a.kind = "query" -> refuseQuery(q, a)

----------------------------------------------------------------------------
(* One statement, on the rows committed when it runs.                       *)
Fn(q) == Configs[job[q].cfg].rpc[Ask(q).fn]
may(q, owner) == job[q].role = "service_role" \/ (owner = job[q].uid /\ owner # None)
Present(K) == {k \in K : rows[k] # Gone}
matched(q) == {k \in Present(Ask(q).keys) : may(q, rows[k].owner)}
Ran(ans, pend, n) == [ans |-> ans, pend |-> pend, kept |-> << >>, n |-> n]
Failed(status) == Ran(status, << >>, 0)
Proposed(q, K) == [k \in K |-> [owner |-> Ask(q).owner, by |-> q]]

BuildSelectQuery(q) ==
  Ran(0, << >>, Cardinality(window(job[q].page.lo, job[q].page.n, Cardinality(matched(q)))))
(* The policy's check comes before the unique index. *)
BuildBulkInsertQuery(q, K) ==
  IF ~may(q, Ask(q).owner) THEN Failed(403)
  ELSE IF Present(K) # {} THEN Failed(409) ELSE Ran(0, Proposed(q, K), Cardinality(K))
conflictAction(q, K, resolution) ==
  IF resolution = "ignore" THEN Ran(0, Proposed(q, K \ Present(K)), Cardinality(K \ Present(K)))
  ELSE IF Present(K) \subseteq matched(q) THEN Ran(0, Proposed(q, K), Cardinality(K)) ELSE Failed(403)
BuildBulkUpsertQuery(q, K, resolution) ==
  IF ~may(q, Ask(q).owner) THEN Failed(403) ELSE conflictAction(q, K, resolution)
BuildUpdateQuery(q) == Ran(0, [k \in matched(q) |-> [rows[k] EXCEPT !.by = q]], Cardinality(matched(q)))
BuildDeleteQuery(q) == Ran(0, [k \in matched(q) |-> Gone], Cardinality(matched(q)))

\* Mutant: every call runs in a writing transaction.
neverReadOnly(f) == FALSE
(* A function that is not volatile runs in a read only transaction, whatever *)
(* its body does.                                                           *)
readOnly(f) == ~Volatile(f)
buildRPCCall(q) ==
  CASE Fn(q).body = "read"  -> BuildSelectQuery(q)
    [] Fn(q).body = "write" -> IF readOnly(Fn(q)) THEN Failed(405) ELSE BuildUpdateQuery(q)
(* The editor: its statements are "read", "write" every row, "fail" and     *)
(* "commit".  Read only, one statement; otherwise the whole buffer, of      *)
(* which an embedded COMMIT keeps what precedes it.                         *)
Everything(q) == [k \in Present(Key) |-> [rows[k] EXCEPT !.by = q]]
runSingleStatement(q, sql) == IF Len(sql) > 1 \/ sql[1] \in {"fail", "write"} THEN Failed(400) ELSE Ran(0, << >>, 0)
runMultiStatement(q, sql) ==
  LET fails == {i \in DOMAIN sql : sql[i] = "fail"}
      until == IF fails = {} THEN Len(sql) ELSE (CHOOSE i \in fails : \A j \in fails : i <= j) - 1
      writes == {i \in 1..until : sql[i] = "write"}
      kept  == \E i \in writes : \E j \in i..until : sql[j] = "commit"
  IN [ans |-> IF fails = {} THEN 0 ELSE 400, n |-> 0,
      kept |-> IF kept THEN Everything(q) ELSE << >>,
      pend |-> IF fails = {} /\ writes # {} THEN Everything(q) ELSE << >>]
RunSQL(q) ==
  IF scene.mode = "readonly" THEN runSingleStatement(q, Ask(q).sql) ELSE runMultiStatement(q, Ask(q).sql)

statement(q) ==
  LET a == Ask(q)
  IN CASE a.kind = "list" -> BuildSelectQuery(q)
       [] a.kind = "create" /\ a.resolution = "" -> BuildBulkInsertQuery(q, a.keys)
       [] a.kind = "create" /\ a.resolution # "" -> BuildBulkUpsertQuery(q, a.keys, a.resolution)
       [] a.kind = "upsert" -> BuildBulkUpsertQuery(q, a.keys, "merge")
       [] a.kind = "update" -> BuildUpdateQuery(q) [] a.kind = "delete" -> BuildDeleteQuery(q)
       [] a.kind = "rpc"    -> buildRPCCall(q)     [] a.kind = "query"  -> RunSQL(q)
(* The rows a statement may have to wait for. *)
wanted(q) ==
  IF Ask(q).kind \in {"create", "upsert"} THEN Ask(q).keys
  ELSE LET r == statement(q) IN DOMAIN r.pend \cup DOMAIN r.kept
touched(q) == {rows[k].owner : k \in matched(q)}
              \cup IF Ask(q).kind \in {"create", "upsert"} THEN {Ask(q).owner} ELSE {}

----------------------------------------------------------------------------
(* What becomes of a statement that succeeded: whether it is kept, and the  *)
(* answer if it is.                                                        *)
wantsSingular(q) == Ask(q).singular
rejectNonSingular(q) == wantsSingular(q) /\ job[q].n # 1
maxAffectedError(q) == Ask(q).max # NoLimit /\ Ask(q).kind \in {"update", "delete"} /\ job[q].n > Ask(q).max
parseTxPrefer(q) == Ask(q).dry
pageStatus(q) ==
  IF rejectNonSingular(q) THEN 406 ELSE rangeStatus(job[q].page.lo, job[q].n, job[q].total)
writeStatus(q) ==
  Unless(maxAffectedError(q), 400) ?? Unless(rejectNonSingular(q), 406)
  ?? Unless(Ask(q).kind = "create", 201) ?? 200

\* Mutant: the commit comes before the checks.
commitFirst(q) == [commit |-> ~parseTxPrefer(q), ans |-> writeStatus(q)]
finishTx(q) == [commit |-> writeStatus(q) < 300 /\ ~parseTxPrefer(q), ans |-> writeStatus(q)]
(* A call is committed before its answer is negotiated. *)
handleRPC(q) ==
  [commit |-> TRUE,
   ans |-> CASE Fn(q).category = "void" -> 204 [] Fn(q).category = "setof" -> pageStatus(q) [] OTHER -> 200]
settle(q) ==
  CASE Ask(q).kind = "list" -> [commit |-> ~explained(Ask(q)),
                                ans |-> IF ~explained(Ask(q)) THEN pageStatus(q) ELSE 200]
    [] Ask(q).kind = "rpc"   -> handleRPC(q)
    [] Ask(q).kind = "query" -> [commit |-> TRUE, ans |-> 200]
    [] OTHER -> finishTx(q)

----------------------------------------------------------------------------
(* The steps of a request.                                                  *)
NoJob == [pc |-> "idle", ans |-> 0, arrived |-> 0, cfg |-> 0, conn |-> None, uid |-> None, role |-> "anon",
          page |-> Unsatisfiable, pend |-> << >>, n |-> 0, total |-> NoLimit, owners |-> {}, wrote |-> {}]
Held == {job[q].conn : q \in Req} \ {None}
Pool(q) == IF Ask(q).kind = "query" THEN {Owner} ELSE scene.pool
OfTable(q) == Ask(q).kind \notin {"rpc", "query"}
Arrive(q) ==
  /\ job[q].pc = "idle" /\ Ask(q).kind # "nothing"
  /\ LET refused == Mount(Ask(q))
     IN IF refused # 0 THEN Reply(q, refused)
        ELSE Step(q, [job[q] EXCEPT !.pc = IF OfTable(q) THEN "route" ELSE "parse", !.arrived = live, !.cfg = live])
  /\ UNCHANGED <<rows, conns, live, built, scene>>

\* Mutant: handlers are built once.
isBuilt == built # 0
(* current: the cached handlers serve while the configuration they were    *)
(* built from is the live one.                                             *)
upToDate == built = live
current(q) ==
  /\ job[q].pc = "route"
  /\ Step(q, IF upToDate THEN [job[q] EXCEPT !.pc = "parse", !.cfg = built]
             ELSE [job[q] EXCEPT !.pc = "build", !.cfg = live])
  /\ UNCHANGED <<rows, conns, live, built, scene>>
Build(q) ==
  /\ job[q].pc = "build"
  /\ built' = job[q].cfg /\ Goto(q, "parse")
  /\ UNCHANGED <<rows, conns, live, scene>>

(* dispatch and the handler up to its transaction; max_limit is read from   *)
(* the live configuration, the table from the one the handler was built of. *)
pageOf(a) ==
  IF a.kind = "list" \/ (a.kind = "rpc" /\ Chains(Configs[live].rpc[a.fn]))
  THEN [intersectRange(a) EXCEPT !.n = capLimit(@, Configs[live].max)] ELSE Unsatisfiable
dispatch(q) ==
  /\ job[q].pc = "parse"
  /\ LET a == Ask(q)
         refused == IF OfTable(q) /\ a.table \notin Configs[job[q].cfg].tables THEN 404 ELSE parse(q, a)
     IN IF refused # 0 THEN Reply(q, refused)
        ELSE Step(q, [job[q] EXCEPT !.pc = "begin", !.cfg = IF OfTable(q) THEN @ ELSE live, !.page = pageOf(a)])
  /\ UNCHANGED <<rows, conns, live, built, scene>>

Begin(q) ==
  /\ job[q].pc = "begin"
  /\ \E c \in Pool(q) \ Held :
       LET s == IF c = Owner THEN [role |-> "service_role", uid |-> None]
                ELSE buildSessionSetup(jwtAuth(Ask(q)), conns[c])
       IN Step(q, [job[q] EXCEPT !.pc = "run", !.conn = c, !.role = s.role, !.uid = s.uid])
  /\ UNCHANGED <<rows, conns, live, built, scene>>
NoTransaction(q) ==
  /\ job[q].pc = "begin" /\ Reply(q, 500)
  /\ UNCHANGED <<rows, conns, live, built, scene>>

(* The table with some rows written over. *)
Over(f) == [k \in Key |-> IF k \in DOMAIN f THEN f[k] ELSE rows[k]]
Run(q) ==
  /\ job[q].pc = "run"
  /\ \A p \in Req \ {q} : DOMAIN job[p].pend \cap wanted(q) = {}
  /\ LET r == statement(q)
         counted == Ask(q).count /\ ~explained(Ask(q))
     IN /\ rows' = Over(r.kept)
        /\ IF r.ans # 0
           THEN Step(q, [job[q] EXCEPT !.pc = "done", !.ans = r.ans, !.conn = None, !.wrote = DOMAIN r.kept])
           ELSE Step(q, [job[q] EXCEPT
                  !.pc = IF counted /\ Ask(q).kind = "list" THEN "count" ELSE "finish",
                  !.pend = r.pend, !.n = r.n, !.owners = touched(q), !.wrote = DOMAIN r.kept,
                  !.total = IF counted /\ Ask(q).kind = "rpc" THEN Cardinality(matched(q)) ELSE NoLimit])
  /\ UNCHANGED <<conns, live, built, scene>>
(* A constraint, a deadlock or a timeout: the deferred rollback. *)
handleDBError(q) ==
  /\ job[q].pc \in {"run", "count"}
  /\ Reply(q, 500)
  /\ UNCHANGED <<rows, conns, live, built, scene>>
(* The exact count is a second statement, on what is committed by then.     *)
executeCount(q) ==
  /\ job[q].pc = "count"
  /\ Step(q, [job[q] EXCEPT !.pc = "finish", !.total = Cardinality(matched(q))])
  /\ UNCHANGED <<rows, conns, live, built, scene>>

\* Mutant: the plan's path returns without releasing.
keptIfExplained(q) == IF explained(Ask(q)) THEN job[q].conn ELSE None
released(q) == None
(* A commit that fails may have been applied; its connection is lost.       *)
Ends(q, s, outcome) ==
  LET kept == IF s.commit /\ outcome # "lost" THEN job[q].pend ELSE << >>
      left == IF outcome # "ok" THEN None
              ELSE IF s.commit /\ Ask(q).kind = "rpc" /\ Fn(q).sets # None THEN Fn(q).sets
              ELSE conns[job[q].conn]
  IN /\ rows' = Over(kept)
     /\ conns' = [conns EXCEPT ![job[q].conn] = left]
     /\ Step(q, [job[q] EXCEPT !.pc = "done", !.ans = IF outcome = "ok" THEN s.ans ELSE 500,
                               !.conn = released(q), !.pend = << >>, !.wrote = @ \cup DOMAIN kept])
Finish(q) ==
  /\ job[q].pc = "finish"
  /\ LET s == settle(q)
     IN \E outcome \in {"ok"} \cup IF s.commit THEN {"applied", "lost"} ELSE {} : Ends(q, s, outcome)
  /\ UNCHANGED <<live, built, scene>>

(* A reload swaps the configuration in, after its migration. *)
Reload ==
  /\ live < scene.last /\ live' = live + 1
  /\ UNCHANGED <<rows, conns, built, scene, job>>

Init ==
  /\ scene \in Scenes /\ live = 1 /\ built = 0
  /\ \E stock \in Stocks :
       rows = [k \in Key |-> IF stock[k] = Gone THEN Gone ELSE [owner |-> stock[k], by |-> None]]
  /\ conns = [c \in Conn \cup {Owner} |-> None] /\ job = [q \in Req |-> NoJob]
Progress(q) ==
  current(q) \/ Build(q) \/ dispatch(q) \/ Begin(q) \/ Run(q) \/ executeCount(q) \/ Finish(q)
Next == Reload \/ \E q \in Req : Arrive(q) \/ Progress(q) \/ NoTransaction(q) \/ handleDBError(q)
Spec == Init /\ [][Next]_vars
(* A request has a goroutine of its own; nothing obliges a failure. *)
FairSpec == Spec /\ \A q \in Req : WF_vars(Progress(q))

----------------------------------------------------------------------------
Done(q) == job[q].pc = "done"
Reads(q) ==
  \/ Ask(q).method \in {"GET", "HEAD"}
  \/ Ask(q).kind = "rpc" /\ job[q].cfg # 0 /\ Ask(q).fn \in DOMAIN Configs[job[q].cfg].rpc /\ ~Volatile(Fn(q))
  \/ Ask(q).kind = "query" /\ scene.mode = "readonly"
Subject(a) == IF a.bearer.is = "token" THEN {a.bearer.sub} \ {None} ELSE {}
(* The rows a page may hold, said without an int: positions i of the result. *)
Asked(a) ==
  {i \in 0..MaxInt :
     /\ "offset" \in DOMAIN a.page => i >= a.page.offset
     /\ "limit" \in DOMAIN a.page =>
          i < a.page.limit + IF "offset" \in DOMAIN a.page THEN a.page.offset ELSE 0
     /\ ("range" \in DOMAIN a.page /\ a.method = "GET") =>
          /\ i >= a.page.range[1] /\ (a.page.range[2] # Open => i <= a.page.range[2])}
FirstOf(S, n) == IF n = 0 THEN S ELSE {i \in S : Cardinality({j \in S : j < i}) < n}
Slice(q) == {FirstOf(S, Configs[v].max) : S \in {Asked(Ask(q))}, v \in job[q].arrived..live}

(* A request without the secret key reads and changes rows of the user its  *)
(* verified token names and of nobody else, whichever requests used its     *)
(* connection before and whatever they left set on it                       *)
(* (buildSessionSetup, AssumableFromSession, jwtAuth).                      *)
OwnRowsOnly ==
  \A q \in Req : job[q].owners # {} /\ keyTier(Ask(q).apikey) # "secret" /\ Ask(q).kind # "query" =>
    /\ job[q].owners \subseteq Subject(Ask(q))
    /\ Ask(q).bearer.valid

(* A mutation of a table is all or nothing and the answer says which: a 4xx *)
(* and a dry run left nothing, a 2xx kept everything the statement did, and *)
(* no more than max-affected and .single() allow, however the rows moved    *)
(* under it while it waited for their locks (finishTx, rejectNonSingular).  *)
WritesAreAllOrNothing ==
  \A q \in Req : Done(q) /\ OfTable(q) /\ Ask(q).kind # "list" =>
    /\ job[q].ans \in 400..499 \/ Ask(q).dry => job[q].wrote = {}
    /\ job[q].ans \in 200..299 /\ ~Ask(q).dry => Cardinality(job[q].wrote) = job[q].n
    /\ job[q].wrote # {} =>
         /\ Ask(q).singular => Cardinality(job[q].wrote) = 1
         /\ Ask(q).max # NoLimit /\ Ask(q).kind \in {"update", "delete"} => Cardinality(job[q].wrote) <= Ask(q).max

(* GET and HEAD, a call of a function that is not volatile, and an editor   *)
(* in readonly mode change no row, though the function's body writes or the *)
(* buffer holds a COMMIT (handleRPC's transaction_read_only, RunSQL).       *)
ReadsChangeNothing == \A q \in Req : Done(q) /\ Reads(q) => job[q].wrote = {}

(* The page of a list, or of a call that returns rows, is exactly the part  *)
(* of the result that offset, limit, Range and max_limit leave, out of a    *)
(* result of any size, also where the sums leave the integers; and a        *)
(* request without a count is refused as out of range only if it asked for  *)
(* nothing (intersectRange).                                                *)
PagesAreRanges ==
  \A q \in Req : Ask(q).kind \in {"list", "rpc"} =>
    /\ job[q].pc = "begin" /\ (Ask(q).kind = "rpc" => Chains(Fn(q))) =>
         \E S \in Slice(q) : \A count \in 0..MaxInt :
           window(job[q].page.lo, job[q].page.n, count) = {i \in S : i < count}
    /\ Done(q) /\ job[q].ans = 416 /\ ~Ask(q).count => Asked(Ask(q)) = {}

(* A table that every configuration live since a request arrived has is     *)
(* served, whoever is rebuilding the handlers then (CRUDHandler.current).   *)
HandlersAreFresh ==
  \A q \in Req : Done(q) /\ OfTable(q) /\ job[q].ans = 404 =>
    job[q].arrived = 0 \/ \E v \in job[q].arrived..live : Ask(q).table \notin Configs[v].tables

(* Every request that arrived is answered: none keeps a connection or a row *)
(* lock that another waits for.                                             *)
RequestsAreAnswered == \A q \in Req : job[q].pc # "idle" ~> Done(q)

(* "rejectNonSingular writes a 406 when one object was requested but n # 1; *)
(* callers must not commit" (crud_handler.go).                              *)
NonSingularIsNotCommitted ==
  \A q \in Req : Done(q) /\ Ask(q).kind # "query" /\ job[q].ans = 406 => job[q].wrote = {}
=============================================================================
