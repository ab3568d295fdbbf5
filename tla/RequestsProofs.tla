--------------------------- MODULE RequestsProofs ---------------------------
(***************************************************************************)
(* Proofs about Requests, for any requests, connections, rows, users and   *)
(* configurations.                                                         *)
(***************************************************************************)
EXTENDS Requests, FiniteSetTheorems, TLAPS

(***************************************************************************)
(* The inductive invariant: what a job j of a request a may hold, when the *)
(* configuration v is live.                                                *)
(***************************************************************************)
Fields == {"pc", "ans", "arrived", "cfg", "conn", "uid", "role", "page", "pend", "n", "total", "owners", "wrote"}
Running == {"run", "count", "finish"}
Inside == {"route", "build", "parse", "begin"} \cup Running
Table(a) == a.kind \notin {"rpc", "query"}
Idempotent(a) == a.method \in {"GET", "HEAD"}
Called(a, j) == Configs[j.cfg].rpc[a.fn]

(* A request that was let in has no bad token, its transaction runs as the *)
(* token says, and it met rows of the token's user only.                   *)
Plain(a) == keyTier(a.apikey) # "secret" /\ a.kind # "query"
Own(a, S) == S \subseteq Subject(a) /\ a.bearer.valid
SessionOK(a, j) ==
  /\ j.pc \in Inside /\ a.kind # "query" => Mount(a) = 0
  /\ j.pc \in Running /\ Plain(a) =>
       j.role = AssumableFromSession(jwtAuth(a)) /\ (j.role # "service_role" => j.uid = jwtAuth(a).uid)
  /\ j.owners # {} /\ Plain(a) => Own(a, j.owners)

(* The configuration a request uses was live after it arrived.             *)
ServedOK(a, j, v) ==
  /\ IF j.pc = "idle" THEN j.arrived = 0 ELSE a.kind # "nothing"
  /\ j.pc \in Inside => j.arrived # 0
  /\ j.arrived \in Nat
  /\ j.arrived # 0 => j.cfg \in j.arrived..v
  /\ j.pc = "done" /\ Table(a) /\ j.ans = 404 /\ j.arrived # 0 => a.table \notin Configs[j.cfg].tables

(* A request that only reads has nothing pending, and wrote nothing.       *)
ReadsOnly(a, j, mode) ==
  \/ a.kind = "list"
  \/ a.kind = "rpc" /\ Idempotent(a)
  \/ a.kind = "rpc" /\ j.cfg # 0 /\ a.fn \in DOMAIN Configs[j.cfg].rpc /\ ~Volatile(Called(a, j))
  \/ a.kind = "query" /\ mode = "readonly"
SilentOK(a, j, mode) ==
  /\ j.pc \notin {"count", "finish", "done"} => j.wrote = {}
  /\ j.pc \in {"begin"} \cup Running /\ a.kind = "rpc" =>
       a.fn \in DOMAIN Configs[j.cfg].rpc /\ (Idempotent(a) => ~Volatile(Called(a, j)))
  /\ ReadsOnly(a, j, mode) => j.wrote = {} /\ (j.pc \in {"count", "finish"} => DOMAIN j.pend = {})

(* A change of a table has pending what it counted, and keeps it or none.  *)
Mutates(a) == Table(a) /\ a.kind # "list"
Kept(a, j) ==
  /\ j.ans \in 400..499 \/ a.dry => j.wrote = {}
  /\ j.ans \in 200..299 /\ ~a.dry => Cardinality(j.wrote) = j.n
  /\ j.wrote # {} =>
       /\ a.singular => Cardinality(j.wrote) = 1
       /\ a.max # NoLimit /\ a.kind \in {"update", "delete"} => Cardinality(j.wrote) <= a.max
CountedOK(a, j) ==
  Mutates(a) =>
    /\ j.pc # "done" => j.wrote = {}
    /\ j.pc # "count"
    /\ j.pc = "finish" => j.n \in Nat /\ j.n = Cardinality(DOMAIN j.pend)
    /\ j.pc = "done" => Kept(a, j)

(* A page is what the request asked for, and a request is refused as out   *)
(* of range only if that is nothing, or if its rows were counted.          *)
Lists(a) == a.kind \in {"list", "rpc"}
IsPaged(a, j) == a.kind = "list" \/ (a.kind = "rpc" /\ Chains(Called(a, j)))
PageRight(a, p, v) ==
  \A count \in 0..MaxInt : window(p.lo, p.n, count) = {i \in FirstOf(Asked(a), Configs[v].max) : i < count}
PagedOK(a, j, v) ==
  Lists(a) =>
    /\ ~a.count => j.total = NoLimit /\ j.pc # "count"
    /\ j.pc = "begin" /\ IsPaged(a, j) => \E w \in j.arrived..v : PageRight(a, j.page, w)
    /\ j.pc = "done" /\ j.ans = 416 /\ ~a.count => Asked(a) = {}

JobOK(a, j, v, mode) ==
  SessionOK(a, j) /\ ServedOK(a, j, v) /\ SilentOK(a, j, mode) /\ CountedOK(a, j) /\ PagedOK(a, j, v)
Shaped ==
  /\ scene \in Scenes /\ live \in 1..scene.last /\ built \in 0..live
  /\ DOMAIN job = Req /\ \A q \in Req : DOMAIN job[q] = Fields
ReqInv == Shaped /\ \A q \in Req : JobOK(Ask(q), job[q], live, scene.mode)

----------------------------------------------------------------------------
(* Refusals and sessions.                                                  *)
LEMMA PassesMount ==
  ASSUME NEW a, Mount(a) = 0, a.kind # "query"
  PROVE  ~badToken(a)
  BY DEF Mount, ??, Unless

LEMMA RefusalOfMount ==
  ASSUME NEW a
  PROVE  Mount(a) \notin 200..299
  BY DEF Mount, rangeGuard, ??, Unless

LEMMA RefusalOfHandler ==
  ASSUME NEW a, NEW q, a.kind \in {"list", "create", "upsert", "update", "delete", "rpc", "query"}
  PROVE  parse(q, a) \notin 200..299
<1>1. CASE a.kind = "list"
  BY <1>1 DEF parse, refuseList, parseQueryParams, ??, Unless
<1>2. CASE a.kind \in {"create", "upsert"}
  BY <1>2 DEF parse, refuseRecords, ??, Unless
<1>3. CASE a.kind \in {"update", "delete"}
  BY <1>3 DEF parse, refuseChange, ??, Unless
<1>4. CASE a.kind = "rpc"
  BY <1>4 DEF parse, refuseCall, collectRPCArgs, parseRPCChain, ??, Unless
<1>5. CASE a.kind = "query"
  BY <1>5 DEF parse, refuseQuery, ??, Unless
<1>6. QED
  BY <1>1, <1>2, <1>3, <1>4, <1>5

LEMMA StatusOfTable ==
  ASSUME NEW a, NEW q, parse(q, a) = 404
  PROVE  a.kind \notin {"list", "create", "upsert", "update", "delete"}
<1>1. CASE a.kind = "list"
  BY <1>1 DEF parse, refuseList, parseQueryParams, ??, Unless
<1>2. CASE a.kind \in {"create", "upsert"}
  BY <1>2 DEF parse, refuseRecords, ??, Unless
<1>3. CASE a.kind \in {"update", "delete"}
  BY <1>3 DEF parse, refuseChange, ??, Unless
<1>4. QED
  BY <1>1, <1>2, <1>3

(* Without the secret key nobody runs as service_role, and a user's id is  *)
(* the subject of a valid token.                                           *)
LEMMA PlainSession ==
  ASSUME NEW a, keyTier(a.apikey) # "secret", ~badToken(a)
  PROVE  LET s == jwtAuth(a)
         IN /\ AssumableFromSession(s) # "service_role"
            /\ s.uid # None => s.uid \in Subject(a) /\ a.bearer.valid
<1>1. CASE a.bearer.is = "token" /\ a.bearer.sub # None
  <2>1. a.bearer.role \in {"", "anon", "authenticated"} /\ a.bearer.valid
    BY <1>1 DEF badToken
  <2>2. /\ jwtAuth(a).role \in {"anon", "authenticated"} /\ jwtAuth(a).uid = a.bearer.sub
    BY <1>1, <2>1 DEF jwtAuth
  <2>3. QED
    BY <1>1, <2>1, <2>2 DEF AssumableFromSession, Subject
<1>2. CASE ~(a.bearer.is = "token" /\ a.bearer.sub # None)
  <2>1. jwtAuth(a) = Anonymous
    BY <1>2 DEF jwtAuth
  <2>2. QED
    BY <2>1 DEF Anonymous, AssumableFromSession
<1>3. QED
  BY <1>1, <1>2

----------------------------------------------------------------------------
(* Pages, whatever the width of an int.                                    *)
LEMMA WrapsOnce ==
  ASSUME NEW n \in Int
  PROVE  /\ IsInt(n) => wrap(n) = n
         /\ n \in MaxInt + 1..2 * MaxInt + 1 => wrap(n) = n - (2 * MaxInt + 2)
         /\ n \in 2 * MinInt..MinInt - 1 => wrap(n) = n + 2 * MaxInt + 2
<1> DEFINE w == 2 * MaxInt + 2
<1>0. MaxInt \in Nat
  BY RequestsAssumption
<1>1. ASSUME NEW k \in Nat, NEW m \in Nat, k < m
      PROVE  k % m = k /\ (k + m) % m = k /\ (k - m) % m = k
  BY <1>1, SMTT(60)
<1>2. w \in Nat /\ MinInt = -MaxInt - 1 /\ wrap(n) = ((n - MinInt) % w) + MinInt
  BY <1>0 DEF wrap, MinInt
<1> HIDE DEF w
<1>3. CASE IsInt(n)
  <2>1. n - MinInt \in Nat /\ n - MinInt < w
    BY <1>0, <1>2, <1>3 DEF IsInt, w
  <2>2. (n - MinInt) % w = n - MinInt
    BY <1>1, <1>2, <2>1
  <2>3. wrap(n) = n
    BY <1>0, <1>2, <2>2
  <2>4. QED
    BY <1>0, <1>2, <1>3, <2>3 DEF IsInt
<1>4. CASE n \in MaxInt + 1..2 * MaxInt + 1
  <2> DEFINE k == n - MinInt - w
  <2>1. k \in Nat /\ k < w /\ n - MinInt = k + w
    BY <1>0, <1>2, <1>4 DEF w
  <2> HIDE DEF k
  <2>2. (n - MinInt) % w = k
    BY <1>1, <1>2, <2>1
  <2>3. wrap(n) = n - (2 * MaxInt + 2)
    BY <1>0, <1>2, <2>1, <2>2 DEF w
  <2>4. QED
    BY <1>0, <1>2, <1>4, <2>3 DEF IsInt
<1>5. CASE n \in 2 * MinInt..MinInt - 1
  <2> DEFINE k == n - MinInt + w
  <2>1. k \in Nat /\ k < w /\ n - MinInt = k - w
    BY <1>0, <1>2, <1>5 DEF w
  <2> HIDE DEF k
  <2>2. (n - MinInt) % w = k
    BY <1>1, <1>2, <2>1
  <2>3. wrap(n) = n + 2 * MaxInt + 2
    BY <1>0, <1>2, <2>1, <2>2 DEF w
  <2>4. QED
    BY <1>0, <1>2, <1>5, <2>3 DEF IsInt
<1>6. QED
  BY <1>3, <1>4, <1>5

LEMMA AddSaturates ==
  ASSUME NEW a \in Int, NEW b \in Int, IsInt(a), IsInt(b)
  PROVE  /\ IsInt(a + b) => addSat(a, b) = a + b
         /\ a + b > MaxInt => addSat(a, b) = MaxInt
         /\ a + b < MinInt => addSat(a, b) = MinInt
<1>0. MaxInt \in Nat /\ MinInt = -MaxInt - 1
  BY RequestsAssumption DEF MinInt
<1>1. a \in MinInt..MaxInt /\ b \in MinInt..MaxInt
  BY DEF IsInt
<1>2. CASE IsInt(a + b)
  <2>1. wrap(a + b) = a + b /\ a + b \in MinInt..MaxInt
    BY <1>2, WrapsOnce DEF IsInt
  <2>2. QED
    BY <1>0, <1>1, <2>1 DEF addSat
<1>3. CASE a + b > MaxInt
  <2>1. wrap(a + b) = a + b - (2 * MaxInt + 2)
    BY <1>0, <1>1, <1>3, WrapsOnce
  <2>2. QED
    BY <1>0, <1>1, <1>3, <2>1 DEF addSat, IsInt
<1>4. CASE a + b < MinInt
  <2>1. wrap(a + b) = a + b + 2 * MaxInt + 2
    BY <1>0, <1>1, <1>4, WrapsOnce
  <2>2. QED
    BY <1>0, <1>1, <1>4, <2>1 DEF addSat, IsInt
<1>5. QED
  BY <1>0, <1>1, <1>2, <1>3, <1>4 DEF IsInt

(* The numbers of a request, as its handler reads them.                    *)
offsetOf(a) == IF "offset" \in DOMAIN a.page THEN a.page.offset ELSE 0
Limits(a) == "limit" \in DOMAIN a.page
Ranges(a) == "range" \in DOMAIN a.page /\ a.method = "GET"
endOf(a) == addSat(offsetOf(a), a.page.limit)

(* The position i is on the page that r describes.                         *)
OnPage(r, i) == r.lo <= i /\ (r.n # NoLimit => i < r.lo + r.n)
Positions == {i \in Int : 0 <= i /\ i < MaxInt}
PageOf(a, r) == r.lo \in 0..MaxInt /\ r.n \in Nat \cup {NoLimit} /\ \A i \in Positions : i \in Asked(a) <=> OnPage(r, i)

LEMMA AskedAt ==
  ASSUME NEW a, NEW i
  PROVE  i \in Asked(a) <=>
           /\ i \in 0..MaxInt /\ ("offset" \in DOMAIN a.page => i >= a.page.offset)
           /\ Limits(a) => i < a.page.limit + offsetOf(a)
           /\ Ranges(a) => i >= a.page.range[1] /\ (a.page.range[2] # Open => i <= a.page.range[2])
  BY DEF Asked, Limits, offsetOf, Ranges

(* What the Range header leaves.                                           *)
LEMMA RangeHeader ==
  ASSUME NEW r, r[1] \in Nat, r[2] \in Nat \cup {Open}
  PROVE  LET h == parseRangeHeader(r)
         IN /\ h.lo \in 0..MaxInt /\ h.hi \in 0..MaxInt
            /\ \A i \in Positions : i >= r[1] /\ (r[2] # Open => i <= r[2]) <=> h.lo <= i /\ i <= h.hi
            /\ h.lo > h.hi => ~\E i \in 0..MaxInt : i >= r[1] /\ (r[2] # Open => i <= r[2])
            /\ \A i \in 0..MaxInt : i >= r[1] /\ (r[2] # Open => i <= r[2]) => h.lo <= i /\ i <= h.hi
<1>0. MaxInt \in Nat
  BY RequestsAssumption
<1>1. QED
  BY <1>0 DEF parseRangeHeader, clampAtoi, Smaller, Positions, Open

(* What offset and limit leave, when they are ints.                        *)
Proper(a) ==
  /\ IsInt(offsetOf(a)) /\ (Limits(a) => IsInt(a.page.limit))
  /\ Ranges(a) => a.page.range[1] \in Nat /\ a.page.range[2] \in Nat \cup {Open}
lowest(a) == Larger(offsetOf(a), 0)
highest(a) == IF Limits(a) /\ endOf(a) < MaxInt THEN Larger(endOf(a), MinInt + 1) - 1 ELSE MaxInt
LEMMA LimitHolds ==
  ASSUME NEW a, Proper(a)
  PROVE  /\ highest(a) \in Int /\ highest(a) <= MaxInt
         /\ Limits(a) => endOf(a) \in Int
         /\ Limits(a) /\ endOf(a) = 0 => a.page.limit + offsetOf(a) = 0
         /\ \A i \in 0..MaxInt : (Limits(a) => i < a.page.limit + offsetOf(a)) => i <= highest(a)
         /\ \A i \in Positions : i <= highest(a) => (Limits(a) => i < a.page.limit + offsetOf(a))
<1> DEFINE o == offsetOf(a)
           l == a.page.limit
           e == endOf(a)
<1>0. MaxInt \in Nat /\ MinInt \in Int /\ MinInt = -MaxInt - 1
  BY RequestsAssumption DEF MinInt
<1>1. CASE ~Limits(a)
  BY <1>0, <1>1 DEF highest, Positions
<1>2. CASE Limits(a)
  <2>1. o \in MinInt..MaxInt /\ l \in MinInt..MaxInt
    BY <1>2 DEF Proper, IsInt
  <2>2. /\ o + l \in MinInt..MaxInt => e = o + l
        /\ o + l > MaxInt => e = MaxInt
        /\ o + l < MinInt => e = MinInt
    BY <1>0, <1>2, <2>1, AddSaturates DEF Proper, endOf, IsInt
  <2> HIDE DEF o, l, e
  <2>3. e \in MinInt..MaxInt /\ (e = 0 => l + o = 0)
    BY <1>0, <2>1, <2>2
  <2>4. highest(a) = IF e < MaxInt THEN (IF e > MinInt + 1 THEN e ELSE MinInt + 1) - 1 ELSE MaxInt
    BY <1>2 DEF highest, Larger, e
  <2>5. /\ highest(a) \in Int /\ highest(a) <= MaxInt
        /\ \A i \in 0..MaxInt : i < l + o => i <= highest(a)
        /\ \A i \in Positions : i <= highest(a) => i < l + o
    BY <1>0, <2>1, <2>2, <2>3, <2>4 DEF Positions
  <2>6. QED
    BY <1>0, <1>2, <2>3, <2>5 DEF o, l, e
<1>3. QED
  BY <1>1, <1>2

(* intersectRange gives exactly what was asked for, or refuses what asks   *)
(* for nothing.                                                            *)
LEMMA PageIsAsked ==
  ASSUME NEW a, Proper(a), "offset" \notin DOMAIN a.page \/ a.page.offset \in Int
  PROVE  LET p == intersectRange(a)
         IN (p.ok => PageOf(a, p)) /\ (~p.ok => Asked(a) = {})
<1> DEFINE r == IF Ranges(a) THEN parseRangeHeader(a.page.range) ELSE [lo |-> 0, hi |-> MaxInt]
           lo == Larger(lowest(a), r.lo)
           hi == Smaller(highest(a), r.hi)
           none == Limits(a) /\ endOf(a) = 0
           empty == r.lo > r.hi \/ lo > hi
           InRange(i) == Ranges(a) => i >= a.page.range[1] /\ (a.page.range[2] # Open => i <= a.page.range[2])
<1>0. MaxInt \in Nat
  BY RequestsAssumption
<1>1. intersectRange(a) =
        CASE none            -> [ok |-> TRUE, lo |-> 0, n |-> 0]
          [] ~none /\ empty  -> Unsatisfiable
          [] OTHER -> [ok |-> TRUE, lo |-> lo, n |-> IF hi = MaxInt THEN NoLimit ELSE hi - lo + 1]
  BY DEF intersectRange, lowest, highest, offsetOf, Limits, Ranges, endOf
<1>2. /\ r.lo \in 0..MaxInt /\ r.hi \in 0..MaxInt
      /\ \A i \in 0..MaxInt : InRange(i) => r.lo <= i /\ i <= r.hi
      /\ \A i \in Positions : r.lo <= i /\ i <= r.hi => InRange(i)
  <2>1. CASE Ranges(a)
    BY <2>1, RangeHeader DEF Proper
  <2>2. CASE ~Ranges(a)
    BY <1>0, <2>2 DEF Positions
  <2>3. QED
    BY <2>1, <2>2
<1>3. offsetOf(a) \in Int /\ lowest(a) \in Nat /\ \A i \in 0..MaxInt : offsetOf(a) <= i <=> lowest(a) <= i
  <2>1. offsetOf(a) \in Int
    BY DEF offsetOf
  <2>2. QED
    BY <2>1, <1>0 DEF lowest, Larger
<1>4. ASSUME NEW i
      PROVE  i \in Asked(a) <=> /\ i \in 0..MaxInt /\ offsetOf(a) <= i
                                /\ Limits(a) => i < a.page.limit + offsetOf(a)
                                /\ InRange(i)
  <2>1. i \in 0..MaxInt => (("offset" \in DOMAIN a.page => i >= a.page.offset) <=> offsetOf(a) <= i)
    BY <1>0 DEF offsetOf
  <2>2. QED
    BY <2>1, AskedAt
<1> HIDE DEF r, InRange
<1>5. \A i \in Asked(a) : lo <= i /\ i <= hi /\ r.lo <= i /\ i <= r.hi
  BY <1>0, <1>2, <1>3, <1>4, LimitHolds DEF Larger, Smaller
<1>6. \A i \in Positions : i \in Asked(a) <=> (lo <= i /\ i <= hi)
  <2>1. ASSUME NEW i \in Positions, lo <= i, i <= hi
        PROVE  i \in Asked(a)
    <3>1. i \in 0..MaxInt
      BY <1>0 DEF Positions
    <3>2. lowest(a) <= i /\ r.lo <= i /\ i <= highest(a) /\ i <= r.hi
      BY <2>1, <3>1, <1>0, <1>2, <1>3, LimitHolds DEF Larger, Smaller
    <3>3. QED
      BY <3>1, <3>2, <1>2, <1>3, <1>4, LimitHolds
  <2>2. QED
    BY <1>5, <2>1
<1>7. lo \in Nat /\ hi \in Int /\ hi <= MaxInt
  BY <1>0, <1>2, <1>3, LimitHolds DEF Larger, Smaller
<1>8. CASE none
  <2>1. Asked(a) = {}
    BY <1>0, <1>3, <1>4, <1>8, LimitHolds
  <2>2. intersectRange(a) = [ok |-> TRUE, lo |-> 0, n |-> 0]
    BY <1>1, <1>8
  <2>3. QED
    BY <1>0, <2>1, <2>2 DEF PageOf, OnPage, NoLimit, Positions
<1>9. CASE ~none /\ empty
  <2>1. Asked(a) = {}
    BY <1>0, <1>2, <1>4, <1>5, <1>7, <1>9
  <2>2. intersectRange(a) = Unsatisfiable
    BY <1>1, <1>9
  <2>3. QED
    BY <2>1, <2>2 DEF Unsatisfiable
<1>10. CASE ~none /\ ~empty
  <2> DEFINE n == IF hi = MaxInt THEN NoLimit ELSE hi - lo + 1
             p == [ok |-> TRUE, lo |-> lo, n |-> n]
  <2> HIDE DEF lo, hi
  <2>1. intersectRange(a) = p
    BY <1>1, <1>10
  <2>2. lo <= hi /\ lo \in 0..MaxInt
    BY <1>0, <1>7, <1>10
  <2>3. n \in Nat \cup {NoLimit} /\ (n # NoLimit => n = hi - lo + 1) /\ (n = NoLimit <=> hi = MaxInt)
    BY <1>0, <1>7, <2>2 DEF NoLimit
  <2>4. \A i \in Positions : i \in Asked(a) <=> OnPage(p, i)
    <3>1. \A i \in Positions : i \in Int /\ i < MaxInt
      BY DEF Positions
    <3>2. p.lo = lo /\ p.n = n
      OBVIOUS
    <3> HIDE DEF p, n
    <3>3. \A i \in Positions : OnPage(p, i) <=> (lo <= i /\ i <= hi)
      BY <1>0, <1>7, <2>2, <2>3, <3>1, <3>2 DEF OnPage, NoLimit
    <3>4. QED
      BY <1>6, <3>3
  <2>5. p.ok /\ p.lo = lo /\ p.n = n
    OBVIOUS
  <2> HIDE DEF p, n
  <2>6. PageOf(a, p) /\ p.ok
    BY <2>2, <2>3, <2>4, <2>5 DEF PageOf
  <2>7. QED
    BY <2>1, <2>6
<1>11. QED
  BY <1>8, <1>9, <1>10

(* max_limit leaves the first of them.                                     *)
LEMMA CappedPage ==
  ASSUME NEW a, NEW p, PageOf(a, p), NEW most \in 0..MaxInt, NEW count \in 0..MaxInt
  PROVE  window(p.lo, capLimit(p.n, most), count) = {i \in FirstOf(Asked(a), most) : i < count}
<1> DEFINE n == capLimit(p.n, most)
<1>0. MaxInt \in Nat
  BY RequestsAssumption
<1>1. p.lo \in 0..MaxInt /\ p.n \in Nat \cup {NoLimit} /\ \A i \in Positions : i \in Asked(a) <=> OnPage(p, i)
  BY DEF PageOf
<1>2. ASSUME NEW i \in Positions, i \in Asked(a)
      PROVE  Cardinality({j \in Asked(a) : j < i}) = i - p.lo
  <2>1. i \in Nat /\ i < MaxInt /\ p.lo \in Nat /\ p.lo <= i
    BY <1>0, <1>1, <1>2 DEF Positions, OnPage
  <2>2. {j \in Asked(a) : j < i} = p.lo..(i - 1)
    <3>1. ASSUME NEW j \in Asked(a), j < i PROVE j \in p.lo..(i - 1)
      <4>1. j \in Positions
        BY <1>0, <2>1, <3>1, AskedAt DEF Positions
      <4>2. QED
        BY <1>1, <2>1, <3>1, <4>1 DEF OnPage, Positions
    <3>2. ASSUME NEW j \in p.lo..(i - 1) PROVE j \in Asked(a) /\ j < i
      <4>1. j \in Positions /\ p.lo <= j /\ j < i
        BY <1>0, <2>1 DEF Positions
      <4>2. OnPage(p, j)
        BY <1>1, <1>2, <2>1, <4>1 DEF OnPage, NoLimit, Positions
      <4>3. QED
        BY <1>1, <4>1, <4>2
    <3>3. QED
      BY <3>1, <3>2
  <2>3. Cardinality(p.lo..(i - 1)) = i - p.lo
    <3>1. p.lo \in Int /\ i - 1 \in Int
      BY <2>1
    <3>2. Cardinality(p.lo..(i - 1)) = IF p.lo > i - 1 THEN 0 ELSE (i - 1) - p.lo + 1
      BY <3>1, FS_Interval
    <3>3. QED
      BY <2>1, <3>2
  <2>4. QED
    BY <2>2, <2>3
<1>3. ASSUME NEW i \in Positions
      PROVE  i \in FirstOf(Asked(a), most) <=> p.lo <= i /\ (n # NoLimit => i < p.lo + n)
  <2>1. i \in Nat /\ i < MaxInt /\ (i \in Asked(a) <=> (p.lo <= i /\ (p.n # NoLimit => i < p.lo + p.n)))
    BY <1>0, <1>1 DEF Positions, OnPage
  <2>2. i \in FirstOf(Asked(a), most) <=> i \in Asked(a) /\ (most # 0 => i - p.lo < most)
    BY <1>2 DEF FirstOf
  <2>3. QED
    BY <1>0, <1>1, <2>1, <2>2 DEF capLimit, NoLimit
<1>4. ASSUME NEW i \in 0..count - 1
      PROVE  i \in Positions
  BY <1>0 DEF Positions
<1>5. window(p.lo, n, count) = {i \in 0..count - 1 : p.lo <= i /\ (n # NoLimit => i < p.lo + n)}
  BY DEF window
<1>6. \A i \in FirstOf(Asked(a), most) : i \in 0..MaxInt
  BY AskedAt DEF FirstOf
<1> HIDE DEF n
<1>7. QED
  BY <1>0, <1>3, <1>4, <1>5, <1>6 DEF n

(* The guard's saturated numbers ask for no less.                          *)
LEMMA GuardRefuses ==
  ASSUME NEW a, WellFormed(a), rangeGuard(a) = 416
  PROVE  Asked(a) = {}
<1> DEFINE Clamp(x) == Larger(MinInt, Smaller(x, MaxInt))
           F == {g \in DOMAIN a.page : g = "limit" => IsInt(a.page.limit)}
           p == [f \in F |-> IF f = "offset" THEN Clamp(a.page.offset) ELSE a.page[f]]
           b == [a EXCEPT !.page = p]
<1>0. MaxInt \in Nat /\ MinInt \in Int /\ MinInt = -MaxInt - 1
  BY RequestsAssumption DEF MinInt
<1>1. ~intersectRange(b).ok
  BY DEF rangeGuard, ??, Unless
<1>2. b.page = p /\ b.method = a.method
  BY DEF WellFormed
<1> HIDE DEF b
<1>3. /\ "offset" \in DOMAIN b.page <=> "offset" \in DOMAIN a.page
      /\ Ranges(b) <=> Ranges(a)
      /\ Limits(b) <=> Limits(a) /\ IsInt(a.page.limit)
      /\ "offset" \in DOMAIN a.page => b.page.offset = Clamp(a.page.offset)
      /\ Limits(b) => b.page.limit = a.page.limit
      /\ Ranges(b) => b.page.range = a.page.range
  BY <1>2 DEF Ranges, Limits
<1>4. "offset" \in DOMAIN a.page => a.page.offset \in Int /\ IsInt(Clamp(a.page.offset))
  BY <1>0 DEF WellFormed, Larger, Smaller, IsInt
<1>5. Proper(b) /\ ("offset" \in DOMAIN b.page => b.page.offset \in Int)
  <2>1. IsInt(offsetOf(b)) /\ ("offset" \in DOMAIN b.page => b.page.offset \in Int)
    BY <1>0, <1>3, <1>4 DEF offsetOf, IsInt
  <2>2. Limits(b) => IsInt(b.page.limit)
    BY <1>3
  <2>3. Ranges(b) => b.page.range[1] \in Nat /\ b.page.range[2] \in Nat \cup {Open}
    BY <1>3 DEF Ranges, WellFormed
  <2>4. QED
    BY <2>1, <2>2, <2>3 DEF Proper
<1>6. Asked(b) = {}
  BY <1>1, <1>5, PageIsAsked
<1>7. ASSUME NEW i \in Asked(a)
      PROVE  i \in Asked(b)
  <2>1. /\ i \in 0..MaxInt /\ ("offset" \in DOMAIN a.page => i >= a.page.offset)
        /\ Limits(a) => i < a.page.limit + offsetOf(a)
        /\ Ranges(a) => i >= a.page.range[1] /\ (a.page.range[2] # Open => i <= a.page.range[2])
    BY AskedAt
  <2>2. "offset" \in DOMAIN a.page => i >= Clamp(a.page.offset) /\ a.page.offset <= Clamp(a.page.offset)
    BY <1>0, <1>4, <2>1 DEF Larger, Smaller
  <2>3. offsetOf(a) \in Int /\ offsetOf(b) \in Int /\ offsetOf(a) <= offsetOf(b)
    BY <1>0, <1>3, <1>4, <1>5, <2>2 DEF offsetOf
  <2>4. Limits(b) => i < b.page.limit + offsetOf(b)
    <3>1. Limits(b) => a.page.limit \in Int
      BY <1>3 DEF Limits, WellFormed
    <3>2. QED
      BY <1>3, <2>1, <2>3, <3>1
  <2>5. QED
    BY <1>3, <2>1, <2>2, <2>4, AskedAt
<1>8. QED
  BY <1>6, <1>7

----------------------------------------------------------------------------
(* A list or a call that is refused as out of range asked for nothing, and *)
(* what it asked for is the page of one that is not refused.               *)
LEMMA MountRefuses ==
  ASSUME NEW a, WellFormed(a), Mount(a) = 416
  PROVE  Asked(a) = {}
<1>1. rangeGuard(a) = 416
  BY DEF Mount, ??, Unless
<1>2. QED
  BY <1>1, GuardRefuses

LEMMA ProperNumbers ==
  ASSUME NEW a, WellFormed(a), ~oddNumber(a)
  PROVE  Proper(a) /\ ("offset" \notin DOMAIN a.page \/ a.page.offset \in Int)
<1>1. IsInt(0)
  BY RequestsAssumption DEF IsInt, MinInt
<1>2. IsInt(offsetOf(a)) /\ (Limits(a) => IsInt(a.page.limit))
  BY <1>1 DEF oddNumber, offsetOf, Limits
<1>3. QED
  BY <1>2 DEF Proper, Ranges, WellFormed

LEMMA HandlerPages ==
  ASSUME NEW a, WellFormed(a), NEW q, Lists(a),
         a.kind = "list" \/ Chains(Configs[live].rpc[a.fn])
  PROVE  /\ parse(q, a) = 416 => Asked(a) = {}
         /\ parse(q, a) = 0 => PageOf(a, intersectRange(a))
<1> DEFINE ok == intersectRange(a).ok
<1>1. (parse(q, a) = 416 => ~oddNumber(a) /\ ~ok) /\ (parse(q, a) = 0 => ~oddNumber(a) /\ ok)
  <2> HIDE DEF ok
  <2>1. CASE a.kind = "list"
    BY <2>1 DEF parse, refuseList, parseQueryParams, ??, Unless, ok
  <2>2. CASE a.kind = "rpc"
    <3> DEFINE f == Configs[live].rpc[a.fn]
               c == parseRPCChain(a, f)
    <3>1. Chains(f)
      BY <2>2
    <3>2. (c = 416 => ~oddNumber(a) /\ ~ok) /\ (c = 0 => ~oddNumber(a) /\ ok)
      BY <3>1 DEF parseRPCChain, ??, Unless, ok
    <3>3. collectRPCArgs(a, f) \in {0, 400, 404}
      BY DEF collectRPCArgs, ??, Unless
    <3> HIDE DEF f, c
    <3>4. PICK m, n \in {0, 401, 405} :
            parse(q, a) \in {404, m ?? n ?? collectRPCArgs(a, f) ?? c}
      <4>1. parse(q, a) = refuseCall(q, a)
        BY <2>2 DEF parse
      <4>2. \A b, s : Unless(b, s) \in {0, s}
        BY DEF Unless
      <4>3. CASE a.fn \notin DOMAIN Configs[live].rpc
        BY <4>1, <4>3 DEF refuseCall
      <4>4. CASE a.fn \in DOMAIN Configs[live].rpc
        <5> DEFINE s == jwtAuth(a)
                   m == Unless(a.method \in {"GET", "HEAD"} /\ Volatile(f), 405)
                   n == Unless(f.auth /\ ~s.authed /\ ~s.admin, 401)
        <5>1. refuseCall(q, a) = m ?? n ?? collectRPCArgs(a, f) ?? c
          BY <4>4 DEF refuseCall, f, c
        <5>2. m \in {0, 405} /\ n \in {0, 401}
          BY <4>2
        <5> HIDE DEF m, n
        <5>3. QED
          BY <4>1, <5>1, <5>2
      <4>5. QED
        BY <4>3, <4>4
    <3>5. QED
      BY <3>2, <3>3, <3>4 DEF ??
  <2>3. QED
    BY <2>1, <2>2 DEF Lists
<1>2. QED
  BY <1>1, ProperNumbers, PageIsAsked

LEMMA OtherCalls ==
  ASSUME NEW a, NEW q, a.kind = "rpc", ~Chains(Configs[live].rpc[a.fn])
  PROVE  parse(q, a) # 416
  BY DEF parse, refuseCall, collectRPCArgs, parseRPCChain, ??, Unless

----------------------------------------------------------------------------
(* The steps of a job, from i to j.                                        *)
Keeps(i, j, F) == \A f \in Fields \ F : j[f] = i[f]
Refuses(i, j, ans) == j.pc = "done" /\ j.ans = ans /\ Keeps(i, j, {"pc", "ans", "conn"})
Arrives(a, i, j, v) ==
  /\ i.pc = "idle" /\ a.kind # "nothing"
  /\ \/ \E ans : Refuses(i, j, ans) /\ ans \notin 200..299 /\ (Lists(a) /\ ans = 416 => Asked(a) = {})
     \/ /\ Mount(a) = 0 /\ j.pc \in {"route", "parse"} /\ j.arrived = v /\ j.cfg = v
        /\ Keeps(i, j, {"pc", "arrived", "cfg"})
Routes(a, i, j, v) ==
  i.pc \in {"route", "build"} /\ j.pc \in {"build", "parse"} /\ j.cfg \in {i.cfg, v} /\ Keeps(i, j, {"pc", "cfg"})
Declined(a, i, ans) ==
  /\ ans \notin 200..299
  /\ Table(a) /\ ans = 404 => a.table \notin Configs[i.cfg].tables
  /\ Lists(a) /\ ans = 416 => Asked(a) = {}
Parses(a, i, j, v) ==
  /\ i.pc = "parse"
  /\ \/ \E ans : Declined(a, i, ans) /\ Refuses(i, j, ans)
     \/ /\ j.pc = "begin" /\ Keeps(i, j, {"pc", "cfg", "page"})
        /\ IF Table(a) THEN j.cfg = i.cfg ELSE j.cfg = v
        /\ a.kind = "rpc" =>
             a.fn \in DOMAIN Configs[j.cfg].rpc /\ (Idempotent(a) => ~Volatile(Called(a, j)))
        /\ IsPaged(a, j) => PageRight(a, j.page, v)
Begins(a, i, j) ==
  /\ i.pc = "begin" /\ j.pc = "run" /\ Keeps(i, j, {"pc", "conn", "role", "uid"})
  /\ a.kind # "query" =>
       LET s == jwtAuth(a)
       IN j.role = AssumableFromSession(s) /\ (j.role # "service_role" => j.uid = s.uid)
Fails(i, j) == i.pc \in {"begin", "run", "count"} /\ Refuses(i, j, 500)
RunFails(a, i, j, mode) ==
  /\ i.pc = "run" /\ j.pc = "done" /\ Keeps(i, j, {"pc", "ans", "conn", "wrote"})
  /\ a.kind # "query" \/ mode = "readonly" => j.wrote = {}
  /\ Table(a) => j.ans \in {403, 409}
  /\ Lists(a) => j.ans # 416
Runs(a, i, j, mode) ==
  /\ i.pc = "run" /\ Keeps(i, j, {"pc", "pend", "n", "owners", "wrote", "total"})
  /\ j.pc = "finish" \/ (j.pc = "count" /\ a.kind = "list" /\ a.count)
  /\ ~a.count => j.total = NoLimit
  /\ a.kind # "query" \/ mode = "readonly" => j.wrote = {}
  /\ ReadsOnly(a, i, mode) => DOMAIN j.pend = {}
  /\ Mutates(a) => j.n \in Nat /\ j.n = Cardinality(DOMAIN j.pend)
  /\ a.kind # "query" => \A o \in j.owners : i.role = "service_role" \/ (o = i.uid /\ o # None)
Counts(a, i, j) == i.pc = "count" /\ j.pc = "finish" /\ Keeps(i, j, {"pc", "total"})
(* A change is kept when its checks pass and the commit is not lost.       *)
Passes(a, i) ==
  /\ ~(a.max # NoLimit /\ a.kind \in {"update", "delete"} /\ i.n > a.max)
  /\ ~(a.singular /\ i.n # 1) /\ ~a.dry
Finishes(a, i, j) ==
  /\ i.pc = "finish" /\ j.pc = "done" /\ Keeps(i, j, {"pc", "ans", "conn", "pend", "wrote"})
  /\ j.wrote = i.wrote \/ j.wrote = i.wrote \cup DOMAIN i.pend
  /\ Table(a) => j.ans # 404
  /\ Lists(a) /\ i.total = NoLimit => j.ans # 416
  /\ Mutates(a) /\ j.wrote # i.wrote => Passes(a, i) /\ j.ans \in {200, 201, 500}
  /\ Mutates(a) /\ ~a.dry /\ j.ans \in 200..299 => j.wrote = i.wrote \cup DOMAIN i.pend
Acts(a, i, j, v, mode) ==
  \/ Arrives(a, i, j, v) \/ Routes(a, i, j, v) \/ Parses(a, i, j, v) \/ Begins(a, i, j) \/ Fails(i, j)
  \/ RunFails(a, i, j, mode) \/ Runs(a, i, j, mode) \/ Counts(a, i, j) \/ Finishes(a, i, j)

(* The parts of the invariant, one kind of step at a time.                 *)
LEMMA SessionStep ==
  ASSUME NEW a, NEW i, NEW j, NEW v, NEW mode, SessionOK(a, i), Acts(a, i, j, v, mode)
  PROVE  SessionOK(a, j)
<1>0. i.owners # {} /\ Plain(a) => Own(a, i.owners)
  BY DEF SessionOK
<1>1. CASE Arrives(a, i, j, v)
  BY <1>0, <1>1 DEF Arrives, Refuses, Keeps, Fields, SessionOK, Inside, Running
<1>2. CASE Routes(a, i, j, v) \/ Counts(a, i, j)
  BY <1>0, <1>2 DEF Routes, Counts, Keeps, Fields, SessionOK, Inside, Running
<1>3. CASE Parses(a, i, j, v)
  <2>1. CASE \E ans : Declined(a, i, ans) /\ Refuses(i, j, ans)
    <3>1. PICK ans : Declined(a, i, ans) /\ Refuses(i, j, ans)
      BY <2>1
    <3>2. QED
      BY <1>0, <1>3, <3>1 DEF Parses, Declined, Refuses, Keeps, Fields, SessionOK, Inside, Running
  <2>2. CASE ~\E ans : Declined(a, i, ans) /\ Refuses(i, j, ans)
    BY <1>0, <1>3, <2>2 DEF Parses, Keeps, Fields, SessionOK, Inside, Running
  <2>3. QED
    BY <2>1, <2>2
<1>4. CASE Begins(a, i, j)
  BY <1>0, <1>4 DEF Begins, Keeps, Fields, SessionOK, Inside, Running, Plain
<1>5. CASE Fails(i, j)
  BY <1>0, <1>5 DEF Fails, Refuses, Keeps, Fields, SessionOK, Inside, Running
<1>6. CASE RunFails(a, i, j, mode) \/ Finishes(a, i, j)
  BY <1>0, <1>6 DEF RunFails, Finishes, Keeps, Fields, SessionOK, Inside, Running
<1>7. CASE Runs(a, i, j, mode)
  <2>1. i.pc = "run" /\ j.pc \in Running /\ j.role = i.role /\ j.uid = i.uid
    BY <1>7 DEF Runs, Keeps, Fields, Running
  <2>2. /\ a.kind # "query" => Mount(a) = 0
        /\ Plain(a) => i.role = AssumableFromSession(jwtAuth(a))
        /\ Plain(a) /\ i.role # "service_role" => i.uid = jwtAuth(a).uid
    BY <2>1 DEF SessionOK, Inside, Running
  <2>3. ASSUME j.owners # {}, Plain(a)
        PROVE  Own(a, j.owners)
    <3>1. ~badToken(a)
      BY <2>2, <2>3, PassesMount DEF Plain
    <3>2. i.role # "service_role" /\ (i.uid # None => i.uid \in Subject(a) /\ a.bearer.valid)
      BY <2>2, <2>3, <3>1, PlainSession DEF Plain
    <3>3. \A o \in j.owners : o = i.uid /\ o # None
      BY <1>7, <2>3, <3>2 DEF Runs, Plain
    <3>4. QED
      BY <2>3, <3>2, <3>3 DEF Own
  <2>4. QED
    BY <2>1, <2>2, <2>3 DEF SessionOK, Running
<1>8. QED
  BY <1>1, <1>2, <1>3, <1>4, <1>5, <1>6, <1>7 DEF Acts

LEMMA ServedStep ==
  ASSUME NEW a, NEW i, NEW j, NEW v \in Nat, v # 0, NEW mode, ServedOK(a, i, v), Acts(a, i, j, v, mode)
  PROVE  ServedOK(a, j, v)
<1>1. CASE Arrives(a, i, j, v)
  BY <1>1 DEF Arrives, Refuses, Keeps, Fields, ServedOK, Inside, Running
<1>2. CASE Routes(a, i, j, v) \/ Counts(a, i, j)
  BY <1>2 DEF Routes, Counts, Keeps, Fields, ServedOK, Inside, Running
<1>3. CASE Parses(a, i, j, v)
  <2>1. CASE \E ans : Declined(a, i, ans) /\ Refuses(i, j, ans)
    <3>1. PICK ans : Declined(a, i, ans) /\ Refuses(i, j, ans)
      BY <2>1
    <3>2. QED
      BY <1>3, <3>1 DEF Parses, Declined, Refuses, Keeps, Fields, ServedOK, Inside, Running, Table
  <2>2. CASE ~\E ans : Declined(a, i, ans) /\ Refuses(i, j, ans)
    BY <1>3, <2>2 DEF Parses, Keeps, Fields, ServedOK, Inside, Running, Table
  <2>3. QED
    BY <2>1, <2>2
<1>4. CASE Begins(a, i, j) \/ Runs(a, i, j, mode)
  BY <1>4 DEF Begins, Runs, Keeps, Fields, ServedOK, Inside, Running
<1>5. CASE Fails(i, j)
  BY <1>5 DEF Fails, Refuses, Keeps, Fields, ServedOK, Inside, Running
<1>6. CASE RunFails(a, i, j, mode) \/ Finishes(a, i, j)
  BY <1>6 DEF RunFails, Finishes, Keeps, Fields, ServedOK, Inside, Running
<1>7. QED
  BY <1>1, <1>2, <1>3, <1>4, <1>5, <1>6 DEF Acts

LEMMA SilentStep ==
  ASSUME NEW a, NEW i, NEW j, NEW v \in Nat, v # 0, NEW mode, SilentOK(a, i, mode), ServedOK(a, i, v),
         Acts(a, i, j, v, mode)
  PROVE  SilentOK(a, j, mode)
<1>1. CASE Arrives(a, i, j, v)
  BY <1>1 DEF Arrives, Refuses, Keeps, Fields, SilentOK, Running, ReadsOnly, Called
<1>2. CASE Routes(a, i, j, v)
  BY <1>2 DEF Routes, Keeps, Fields, SilentOK, Running
<1>3. CASE Parses(a, i, j, v)
  <2>1. CASE \E ans : Declined(a, i, ans) /\ Refuses(i, j, ans)
    <3>1. PICK ans : Declined(a, i, ans) /\ Refuses(i, j, ans)
      BY <2>1
    <3>2. QED
      BY <1>3, <3>1 DEF Parses, Declined, Refuses, Keeps, Fields, SilentOK, Running, ReadsOnly, Called
  <2>2. CASE ~\E ans : Declined(a, i, ans) /\ Refuses(i, j, ans)
    BY <1>3, <2>2 DEF Parses, Keeps, Fields, SilentOK, Running, ReadsOnly, Called
  <2>3. QED
    BY <2>1, <2>2
<1>4. CASE Begins(a, i, j) \/ Counts(a, i, j)
  BY <1>4 DEF Begins, Counts, Keeps, Fields, SilentOK, Running, ReadsOnly, Called
<1>5. CASE Fails(i, j)
  BY <1>5 DEF Fails, Refuses, Keeps, Fields, SilentOK, Running, ReadsOnly, Called
<1>6. CASE RunFails(a, i, j, mode) \/ Runs(a, i, j, mode)
  BY <1>6 DEF RunFails, Runs, Keeps, Fields, SilentOK, Running, ReadsOnly, Called
<1>7. CASE Finishes(a, i, j)
  BY <1>7 DEF Finishes, Keeps, Fields, SilentOK, Running, ReadsOnly, Called
<1>8. QED
  BY <1>1, <1>2, <1>3, <1>4, <1>5, <1>6, <1>7 DEF Acts

LEMMA CountedStep ==
  ASSUME NEW a, a.max \in Int, NEW i, NEW j, NEW v, NEW mode, CountedOK(a, i), Acts(a, i, j, v, mode)
  PROVE  CountedOK(a, j)
<1> SUFFICES ASSUME Mutates(a) PROVE CountedOK(a, j)
  BY DEF CountedOK
<1>0. Table(a) /\ a.kind # "list" /\ a.kind # "query" /\ Cardinality({}) = 0
  BY FS_EmptySet DEF Mutates, Table
<1>1. CASE Arrives(a, i, j, v)
  BY <1>0, <1>1 DEF Arrives, Refuses, Keeps, Fields, CountedOK, Kept
<1>2. CASE Routes(a, i, j, v) \/ Begins(a, i, j) \/ Counts(a, i, j)
  BY <1>0, <1>2 DEF Routes, Begins, Counts, Keeps, Fields, CountedOK
<1>3. CASE Parses(a, i, j, v)
  <2>1. CASE \E ans : Declined(a, i, ans) /\ Refuses(i, j, ans)
    <3>1. PICK ans : Declined(a, i, ans) /\ Refuses(i, j, ans)
      BY <2>1
    <3>2. QED
      BY <1>0, <1>3, <3>1 DEF Parses, Declined, Refuses, Keeps, Fields, CountedOK, Kept
  <2>2. CASE ~\E ans : Declined(a, i, ans) /\ Refuses(i, j, ans)
    BY <1>0, <1>3, <2>2 DEF Parses, Keeps, Fields, CountedOK, Kept
  <2>3. QED
    BY <2>1, <2>2
<1>4. CASE Fails(i, j)
  BY <1>0, <1>4 DEF Fails, Refuses, Keeps, Fields, CountedOK, Kept
<1>5. CASE RunFails(a, i, j, mode)
  BY <1>0, <1>5 DEF RunFails, Keeps, Fields, CountedOK, Kept
<1>6. CASE Runs(a, i, j, mode)
  BY <1>0, <1>6 DEF Runs, Keeps, Fields, CountedOK
<1>7. CASE Finishes(a, i, j)
  <2>1. i.wrote = {} /\ i.n \in Nat /\ i.n = Cardinality(DOMAIN i.pend) /\ j.n = i.n /\ j.pc = "done"
    BY <1>0, <1>7 DEF Finishes, Keeps, Fields, CountedOK
  <2>2. Kept(a, j)
    BY <1>0, <1>7, <2>1 DEF Finishes, Kept, Passes
  <2>3. QED
    BY <2>1, <2>2 DEF CountedOK
<1>8. QED
  BY <1>1, <1>2, <1>3, <1>4, <1>5, <1>6, <1>7 DEF Acts

LEMMA PagedStep ==
  ASSUME NEW a, NEW i, NEW j, NEW v \in Nat, v # 0, NEW mode, PagedOK(a, i, v), ServedOK(a, i, v),
         Acts(a, i, j, v, mode)
  PROVE  PagedOK(a, j, v)
<1> SUFFICES ASSUME Lists(a) PROVE PagedOK(a, j, v)
  BY DEF PagedOK
<1>1. CASE Arrives(a, i, j, v)
  BY <1>1 DEF Arrives, Refuses, Keeps, Fields, PagedOK
<1>2. CASE Routes(a, i, j, v) \/ Begins(a, i, j)
  BY <1>2 DEF Routes, Begins, Keeps, Fields, PagedOK
<1>3. CASE Parses(a, i, j, v)
  <2>1. i.arrived \in Nat /\ i.arrived # 0 /\ i.cfg \in i.arrived..v /\ i.pc = "parse"
    BY <1>3 DEF Parses, ServedOK, Inside
  <2>2. v \in i.arrived..v
    BY <2>1
  <2>3. CASE \E ans : Declined(a, i, ans) /\ Refuses(i, j, ans)
    <3>1. PICK ans : Declined(a, i, ans) /\ Refuses(i, j, ans)
      BY <2>3
    <3>2. QED
      BY <2>1, <3>1 DEF Declined, Refuses, Keeps, Fields, PagedOK
  <2>4. CASE ~\E ans : Declined(a, i, ans) /\ Refuses(i, j, ans)
    <3>1. j.pc = "begin" /\ j.arrived = i.arrived /\ j.total = i.total /\ (IsPaged(a, j) => PageRight(a, j.page, v))
      BY <1>3, <2>4 DEF Parses, Keeps, Fields
    <3>2. QED
      BY <2>1, <2>2, <3>1 DEF PagedOK
  <2>5. QED
    BY <2>3, <2>4
<1>4. CASE Fails(i, j) \/ RunFails(a, i, j, mode)
  BY <1>4 DEF Fails, Refuses, RunFails, Keeps, Fields, PagedOK
<1>5. CASE Runs(a, i, j, mode) \/ Counts(a, i, j)
  BY <1>5 DEF Runs, Counts, Keeps, Fields, PagedOK
<1>6. CASE Finishes(a, i, j)
  BY <1>6 DEF Finishes, Keeps, Fields, PagedOK
<1>7. QED
  BY <1>1, <1>2, <1>3, <1>4, <1>5, <1>6 DEF Acts

----------------------------------------------------------------------------
(* What a step of a request does to the jobs.                              *)
Moves(q) ==
  /\ DOMAIN job' = Req /\ DOMAIN job'[q] = Fields /\ \A p \in Req \ {q} : job'[p] = job[p]
  /\ Acts(Ask(q), job[q], job'[q], live, scene.mode)

LEMMA StepMoves ==
  ASSUME Shaped, NEW q \in Req, NEW j, DOMAIN j = Fields, Step(q, j), Acts(Ask(q), job[q], j, live, scene.mode)
  PROVE  Moves(q)
  BY DEF Shaped, Step, Moves

LEMMA ReplyRefuses ==
  ASSUME Shaped, NEW q \in Req, NEW ans, Reply(q, ans)
  PROVE  \E j : DOMAIN j = Fields /\ Step(q, j) /\ Refuses(job[q], j, ans)
<1> DEFINE i == job[q]
           j == [i EXCEPT !.pc = "done", !.ans = ans, !.conn = None]
<1>1. DOMAIN i = Fields
  BY DEF Shaped
<1>2. DOMAIN j = Fields /\ Refuses(i, j, ans)
  BY <1>1 DEF Refuses, Keeps, Fields
<1>3. Step(q, j)
  BY DEF Reply
<1>4. QED
  BY <1>2, <1>3

(* A request of a scene is well formed.                                    *)
LEMMA Asks ==
  ASSUME Shaped, NEW q \in Req
  PROVE  WellFormed(Ask(q))
  BY RequestsAssumption DEF Shaped, Ask

LEMMA ArriveMoves ==
  ASSUME Shaped, NEW q \in Req, Arrive(q)
  PROVE  Moves(q)
<1> DEFINE a == Ask(q)
           i == job[q]
           j == [i EXCEPT !.pc = IF OfTable(q) THEN "route" ELSE "parse", !.arrived = live, !.cfg = live]
<1>1. i.pc = "idle" /\ a.kind # "nothing" /\ DOMAIN i = Fields
  BY DEF Arrive, Shaped
<1>2. CASE Mount(a) # 0
  <2>1. Reply(q, Mount(a))
    BY <1>2 DEF Arrive
  <2>2. PICK k : DOMAIN k = Fields /\ Step(q, k) /\ Refuses(i, k, Mount(a))
    BY <2>1, ReplyRefuses
  <2>3. Lists(a) /\ Mount(a) = 416 => Asked(a) = {}
    BY Asks, MountRefuses DEF Lists
  <2>4. Arrives(a, i, k, live)
    BY <1>1, <2>2, <2>3, RefusalOfMount DEF Arrives
  <2>5. QED
    BY <2>2, <2>4, StepMoves DEF Acts
<1>3. CASE Mount(a) = 0
  <2>1. Step(q, j)
    BY <1>3 DEF Arrive
  <2>2. DOMAIN j = Fields /\ Arrives(a, i, j, live)
    BY <1>1, <1>3 DEF Arrives, Keeps, Fields
  <2>3. QED
    BY <2>1, <2>2, StepMoves DEF Acts
<1>4. QED
  BY <1>2, <1>3

LEMMA RouteMoves ==
  ASSUME Shaped, NEW q \in Req, current(q) \/ Build(q)
  PROVE  Moves(q)
<1> DEFINE i == job[q]
<1>1. DOMAIN i = Fields
  BY DEF Shaped
<1>2. CASE current(q) /\ built = live
  <2> DEFINE j == [i EXCEPT !.pc = "parse", !.cfg = built]
  <2>1. i.pc = "route" /\ Step(q, j)
    BY <1>2 DEF current, upToDate
  <2>2. DOMAIN j = Fields /\ Routes(Ask(q), i, j, live)
    BY <1>1, <1>2, <2>1 DEF Routes, Keeps, Fields
  <2>3. QED
    BY <2>1, <2>2, StepMoves DEF Acts
<1>3. CASE current(q) /\ built # live
  <2> DEFINE j == [i EXCEPT !.pc = "build", !.cfg = live]
  <2>1. i.pc = "route" /\ Step(q, j)
    BY <1>3 DEF current, upToDate
  <2>2. DOMAIN j = Fields /\ Routes(Ask(q), i, j, live)
    BY <1>1, <2>1 DEF Routes, Keeps, Fields
  <2>3. QED
    BY <2>1, <2>2, StepMoves DEF Acts
<1>4. CASE Build(q)
  <2> DEFINE j == [i EXCEPT !.pc = "parse"]
  <2>1. i.pc = "build" /\ Step(q, j)
    BY <1>4 DEF Build, Goto
  <2>2. DOMAIN j = Fields /\ Routes(Ask(q), i, j, live)
    BY <1>1, <2>1 DEF Routes, Keeps, Fields
  <2>3. QED
    BY <2>1, <2>2, StepMoves DEF Acts
<1>5. QED
  BY <1>2, <1>3, <1>4

LEMMA BeginMoves ==
  ASSUME Shaped, NEW q \in Req, Begin(q)
  PROVE  Moves(q)
<1> DEFINE a == Ask(q)
           i == job[q]
<1>1. i.pc = "begin" /\ DOMAIN i = Fields
  BY DEF Begin, Shaped
<1>2. PICK c \in Pool(q) \ Held :
        LET s == IF c = Owner THEN [role |-> "service_role", uid |-> None]
                 ELSE buildSessionSetup(jwtAuth(Ask(q)), conns[c])
        IN Step(q, [job[q] EXCEPT !.pc = "run", !.conn = c, !.role = s.role, !.uid = s.uid])
  BY DEF Begin
<1>3. a.kind # "query" => c # Owner
  BY <1>2, RequestsAssumption DEF Pool, Shaped
<1> DEFINE s == IF c = Owner THEN [role |-> "service_role", uid |-> None]
                ELSE buildSessionSetup(jwtAuth(a), conns[c])
           j == [i EXCEPT !.pc = "run", !.conn = c, !.role = s.role, !.uid = s.uid]
<1>4. Step(q, j)
  BY <1>2
<1>5. a.kind # "query" =>
        /\ s.role = AssumableFromSession(jwtAuth(a))
        /\ s.role # "service_role" => s.uid = jwtAuth(a).uid
  <2>1. ASSUME NEW t PROVE AssumableFromSession(t) = "service_role" => t.role = "service_role"
    BY DEF AssumableFromSession
  <2>2. ASSUME NEW t, t.role = "service_role" PROVE AssumableFromSession(t) = "service_role"
    BY <2>2 DEF AssumableFromSession
  <2>3. QED
    BY <1>3, <2>1, <2>2 DEF buildSessionSetup
<1> HIDE DEF s
<1>6. DOMAIN j = Fields /\ Begins(a, i, j)
  BY <1>1, <1>5 DEF Begins, Keeps, Fields
<1>7. QED
  BY <1>4, <1>6, StepMoves DEF Acts

LEMMA FailMoves ==
  ASSUME Shaped, NEW q \in Req, NoTransaction(q) \/ handleDBError(q)
  PROVE  Moves(q)
<1>1. Reply(q, 500) /\ job[q].pc \in {"begin", "run", "count"}
  BY DEF NoTransaction, handleDBError
<1>2. PICK j : DOMAIN j = Fields /\ Step(q, j) /\ Refuses(job[q], j, 500)
  BY <1>1, ReplyRefuses
<1>3. QED
  BY <1>1, <1>2, StepMoves DEF Fails, Acts

LEMMA CountMoves ==
  ASSUME Shaped, NEW q \in Req, executeCount(q)
  PROVE  Moves(q)
<1> DEFINE i == job[q]
           j == [i EXCEPT !.pc = "finish", !.total = Cardinality(matched(q))]
<1>1. i.pc = "count" /\ DOMAIN i = Fields /\ Step(q, j)
  BY DEF executeCount, Shaped
<1>2. DOMAIN j = Fields /\ Counts(Ask(q), i, j)
  BY <1>1 DEF Counts, Keeps, Fields
<1>3. QED
  BY <1>1, <1>2, StepMoves DEF Acts

LEMMA LiveConfigs ==
  ASSUME Shaped
  PROVE  1..live \subseteq DOMAIN Configs /\ live \in 1..live /\ live \in Nat
<1>1. Len(Configs) \in Nat /\ DOMAIN Configs = 1..Len(Configs)
  BY RequestsAssumption
<1>2. scene.last \in DOMAIN Configs
  BY RequestsAssumption DEF Shaped
<1>3. QED
  BY <1>1, <1>2 DEF Shaped

LEMMA PageFields ==
  ASSUME NEW a
  PROVE  DOMAIN intersectRange(a) = {"ok", "lo", "n"}
  BY DEF intersectRange, Unsatisfiable

LEMMA DispatchMoves ==
  ASSUME Shaped, NEW q \in Req, dispatch(q), Ask(q).kind # "nothing"
  PROVE  Moves(q)
<1> DEFINE a == Ask(q)
           i == job[q]
           missing == OfTable(q) /\ a.table \notin Configs[i.cfg].tables
           refused == IF missing THEN 404 ELSE parse(q, a)
<1>1. i.pc = "parse" /\ DOMAIN i = Fields
  BY DEF dispatch, Shaped
<1>2. a.kind \in {"list", "create", "upsert", "update", "delete", "rpc", "query"}
  BY Asks DEF WellFormed
<1>3. Table(a) <=> OfTable(q)
  BY DEF Table, OfTable
<1>4. CASE refused # 0
  <2>1. Reply(q, refused)
    BY <1>4 DEF dispatch
  <2>2. PICK k : DOMAIN k = Fields /\ Step(q, k) /\ Refuses(i, k, refused)
    BY <2>1, ReplyRefuses
  <2>3. refused \notin 200..299
    BY <1>2, RefusalOfHandler
  <2>4. Table(a) /\ refused = 404 => a.table \notin Configs[i.cfg].tables
    BY <1>2, <1>3, StatusOfTable DEF Table
  <2>5. Lists(a) /\ refused = 416 => Asked(a) = {}
    BY Asks, HandlerPages, OtherCalls DEF Lists
  <2> HIDE DEF refused
  <2>6. Parses(a, i, k, live)
    BY <1>1, <2>2, <2>3, <2>4, <2>5 DEF Parses, Declined
  <2>7. QED
    BY <2>2, <2>6, StepMoves DEF Acts
<1>5. CASE refused = 0
  <2> DEFINE page == pageOf(a)
             cfg == IF OfTable(q) THEN i.cfg ELSE live
             j == [i EXCEPT !.pc = "begin", !.cfg = cfg, !.page = page]
  <2>1. Step(q, j)
    BY <1>5, SMTT(60) DEF dispatch
  <2> HIDE DEF page
  <2>2. DOMAIN j = Fields /\ j.pc = "begin" /\ j.cfg = cfg /\ Keeps(i, j, {"pc", "cfg", "page"})
    BY <1>1 DEF Keeps, Fields
  <2>3. ASSUME a.kind = "rpc"
        PROVE  a.fn \in DOMAIN Configs[live].rpc /\ (Idempotent(a) => ~Volatile(Configs[live].rpc[a.fn]))
    <3>1. refuseCall(q, a) = 0
      BY <1>5, <2>3 DEF OfTable, parse
    <3>2. QED
      BY <3>1 DEF refuseCall, ??, Unless, Idempotent
  <2>4. a.kind = "rpc" =>
          a.fn \in DOMAIN Configs[j.cfg].rpc /\ (Idempotent(a) => ~Volatile(Called(a, j)))
    BY <2>2, <2>3 DEF OfTable, Called
  <2>5. ASSUME IsPaged(a, j)
        PROVE  PageRight(a, j.page, live)
    <3>1. Lists(a) /\ (a.kind = "list" \/ Chains(Configs[live].rpc[a.fn]))
      BY <2>2, <2>5 DEF IsPaged, Lists, Called, OfTable
    <3>2. parse(q, a) = 0
      BY <1>5
    <3>3. PageOf(a, intersectRange(a))
      BY <3>1, <3>2, Asks, HandlerPages
    <3>4. j.page = page
      BY <1>1 DEF Fields
    <3>5. page = [intersectRange(a) EXCEPT !.n = capLimit(@, Configs[live].max)]
      BY <3>1 DEF pageOf, page, Lists
    <3>6. page.lo = intersectRange(a).lo /\ page.n = capLimit(intersectRange(a).n, Configs[live].max)
      BY <3>5, PageFields
    <3>7. Configs[live].max \in 0..MaxInt
      BY LiveConfigs, RequestsAssumption
    <3>8. QED
      BY <3>3, <3>4, <3>6, <3>7, CappedPage DEF PageRight
  <2> HIDE DEF j
  <2>6. Parses(a, i, j, live)
    BY <1>1, <1>3, <2>2, <2>4, <2>5 DEF Parses
  <2>7. QED
    BY <2>1, <2>2, <2>6, StepMoves DEF Acts
<1>6. QED
  BY <1>4, <1>5

----------------------------------------------------------------------------
(* What a statement r of a request may do: what it keeps, has pending,     *)
(* counts and answers.                                                     *)
LEMMA NoRows == DOMAIN << >> = {}
  OBVIOUS

Counted(r) == r.n \in Nat /\ r.n = Cardinality(DOMAIN r.pend)
Does(q, r) ==
  /\ DOMAIN r.kept = {}
  /\ r.ans \in {0, 403, 409}
  /\ r.ans = 0 => Counted(r)
LEMMA FailedDoes ==
  ASSUME NEW q, NEW status \in {403, 409}
  PROVE  Does(q, Failed(status)) /\ Failed(status).ans # 0
  BY NoRows DEF Does, Failed, Ran

LEMMA RanDoes ==
  ASSUME NEW q, NEW f, IsFiniteSet(DOMAIN f)
  PROVE  Does(q, Ran(0, f, Cardinality(DOMAIN f)))
  BY NoRows, FS_CardinalityType DEF Does, Counted, Ran

LEMMA RowsFinite == \A K \in SUBSET Key : IsFiniteSet(K)
  BY RequestsAssumption, FS_Subset

LEMMA InsertDoes ==
  ASSUME NEW q, NEW K \in SUBSET Key
  PROVE  LET r == BuildBulkInsertQuery(q, K) IN Does(q, r) /\ (r.ans = 0 => may(q, Ask(q).owner))
<1>1. DOMAIN Proposed(q, K) = K /\ IsFiniteSet(K)
  BY RowsFinite DEF Proposed
<1>2. Does(q, Ran(0, Proposed(q, K), Cardinality(K)))
  BY <1>1, RanDoes
<1>3. QED
  BY <1>2, FailedDoes DEF BuildBulkInsertQuery

LEMMA UpsertDoes ==
  ASSUME NEW q, NEW K \in SUBSET Key, NEW resolution
  PROVE  LET r == BuildBulkUpsertQuery(q, K, resolution)
         IN Does(q, r) /\ (r.ans = 0 => may(q, Ask(q).owner))
<1>1. ASSUME NEW L \in SUBSET Key
      PROVE  Does(q, Ran(0, Proposed(q, L), Cardinality(L)))
  <2>1. DOMAIN Proposed(q, L) = L /\ IsFiniteSet(L)
    BY RowsFinite DEF Proposed
  <2>2. QED
    BY <2>1, RanDoes
<1>2. K \ Present(K) \in SUBSET Key
  OBVIOUS
<1>3. Does(q, conflictAction(q, K, resolution))
  BY <1>1, <1>2, FailedDoes DEF conflictAction
<1>4. QED
  BY <1>3, FailedDoes DEF BuildBulkUpsertQuery

LEMMA ChangeDoes ==
  ASSUME NEW q, Ask(q).keys \subseteq Key
  PROVE  Does(q, BuildUpdateQuery(q)) /\ Does(q, BuildDeleteQuery(q))
<1> DEFINE M == matched(q)
           u == [k \in M |-> [rows[k] EXCEPT !.by = q]]
           d == [k \in M |-> Gone]
<1>1. IsFiniteSet(M)
  BY RowsFinite DEF matched, Present
<1>2. DOMAIN u = M /\ DOMAIN d = M
  OBVIOUS
<1>3. Does(q, Ran(0, u, Cardinality(M))) /\ Does(q, Ran(0, d, Cardinality(M)))
  <2> HIDE DEF M
  <2>1. IsFiniteSet(DOMAIN u) /\ IsFiniteSet(DOMAIN d)
    BY <1>1, <1>2
  <2> HIDE DEF u, d
  <2>2. Does(q, Ran(0, u, Cardinality(DOMAIN u))) /\ Does(q, Ran(0, d, Cardinality(DOMAIN d)))
    BY <2>1, RanDoes
  <2>3. QED
    BY <1>2, <2>2
<1>4. QED
  BY <1>3 DEF BuildUpdateQuery, BuildDeleteQuery

LEMMA SelectDoes ==
  ASSUME NEW q
  PROVE  LET r == BuildSelectQuery(q) IN DOMAIN r.kept = {} /\ DOMAIN r.pend = {} /\ r.ans = 0
  BY NoRows DEF BuildSelectQuery, Ran

LEMMA CallDoes ==
  ASSUME NEW q, Fn(q).body \in {"read", "write"}, Ask(q).keys \subseteq Key
  PROVE  LET r == buildRPCCall(q)
         IN DOMAIN r.kept = {} /\ (~Volatile(Fn(q)) => DOMAIN r.pend = {}) /\ r.ans # 416
<1>1. CASE Fn(q).body = "read"
  BY <1>1, SelectDoes DEF buildRPCCall
<1>2. CASE Fn(q).body = "write" /\ Volatile(Fn(q))
  BY <1>2, ChangeDoes DEF buildRPCCall, readOnly, Does
<1>3. CASE Fn(q).body = "write" /\ ~Volatile(Fn(q))
  BY <1>3, NoRows DEF buildRPCCall, readOnly, Failed, Ran
<1>4. QED
  BY <1>1, <1>2, <1>3

LEMMA SingleDoes ==
  ASSUME NEW q, NEW sql
  PROVE  LET r == runSingleStatement(q, sql) IN DOMAIN r.kept = {} /\ DOMAIN r.pend = {}
  BY NoRows DEF runSingleStatement, Failed, Ran

(* The statement of a request that is of the kind its state allows.        *)
LEMMA StatementDoes ==
  ASSUME NEW q, WellFormed(Ask(q)), Ask(q).kind # "nothing",
         Ask(q).kind = "rpc" => Fn(q).body \in {"read", "write"}
  PROVE  LET a == Ask(q)
             r == statement(q)
         IN /\ a.kind # "query" \/ scene.mode = "readonly" => DOMAIN r.kept = {}
            /\ Mutates(a) => Does(q, r)
            /\ a.kind = "list" \/ (a.kind = "query" /\ scene.mode = "readonly") => DOMAIN r.pend = {}
            /\ a.kind = "list" => r.ans = 0
            /\ a.kind = "rpc" => r.ans # 416
            /\ a.kind = "rpc" /\ ~Volatile(Fn(q)) => DOMAIN r.pend = {}
            /\ a.kind \in {"create", "upsert"} /\ r.ans = 0 => may(q, a.owner)
<1> DEFINE a == Ask(q)
<1>1. a.kind \in {"list", "create", "upsert", "update", "delete", "rpc", "query"} /\ a.keys \subseteq Key
  BY DEF WellFormed
<1>2. CASE a.kind = "list"
  <2>1. statement(q) = BuildSelectQuery(q)
    BY <1>2 DEF statement
  <2>2. QED
    BY <1>2, <2>1, SelectDoes DEF Mutates
<1>3. CASE a.kind = "create" /\ a.resolution = ""
  <2>1. statement(q) = BuildBulkInsertQuery(q, a.keys)
    BY <1>3 DEF statement
  <2>2. Does(q, statement(q)) /\ (statement(q).ans = 0 => may(q, a.owner))
    BY <1>1, <2>1, InsertDoes
  <2>3. QED
    BY <1>3, <2>2 DEF Does
<1>4. CASE a.kind = "upsert" \/ (a.kind = "create" /\ a.resolution # "")
  <2>1. \E resolution : statement(q) = BuildBulkUpsertQuery(q, a.keys, resolution)
    BY <1>4 DEF statement
  <2>2. Does(q, statement(q)) /\ (statement(q).ans = 0 => may(q, a.owner))
    BY <1>1, <2>1, UpsertDoes
  <2>3. QED
    BY <1>4, <2>2 DEF Does
<1>5. CASE a.kind \in {"update", "delete"}
  <2>1. statement(q) \in {BuildUpdateQuery(q), BuildDeleteQuery(q)}
    BY <1>5 DEF statement
  <2>2. QED
    BY <1>1, <1>5, <2>1, ChangeDoes DEF Does
<1>6. CASE a.kind = "rpc"
  <2>1. statement(q) = buildRPCCall(q)
    BY <1>6 DEF statement
  <2>2. QED
    BY <1>1, <1>6, <2>1, CallDoes DEF Mutates, Table
<1>7. CASE a.kind = "query"
  <2>1. scene.mode = "readonly" => statement(q) = runSingleStatement(q, a.sql)
    BY <1>7 DEF statement, RunSQL
  <2>2. QED
    BY <1>7, <2>1, SingleDoes DEF Mutates, Table
<1>8. QED
  BY <1>1, <1>2, <1>3, <1>4, <1>5, <1>6, <1>7

(* What a statement has read or put in the table it may see.               *)
LEMMA TouchedIsAllowed ==
  ASSUME NEW q, Ask(q).kind \in {"create", "upsert"} => may(q, Ask(q).owner)
  PROVE  \A o \in touched(q) : may(q, o)
<1>1. \A k \in matched(q) : may(q, rows[k].owner)
  BY DEF matched
<1> HIDE DEF may
<1>2. QED
  BY <1>1 DEF touched

LEMMA RunMoves ==
  ASSUME Shaped, NEW q \in Req, Run(q), Ask(q).kind # "nothing", live \in DOMAIN Configs,
         Ask(q).kind = "rpc" => /\ job[q].cfg \in DOMAIN Configs
                                /\ Ask(q).fn \in DOMAIN Configs[job[q].cfg].rpc
                                /\ Idempotent(Ask(q)) => ~Volatile(Fn(q))
  PROVE  Moves(q)
<1> DEFINE a == Ask(q)
           i == job[q]
           r == statement(q)
           counted == a.count /\ ~explained(a)
           pc == IF counted /\ a.kind = "list" THEN "count" ELSE "finish"
           total == IF counted /\ a.kind = "rpc" THEN Cardinality(matched(q)) ELSE NoLimit
<1>1. i.pc = "run" /\ DOMAIN i = Fields
  BY DEF Run, Shaped
<1>2. Fn(q) = Called(a, i)
  BY DEF Fn, Called
<1>3. a.kind = "rpc" => Fn(q).body \in {"read", "write"}
  BY RequestsAssumption DEF Fn
<1>4. WellFormed(a)
  BY Asks
<1>5. /\ a.kind # "query" \/ scene.mode = "readonly" => DOMAIN r.kept = {}
      /\ Mutates(a) => Does(q, r)
      /\ ReadsOnly(a, i, scene.mode) => DOMAIN r.pend = {}
      /\ a.kind = "list" => r.ans = 0
      /\ Lists(a) => r.ans # 416
      /\ a.kind \in {"create", "upsert"} /\ r.ans = 0 => may(q, a.owner)
  <2> HIDE DEF a, i, r
  <2>1. QED
    BY <1>2, <1>3, <1>4, StatementDoes DEF ReadsOnly, Lists, a, i, r
<1>6. CASE r.ans # 0
  <2> DEFINE j == [i EXCEPT !.pc = "done", !.ans = r.ans, !.conn = None, !.wrote = DOMAIN r.kept]
  <2>1. Step(q, j)
    BY <1>6 DEF Run
  <2>2. Table(a) => r.ans \in {403, 409}
    BY <1>5, <1>6 DEF Mutates, Does
  <2> HIDE DEF r
  <2>3. /\ DOMAIN j = Fields /\ Keeps(i, j, {"pc", "ans", "conn", "wrote"})
        /\ j.pc = "done" /\ j.ans = r.ans /\ j.wrote = DOMAIN r.kept
    BY <1>1 DEF Keeps, Fields
  <2> HIDE DEF j
  <2>4. RunFails(a, i, j, scene.mode)
    BY <1>1, <1>5, <2>2, <2>3 DEF RunFails
  <2>5. QED
    BY <2>1, <2>3, <2>4, StepMoves DEF Acts
<1>7. CASE r.ans = 0
  <2> DEFINE owners == touched(q)
             j == [i EXCEPT !.pc = pc, !.pend = r.pend, !.n = r.n, !.owners = owners, !.wrote = DOMAIN r.kept,
                            !.total = total]
  <2>1. Step(q, j)
    BY <1>7 DEF Run
  <2>2. \A o \in owners : may(q, o)
    BY <1>5, <1>7, TouchedIsAllowed
  <2>3. \A o \in owners : i.role = "service_role" \/ (o = i.uid /\ o # None)
    BY <2>2 DEF may
  <2>4. Mutates(a) => r.n \in Nat /\ r.n = Cardinality(DOMAIN r.pend)
    BY <1>5, <1>7 DEF Does, Counted
  <2>5. (pc = "finish" \/ (pc = "count" /\ a.kind = "list" /\ a.count)) /\ (~a.count => total = NoLimit)
    OBVIOUS
  <2> HIDE DEF r, owners, pc, total
  <2>6. /\ DOMAIN j = Fields /\ Keeps(i, j, {"pc", "pend", "n", "owners", "wrote", "total"})
        /\ j.pc = pc /\ j.pend = r.pend /\ j.n = r.n /\ j.owners = owners /\ j.wrote = DOMAIN r.kept /\ j.total = total
    BY <1>1 DEF Keeps, Fields
  <2> HIDE DEF j
  <2>7. Runs(a, i, j, scene.mode)
    BY <1>1, <1>5, <2>3, <2>4, <2>5, <2>6 DEF Runs
  <2>8. QED
    BY <2>1, <2>6, <2>7, StepMoves DEF Acts
<1>8. QED
  BY <1>6, <1>7

(* A change's answer is 4xx if its checks refuse it, and a success if not. *)
LEMMA WriteStatus ==
  ASSUME NEW q
  PROVE  /\ writeStatus(q) \in {200, 201, 400, 406}
         /\ writeStatus(q) < 300 => ~maxAffectedError(q) /\ ~rejectNonSingular(q)
  BY DEF writeStatus, Unless, ??

LEMMA PageStatus ==
  ASSUME NEW q
  PROVE  pageStatus(q) \in {200, 206, 406, 416} /\ (job[q].total = NoLimit => pageStatus(q) # 416)
  BY DEF pageStatus, rangeStatus, NoLimit

LEMMA FinishMoves ==
  ASSUME Shaped, NEW q \in Req, Finish(q), Ask(q).kind # "nothing"
  PROVE  Moves(q)
<1> DEFINE a == Ask(q)
           i == job[q]
           s == settle(q)
<1>1. i.pc = "finish" /\ DOMAIN i = Fields
  BY DEF Finish, Shaped
<1>2. PICK outcome \in {"ok"} \cup IF s.commit THEN {"applied", "lost"} ELSE {} : Ends(q, s, outcome)
  BY DEF Finish
<1> DEFINE kept == IF s.commit /\ outcome # "lost" THEN i.pend ELSE << >>
           ans == IF outcome = "ok" THEN s.ans ELSE 500
           wrote == i.wrote \cup DOMAIN kept
           j == [i EXCEPT !.pc = "done", !.ans = ans, !.conn = released(q), !.pend = << >>, !.wrote = wrote]
<1>3. Step(q, j)
  BY <1>2 DEF Ends
<1>4. wrote = i.wrote \/ (wrote = i.wrote \cup DOMAIN i.pend /\ s.commit)
  BY NoRows
<1>5. Mutates(a) => /\ s.ans \in {200, 201, 400, 406}
                    /\ s.commit => s.ans \in {200, 201} /\ Passes(a, i)
                    /\ s.ans \in 200..299 /\ ~a.dry => s.commit
  <2>1. Mutates(a) => s = finishTx(q)
    BY DEF settle, Mutates, Table
  <2>2. maxAffectedError(q) <=> (a.max # NoLimit /\ a.kind \in {"update", "delete"} /\ i.n > a.max)
    BY DEF maxAffectedError
  <2>3. rejectNonSingular(q) <=> (a.singular /\ i.n # 1)
    BY DEF rejectNonSingular, wantsSingular
  <2>4. parseTxPrefer(q) <=> a.dry
    BY DEF parseTxPrefer
  <2>5. ASSUME Mutates(a)
        PROVE  /\ s.ans \in {200, 201, 400, 406}
               /\ s.commit => s.ans \in {200, 201} /\ Passes(a, i)
               /\ s.ans \in 200..299 /\ ~a.dry => s.commit
    <3>0. s.ans = writeStatus(q) /\ s.commit = (writeStatus(q) < 300 /\ ~parseTxPrefer(q))
      BY <2>1, <2>5 DEF finishTx
    <3>1. s.ans = writeStatus(q) /\ (s.commit <=> writeStatus(q) < 300 /\ ~parseTxPrefer(q))
      BY <3>0, Zenon
    <3>2. writeStatus(q) < 300 /\ ~parseTxPrefer(q) => Passes(a, i)
      BY <2>2, <2>3, <2>4, WriteStatus DEF Passes
    <3> HIDE DEF s
    <3>3. s.commit => writeStatus(q) < 300 /\ ~parseTxPrefer(q)
      BY <3>1
    <3>4. s.commit => s.ans \in {200, 201} /\ Passes(a, i)
      BY <3>1, <3>2, <3>3, WriteStatus
    <3>5. s.ans \in 200..299 /\ ~a.dry => s.commit
      BY <3>1, <2>4, WriteStatus
    <3>6. QED
      BY <3>1, <3>4, <3>5, WriteStatus
  <2>6. QED
    BY <2>5
<1>6. a.kind = "list" => s.ans \in {200, 206, 406, 416}
  BY PageStatus DEF settle
<1>7. Table(a) => Mutates(a) \/ a.kind = "list"
  BY DEF Mutates
<1>8. outcome # "ok" => s.commit
  BY <1>2
<1>9. Mutates(a) /\ ~a.dry /\ ans \in 200..299 => wrote = i.wrote \cup DOMAIN i.pend
  BY <1>5
<1>10. /\ Table(a) => ans # 404
       /\ Mutates(a) /\ wrote # i.wrote => Passes(a, i) /\ ans \in {200, 201, 500}
  BY <1>4, <1>5, <1>6, <1>7
<1>11. Lists(a) /\ i.total = NoLimit => ans # 416
  BY PageStatus DEF Lists, settle, handleRPC
<1> HIDE DEF ans, wrote, s
<1>12. /\ DOMAIN j = Fields /\ Keeps(i, j, {"pc", "ans", "conn", "pend", "wrote"})
       /\ j.pc = "done" /\ j.ans = ans /\ j.wrote = wrote
  BY <1>1 DEF Keeps, Fields
<1> HIDE DEF j
<1>13. Finishes(a, i, j)
  BY <1>1, <1>4, <1>9, <1>10, <1>11, <1>12 DEF Finishes
<1>14. QED
  BY <1>3, <1>12, <1>13, StepMoves DEF Acts

----------------------------------------------------------------------------
(* The invariant.                                                          *)
LEMMA StepOfJob ==
  ASSUME NEW a, a.max \in Int, NEW i, NEW j, NEW v \in Nat, v # 0, NEW mode,
         JobOK(a, i, v, mode), Acts(a, i, j, v, mode)
  PROVE  JobOK(a, j, v, mode)
  BY SessionStep, ServedStep, SilentStep, CountedStep, PagedStep DEF JobOK

LEMMA ReloadOfJob ==
  ASSUME NEW a, NEW i, NEW v \in Nat, NEW mode, JobOK(a, i, v, mode)
  PROVE  JobOK(a, i, v + 1, mode)
<1>1. ServedOK(a, i, v + 1)
  BY DEF JobOK, ServedOK
<1>2. PagedOK(a, i, v + 1)
  <2>1. i.arrived \in Nat /\ i.arrived..v \subseteq i.arrived..(v + 1)
    BY DEF JobOK, ServedOK
  <2>2. QED
    BY <2>1 DEF JobOK, PagedOK
<1>3. QED
  BY <1>1, <1>2 DEF JobOK

LEMMA RequestMoves ==
  ASSUME ReqInv, NEW q \in Req, Arrive(q) \/ Progress(q) \/ NoTransaction(q) \/ handleDBError(q)
  PROVE  Moves(q)
<1>1. Shaped /\ JobOK(Ask(q), job[q], live, scene.mode)
  BY DEF ReqInv
<1>2. job[q].pc # "idle" => Ask(q).kind # "nothing"
  BY <1>1 DEF JobOK, ServedOK
<1>3. 1..live \subseteq DOMAIN Configs /\ live \in DOMAIN Configs
  BY <1>1, LiveConfigs
<1>4. CASE Arrive(q)
  BY <1>1, <1>4, ArriveMoves
<1>5. CASE current(q) \/ Build(q)
  BY <1>1, <1>5, RouteMoves
<1>6. CASE dispatch(q)
  BY <1>1, <1>2, <1>6, DispatchMoves DEF dispatch
<1>7. CASE Begin(q)
  BY <1>1, <1>7, BeginMoves
<1>8. CASE Run(q)
  <2>1. job[q].pc = "run"
    BY <1>8 DEF Run
  <2>2. job[q].cfg \in 1..live
    BY <1>1, <2>1 DEF JobOK, ServedOK, Inside, Running, Shaped
  <2>3. Ask(q).kind = "rpc" => /\ Ask(q).fn \in DOMAIN Configs[job[q].cfg].rpc
                               /\ Idempotent(Ask(q)) => ~Volatile(Fn(q))
    BY <1>1, <2>1 DEF JobOK, SilentOK, Running, Called, Fn
  <2>4. job[q].cfg \in DOMAIN Configs
    BY <1>3, <2>2
  <2>5. Ask(q).kind # "nothing"
    BY <1>2, <2>1
  <2>6. Ask(q).kind = "rpc" => /\ job[q].cfg \in DOMAIN Configs
                               /\ Ask(q).fn \in DOMAIN Configs[job[q].cfg].rpc
                               /\ Idempotent(Ask(q)) => ~Volatile(Fn(q))
    BY <2>3, <2>4
  <2>7. QED
    BY <1>1, <1>3, <1>8, <2>5, <2>6, RunMoves
<1>9. CASE executeCount(q)
  BY <1>1, <1>9, CountMoves
<1>10. CASE Finish(q)
  BY <1>1, <1>2, <1>10, FinishMoves DEF Finish
<1>11. CASE NoTransaction(q) \/ handleDBError(q)
  BY <1>1, <1>11, FailMoves
<1>12. QED
  BY <1>4, <1>5, <1>6, <1>7, <1>8, <1>9, <1>10, <1>11 DEF Progress

(* Built handlers are of a configuration that was live by then.            *)
LEMMA StepShaped ==
  ASSUME ReqInv, NEW q \in Req, Moves(q),
         Arrive(q) \/ Progress(q) \/ NoTransaction(q) \/ handleDBError(q)
  PROVE  Shaped'
<1>1. Shaped /\ JobOK(Ask(q), job[q], live, scene.mode)
  BY DEF ReqInv
<1>2. scene' = scene /\ live' = live
  BY DEF Arrive, Progress, current, Build, dispatch, Begin, NoTransaction, Run, handleDBError, executeCount, Finish, Ends
<1>3. built' \in 0..live
  <2>1. CASE Build(q)
    <3>1. job[q].pc = "build" /\ built' = job[q].cfg
      BY <2>1 DEF Build
    <3>2. job[q].arrived \in Nat /\ job[q].cfg \in job[q].arrived..live
      BY <1>1, <3>1 DEF JobOK, ServedOK, Inside
    <3>3. QED
      BY <3>1, <3>2, <1>1, LiveConfigs
  <2>2. CASE ~Build(q)
    <3>1. built' = built
      BY <2>2 DEF Arrive, Progress, current, dispatch, Begin, NoTransaction, Run, handleDBError, executeCount, Finish, Ends
    <3>2. QED
      BY <1>1, <3>1 DEF Shaped
  <2>3. QED
    BY <2>1, <2>2
<1>4. DOMAIN job' = Req /\ \A p \in Req : DOMAIN job'[p] = Fields
  BY <1>1 DEF Moves, Shaped
<1>5. QED
  BY <1>1, <1>2, <1>3, <1>4 DEF Shaped

LEMMA InitReq ==
  ASSUME Init
  PROVE  ReqInv
<1>1. scene \in Scenes /\ live = 1 /\ built = 0 /\ job = [q \in Req |-> NoJob]
  BY DEF Init
<1>2. scene.last \in Nat /\ 1 <= scene.last
  <2>1. Len(Configs) \in Nat /\ DOMAIN Configs = 1..Len(Configs) /\ scene.last \in DOMAIN Configs
    BY <1>1, RequestsAssumption
  <2>2. QED
    BY <2>1
<1>3. Shaped
  BY <1>1, <1>2 DEF Shaped, NoJob, Fields
<1>4. ASSUME NEW a, NEW mode
      PROVE  JobOK(a, NoJob, 1, mode)
  BY NoRows DEF NoJob, JobOK, SessionOK, ServedOK, SilentOK, CountedOK, PagedOK, Inside, Running
<1>5. QED
  BY <1>1, <1>3, <1>4 DEF ReqInv

LEMMA StepReq ==
  ASSUME ReqInv, [Next]_vars
  PROVE  ReqInv'
<1>1. Shaped /\ \A q \in Req : JobOK(Ask(q), job[q], live, scene.mode)
  BY DEF ReqInv
<1>2. live \in Nat /\ live # 0
  BY <1>1, LiveConfigs
<1>3. CASE UNCHANGED vars
  BY <1>1, <1>3 DEF vars, ReqInv, Shaped, Ask
<1>4. CASE Reload
  <2>1. live' = live + 1 /\ scene' = scene /\ job' = job /\ built' = built /\ live < scene.last
    BY <1>4 DEF Reload
  <2>2. scene.last \in Nat
    <3>1. Len(Configs) \in Nat /\ DOMAIN Configs = 1..Len(Configs) /\ scene.last \in DOMAIN Configs
      BY <1>1, RequestsAssumption DEF Shaped
    <3>2. QED
      BY <3>1
  <2>3. Shaped'
    BY <1>1, <1>2, <2>1, <2>2 DEF Shaped
  <2>4. ASSUME NEW q \in Req
        PROVE  JobOK(scene.asks[q], job[q], live + 1, scene.mode)
    BY <1>1, <1>2, ReloadOfJob DEF Ask
  <2>5. QED
    BY <2>1, <2>3, <2>4 DEF ReqInv, Ask
<1>5. CASE \E q \in Req : Arrive(q) \/ Progress(q) \/ NoTransaction(q) \/ handleDBError(q)
  <2>1. PICK q \in Req : Arrive(q) \/ Progress(q) \/ NoTransaction(q) \/ handleDBError(q)
    BY <1>5
  <2>2. Moves(q)
    BY <2>1, RequestMoves
  <2>3. Shaped'
    BY <2>1, <2>2, StepShaped
  <2>4. scene' = scene /\ live' = live
    BY <2>1 DEF Arrive, Progress, current, Build, dispatch, Begin, NoTransaction, Run, handleDBError, executeCount,
               Finish, Ends
  <2>5. ASSUME NEW p \in Req
        PROVE  JobOK(scene.asks[p], job'[p], live, scene.mode)
    <3>1. JobOK(scene.asks[p], job[p], live, scene.mode) /\ scene.asks[p].max \in Int
      BY <1>1, Asks DEF Ask, WellFormed
    <3>2. CASE p = q
      <4>1. Acts(scene.asks[p], job[p], job'[p], live, scene.mode)
        BY <2>2, <3>2 DEF Moves, Ask
      <4>2. QED
        BY <1>2, <3>1, <4>1, StepOfJob
    <3>3. CASE p # q
      BY <2>2, <3>1, <3>3 DEF Moves
    <3>4. QED
      BY <3>2, <3>3
  <2>6. QED
    BY <2>3, <2>4, <2>5 DEF ReqInv, Ask
<1>6. QED
  BY <1>3, <1>4, <1>5 DEF Next

LEMMA ReqInvHolds == Spec => []ReqInv
  BY InitReq, StepReq, PTL DEF Spec

----------------------------------------------------------------------------
(* A request without the secret key meets rows of the user its verified    *)
(* token names, and of nobody else (buildSessionSetup, jwtAuth).           *)
THEOREM OwnRowsOnlyHolds == Spec => []OwnRowsOnly
<1>1. ReqInv => OwnRowsOnly
  BY DEF ReqInv, JobOK, SessionOK, Plain, Own, OwnRowsOnly
<1>2. QED
  BY <1>1, ReqInvHolds, PTL

(* A mutation of a table is all or nothing, and its answer says which      *)
(* (finishTx, rejectNonSingular, maxAffectedError).                        *)
THEOREM WritesAreAllOrNothingHolds == Spec => []WritesAreAllOrNothing
<1>1. ReqInv => WritesAreAllOrNothing
  BY DEF ReqInv, JobOK, CountedOK, Mutates, Table, Kept, OfTable, Done, WritesAreAllOrNothing
<1>2. QED
  BY <1>1, ReqInvHolds, PTL

(* GET and HEAD, calls that are not volatile and a readonly editor change  *)
(* no row (handleRPC's transaction_read_only, RunSQL).                     *)
THEOREM ReadsChangeNothingHolds == Spec => []ReadsChangeNothing
<1>1. ASSUME ReqInv, NEW q \in Req, Done(q), Reads(q)
      PROVE  job[q].wrote = {}
  <2>1. /\ SilentOK(Ask(q), job[q], scene.mode) /\ WellFormed(Ask(q))
        /\ Ask(q).kind # "nothing"
    BY <1>1, Asks DEF ReqInv, JobOK, ServedOK, Done
  <2>2. ReadsOnly(Ask(q), job[q], scene.mode)
    BY <1>1, <2>1 DEF Reads, ReadsOnly, WellFormed, Idempotent, Called, Fn
  <2>3. QED
    BY <2>1, <2>2 DEF SilentOK
<1>2. ReqInv => ReadsChangeNothing
  BY <1>1 DEF ReadsChangeNothing
<1>3. QED
  BY <1>2, ReqInvHolds, PTL

(* A table that every configuration live since a request arrived has is    *)
(* served (CRUDHandler.current).                                           *)
THEOREM HandlersAreFreshHolds == Spec => []HandlersAreFresh
<1>1. ASSUME ReqInv, NEW q \in Req, Done(q), OfTable(q), job[q].ans = 404, job[q].arrived # 0
      PROVE  \E v \in job[q].arrived..live : Ask(q).table \notin Configs[v].tables
  BY <1>1 DEF ReqInv, JobOK, ServedOK, Table, OfTable, Done
<1>2. ReqInv => HandlersAreFresh
  BY <1>1 DEF HandlersAreFresh
<1>3. QED
  BY <1>2, ReqInvHolds, PTL

(* A page is the part of the result that offset, limit, Range and          *)
(* max_limit leave, for integers of any width, and only what asked for     *)
(* nothing is refused as out of range (intersectRange, capLimit).          *)
THEOREM PagesAreRangesHolds == Spec => []PagesAreRanges
<1>1. ASSUME ReqInv, NEW q \in Req, Lists(Ask(q)), job[q].pc = "begin",
             Ask(q).kind = "rpc" => Chains(Fn(q))
      PROVE  \E S \in Slice(q) : \A count \in 0..MaxInt :
               window(job[q].page.lo, job[q].page.n, count) = {i \in S : i < count}
  <2>1. PICK w \in job[q].arrived..live : PageRight(Ask(q), job[q].page, w)
    BY <1>1 DEF ReqInv, JobOK, PagedOK, IsPaged, Lists, Called, Fn
  <2>2. FirstOf(Asked(Ask(q)), Configs[w].max) \in Slice(q)
    BY DEF Slice
  <2>3. QED
    BY <2>1, <2>2 DEF PageRight
<1>2. ASSUME ReqInv, NEW q \in Req, Lists(Ask(q)), Done(q), job[q].ans = 416, ~Ask(q).count
      PROVE  Asked(Ask(q)) = {}
  BY <1>2 DEF ReqInv, JobOK, PagedOK, Done
<1>3. ReqInv => PagesAreRanges
  BY <1>1, <1>2 DEF PagesAreRanges, Lists
<1>4. QED
  BY <1>3, ReqInvHolds, PTL
=============================================================================
