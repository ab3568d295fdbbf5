--------------------------- MODULE AccountsProofs ---------------------------
(***************************************************************************)
(* Proofs about Accounts and Factors, for any accounts, addresses, codes,  *)
(* configurations, databases to start from, factors and requests.          *)
(***************************************************************************)
EXTENDS MCAccounts, FiniteSetTheorems, TLAPS

(***************************************************************************)
(* The inductive invariant of Accounts.                                    *)
(***************************************************************************)
Fields == {"op", "pc", "email", "user", "id", "sub", "ok", "purpose", "to", "flow", "claim", "banned", "n"}
UserPcs == {"session", "getUser", "sendVerification", "insert", "resendVerified", "cooldown", "purge",
            "consume", "mark", "oauthMark", "record", "link", "pkceCode", "pkceDelete", "hasPassword",
            "unlink", "revokeAll", "deleteTokens", "deleteRow"}
GrantPcs == {"upsert", "byEmail", "rejudge", "oauthInsert", "oauthMark", "record", "link", "pkceCode"}
SubOps == {"callback", "idtoken", "unlink"}
IdOps == {"verifyCode", "verifyToken", "verifyGET", "callback", "pkce"}
FlowOf(r) == r.flow = None \/ r.flow \in Flow

(* What a request r holds is of its kind, and was asked for by the          *)
(* operation it runs, when m is the next id and c the configuration.        *)
FieldsOK(r, m) ==
  /\ DOMAIN r = Fields
  /\ r.email \in Email \cup {None} /\ r.user \in User \cup {None} /\ r.id \in 0..(m - 1)
  /\ r.purpose \in Purpose /\ r.to \in Target /\ r.ok \in BOOLEAN /\ r.banned \in BOOLEAN
  /\ FlowOf(r)
PlaceOK(r) ==
  /\ r.pc \in UserPcs => r.user \in User
  /\ r.pc = "start" /\ r.op \in UserOps => r.user \in User
  /\ r.op \in SubOps => r.sub \in Subject
  /\ r.pc \in GrantPcs => r.op \in {"callback", "idtoken"}
  /\ r.pc \in {"hasPassword", "unlink"} => r.op = "unlink"
  /\ r.pc = "pkceDelete" => r.op = "pkce"
  /\ r.id # 0 => r.op \in IdOps
(* An address outside the allowlist waits to be judged.                     *)
AddressOK(r) ==
  r.to = "foreign" => \/ r.pc = "pkceCode"
                      \/ r.pc = "start" /\ r.op \in {"authorize", "linkStart", "verifyGET"}
                      \/ r.pc \in {"consume", "drop"} /\ r.op = "verifyGET"
(* An account is made only for those who may.                               *)
MakerOps == {"adminCreate", "invite", "generateLink"}
MakerOK(r, c) ==
  /\ r.pc = "create" => c.allowSignup \/ r.op \in MakerOps
  /\ r.pc = "oauthInsert" => c.allowSignup
RequestOK(r, m, c) == FieldsOK(r, m) /\ PlaceOK(r) /\ AddressOK(r) /\ MakerOK(r, c)
RequestsOK == DOMAIN req = Req /\ \A q \in Req : RequestOK(req[q], nextId, conf)

(* The rows are of their tables, and a reference names a row that exists.   *)
TablesOK ==
  /\ users \in [User -> Account \cup {None}]
  /\ ident \in [Subject -> User \cup {None}]
  /\ \A s \in Subject : ident[s] # None => users[ident[s]] # None
  /\ tokens \subseteq Token /\ \A t \in tokens : users[t.user] # None
  /\ flows \subseteq Flow /\ \A f \in flows : f.kind = "pkce" => f.user \in User
  /\ conf \in Setups /\ nextId \in Nat \ {0}

(* Ids are handed out once, to codes and flows alike.                       *)
IdsOK ==
  /\ \A s, t \in tokens : s.id = t.id => s = t
  /\ \A f, g \in flows : f.id = g.id => f = g
  /\ \A t \in tokens, f \in flows : t.id # f.id
  /\ \A x \in tokens \cup flows : x.id < nextId

(* The request that took the code or the state i is the one that may answer *)
(* with its session; then it is gone from the tables.                       *)
HolderPcs == {"mark", "getUser", "session"} \cup GrantPcs
Holds(r) == r.id # 0 /\ r.op # "pkce" /\ r.pc \in HolderPcs
Taken(i) == (\A t \in tokens : t.id # i) /\ (\A f \in flows : f.kind = "oauth" => f.id # i)
HoldersOK ==
  /\ \A q \in Req : Holds(req[q]) => Taken(req[q].id) /\ opened[req[q].id] = 0
  /\ \A p, q \in Req : Holds(req[p]) /\ Holds(req[q]) /\ p # q => req[p].id # req[q].id
OpenedOK ==
  /\ opened \in [0..MaxId -> Nat]
  /\ \A i \in 1..MaxId : opened[i] # 0 => opened[i] = 1 /\ i < nextId /\ Taken(i)
TriesOK ==
  /\ tries \in [1..MaxId -> 0..MaxAttempts]
  /\ \A t \in tokens : tries[t.id] = t.attempts
  /\ \A i \in 1..MaxId : i >= nextId => tries[i] = 0

(* Whoever may unlink keeps another way to sign in.                         *)
UnlinkOK ==
  \A q \in Req : req[q].pc = "unlink" =>
    req[q].n > 1 \/ users[req[q].user] = None \/ users[req[q].user].password

AccountsInv ==
  /\ TablesOK /\ RequestsOK /\ IdsOK /\ HoldersOK /\ OpenedOK /\ TriesOK
  /\ UnlinkOK /\ VerifiedMeansProven /\ SessionsLandHome

-----------------------------------------------------------------------------
(***************************************************************************)
(* What a statement does to its request.  Became: r keeps its fields but    *)
(* pc and those of f.                                                      *)
(***************************************************************************)
OthersWait(q) == DOMAIN req' = Req /\ \A p \in Req \ {q} : req'[p] = req[p]
Done == [Idle EXCEPT !.pc = "done"]

(* Goto writes pc and the fields it is given, and nothing else.             *)
LEMMA GotoFields ==
  ASSUME NEW q \in Req, NEW pc, NEW f, DOMAIN req = Req, DOMAIN req[q] = Fields, Goto(q, pc, f)
  PROVE  /\ OthersWait(q)
         /\ DOMAIN req'[q] = Fields
         /\ req'[q].pc = pc
         /\ \A x \in Fields \ {"pc"} : req'[q][x] = IF x \in DOMAIN f THEN f[x] ELSE req[q][x]
<1>1. "pc" \in Fields  BY DEF Fields
<1>2. QED  BY <1>1 DEF Goto, With, OthersWait

(* The fields but n and claim, which few operations read.                   *)
Kept(i, j, S) ==
  /\ "op" \notin S => j.op = i.op
  /\ "email" \notin S => j.email = i.email
  /\ "user" \notin S => j.user = i.user
  /\ "id" \notin S => j.id = i.id
  /\ "sub" \notin S => j.sub = i.sub
  /\ "ok" \notin S => j.ok = i.ok
  /\ "purpose" \notin S => j.purpose = i.purpose
  /\ "to" \notin S => j.to = i.to
  /\ "flow" \notin S => j.flow = i.flow
  /\ "claim" \notin S => j.claim = i.claim
  /\ "banned" \notin S => j.banned = i.banned
  /\ "n" \notin S => j.n = i.n
Went(q, pc, S) ==
  OthersWait(q) /\ DOMAIN req'[q] = Fields /\ req'[q].pc = pc /\ Kept(req[q], req'[q], S)

LEMMA GotoKeeps ==
  ASSUME NEW q \in Req, NEW pc, NEW f, DOMAIN req = Req, DOMAIN req[q] = Fields, Goto(q, pc, f)
  PROVE  /\ Went(q, pc, DOMAIN f)
         /\ \A x \in DOMAIN f \cap (Fields \ {"pc"}) : req'[q][x] = f[x]
<1>1. /\ OthersWait(q) /\ DOMAIN req'[q] = Fields /\ req'[q].pc = pc
      /\ \A x \in Fields \ {"pc"} : req'[q][x] = IF x \in DOMAIN f THEN f[x] ELSE req[q][x]
  BY GotoFields
<1>2. Kept(req[q], req'[q], DOMAIN f)
  BY <1>1, SMTT(60) DEF Kept, Fields
<1>3. QED  BY <1>1, <1>2 DEF Went

LEMMA GotoAlone ==
  ASSUME NEW q \in Req, NEW pc, DOMAIN req = Req, DOMAIN req[q] = Fields, Goto(q, pc, <<>>)
  PROVE  Went(q, pc, {})
<1>1. DOMAIN <<>> = {}  OBVIOUS
<1>2. QED  BY <1>1, GotoKeeps

LEMMA GotoUser ==
  ASSUME NEW q \in Req, NEW pc, NEW u, DOMAIN req = Req, DOMAIN req[q] = Fields, Goto(q, pc, [user |-> u])
  PROVE  Went(q, pc, {"user"}) /\ req'[q].user = u
<1>1. DOMAIN [user |-> u] = {"user"}  OBVIOUS
<1>2. "user" \in Fields \ {"pc"}  BY DEF Fields
<1>3. QED  BY <1>1, <1>2, GotoKeeps

LEMMA GotoRead ==
  ASSUME NEW q \in Req, NEW pc, NEW u, NEW b, DOMAIN req = Req, DOMAIN req[q] = Fields,
         Goto(q, pc, [user |-> u, banned |-> b])
  PROVE  Went(q, pc, {"user", "banned"}) /\ req'[q].user = u /\ req'[q].banned = b
<1>1. DOMAIN [user |-> u, banned |-> b] = {"user", "banned"}  OBVIOUS
<1>2. {"user", "banned"} \subseteq Fields \ {"pc"}  BY DEF Fields
<1>3. QED  BY <1>1, <1>2, GotoKeeps

LEMMA GotoBanned ==
  ASSUME NEW q \in Req, NEW pc, NEW b, DOMAIN req = Req, DOMAIN req[q] = Fields, Goto(q, pc, [banned |-> b])
  PROVE  Went(q, pc, {"banned"}) /\ req'[q].banned = b
<1>1. DOMAIN [banned |-> b] = {"banned"}  OBVIOUS
<1>2. "banned" \in Fields \ {"pc"}  BY DEF Fields
<1>3. QED  BY <1>1, <1>2, GotoKeeps

LEMMA GotoSelf ==
  ASSUME NEW q \in Req, NEW pc, NEW e, NEW p, DOMAIN req = Req, DOMAIN req[q] = Fields,
         Goto(q, pc, [email |-> e, purpose |-> p])
  PROVE  Went(q, pc, {"email", "purpose"}) /\ req'[q].email = e /\ req'[q].purpose = p
<1>1. DOMAIN [email |-> e, purpose |-> p] = {"email", "purpose"}  OBVIOUS
<1>2. {"email", "purpose"} \subseteq Fields \ {"pc"}  BY DEF Fields
<1>3. QED  BY <1>1, <1>2, GotoKeeps

LEMMA GotoId ==
  ASSUME NEW q \in Req, NEW pc, NEW i, DOMAIN req = Req, DOMAIN req[q] = Fields,
         Goto(q, pc, [id |-> i])
  PROVE  Went(q, pc, {"id"}) /\ req'[q].id = i
<1>1. DOMAIN [id |-> i] = {"id"}  OBVIOUS
<1>2. "id" \in Fields \ {"pc"}  BY DEF Fields
<1>3. QED  BY <1>1, <1>2, GotoKeeps

LEMMA GotoCode ==
  ASSUME NEW q \in Req, NEW pc, NEW i, NEW u, NEW p, DOMAIN req = Req, DOMAIN req[q] = Fields,
         Goto(q, pc, [id |-> i, user |-> u, purpose |-> p])
  PROVE  Went(q, pc, {"id", "user", "purpose"}) /\ req'[q].id = i /\ req'[q].user = u /\ req'[q].purpose = p
<1>1. DOMAIN [id |-> i, user |-> u, purpose |-> p] = {"id", "user", "purpose"}  OBVIOUS
<1>2. {"id", "user", "purpose"} \subseteq Fields \ {"pc"}  BY DEF Fields
<1>3. QED  BY <1>1, <1>2, GotoKeeps

LEMMA GotoLink ==
  ASSUME NEW q \in Req, NEW pc, NEW u, NEW b, NEW p, DOMAIN req = Req, DOMAIN req[q] = Fields,
         Goto(q, pc, [user |-> u, ok |-> b, purpose |-> p])
  PROVE  Went(q, pc, {"user", "ok", "purpose"}) /\ req'[q].user = u /\ req'[q].ok = b /\ req'[q].purpose = p
<1>1. DOMAIN [user |-> u, ok |-> b, purpose |-> p] = {"user", "ok", "purpose"}  OBVIOUS
<1>2. {"user", "ok", "purpose"} \subseteq Fields \ {"pc"}  BY DEF Fields
<1>3. QED  BY <1>1, <1>2, GotoKeeps

LEMMA GotoMailed ==
  ASSUME NEW q \in Req, NEW pc, NEW e, NEW t, DOMAIN req = Req, DOMAIN req[q] = Fields,
         Goto(q, pc, [email |-> e, to |-> t])
  PROVE  Went(q, pc, {"email", "to"}) /\ req'[q].email = e /\ req'[q].to = t
<1>1. DOMAIN [email |-> e, to |-> t] = {"email", "to"}  OBVIOUS
<1>2. {"email", "to"} \subseteq Fields \ {"pc"}  BY DEF Fields
<1>3. QED  BY <1>1, <1>2, GotoKeeps

LEMMA GotoEmail ==
  ASSUME NEW q \in Req, NEW pc, NEW e, DOMAIN req = Req, DOMAIN req[q] = Fields,
         Goto(q, pc, [email |-> e])
  PROVE  Went(q, pc, {"email"}) /\ req'[q].email = e
<1>1. DOMAIN [email |-> e] = {"email"}  OBVIOUS
<1>2. "email" \in Fields \ {"pc"}  BY DEF Fields
<1>3. QED  BY <1>1, <1>2, GotoKeeps

LEMMA GotoFlow ==
  ASSUME NEW q \in Req, NEW pc, NEW g, DOMAIN req = Req, DOMAIN req[q] = Fields,
         Goto(q, pc, [flow |-> g])
  PROVE  Went(q, pc, {"flow"}) /\ req'[q].flow = g
<1>1. DOMAIN [flow |-> g] = {"flow"}  OBVIOUS
<1>2. "flow" \in Fields \ {"pc"}  BY DEF Fields
<1>3. QED  BY <1>1, <1>2, GotoKeeps

LEMMA GotoFlowUser ==
  ASSUME NEW q \in Req, NEW pc, NEW g, NEW u, DOMAIN req = Req, DOMAIN req[q] = Fields,
         Goto(q, pc, [flow |-> g, user |-> u])
  PROVE  Went(q, pc, {"flow", "user"}) /\ req'[q].flow = g /\ req'[q].user = u
<1>1. DOMAIN [flow |-> g, user |-> u] = {"flow", "user"}  OBVIOUS
<1>2. {"flow", "user"} \subseteq Fields \ {"pc"}  BY DEF Fields
<1>3. QED  BY <1>1, <1>2, GotoKeeps

LEMMA GotoTo ==
  ASSUME NEW q \in Req, NEW pc, NEW t, DOMAIN req = Req, DOMAIN req[q] = Fields,
         Goto(q, pc, [to |-> t])
  PROVE  Went(q, pc, {"to"}) /\ req'[q].to = t
<1>1. DOMAIN [to |-> t] = {"to"}  OBVIOUS
<1>2. "to" \in Fields \ {"pc"}  BY DEF Fields
<1>3. QED  BY <1>1, <1>2, GotoKeeps

LEMMA GotoCount ==
  ASSUME NEW q \in Req, NEW pc, NEW k, DOMAIN req = Req, DOMAIN req[q] = Fields,
         Goto(q, pc, [n |-> k])
  PROVE  Went(q, pc, {"n"}) /\ req'[q].n = k
<1>1. DOMAIN [n |-> k] = {"n"}  OBVIOUS
<1>2. "n" \in Fields \ {"pc"}  BY DEF Fields
<1>3. QED  BY <1>1, <1>2, GotoKeeps

LEMMA Finished ==
  ASSUME NEW q \in Req, DOMAIN req = Req, Finish(q)
  PROVE  OthersWait(q) /\ req'[q] = Done
BY DEF Finish, OthersWait, Done

LEMMA DoneFields ==
  /\ DOMAIN Done = Fields
  /\ Done.op = "none" /\ Done.pc = "done" /\ Done.email = None /\ Done.user = None /\ Done.id = 0
  /\ Done.sub = None /\ Done.ok = FALSE /\ Done.purpose = "signup" /\ Done.to = "none"
  /\ Done.flow = None /\ Done.claim = None /\ Done.banned = FALSE /\ Done.n = 0
BY DEF Done, Idle, Fields

LEMMA DoneOK ==
  ASSUME NEW m \in Nat \ {0}, NEW c
  PROVE  RequestOK(Done, m, c)
<1>0. Done.ok \in BOOLEAN /\ Done.banned \in BOOLEAN  BY DoneFields
<1>1. FieldsOK(Done, m)
  BY <1>0, DoneFields DEF FieldsOK, Purpose, Target, FlowOf
<1>2. PlaceOK(Done) /\ AddressOK(Done) /\ MakerOK(Done, c)
  BY DoneFields DEF PlaceOK, AddressOK, MakerOK, UserPcs, GrantPcs, SubOps
<1>3. QED  BY <1>1, <1>2 DEF RequestOK

-----------------------------------------------------------------------------
(***************************************************************************)
(* Every statement leaves its request well formed.                         *)
(***************************************************************************)
Advance(q) ==
  OthersWait(q) /\ RequestOK(req'[q], nextId, conf) /\ (req'[q].pc = "unlink" => HasPassword(q))

LEMMA FinishAdvances ==
  ASSUME NEW q \in Req, TablesOK, RequestsOK, Finish(q)
  PROVE  Advance(q)
<1>1. OthersWait(q) /\ req'[q] = Done  BY Finished DEF RequestsOK
<1>2. RequestOK(Done, nextId, conf)  BY DoneOK DEF TablesOK
<1>3. QED  BY <1>1, <1>2, DoneFields DEF Advance

(* The fields a request writes are of their kinds.                          *)
LEMMA WentFields ==
  ASSUME NEW q \in Req, NEW pc, NEW S, Went(q, pc, S), FieldsOK(req[q], nextId),
         "email" \in S => req'[q].email \in Email \cup {None},
         "user" \in S => req'[q].user \in User \cup {None},
         "id" \in S => req'[q].id \in 0..(nextId - 1),
         "purpose" \in S => req'[q].purpose \in Purpose,
         "to" \in S => req'[q].to \in Target,
         "ok" \in S => req'[q].ok \in BOOLEAN,
         "banned" \in S => req'[q].banned \in BOOLEAN,
         "flow" \in S => FlowOf(req'[q])
  PROVE  FieldsOK(req'[q], nextId)
<1>1. req'[q].ok \in BOOLEAN /\ req'[q].banned \in BOOLEAN
  BY DEF Went, Kept, FieldsOK
<1>2. FlowOf(req'[q])
  BY DEF Went, Kept, FieldsOK, FlowOf
<1>3. QED  BY <1>1, <1>2 DEF Went, Kept, FieldsOK

(* A request that keeps its address and may go on advances.                 *)
LEMMA WentAdvances ==
  ASSUME NEW q \in Req, NEW pc, NEW S, Went(q, pc, S), RequestOK(req[q], nextId, conf),
         "op" \notin S, "sub" \notin S, FieldsOK(req'[q], nextId),
         pc \in UserPcs => req'[q].user \in User,
         pc \in GrantPcs => req[q].op \in {"callback", "idtoken"},
         pc \in {"hasPassword", "unlink"} => req[q].op = "unlink", pc = "unlink" => HasPassword(q),
         pc = "pkceDelete" => req[q].op = "pkce",
         "id" \in S => req[q].op \in IdOps,
         pc # "start",
         \/ req'[q].to # "foreign" \/ pc = "pkceCode"
         \/ "to" \notin S /\ req[q].op = "verifyGET" /\ pc \in {"consume", "drop"},
         pc = "create" => conf.allowSignup \/ req[q].op \in MakerOps,
         pc = "oauthInsert" => conf.allowSignup
  PROVE  Advance(q)
<1> DEFINE i == req[q]  j == req'[q]
<1>1. j.op = i.op /\ j.sub = i.sub /\ j.pc = pc /\ ("id" \notin S => j.id = i.id) /\ ("to" \notin S => j.to = i.to)
  BY DEF Went, Kept
<1>2. PlaceOK(i) /\ AddressOK(i)  BY DEF RequestOK
<1>3. PlaceOK(j)
  BY <1>1, <1>2 DEF PlaceOK
<1>4. AddressOK(j)
  BY <1>1, <1>2 DEF AddressOK
<1>5. MakerOK(j, conf)
  BY <1>1 DEF MakerOK
<1>6. QED  BY <1>3, <1>4, <1>5 DEF Advance, RequestOK, Went

LEMMA WentOn ==
  ASSUME NEW q \in Req, NEW pc, NEW S, Went(q, pc, S), RequestOK(req[q], nextId, conf),
         "op" \notin S, "sub" \notin S, pc # "start",
         "email" \in S => req'[q].email \in Email \cup {None},
         "user" \in S => req'[q].user \in User \cup {None},
         "id" \in S => req'[q].id \in 0..(nextId - 1) /\ req[q].op \in IdOps,
         "purpose" \in S => req'[q].purpose \in Purpose,
         "to" \in S => req'[q].to \in Target,
         "ok" \in S => req'[q].ok \in BOOLEAN,
         "banned" \in S => req'[q].banned \in BOOLEAN,
         "flow" \in S => FlowOf(req'[q]),
         pc \in UserPcs => req'[q].user \in User,
         pc \in GrantPcs => req[q].op \in {"callback", "idtoken"},
         pc \in {"hasPassword", "unlink"} => req[q].op = "unlink", pc = "unlink" => HasPassword(q),
         pc = "pkceDelete" => req[q].op = "pkce",
         \/ req'[q].to # "foreign" \/ pc = "pkceCode"
         \/ "to" \notin S /\ req[q].op = "verifyGET" /\ pc \in {"consume", "drop"},
         pc = "create" => conf.allowSignup \/ req[q].op \in MakerOps,
         pc = "oauthInsert" => conf.allowSignup
  PROVE  Advance(q)
<1>1. FieldsOK(req'[q], nextId)
  BY WentFields DEF RequestOK
<1>2. QED  BY <1>1, WentAdvances

(* The places that come after a session is refused or a login is judged     *)
(* hold no foreign address.                                                 *)
LEMMA NoForeign ==
  ASSUME NEW q \in Req, RequestOK(req[q], nextId, conf),
         req[q].pc # "pkceCode",
         \/ req[q].pc \notin {"start", "consume", "drop"}
         \/ req[q].op \notin {"authorize", "linkStart", "verifyGET"}
  PROVE  req[q].to # "foreign"
BY DEF RequestOK, AddressOK

LEMMA WellFormedRequest ==
  ASSUME NEW q \in Req, RequestsOK
  PROVE  /\ DOMAIN req = Req /\ RequestOK(req[q], nextId, conf) /\ DOMAIN req[q] = Fields
         /\ FieldsOK(req[q], nextId) /\ PlaceOK(req[q])
BY DEF RequestsOK, RequestOK, FieldsOK

(* The three ways on that most statements take: as it is, with the user, or *)
(* with the user and the ban it read.                                       *)
LEMMA AloneOn ==
  ASSUME NEW q \in Req, NEW pc, RequestsOK, Goto(q, pc, <<>>),
         pc \in UserPcs => req[q].user \in User, pc # "start",
         pc \in GrantPcs => req[q].op \in {"callback", "idtoken"},
         pc \in {"hasPassword", "unlink"} => req[q].op = "unlink", pc = "unlink" => HasPassword(q),
         pc = "pkceDelete" => req[q].op = "pkce",
         \/ req[q].to # "foreign" \/ pc = "pkceCode"
         \/ req[q].op = "verifyGET" /\ pc \in {"consume", "drop"},
         pc = "create" => conf.allowSignup \/ req[q].op \in MakerOps,
         pc = "oauthInsert" => conf.allowSignup
  PROVE  Advance(q)
<1>1. Went(q, pc, {})  BY WellFormedRequest, GotoAlone
<1>2. req'[q].user = req[q].user /\ req'[q].to = req[q].to  BY <1>1 DEF Went, Kept
<1>3. QED  BY <1>1, <1>2, WellFormedRequest, WentOn

LEMMA UserOn ==
  ASSUME NEW q \in Req, NEW pc, NEW u \in User, RequestsOK, Goto(q, pc, [user |-> u]),
         req[q].to # "foreign", pc \notin {"start", "create", "oauthInsert", "hasPassword", "unlink"},
         pc \in GrantPcs => req[q].op \in {"callback", "idtoken"},
         pc = "pkceDelete" => req[q].op = "pkce"
  PROVE  Advance(q)
<1>1. Went(q, pc, {"user"}) /\ req'[q].user = u  BY WellFormedRequest, GotoUser
<1>2. req'[q].to = req[q].to  BY <1>1 DEF Went, Kept
<1>3. QED  BY <1>1, <1>2, WellFormedRequest, WentOn

LEMMA ReadOn ==
  ASSUME NEW q \in Req, NEW pc, NEW u \in User, NEW b \in BOOLEAN, RequestsOK,
         Goto(q, pc, [user |-> u, banned |-> b]),
         req[q].to # "foreign", pc \notin {"start", "create", "oauthInsert", "hasPassword", "unlink"},
         pc \in GrantPcs => req[q].op \in {"callback", "idtoken"},
         pc = "pkceDelete" => req[q].op = "pkce"
  PROVE  Advance(q)
<1>1. Went(q, pc, {"user", "banned"}) /\ req'[q].user = u /\ req'[q].banned = b
  BY WellFormedRequest, GotoRead
<1>2. req'[q].to = req[q].to  BY <1>1 DEF Went, Kept
<1>3. QED  BY <1>1, <1>2, WellFormedRequest, WentOn

LEMMA RowIsAccount ==
  ASSUME TablesOK, NEW u \in User, users[u] # None
  PROVE  users[u] \in Account
BY DEF TablesOK

LEMMA RowFields ==
  ASSUME TablesOK, NEW u \in User, users[u] # None
  PROVE  /\ users[u].email \in Email \cup {None}
         /\ users[u].verified \in BOOLEAN /\ users[u].password \in BOOLEAN /\ users[u].anon \in BOOLEAN
         /\ users[u].banned \in BOOLEAN /\ users[u].session \in BOOLEAN
BY RowIsAccount DEF Account

LEMMA SignupAdvances ==
  ASSUME NEW q \in Req, TablesOK, RequestsOK, Signup(q) \/ SignupAnonymous(q) \/ CreateForMail(q)
  PROVE  Advance(q)
<1>1. CASE Finish(q)
  BY <1>1, FinishAdvances
<1>2. ASSUME NEW u \in Unused, NEW b \in BOOLEAN,
             NEW pc \in {"sendVerification", "session", "cooldown", "insert"},
             Goto(q, pc, [user |-> u, banned |-> b])
      PROVE  Advance(q)
  <2>1. req[q].to # "foreign"
    BY WellFormedRequest, NoForeign DEF Signup, SignupAnonymous, CreateForMail, Do, At
  <2>2. QED
    BY <1>2, <2>1, ReadOn DEF Unused, GrantPcs
<1>3. QED  BY <1>1, <1>2 DEF Signup, SignupAnonymous, CreateForMail, CreateUser, NewAccount

LEMMA FinishingAdvances ==
  ASSUME NEW q \in Req, TablesOK, RequestsOK,
         \/ sendVerificationEmail(q) \/ CreateToken(q) \/ DropExpired(q) \/ Authorize(q) \/ LinkStart(q)
         \/ LinkIdentity(q) \/ CreatePKCEFlowState(q) \/ DeleteIdentityByID(q) \/ UpdateUser(q)
         \/ AdminCreateUser(q) \/ DeleteUserRow(q) \/ buildSession(q)
  PROVE  Advance(q)
<1>1. Finish(q)
  BY DEF sendVerificationEmail, CreateToken, InsertToken, DropExpired, Authorize, LinkStart, InsertFlow,
         LinkIdentity, CreatePKCEFlowState, DeleteIdentityByID, UpdateUser, AdminCreateUser, CreateUser,
         DeleteUserRow, buildSession, GiveSession
<1>2. QED  BY <1>1, FinishAdvances

LEMMA LoginAdvances ==
  ASSUME NEW q \in Req, TablesOK, RequestsOK, PasswordGrant(q) \/ GetUserByID(q)
  PROVE  Advance(q)
<1>1. CASE Finish(q)
  BY <1>1, FinishAdvances
<1>2. req[q].to # "foreign"
  BY WellFormedRequest, NoForeign DEF PasswordGrant, GetUserByID, Do, At
<1>3. ASSUME NEW u \in Existing, Goto(q, "session", [user |-> u, banned |-> users[u].banned])
      PROVE  Advance(q)
  <2>1. u \in User /\ users[u].banned \in BOOLEAN  BY RowFields DEF Existing
  <2>2. QED  BY <1>2, <1>3, <2>1, ReadOn DEF GrantPcs
<1>4. CASE At(q, "getUser") /\ users[req[q].user] # None
           /\ Goto(q, "session", [banned |-> users[req[q].user].banned])
  <2> DEFINE b == users[req[q].user].banned
  <2>1. req[q].user \in User  BY <1>4, WellFormedRequest DEF PlaceOK, UserPcs, At
  <2>2. b \in BOOLEAN  BY <1>4, <2>1, RowFields
  <2>3. Went(q, "session", {"banned"}) /\ req'[q].banned = b  BY <1>4, WellFormedRequest, GotoBanned
  <2>4. req'[q].to # "foreign" /\ req'[q].user \in User  BY <1>2, <2>1, <2>3 DEF Went, Kept
  <2>5. QED  BY <2>2, <2>3, <2>4, WellFormedRequest, WentOn DEF GrantPcs
<1>5. QED  BY <1>1, <1>3, <1>4 DEF PasswordGrant, GetUserByID, ByEmail

LEMMA MailAdvances ==
  ASSUME NEW q \in Req, TablesOK, RequestsOK,
         GetUserIDByEmail(q) \/ ResendVerified(q) \/ otpCooldown(q) \/ DeleteUserTokensByPurpose(q)
  PROVE  Advance(q)
<1>1. CASE Finish(q)
  BY <1>1, FinishAdvances
<1>2. req[q].to # "foreign"
  BY WellFormedRequest, NoForeign
     DEF GetUserIDByEmail, ResendVerified, otpCooldown, DeleteUserTokensByPurpose, At
<1>3. ASSUME NEW u \in User, NEW pc \in {"insert", "resendVerified", "cooldown"}, Goto(q, pc, [user |-> u])
      PROVE  Advance(q)
  BY <1>2, <1>3, UserOn DEF GrantPcs
<1>4. CASE mayCreate(req[q]) /\ Goto(q, "create", <<>>)
  BY <1>2, <1>4, AloneOn DEF mayCreate, MakerOps, UserPcs, GrantPcs
<1>5. ASSUME NEW pc \in {"insert", "cooldown", "purge"}, Goto(q, pc, <<>>),
             req[q].pc \in {"resendVerified", "cooldown", "purge"}
      PROVE  Advance(q)
  <2>1. req[q].user \in User  BY <1>5, WellFormedRequest DEF PlaceOK, UserPcs
  <2>2. QED  BY <1>2, <1>5, <2>1, AloneOn DEF GrantPcs
<1>6. CASE GetUserIDByEmail(q)
  BY <1>1, <1>3, <1>4, <1>6 DEF GetUserIDByEmail, ByEmail, Existing
<1>7. QED
  BY <1>1, <1>5, <1>6 DEF ResendVerified, otpCooldown, DeleteUserTokensByPurpose, At

LEMMA TokenFields ==
  ASSUME TablesOK, NEW t \in tokens
  PROVE  /\ t.id \in 1..MaxId /\ t.user \in User /\ t.purpose \in Purpose /\ t.code \in BOOLEAN
         /\ t.email \in Email \cup {None} /\ t.mailed \in Email \cup {None}
         /\ t.attempts \in 0..MaxAttempts /\ t.age \in 0..2
         /\ users[t.user] # None
BY DEF TablesOK, Token

LEMMA ReauthenticateAdvances ==
  ASSUME NEW q \in Req, TablesOK, RequestsOK, Reauthenticate(q)
  PROVE  Advance(q)
<1> DEFINE u == req[q].user
<1>1. CASE Finish(q)
  BY <1>1, FinishAdvances
<1>2. CASE users[u] # None /\ Goto(q, "insert", [email |-> users[u].email, purpose |-> "reauthentication"])
  <2>1. u \in User /\ req[q].to # "foreign"
    BY WellFormedRequest, NoForeign DEF PlaceOK, Reauthenticate, Do, UserOps
  <2>2. users[u].email \in Email \cup {None}  BY <1>2, <2>1, RowFields
  <2>3. /\ Went(q, "insert", {"email", "purpose"})
        /\ req'[q].email = users[u].email /\ req'[q].purpose = "reauthentication"
    BY <1>2, WellFormedRequest, GotoSelf
  <2>4. req'[q].user \in User /\ req'[q].to # "foreign"
    BY <2>1, <2>3 DEF Went, Kept
  <2>5. QED
    BY <2>2, <2>3, <2>4, WellFormedRequest, WentOn DEF GrantPcs, Purpose
<1>3. QED  BY <1>1, <1>2 DEF Reauthenticate

LEMMA VerifyCodeAdvances ==
  ASSUME NEW q \in Req, TablesOK, RequestsOK, IdsOK, VerifyCode(q)
  PROVE  Advance(q)
<1>1. CASE Finish(q)
  BY <1>1, FinishAdvances
<1>2. req[q].op = "verifyCode" /\ req[q].op \in IdOps /\ req[q].to # "foreign"
  BY WellFormedRequest, NoForeign DEF VerifyCode, Do, IdOps
<1>3. ASSUME NEW t \in tokens,
             \/ Goto(q, "drop", [id |-> t.id])
             \/ Goto(q, "consume", [id |-> t.id, user |-> t.user, purpose |-> t.purpose])
      PROVE  Advance(q)
  <2>1. t.id \in 0..(nextId - 1)
    BY TokenFields, AccountsAssumption DEF IdsOK, TablesOK
  <2>2. CASE Goto(q, "drop", [id |-> t.id])
    <3>1. Went(q, "drop", {"id"}) /\ req'[q].id = t.id  BY <2>2, WellFormedRequest, GotoId
    <3>2. req'[q].to # "foreign"  BY <1>2, <3>1 DEF Went, Kept
    <3>3. QED  BY <1>2, <2>1, <3>1, <3>2, WellFormedRequest, WentOn DEF GrantPcs, UserPcs
  <2>3. CASE Goto(q, "consume", [id |-> t.id, user |-> t.user, purpose |-> t.purpose])
    <3>1. /\ Went(q, "consume", {"id", "user", "purpose"})
          /\ req'[q].id = t.id /\ req'[q].user = t.user /\ req'[q].purpose = t.purpose
      BY <2>3, WellFormedRequest, GotoCode
    <3>2. req'[q].to # "foreign"  BY <1>2, <3>1 DEF Went, Kept
    <3>3. QED  BY <1>2, <2>1, <3>1, <3>2, TokenFields, WellFormedRequest, WentOn DEF GrantPcs
  <2>4. QED  BY <1>3, <2>2, <2>3
<1>4. QED  BY <1>1, <1>3 DEF VerifyCode, Reserve, Newest

LEMMA VerifyTokenAdvances ==
  ASSUME NEW q \in Req, TablesOK, RequestsOK, VerifyToken(q)
  PROVE  Advance(q)
<1>1. CASE Finish(q)
  BY <1>1, FinishAdvances
<1>0. req[q].op # "verifyGET" => req[q].to # "foreign"
  BY WellFormedRequest, NoForeign DEF VerifyToken, Do
<1>2. CASE Goto(q, "drop", <<>>)
  BY <1>0, <1>2, AloneOn DEF GrantPcs, UserPcs
<1>3. ASSUME NEW t \in tokens, NEW b \in BOOLEAN,
             Goto(q, "consume", [user |-> t.user, ok |-> b, purpose |-> t.purpose])
      PROVE  Advance(q)
  <2>1. /\ Went(q, "consume", {"user", "ok", "purpose"})
        /\ req'[q].user = t.user /\ req'[q].ok = b /\ req'[q].purpose = t.purpose
    BY <1>3, WellFormedRequest, GotoLink
  <2>2. req[q].op # "verifyGET" => req'[q].to # "foreign"  BY <1>0, <2>1 DEF Went, Kept
  <2>3. QED  BY <2>1, <2>2, TokenFields, WellFormedRequest, WentOn DEF GrantPcs
<1>4. QED
  <2> DEFINE b(t) == t.purpose = "recovery" \/ (req[q].op = "verifyGET" /\ req[q].purpose = "recovery")
  <2>1. \/ Finish(q) \/ Goto(q, "drop", <<>>)
        \/ \E t \in tokens : Goto(q, "consume", [user |-> t.user, ok |-> b(t), purpose |-> t.purpose])
    BY Zenon DEF VerifyToken, Reserve
  <2>2. \A t : b(t) \in BOOLEAN  OBVIOUS
  <2>3. QED  BY <1>1, <1>2, <1>3, <2>1, <2>2

LEMMA ConsumeTokenAdvances ==
  ASSUME NEW q \in Req, TablesOK, RequestsOK, ConsumeToken(q)
  PROVE  Advance(q)
<1>1. CASE Finish(q)
  BY <1>1, FinishAdvances
<1>2. req[q].pc = "consume" /\ req[q].user \in User
  BY WellFormedRequest DEF ConsumeToken, At, PlaceOK, UserPcs
<1>3. ASSUME NEW t \in tokens, NEW pc \in {"getUser", "mark"}, NEW a \in {"own", "none", req[q].to},
             a # "foreign", Goto(q, pc, [email |-> t.mailed, to |-> a])
      PROVE  Advance(q)
  <2>1. Went(q, pc, {"email", "to"}) /\ req'[q].email = t.mailed /\ req'[q].to = a
    BY <1>3, WellFormedRequest, GotoMailed
  <2>2. req'[q].user \in User /\ a \in Target
    BY <1>2, <2>1, WellFormedRequest DEF Went, Kept, FieldsOK, Target
  <2>3. QED  BY <1>3, <2>1, <2>2, TokenFields, WellFormedRequest, WentOn DEF GrantPcs
<1>4. ASSUME NEW t \in tokens, NEW pc \in {"getUser", "mark"}, req[q].op # "verifyGET",
             Goto(q, pc, [email |-> t.mailed])
      PROVE  Advance(q)
  <2>1. Went(q, pc, {"email"}) /\ req'[q].email = t.mailed
    BY <1>4, WellFormedRequest, GotoEmail
  <2>2. req'[q].user \in User /\ req'[q].to = req[q].to
    BY <1>2, <2>1 DEF Went, Kept
  <2>3. req'[q].to # "foreign"
    BY <1>2, <1>4, <2>2, WellFormedRequest DEF RequestOK, AddressOK
  <2>4. QED  BY <1>4, <2>1, <2>2, <2>3, TokenFields, WellFormedRequest, WentOn DEF GrantPcs
<1>5. QED  BY <1>1, <1>3, <1>4 DEF ConsumeToken, resolveRedirect, redirectAllowed

LEMMA FlowFields ==
  ASSUME TablesOK, NEW f \in flows
  PROVE  /\ f \in Flow /\ f.id \in 1..MaxId /\ f.user \in User \cup {None} /\ f.link \in User \cup {None}
         /\ f.to \in Target
         /\ f.kind = "pkce" => f.user \in User
BY DEF TablesOK, Flow

LEMMA AfterCodeAdvances ==
  ASSUME NEW q \in Req, TablesOK, RequestsOK,
         MarkEmailVerified(q) \/ DeletePKCEFlowState(q) \/ IDTokenGrant(q)
  PROVE  Advance(q)
<1>1. CASE Finish(q)
  BY <1>1, FinishAdvances
<1>2. req[q].to # "foreign"
  BY WellFormedRequest, NoForeign DEF MarkEmailVerified, DeletePKCEFlowState, IDTokenGrant, At, Do
<1>3. CASE Goto(q, "getUser", <<>>) /\ req[q].pc \in {"mark", "pkceDelete"}
  <2>1. req[q].user \in User  BY <1>3, WellFormedRequest DEF PlaceOK, UserPcs
  <2>2. QED  BY <1>2, <1>3, <2>1, AloneOn DEF GrantPcs
<1>4. CASE Goto(q, "upsert", <<>>) /\ req[q].op = "idtoken"
  BY <1>2, <1>4, AloneOn DEF UserPcs
<1>5. QED  BY <1>1, <1>3, <1>4 DEF MarkEmailVerified, DeletePKCEFlowState, IDTokenGrant, At, Do

LEMMA CallbackAdvances ==
  ASSUME NEW q \in Req, TablesOK, RequestsOK, ConsumeOAuthFlowState(q)
  PROVE  Advance(q)
<1>1. CASE Finish(q)
  BY <1>1, FinishAdvances
<1>2. req[q].op = "callback" /\ req[q].to # "foreign"
  BY WellFormedRequest, NoForeign DEF ConsumeOAuthFlowState, Do
<1>3. ASSUME NEW f \in flows, Goto(q, "upsert", [flow |-> f])
      PROVE  Advance(q)
  <2>1. Went(q, "upsert", {"flow"}) /\ req'[q].flow = f
    BY <1>3, WellFormedRequest, GotoFlow
  <2>2. req'[q].to # "foreign" /\ FlowOf(req'[q])
    BY <1>2, <2>1, FlowFields DEF Went, Kept, FlowOf
  <2>3. QED  BY <1>2, <2>1, <2>2, WellFormedRequest, WentOn DEF UserPcs
<1>4. ASSUME NEW f \in flows, f.link # None, Goto(q, "link", [flow |-> f, user |-> f.link])
      PROVE  Advance(q)
  <2>1. Went(q, "link", {"flow", "user"}) /\ req'[q].flow = f /\ req'[q].user = f.link
    BY <1>4, WellFormedRequest, GotoFlowUser
  <2>2. req'[q].to # "foreign" /\ FlowOf(req'[q]) /\ f.link \in User
    BY <1>2, <1>4, <2>1, FlowFields DEF Went, Kept, FlowOf
  <2>3. QED  BY <1>2, <2>1, <2>2, WellFormedRequest, WentOn
<1>5. QED  BY <1>1, <1>3, <1>4 DEF ConsumeOAuthFlowState

(* The requests that judge or record an identity came from a callback or an *)
(* ID token.                                                                *)
LEMMA Granting ==
  ASSUME NEW q \in Req, RequestsOK, req[q].pc \in GrantPcs
  PROVE  /\ req[q].op \in {"callback", "idtoken"} /\ req[q].sub \in Subject
         /\ req[q].pc \in UserPcs => req[q].user \in User
         /\ req[q].pc # "pkceCode" => req[q].to # "foreign"
<1>1. req[q].op \in {"callback", "idtoken"} /\ (req[q].pc \in UserPcs => req[q].user \in User)
  BY WellFormedRequest DEF PlaceOK
<1>2. req[q].sub \in Subject
  BY <1>1, WellFormedRequest DEF PlaceOK, SubOps
<1>3. req[q].pc # "pkceCode" => req[q].to # "foreign"
  BY <1>1, WellFormedRequest, NoForeign
<1>4. QED  BY <1>1, <1>2, <1>3

LEMMA GrantAdvances ==
  ASSUME NEW q \in Req, TablesOK, RequestsOK,
         UpsertOAuthUser(q) \/ linkOrCreateOAuthUser(q) \/ OAuthInsert(q) \/ OAuthMark(q)
  PROVE  Advance(q)
<1>1. CASE Finish(q)
  BY <1>1, FinishAdvances
<1>2. /\ req[q].pc \in {"upsert", "byEmail", "rejudge", "oauthInsert", "oauthMark"}
      /\ req[q].to # "foreign" /\ req[q].op \in {"callback", "idtoken"} /\ req[q].sub \in Subject
      /\ req[q].pc = "oauthMark" => req[q].user \in User
  BY Granting DEF UpsertOAuthUser, linkOrCreateOAuthUser, OAuthInsert, OAuthMark, At, GrantPcs, UserPcs
<1>3. ASSUME NEW u \in User, NEW b \in BOOLEAN, Goto(q, "record", [user |-> u, banned |-> b])
      PROVE  Advance(q)
  BY <1>2, <1>3, ReadOn
<1>4. ASSUME NEW u \in User, Goto(q, "oauthMark", [user |-> u])
      PROVE  Advance(q)
  BY <1>2, <1>4, UserOn
<1>5. ASSUME NEW pc \in {"byEmail", "rejudge"}, Goto(q, pc, <<>>)
      PROVE  Advance(q)
  BY <1>2, <1>5, AloneOn DEF UserPcs
<1>6. CASE conf.allowSignup /\ Goto(q, "oauthInsert", <<>>)
  BY <1>2, <1>6, AloneOn DEF UserPcs
<1>7. CASE UpsertOAuthUser(q)
  <2>1. ident[req[q].sub] # None =>
          ident[req[q].sub] \in User /\ users[ident[req[q].sub]] # None
    BY <1>2 DEF TablesOK
  <2>2. ident[req[q].sub] # None => users[ident[req[q].sub]].banned \in BOOLEAN
    BY <2>1, RowFields
  <2>3. QED  BY <1>1, <1>3, <1>5, <1>7, <2>1, <2>2 DEF UpsertOAuthUser
<1>8. CASE linkOrCreateOAuthUser(q)
  <2>1. \A u \in ByEmail(req[q].email) : u \in User /\ users[u].banned \in BOOLEAN
    BY RowFields DEF ByEmail, Existing
  <2>2. QED
    BY <1>1, <1>3, <1>4, <1>6, <1>8, <2>1 DEF linkOrCreateOAuthUser
<1>9. CASE OAuthInsert(q)
  BY <1>3, <1>5, <1>9 DEF OAuthInsert, Unused
<1>10. CASE OAuthMark(q)
  <2>1. CASE users[req[q].user] # None /\ Goto(q, "record", [banned |-> users[req[q].user].banned])
    <3> DEFINE b == users[req[q].user].banned
    <3>1. req[q].user \in User /\ b \in BOOLEAN  BY <1>2, <1>10, <2>1, RowFields DEF OAuthMark, At
    <3>2. Went(q, "record", {"banned"}) /\ req'[q].banned = b  BY <2>1, WellFormedRequest, GotoBanned
    <3>3. req'[q].user \in User /\ req'[q].to # "foreign"  BY <1>2, <3>1, <3>2 DEF Went, Kept
    <3>4. QED  BY <1>2, <3>1, <3>2, <3>3, WellFormedRequest, WentOn
  <2>2. QED  BY <1>1, <1>10, <2>1 DEF OAuthMark
<1>11. QED  BY <1>7, <1>8, <1>9, <1>10

(* The address of a login is judged when its identity is recorded.          *)
LEMMA RecordAdvances ==
  ASSUME NEW q \in Req, TablesOK, RequestsOK, RecordIdentity(q)
  PROVE  Advance(q)
<1>1. req[q].pc = "record" /\ req[q].op \in {"callback", "idtoken"} /\ req[q].user \in User
  BY Granting DEF RecordIdentity, At, GrantPcs, UserPcs
<1>2. ASSUME NEW pc \in {"pkceCode", "session"}, NEW t \in Target, t # "foreign" \/ pc = "pkceCode",
             Goto(q, pc, [to |-> t])
      PROVE  Advance(q)
  <2>1. Went(q, pc, {"to"}) /\ req'[q].to = t  BY <1>2, WellFormedRequest, GotoTo
  <2>2. req'[q].user \in User  BY <1>1, <2>1 DEF Went, Kept
  <2>3. QED  BY <1>1, <1>2, <2>1, <2>2, WellFormedRequest, WentOn DEF GrantPcs
<1>3. req[q].flow # None => req[q].flow.to \in Target
  BY WellFormedRequest DEF FieldsOK, FlowOf, Flow
<1>4. \A t : oauthLanding(t) \in {"own", "none"} \cup ({t} \ {"foreign"})
  BY DEF oauthLanding, redirectAllowed
<1>5. QED  BY <1>2, <1>3, <1>4 DEF RecordIdentity, Target

LEMMA UnlinkAdvances ==
  ASSUME NEW q \in Req, TablesOK, RequestsOK, CountIdentities(q) \/ HasPassword(q) \/ GetPKCEFlowState(q)
  PROVE  Advance(q)
<1>1. CASE Finish(q)
  BY <1>1, FinishAdvances
<1>2. req[q].to # "foreign"
  BY WellFormedRequest, NoForeign DEF CountIdentities, HasPassword, GetPKCEFlowState, Do, At
<1>3. CASE CountIdentities(q)
  <2> DEFINE k == Cardinality({s \in Subject : ident[s] = req[q].user})
  <2>1. req[q].op = "unlink" /\ req[q].user \in User
    BY <1>3, WellFormedRequest DEF CountIdentities, Do, PlaceOK, UserOps
  <2>2. Went(q, "hasPassword", {"n"})
    BY <1>3, WellFormedRequest, GotoCount DEF CountIdentities
  <2>3. req'[q].user \in User /\ req'[q].to # "foreign"  BY <1>2, <2>1, <2>2 DEF Went, Kept
  <2>4. QED  BY <2>1, <2>2, <2>3, WellFormedRequest, WentOn DEF GrantPcs
<1>4. CASE HasPassword(q) /\ Goto(q, "unlink", <<>>)
  <2>1. req[q].op = "unlink" /\ req[q].user \in User
    BY <1>4, WellFormedRequest DEF HasPassword, At, PlaceOK, UserPcs
  <2>2. QED  BY <1>2, <1>4, <2>1, AloneOn DEF GrantPcs
<1>5. ASSUME NEW f \in flows, f.kind = "pkce", req[q].op = "pkce", Goto(q, "pkceDelete", [user |-> f.user])
      PROVE  Advance(q)
  BY <1>2, <1>5, FlowFields, UserOn DEF GrantPcs
<1>6. QED  BY <1>1, <1>3, <1>4, <1>5 DEF HasPassword, GetPKCEFlowState, Do

LEMMA AdminAdvances ==
  ASSUME NEW q \in Req, TablesOK, RequestsOK,
         AdminUpdateUser(q) \/ RevokeAllUserSessions(q) \/ AdminDeleteUser(q) \/ DeleteUserTokens(q)
  PROVE  Advance(q)
<1>1. CASE Finish(q)
  BY <1>1, FinishAdvances
<1>2. req[q].to # "foreign" /\ req[q].user \in User
  BY WellFormedRequest, NoForeign
     DEF AdminUpdateUser, RevokeAllUserSessions, AdminDeleteUser, DeleteUserTokens, Do, At, PlaceOK, UserOps, UserPcs
<1>3. ASSUME NEW pc \in {"revokeAll", "deleteTokens", "deleteRow"}, Goto(q, pc, <<>>)
      PROVE  Advance(q)
  BY <1>2, <1>3, AloneOn DEF GrantPcs
<1>4. QED
  BY <1>1, <1>3 DEF AdminUpdateUser, RevokeAllUserSessions, AdminDeleteUser, DeleteUserTokens

LEMMA HandlersAdvance ==
  ASSUME NEW q \in Req, TablesOK, RequestsOK, IdsOK, Handle(q)
  PROVE  Advance(q)
BY SignupAdvances, FinishingAdvances, LoginAdvances, MailAdvances, ReauthenticateAdvances,
   VerifyCodeAdvances, VerifyTokenAdvances, ConsumeTokenAdvances, AfterCodeAdvances, CallbackAdvances,
   GrantAdvances, RecordAdvances, UnlinkAdvances, AdminAdvances, Zenon DEF Handle

(* A request begins at the start, with inputs of their kinds.               *)
LEMMA BeginAdvances ==
  ASSUME NEW q \in Req, TablesOK, RequestsOK, NEW op \in conf.ops, Begin(q, op)
  PROVE  Advance(q) /\ req'[q].pc = "start" /\ req[q].pc = "idle"
<1>0. op \in Ops /\ nextId \in Nat \ {0}
  BY AccountsAssumption DEF TablesOK
<1>1. PICK e \in EmailsOf(op), p \in PurposeOf(op), u \in UsersOf(op), i \in IdsOf(op), s \in SubjectsOf(op),
           t \in TargetsOf(op), ok \in FlagsOf(op), b \in BansOf(op) :
        /\ op = "unlink" => ident[s] = u
        /\ req' = [req EXCEPT ![q] = Arrived(op, e, p, u, i, s, t, ok, b)]
  BY DEF Begin
<1>A. e \in Email \cup {None} /\ u \in User \cup {None} /\ s \in Subject \cup {None}
  BY DEF EmailsOf, UsersOf, SubjectsOf, Existing
<1>B. (op \in UserOps => u \in User) /\ (op \in SubOps => s \in Subject)
  BY DEF UsersOf, SubjectsOf, Existing, SubOps
<1>C. i \in 0..(nextId - 1) /\ (i # 0 => op \in IdOps)
  BY <1>0 DEF IdsOf, IdOps
<1>D. t \in Target /\ (t = "foreign" => op \in {"authorize", "verifyGET", "linkStart"})
  BY DEF TargetsOf, Target
<1>E. ok \in BOOLEAN /\ b \in BOOLEAN
  BY DEF FlagsOf, BansOf
<1> DEFINE j == Arrived(op, e, p, u, i, s, t, ok, b)
<1>2. p \in Purpose
  BY DEF PurposeOf, Purpose
<1>3. /\ DOMAIN j = Fields /\ j.op = op /\ j.pc = "start" /\ j.email = e /\ j.user = u /\ j.id = i /\ j.sub = s
      /\ j.purpose = p /\ j.to = t /\ j.flow = None
  BY DEF Arrived, Idle, Fields
<1>4. j.ok \in BOOLEAN /\ j.banned \in BOOLEAN
  BY <1>E DEF Arrived, Idle
<1>5. OthersWait(q) /\ req'[q] = j
  BY <1>1 DEF RequestsOK, OthersWait
<1> HIDE DEF j
<1>6. FieldsOK(j, nextId)
  BY <1>2, <1>A, <1>C, <1>D, <1>3, <1>4 DEF FieldsOK, FlowOf
<1>7. PlaceOK(j) /\ AddressOK(j) /\ MakerOK(j, conf)
  BY <1>B, <1>C, <1>D, <1>3 DEF PlaceOK, AddressOK, MakerOK, UserPcs, GrantPcs
<1>8. QED
  BY <1>3, <1>5, <1>6, <1>7 DEF Advance, RequestOK, Begin

-----------------------------------------------------------------------------
(***************************************************************************)
(* What a step does to the codes and the flows: rows go, one comes with the *)
(* next id, or one ages or spends an attempt.                              *)
(***************************************************************************)
Shrinks ==
  tokens' \subseteq tokens /\ flows' \subseteq flows /\ nextId' = nextId /\ tries' = tries
GainsToken ==
  /\ \E t \in Token : /\ tokens' = tokens \cup {t} /\ t.id = nextId /\ t.attempts = 0
                      /\ users[t.user] # None
  /\ users' = users /\ flows' = flows /\ nextId' = nextId + 1 /\ tries' = tries
GainsFlow ==
  /\ \E f \in Flow : /\ flows' \subseteq flows \cup {f} /\ f.id = nextId
                     /\ f.kind = "pkce" => f.user \in User
  /\ tokens' = tokens /\ nextId' = nextId + 1 /\ tries' = tries
Retouches ==
  /\ \E t \in tokens, s \in Token :
       /\ tokens' = (tokens \ {t}) \cup {s} /\ s.id = t.id /\ s.user = t.user
       /\ \/ s.attempts = t.attempts /\ tries' = tries
          \/ s.attempts = t.attempts + 1 /\ tries' = [tries EXCEPT ![t.id] = @ + 1]
  /\ users' = users /\ flows' = flows /\ nextId' = nextId
AgesFlow ==
  /\ \E f \in flows, g \in Flow :
       flows' = (flows \ {f}) \cup {g} /\ g.id = f.id /\ g.kind = f.kind /\ g.user = f.user
  /\ tokens' = tokens /\ nextId' = nextId /\ tries' = tries
Stores == Shrinks \/ GainsToken \/ GainsFlow \/ Retouches \/ AgesFlow

LEMMA InsertTokenStores ==
  ASSUME NEW q \in Req, TablesOK, RequestsOK, NEW purpose \in Purpose, NEW code \in BOOLEAN,
         req[q].user \in User, InsertToken(q, purpose, code)
  PROVE  Shrinks \/ GainsToken
<1> DEFINE u == req[q].user
           t == [id |-> nextId, user |-> u, purpose |-> purpose, code |-> code,
                 email |-> IF code THEN req[q].email ELSE None,
                 mailed |-> req[q].email, attempts |-> 0, age |-> 0]
<1>1. CASE users[u] = None
  BY <1>1 DEF InsertToken, ghosts, Shrinks
<1>2. CASE users[u] # None
  <2>1. req[q].email \in Email \cup {None}  BY WellFormedRequest DEF FieldsOK
  <2>2. nextId \in 1..MaxId /\ 0 \in 0..MaxAttempts
    BY AccountsAssumption DEF InsertToken, TablesOK
  <2>3. t \in Token  BY <2>1, <2>2 DEF Token
  <2>4. /\ tokens' = tokens \cup {t} /\ users' = users /\ flows' = flows
        /\ nextId' = nextId + 1 /\ tries' = tries
    BY <1>2, Zenon DEF InsertToken, ghosts
  <2>5. t.id = nextId /\ t.attempts = 0 /\ users[t.user] # None  BY <1>2
  <2> HIDE DEF t
  <2>6. QED  BY <2>3, <2>4, <2>5 DEF GainsToken
<1>3. QED  BY <1>1, <1>2

LEMMA InsertFlowStores ==
  ASSUME NEW q \in Req, TablesOK, NEW link \in User \cup {None}, NEW pkce \in BOOLEAN, NEW to \in Target,
         InsertFlow(q, link, pkce, to), tries' = tries
  PROVE  GainsFlow
<1> DEFINE g == [id |-> nextId, kind |-> "oauth", user |-> None, link |-> link,
                 pkce |-> pkce, to |-> to, fresh |-> TRUE]
<1>1. nextId \in 1..MaxId
  BY AccountsAssumption DEF InsertFlow, TablesOK
<1>2. g \in Flow /\ g.id = nextId /\ g.kind = "oauth"
  BY <1>1 DEF Flow
<1>3. flows' \subseteq flows \cup {g} /\ tokens' = tokens /\ nextId' = nextId + 1
  BY DEF InsertFlow
<1> HIDE DEF g
<1>4. QED  BY <1>2, <1>3 DEF GainsFlow

LEMMA VerifyCodeStores ==
  ASSUME NEW q \in Req, TablesOK, VerifyCode(q)
  PROVE  Shrinks \/ Retouches
<1>1. CASE Reserve(Newest(req[q].email)) = {}
  BY <1>1 DEF VerifyCode, Shrinks
<1>2. CASE Reserve(Newest(req[q].email)) # {}
  <2>1. PICK t \in Reserve(Newest(req[q].email)) :
          /\ tokens' = (tokens \ {t}) \cup {[t EXCEPT !.attempts = @ + 1]}
          /\ tries' = [tries EXCEPT ![t.id] = @ + 1]
    BY <1>2 DEF VerifyCode
  <2>2. t \in tokens /\ t.attempts < MaxAttempts  BY DEF Reserve, Newest
  <2> DEFINE s == [t EXCEPT !.attempts = @ + 1]
  <2>3. t \in Token /\ t.attempts \in 0..MaxAttempts  BY <2>2, TokenFields DEF TablesOK
  <2>4. s \in Token /\ s.id = t.id /\ s.user = t.user /\ s.attempts = t.attempts + 1
    BY <2>2, <2>3, AccountsAssumption DEF Token
  <2>5. tokens' = (tokens \ {t}) \cup {s}  BY <2>1
  <2>6. users' = users /\ flows' = flows /\ nextId' = nextId  BY DEF VerifyCode
  <2> HIDE DEF s
  <2>7. QED  BY <2>1, <2>2, <2>4, <2>5, <2>6 DEF Retouches
<1>3. QED  BY <1>1, <1>2

LEMMA AgeTokenStores ==
  ASSUME TablesOK, AgeToken
  PROVE  Retouches
<1>1. PICK t \in tokens : t.age < 2 /\ tokens' = (tokens \ {t}) \cup {[t EXCEPT !.age = @ + 1]}
  BY DEF AgeToken
<1> DEFINE s == [t EXCEPT !.age = @ + 1]
<1>2. t \in Token /\ t.age \in 0..2  BY TokenFields DEF TablesOK
<1>3. s \in Token /\ s.id = t.id /\ s.user = t.user /\ s.attempts = t.attempts
  BY <1>1, <1>2 DEF Token
<1>4. tokens' = (tokens \ {t}) \cup {s}  BY <1>1
<1>5. users' = users /\ flows' = flows /\ nextId' = nextId /\ tries' = tries
  BY DEF AgeToken, ghosts
<1> HIDE DEF s
<1>6. QED  BY <1>3, <1>4, <1>5 DEF Retouches

LEMMA AgeFlowStores ==
  ASSUME TablesOK, AgeFlow
  PROVE  AgesFlow
<1>1. PICK f \in flows : flows' = (flows \ {f}) \cup {[f EXCEPT !.fresh = FALSE]}
  BY DEF AgeFlow
<1> DEFINE g == [f EXCEPT !.fresh = FALSE]
<1>2. g \in Flow /\ g.id = f.id /\ g.kind = f.kind /\ g.user = f.user
  BY FlowFields DEF Flow
<1>3. flows' = (flows \ {f}) \cup {g}  BY <1>1
<1>4. tokens' = tokens /\ nextId' = nextId /\ tries' = tries
  BY DEF AgeFlow, ghosts
<1> HIDE DEF g
<1>5. QED  BY <1>2, <1>3, <1>4 DEF AgesFlow

LEMMA PKCEStores ==
  ASSUME NEW q \in Req, TablesOK, RequestsOK, CreatePKCEFlowState(q)
  PROVE  GainsFlow
<1> DEFINE g == [id |-> nextId, kind |-> "pkce", user |-> req[q].user, link |-> None,
                 pkce |-> TRUE, to |-> req[q].to, fresh |-> TRUE]
<1>1. nextId \in 1..MaxId
  BY AccountsAssumption DEF CreatePKCEFlowState, TablesOK
<1>2. req[q].user \in User /\ req[q].to \in Target
  BY WellFormedRequest DEF CreatePKCEFlowState, At, PlaceOK, FieldsOK, UserPcs
<1>3. g \in Flow /\ g.id = nextId /\ g.user \in User
  BY <1>1, <1>2 DEF Flow
<1>4. flows' \subseteq flows \cup {g} /\ tokens' = tokens /\ nextId' = nextId + 1 /\ tries' = tries
  BY DEF CreatePKCEFlowState
<1> HIDE DEF g
<1>5. QED  BY <1>3, <1>4 DEF GainsFlow

LEMMA HandlersStore ==
  ASSUME NEW q \in Req, TablesOK, RequestsOK, Handle(q)
  PROVE  Stores
<1>1. CASE sendVerificationEmail(q) \/ CreateToken(q)
  <2>1. req[q].user \in User /\ req[q].purpose \in Purpose
    BY <1>1, WellFormedRequest DEF sendVerificationEmail, CreateToken, At, PlaceOK, FieldsOK, UserPcs
  <2>2. CASE sendVerificationEmail(q)
    BY <2>1, <2>2, InsertTokenStores DEF sendVerificationEmail, Purpose, Stores
  <2>3. CASE CreateToken(q)
    <3>1. (req[q].op \in {"otp", "resend", "reauth"}) \in BOOLEAN  OBVIOUS
    <3>2. QED  BY <2>1, <2>3, <3>1, InsertTokenStores, Zenon DEF CreateToken, Stores
  <2>4. QED  BY <1>1, <2>2, <2>3
<1>2. CASE Authorize(q)
  <2>1. req[q].ok \in BOOLEAN /\ req[q].to \in Target  BY WellFormedRequest DEF FieldsOK
  <2>2. CASE redirectAllowed(req[q].to)
    BY <1>2, <2>1, <2>2, InsertFlowStores DEF Authorize, ghosts, Stores
  <2>3. CASE ~redirectAllowed(req[q].to)
    BY <1>2, <2>3 DEF Authorize, db, ghosts, Stores, Shrinks
  <2>4. QED  BY <2>2, <2>3
<1>3. CASE LinkStart(q)
  <2>1. req[q].user \in User \cup {None} /\ req[q].to \in Target  BY WellFormedRequest DEF FieldsOK
  <2>2. QED  BY <1>3, <2>1, InsertFlowStores DEF LinkStart, ghosts, Stores
<1>4. CASE VerifyCode(q)
  BY <1>4, VerifyCodeStores DEF Stores
<1>5. CASE CreatePKCEFlowState(q)
  BY <1>5, PKCEStores DEF Stores
<1>6. CASE \/ Signup(q) \/ SignupAnonymous(q) \/ PasswordGrant(q) \/ GetUserIDByEmail(q) \/ CreateForMail(q)
           \/ ResendVerified(q) \/ otpCooldown(q) \/ DeleteUserTokensByPurpose(q) \/ Reauthenticate(q)
           \/ VerifyToken(q) \/ DropExpired(q) \/ ConsumeToken(q) \/ MarkEmailVerified(q)
           \/ ConsumeOAuthFlowState(q) \/ IDTokenGrant(q) \/ UpsertOAuthUser(q)
  <2>1. Shrinks
    BY <1>6 DEF Shrinks, db, ghosts, Signup, SignupAnonymous, PasswordGrant, GetUserIDByEmail, CreateForMail,
       ResendVerified, otpCooldown, DeleteUserTokensByPurpose, Reauthenticate, VerifyToken, DropExpired,
       ConsumeToken, MarkEmailVerified, ConsumeOAuthFlowState, IDTokenGrant, UpsertOAuthUser
  <2>2. QED  BY <2>1 DEF Stores
<1>7. CASE \/ linkOrCreateOAuthUser(q) \/ OAuthInsert(q) \/ OAuthMark(q) \/ RecordIdentity(q) \/ LinkIdentity(q)
           \/ GetPKCEFlowState(q) \/ DeletePKCEFlowState(q) \/ CountIdentities(q) \/ HasPassword(q)
           \/ DeleteIdentityByID(q) \/ UpdateUser(q) \/ AdminCreateUser(q) \/ AdminUpdateUser(q)
           \/ RevokeAllUserSessions(q) \/ AdminDeleteUser(q) \/ DeleteUserTokens(q) \/ DeleteUserRow(q)
           \/ GetUserByID(q) \/ buildSession(q)
  <2>1. Shrinks
    BY <1>7 DEF Shrinks, db, ghosts, linkOrCreateOAuthUser, OAuthInsert, OAuthMark, RecordIdentity, LinkIdentity,
       GetPKCEFlowState, DeletePKCEFlowState, CountIdentities, HasPassword, DeleteIdentityByID, UpdateUser,
       AdminCreateUser, AdminUpdateUser, RevokeAllUserSessions, AdminDeleteUser, DeleteUserTokens,
       DeleteUserRow, GetUserByID, buildSession, GiveSession
  <2>2. QED  BY <2>1 DEF Stores
<1>8. QED
  BY <1>1, <1>2, <1>3, <1>4, <1>5, <1>6, <1>7, Zenon DEF Handle

-----------------------------------------------------------------------------
(***************************************************************************)
(* What a statement does to the accounts: at most one row is updated, made  *)
(* or deleted, and a row that becomes verified, or takes another address    *)
(* while it is, is vouched for.                                            *)
(***************************************************************************)
Vouched(u, r) == r.verified => <<u, r.email>> \in proven' \/ u \in stale'
Updates(u) ==
  /\ users[u] # None /\ users'[u] \in Account
  /\ users[u].password => users'[u].password
  /\ \/ Vouched(u, users'[u])
     \/ users'[u].email = users[u].email /\ users'[u].verified = users[u].verified
Makes(q, u) ==
  /\ u \in Unused /\ users'[u] \in Account
  /\ users'[u].verified => <<u, users'[u].email>> \in proven'
  /\ conf.allowSignup \/ req[q].op \in MakerOps
  /\ req'[q].pc # req[q].pc
Deletes(u) ==
  /\ users'[u] = None
  /\ \A t \in tokens' : t.user # u
  /\ \A s \in Subject : ident'[s] # u
Alone(u) ==
  users' = [v \in User |-> users'[v]] /\ \A v \in User \ {u} : users'[v] = users[v]
KeepsRows(q) ==
  /\ proven \subseteq proven' /\ stale \subseteq stale'
  /\ \/ users' = users
     \/ \E u \in User : Alone(u) /\ (Updates(u) \/ Makes(q, u) \/ Deletes(u))

LEMMA UpdateKeeps ==
  ASSUME NEW q \in Req, TablesOK, NEW u \in User, NEW row \in Account, users[u] # None, Set(u, row),
         users[u].password => row.password,
         Vouched(u, row) \/ (row.email = users[u].email /\ row.verified = users[u].verified),
         proven \subseteq proven', stale \subseteq stale'
  PROVE  KeepsRows(q)
<1>1. Alone(u) /\ users'[u] = row
  BY DEF Set, Alone, TablesOK
<1>2. Updates(u)  BY <1>1 DEF Updates
<1>3. QED  BY <1>1, <1>2 DEF KeepsRows

LEMMA MakeKeeps ==
  ASSUME NEW q \in Req, TablesOK, NEW u \in Unused, NEW row \in Account, users' = [users EXCEPT ![u] = row],
         row.verified => <<u, row.email>> \in proven',
         conf.allowSignup \/ req[q].op \in MakerOps, req'[q].pc # req[q].pc,
         proven \subseteq proven', stale \subseteq stale'
  PROVE  KeepsRows(q)
<1>1. u \in User  BY DEF Unused
<1>2. Alone(u) /\ users'[u] = row
  BY <1>1 DEF Alone, TablesOK
<1>3. Makes(q, u)  BY <1>2 DEF Makes
<1>4. QED  BY <1>1, <1>2, <1>3 DEF KeepsRows

LEMMA NewAccountFields ==
  ASSUME NEW e \in Email \cup {None}
  PROVE  /\ NewAccount(e) \in Account /\ NewAccount(e).verified = FALSE /\ NewAccount(e).email = e
         /\ \A b \in BOOLEAN : [NewAccount(e) EXCEPT !.password = b] \in Account
                               /\ ~[NewAccount(e) EXCEPT !.password = b].verified
         /\ [NewAccount(e) EXCEPT !.anon = TRUE] \in Account
         /\ ~[NewAccount(e) EXCEPT !.anon = TRUE].verified
         /\ \A b \in BOOLEAN : [NewAccount(e) EXCEPT !.verified = b] \in Account
                               /\ [NewAccount(e) EXCEPT !.verified = b].verified = b
                               /\ [NewAccount(e) EXCEPT !.verified = b].email = e
BY DEF NewAccount, Account

(* INSERT INTO auth.users makes one row or none.                            *)
LEMMA CreateUserKeeps ==
  ASSUME NEW q \in Req, TablesOK, RequestsOK, NEW row \in Account, NEW pc, CreateUser(q, row, pc),
         req[q].pc # pc, req[q].pc # "done",
         conf.allowSignup \/ req[q].op \in MakerOps,
         row.verified => \A u \in User : <<u, row.email>> \in proven',
         proven \subseteq proven', stale \subseteq stale'
  PROVE  KeepsRows(q)
<1>1. CASE users' = users
  BY <1>1 DEF KeepsRows
<1>2. CASE \E u \in Unused : /\ users' = [users EXCEPT ![u] = row]
                             /\ Finish(q) \/ Goto(q, pc, [user |-> u, banned |-> row.banned])
  <2>1. PICK u \in Unused : /\ users' = [users EXCEPT ![u] = row]
                            /\ Finish(q) \/ Goto(q, pc, [user |-> u, banned |-> row.banned])
    BY <1>2
  <2>2. req'[q].pc \in {"done", pc}
    <3>1. CASE Finish(q)
      BY <3>1, Finished, WellFormedRequest, DoneFields
    <3>2. CASE Goto(q, pc, [user |-> u, banned |-> row.banned])
      BY <3>2, WellFormedRequest, GotoRead DEF Went
    <3>3. QED  BY <2>1, <3>1, <3>2
  <2>3. QED  BY <2>1, <2>2, MakeKeeps DEF Unused
<1>3. QED  BY <1>1, <1>2 DEF CreateUser

LEMMA SignupKeeps ==
  ASSUME NEW q \in Req, TablesOK, RequestsOK, Signup(q) \/ SignupAnonymous(q) \/ CreateForMail(q)
  PROVE  KeepsRows(q)
<1>1. proven' = proven /\ stale' = stale
  BY DEF Signup, SignupAnonymous, CreateForMail, ghosts
<1>2. CASE users' = users
  BY <1>1, <1>2 DEF KeepsRows
<1>3. req[q].email \in Email \cup {None} /\ None \in Email \cup {None}
  BY WellFormedRequest DEF FieldsOK
<1>4. CASE Signup(q)
  <2> DEFINE row == [NewAccount(req[q].email) EXCEPT !.password = TRUE]
  <2>1. row \in Account /\ ~row.verified  BY <1>3, NewAccountFields
  <2>2. users' = users \/ (conf.allowSignup /\ CreateUser(q, row, IF conf.verifyEmail THEN "sendVerification" ELSE "session"))
    BY <1>4 DEF Signup
  <2>3. req[q].pc = "start"  BY <1>4 DEF Signup, Do
  <2> HIDE DEF row
  <2>4. QED  BY <1>1, <1>2, <2>1, <2>2, <2>3, CreateUserKeeps
<1>5. CASE SignupAnonymous(q)
  <2> DEFINE row == [NewAccount(None) EXCEPT !.anon = TRUE]
  <2>1. row \in Account /\ ~row.verified  BY <1>3, NewAccountFields
  <2>2. users' = users \/ (conf.allowSignup /\ CreateUser(q, row, "session"))
    BY <1>5 DEF SignupAnonymous
  <2>3. req[q].pc = "start"  BY <1>5 DEF SignupAnonymous, Do
  <2> HIDE DEF row
  <2>4. QED  BY <1>1, <1>2, <2>1, <2>2, <2>3, CreateUserKeeps
<1>6. CASE CreateForMail(q)
  <2> DEFINE b == req[q].op = "generateLink" /\ req[q].ok
             row == [NewAccount(req[q].email) EXCEPT !.password = b]
             pc == IF req[q].op = "otp" THEN "cooldown"
                   ELSE IF req[q].op = "invite" THEN "sendVerification" ELSE "insert"
  <2>1. b \in BOOLEAN  OBVIOUS
  <2>2. CreateUser(q, row, pc) /\ req[q].pc = "create"  BY <1>6 DEF CreateForMail, At
  <2> HIDE DEF b
  <2>3. row \in Account /\ ~row.verified  BY <1>3, <2>1, NewAccountFields
  <2>4. conf.allowSignup \/ req[q].op \in MakerOps
    BY <2>2, WellFormedRequest DEF RequestOK, MakerOK
  <2> HIDE DEF row
  <2>5. QED  BY <1>1, <2>2, <2>3, <2>4, CreateUserKeeps
<1>7. QED  BY <1>4, <1>5, <1>6

(* An administrator may confirm the address of the account he makes.        *)
LEMMA AdminCreateKeeps ==
  ASSUME NEW q \in Req, TablesOK, RequestsOK, AdminCreateUser(q)
  PROVE  KeepsRows(q)
<1> DEFINE row == [NewAccount(req[q].email) EXCEPT !.verified = req[q].ok]
<1>1. req[q].email \in Email \cup {None} /\ req[q].ok \in BOOLEAN
  BY WellFormedRequest DEF FieldsOK
<1>2. row \in Account /\ row.verified = req[q].ok /\ row.email = req[q].email
  BY <1>1, NewAccountFields
<1>3. /\ CreateUser(q, row, "done") /\ stale' = stale
      /\ req[q].op \in MakerOps /\ req[q].pc = "start"
  BY DEF AdminCreateUser, Do, MakerOps
<1>4. proven \subseteq proven' /\ (req[q].ok => \A u \in User : <<u, req[q].email>> \in proven')
  BY DEF AdminCreateUser
<1> HIDE DEF row
<1>5. QED  BY <1>2, <1>3, <1>4, CreateUserKeeps

LEMMA OAuthInsertKeeps ==
  ASSUME NEW q \in Req, TablesOK, RequestsOK, OAuthInsert(q)
  PROVE  KeepsRows(q)
<1> DEFINE row == [NewAccount(req[q].email) EXCEPT !.verified = TRUE]
<1>1. req[q].email \in Email \cup {None} /\ req[q].pc = "oauthInsert"
  BY WellFormedRequest DEF FieldsOK, OAuthInsert, At
<1>2. row \in Account /\ row.email = req[q].email
  BY <1>1, NewAccountFields
<1>3. conf.allowSignup
  BY <1>1, WellFormedRequest DEF RequestOK, MakerOK
<1>4. stale' = stale  BY DEF OAuthInsert
<1>5. CASE users' = users /\ proven' = proven
  BY <1>4, <1>5 DEF KeepsRows
<1>6. CASE \E u \in Unused : /\ users' = [users EXCEPT ![u] = row]
                             /\ Vouch(u, req[q].email)
                             /\ Goto(q, "record", [user |-> u, banned |-> FALSE])
  <2>1. PICK u \in Unused : /\ users' = [users EXCEPT ![u] = row]
                            /\ Vouch(u, req[q].email)
                            /\ Goto(q, "record", [user |-> u, banned |-> FALSE])
    BY <1>6
  <2>2. req'[q].pc = "record"  BY <2>1, WellFormedRequest, GotoRead DEF Went
  <2>3. proven \subseteq proven' /\ <<u, req[q].email>> \in proven'  BY <2>1 DEF Vouch
  <2> HIDE DEF row
  <2>4. QED  BY <1>1, <1>2, <1>3, <1>4, <2>1, <2>2, <2>3, MakeKeeps
<1>7. QED  BY <1>5, <1>6 DEF OAuthInsert

(* A code or a provider vouches for the address the request names; a row    *)
(* that carries another one by now is excused.                              *)
LEMMA MarkKeeps ==
  ASSUME NEW q \in Req, TablesOK, RequestsOK, MarkEmailVerified(q) \/ OAuthMark(q)
  PROVE  KeepsRows(q)
<1> DEFINE u == req[q].user
<1>1. u \in User
  BY WellFormedRequest DEF MarkEmailVerified, OAuthMark, At, PlaceOK, UserPcs
<1>2. CASE users[u] = None
  BY <1>2 DEF MarkEmailVerified, OAuthMark, KeepsRows
<1>3. CASE users[u] # None
  <2> DEFINE row == [users[u] EXCEPT !.verified = TRUE]
  <2>1. /\ Set(u, row) /\ Vouch(u, req[q].email)
        /\ stale' = IF req[q].email = users[u].email THEN stale ELSE stale \cup {u}
    BY <1>3 DEF MarkEmailVerified, OAuthMark
  <2>2. users[u] \in Account  BY <1>1, <1>3, RowIsAccount
  <2>3. row \in Account /\ row.email = users[u].email /\ row.password = users[u].password
    BY <2>2 DEF Account
  <2>4. proven \subseteq proven' /\ stale \subseteq stale' /\ (<<u, row.email>> \in proven' \/ u \in stale')
    BY <2>1, <2>3 DEF Vouch
  <2>5. users[u].password => row.password  BY <2>3
  <2> HIDE DEF row
  <2>6. QED  BY <1>1, <1>3, <2>1, <2>3, <2>4, <2>5, UpdateKeeps DEF Vouched
<1>4. QED  BY <1>2, <1>3

(* A new address clears the flag, or is the one the access token named.     *)
LEMMA UpdateUserKeeps ==
  ASSUME NEW q \in Req, TablesOK, RequestsOK, UpdateUser(q)
  PROVE  KeepsRows(q)
<1> DEFINE u == req[q].user
           e == req[q].email
           row == [users[u] EXCEPT !.email = IF e = None THEN @ ELSE e,
                                   !.verified = @ /\ ~(e # None /\ clearVerified(q)),
                                   !.password = @ \/ req[q].ok]
<1>1. u \in User /\ e \in Email \cup {None} /\ req[q].ok \in BOOLEAN
  BY WellFormedRequest DEF UpdateUser, Do, PlaceOK, FieldsOK, UserOps
<1>2. proven' = proven /\ stale \subseteq stale'
  BY DEF UpdateUser
<1>3. CASE users' = users
  BY <1>2, <1>3 DEF KeepsRows
<1>4. CASE users[u] # None /\ Set(u, row)
           /\ stale' = IF e # None /\ e # users[u].email /\ e = req[q].claim THEN stale \cup {u} ELSE stale
  <2>1. users[u] \in Account /\ users[u].verified \in BOOLEAN /\ users[u].password \in BOOLEAN
    BY <1>1, <1>4, RowIsAccount, RowFields
  <2>2. /\ row.email = IF e = None THEN users[u].email ELSE e
        /\ row.verified = (users[u].verified /\ ~(e # None /\ clearVerified(q)))
        /\ row.password = (users[u].password \/ req[q].ok)
    BY <2>1 DEF Account
  <2>3. row \in Account
    BY <1>1, <2>1, ZenonT(60) DEF Account
  <2> HIDE DEF row
  <2>4. row.verified <=> (users[u].verified /\ ~(e # None /\ clearVerified(q)))
    BY <2>2, Zenon
  <2>5. users[u].password => row.password
    BY <2>2, Zenon
  <2>6. row.verified => (row.email = users[u].email /\ row.verified = users[u].verified) \/ u \in stale'
    <3>1. CASE e = None \/ e = users[u].email
      <4>1. row.email = users[u].email  BY <2>2, <3>1
      <4>2. row.verified => users[u].verified = TRUE /\ row.verified = TRUE
        BY <2>1, <2>3, <2>4, Zenon DEF Account
      <4>3. QED  BY <4>1, <4>2
    <3>2. CASE e # None /\ e # users[u].email
      BY <1>4, <2>4, <3>2 DEF clearVerified
    <3>3. QED  BY <3>1, <3>2
  <2>7. Vouched(u, row) \/ (row.email = users[u].email /\ row.verified = users[u].verified)
    BY <2>6 DEF Vouched
  <2>8. QED  BY <1>1, <1>2, <1>4, <2>3, <2>5, <2>7, UpdateKeeps
<1>5. QED  BY <1>3, <1>4 DEF UpdateUser

(* The address an administrator sets or confirms counts as proven.          *)
LEMMA AdminUpdateKeeps ==
  ASSUME NEW q \in Req, TablesOK, RequestsOK, AdminUpdateUser(q)
  PROVE  KeepsRows(q)
<1> DEFINE u == req[q].user
           e == req[q].email
           row == [users[u] EXCEPT !.email = IF e = None THEN @ ELSE e, !.banned = req[q].banned,
                                   !.verified = @ \/ req[q].ok]
<1>1. u \in User /\ e \in Email \cup {None} /\ req[q].ok \in BOOLEAN /\ req[q].banned \in BOOLEAN
  BY WellFormedRequest DEF AdminUpdateUser, Do, PlaceOK, FieldsOK, UserOps
<1>2. stale' = stale
  BY DEF AdminUpdateUser
<1>3. CASE users' = users /\ proven' = proven
  BY <1>2, <1>3 DEF KeepsRows
<1>4. CASE /\ users[u] # None /\ Set(u, row)
           /\ IF e # None \/ req[q].ok THEN Vouch(u, IF e = None THEN users[u].email ELSE e)
                                       ELSE UNCHANGED proven
  <2>1. users[u] \in Account /\ users[u].verified \in BOOLEAN
    BY <1>1, <1>4, RowIsAccount, RowFields
  <2>2. /\ row.email = IF e = None THEN users[u].email ELSE e
        /\ row.verified = (users[u].verified \/ req[q].ok)
        /\ row.password = users[u].password
    BY <2>1 DEF Account
  <2>3. row \in Account
    BY <1>1, <2>1, ZenonT(60) DEF Account
  <2> HIDE DEF row
  <2>4. users[u].password => row.password
    BY <2>2
  <2>5. proven \subseteq proven'
    BY <1>4 DEF Vouch
  <2>6. CASE e # None \/ req[q].ok
    <3>1. Vouch(u, row.email)  BY <1>4, <2>2, <2>6, Zenon
    <3>2. Vouched(u, row)  BY <3>1 DEF Vouch, Vouched
    <3>3. QED  BY <1>1, <1>2, <1>4, <2>3, <2>4, <2>5, <3>2, UpdateKeeps
  <2>7. CASE ~(e # None \/ req[q].ok)
    <3>0. row.verified <=> (users[u].verified \/ req[q].ok)  BY <2>2, Zenon
    <3>1. row.verified <=> users[u].verified  BY <3>0, <2>7, Zenon
    <3>2. row.verified \in BOOLEAN  BY <2>3 DEF Account
    <3>3. row.verified = users[u].verified  BY <2>1, <3>1, <3>2, Zenon
    <3>4. row.email = users[u].email  BY <2>2, <2>7
    <3>5. QED  BY <1>1, <1>2, <1>4, <2>3, <2>4, <2>5, <3>3, <3>4, UpdateKeeps
  <2>8. QED  BY <2>6, <2>7
<1>5. QED  BY <1>3, <1>4 DEF AdminUpdateUser

LEMMA SessionKeeps ==
  ASSUME NEW q \in Req, TablesOK, RequestsOK, buildSession(q) \/ RevokeAllUserSessions(q)
  PROVE  KeepsRows(q)
<1> DEFINE u == req[q].user
<1>1. u \in User
  BY WellFormedRequest DEF buildSession, RevokeAllUserSessions, At, PlaceOK, UserPcs
<1>2. proven' = proven /\ stale' = stale
  BY DEF buildSession, GiveSession, RevokeAllUserSessions, ghosts
<1>3. ASSUME NEW b \in BOOLEAN, users[u] # None, Set(u, [users[u] EXCEPT !.session = b])
      PROVE  KeepsRows(q)
  <2> DEFINE row == [users[u] EXCEPT !.session = b]
  <2>1. users[u] \in Account  BY <1>1, <1>3, RowIsAccount
  <2>2. row \in Account /\ row.email = users[u].email /\ row.verified = users[u].verified
        /\ row.password = users[u].password
    BY <2>1 DEF Account
  <2>3. Set(u, row)  BY <1>3
  <2> HIDE DEF row
  <2>4. QED  BY <1>1, <1>2, <1>3, <2>2, <2>3, UpdateKeeps
<1>4. CASE users' = users
  BY <1>2, <1>4 DEF KeepsRows
<1>5. QED  BY <1>3, <1>4 DEF buildSession, GiveSession, RevokeAllUserSessions

LEMMA DeleteKeeps ==
  ASSUME NEW q \in Req, TablesOK, RequestsOK, DeleteUserRow(q)
  PROVE  KeepsRows(q)
<1> DEFINE u == req[q].user
<1>1. u \in User
  BY WellFormedRequest DEF DeleteUserRow, At, PlaceOK, UserPcs
<1>2. Alone(u) /\ users'[u] = None
  BY <1>1 DEF DeleteUserRow, Alone, TablesOK
<1>3. \A t \in tokens' : t.user # u
  BY DEF DeleteUserRow
<1>4. \A s \in Subject : ident'[s] # u
  BY <1>1, AccountsAssumption DEF DeleteUserRow
<1>5. proven' = proven /\ stale' = stale
  BY DEF DeleteUserRow, ghosts
<1>6. QED  BY <1>1, <1>2, <1>3, <1>4, <1>5 DEF KeepsRows, Deletes

(* The statements that write no account.                                    *)
Unwritten == users' = users /\ proven' = proven /\ stale' = stale

LEMMA HandlersKeepRows ==
  ASSUME NEW q \in Req, TablesOK, RequestsOK, Handle(q)
  PROVE  KeepsRows(q)
<1>1. CASE Unwritten
  BY <1>1 DEF Unwritten, KeepsRows
<1>2. CASE \/ sendVerificationEmail(q) \/ PasswordGrant(q) \/ GetUserIDByEmail(q) \/ ResendVerified(q)
           \/ otpCooldown(q) \/ DeleteUserTokensByPurpose(q) \/ CreateToken(q) \/ Reauthenticate(q)
           \/ VerifyCode(q) \/ VerifyToken(q) \/ DropExpired(q) \/ ConsumeToken(q) \/ Authorize(q) \/ LinkStart(q)
           \/ ConsumeOAuthFlowState(q) \/ IDTokenGrant(q)
  <2>1. Unwritten
    BY <1>2 DEF Unwritten, db, ghosts, sendVerificationEmail, InsertToken, PasswordGrant, GetUserIDByEmail,
       ResendVerified, otpCooldown, DeleteUserTokensByPurpose, CreateToken, Reauthenticate, VerifyCode,
       VerifyToken, DropExpired, ConsumeToken, Authorize, LinkStart, InsertFlow, ConsumeOAuthFlowState,
       IDTokenGrant
  <2>2. QED  BY <1>1, <2>1
<1>3. CASE \/ UpsertOAuthUser(q) \/ linkOrCreateOAuthUser(q) \/ RecordIdentity(q) \/ LinkIdentity(q)
           \/ CreatePKCEFlowState(q) \/ GetPKCEFlowState(q) \/ DeletePKCEFlowState(q) \/ CountIdentities(q)
           \/ HasPassword(q) \/ DeleteIdentityByID(q) \/ AdminDeleteUser(q) \/ DeleteUserTokens(q) \/ GetUserByID(q)
  <2>1. Unwritten
    BY <1>3 DEF Unwritten, db, ghosts, UpsertOAuthUser, linkOrCreateOAuthUser, RecordIdentity, LinkIdentity,
       CreatePKCEFlowState, GetPKCEFlowState, DeletePKCEFlowState, CountIdentities, HasPassword,
       DeleteIdentityByID, AdminDeleteUser, DeleteUserTokens, GetUserByID
  <2>2. QED  BY <1>1, <2>1
<1>4. QED
  BY <1>2, <1>3, SignupKeeps, AdminCreateKeeps, OAuthInsertKeeps, MarkKeeps, UpdateUserKeeps, AdminUpdateKeeps,
     SessionKeeps, DeleteKeeps, Zenon DEF Handle

-----------------------------------------------------------------------------
(***************************************************************************)
(* What a statement does to the identities: each keeps its account, loses   *)
(* it, or is linked to one whose row is there, which the statement leaves.  *)
(***************************************************************************)
KeepsIdent ==
  /\ ident' = [s \in Subject |-> ident'[s]]
  /\ \A s \in Subject : \/ ident'[s] = None
                        \/ ident'[s] = ident[s]
                        \/ ident'[s] \in User /\ users[ident'[s]] # None /\ users' = users

LEMMA LinkKeeps ==
  ASSUME NEW q \in Req, TablesOK, RequestsOK, RecordIdentity(q) \/ LinkIdentity(q) \/ DeleteIdentityByID(q)
  PROVE  KeepsIdent
<1>1. req[q].user \in User
  BY WellFormedRequest DEF RecordIdentity, LinkIdentity, DeleteIdentityByID, At, PlaceOK, UserPcs
<1>2. users' = users
  BY DEF RecordIdentity, LinkIdentity, DeleteIdentityByID
<1>3. DOMAIN ident = Subject  BY DEF TablesOK
<1>4. ASSUME NEW x, NEW y, x # None => x \in User /\ users[x] # None,
             ident' = ident \/ ident' = [ident EXCEPT ![y] = x]
      PROVE  KeepsIdent
  <2>1. ident' = [s \in Subject |-> ident'[s]]  BY <1>3, <1>4 DEF TablesOK
  <2>2. \A s \in Subject : ident'[s] = ident[s] \/ ident'[s] = x  BY <1>3, <1>4
  <2>3. QED  BY <1>2, <1>4, <2>1, <2>2 DEF KeepsIdent
<1>5. CASE DeleteIdentityByID(q)
  BY <1>4, <1>5 DEF DeleteIdentityByID
<1>6. CASE RecordIdentity(q) \/ LinkIdentity(q)
  <2>1. ident' = Linked(req[q].sub, req[q].user)  BY <1>6 DEF RecordIdentity, LinkIdentity
  <2>2. CASE ident[req[q].sub] = None /\ users[req[q].user] # None
    BY <1>1, <1>4, <2>1, <2>2 DEF Linked
  <2>3. CASE ~(ident[req[q].sub] = None /\ users[req[q].user] # None)
    BY <1>3, <2>1, <2>3 DEF Linked, KeepsIdent, TablesOK
  <2>4. QED  BY <2>2, <2>3
<1>7. QED  BY <1>5, <1>6

LEMMA HandlersKeepIdent ==
  ASSUME NEW q \in Req, TablesOK, RequestsOK, Handle(q)
  PROVE  KeepsIdent
<1>1. CASE ident' = ident
  BY <1>1 DEF TablesOK, KeepsIdent
<1>2. CASE DeleteUserRow(q)
  BY <1>2 DEF DeleteUserRow, KeepsIdent
<1>3. CASE \/ Signup(q) \/ sendVerificationEmail(q) \/ SignupAnonymous(q) \/ PasswordGrant(q)
           \/ GetUserIDByEmail(q) \/ CreateForMail(q) \/ ResendVerified(q) \/ otpCooldown(q)
           \/ DeleteUserTokensByPurpose(q) \/ CreateToken(q) \/ Reauthenticate(q)
           \/ VerifyCode(q) \/ VerifyToken(q) \/ DropExpired(q) \/ ConsumeToken(q) \/ MarkEmailVerified(q)
           \/ Authorize(q) \/ LinkStart(q) \/ ConsumeOAuthFlowState(q) \/ IDTokenGrant(q)
  <2>1. ident' = ident
    BY <1>3 DEF db, ghosts, Signup, sendVerificationEmail, InsertToken, SignupAnonymous, PasswordGrant,
       GetUserIDByEmail, CreateForMail, ResendVerified, otpCooldown, DeleteUserTokensByPurpose, CreateToken,
       Reauthenticate, VerifyCode, VerifyToken, DropExpired, ConsumeToken, MarkEmailVerified, Authorize,
       LinkStart, InsertFlow, ConsumeOAuthFlowState, IDTokenGrant
  <2>2. QED  BY <1>1, <2>1
<1>4. CASE \/ UpsertOAuthUser(q) \/ linkOrCreateOAuthUser(q) \/ OAuthInsert(q) \/ OAuthMark(q)
           \/ CreatePKCEFlowState(q) \/ GetPKCEFlowState(q) \/ DeletePKCEFlowState(q)
           \/ CountIdentities(q) \/ HasPassword(q) \/ UpdateUser(q) \/ AdminCreateUser(q) \/ AdminUpdateUser(q)
           \/ RevokeAllUserSessions(q) \/ AdminDeleteUser(q) \/ DeleteUserTokens(q) \/ GetUserByID(q)
           \/ buildSession(q)
  <2>1. ident' = ident
    BY <1>4 DEF db, ghosts, UpsertOAuthUser, linkOrCreateOAuthUser, OAuthInsert, OAuthMark, CreatePKCEFlowState,
       GetPKCEFlowState, DeletePKCEFlowState, CountIdentities, HasPassword, UpdateUser, AdminCreateUser,
       AdminUpdateUser, RevokeAllUserSessions, AdminDeleteUser, DeleteUserTokens, GetUserByID, buildSession,
       GiveSession
  <2>2. QED  BY <1>1, <2>1
<1>5. QED  BY <1>2, <1>3, <1>4, LinkKeeps, Zenon DEF Handle

-----------------------------------------------------------------------------
(***************************************************************************)
(* What a statement does to the right to answer for a code or a state: the  *)
(* request has none after it, keeps it, takes it from the table, or spends  *)
(* it on a session.                                                        *)
(***************************************************************************)
Keeps(q) == opened' = opened /\ Holds(req[q]) /\ req'[q].id = req[q].id
Takes(q) ==
  /\ opened' = opened
  /\ req'[q].id = req[q].id /\ tokens' \subseteq tokens /\ flows' \subseteq flows
  /\ \A t \in tokens' : t.id # req[q].id
  /\ \A f \in flows' : f.kind = "oauth" => f.id # req[q].id
  /\ (\E t \in tokens : t.id = req[q].id) \/ (\E f \in flows : f.kind = "oauth" /\ f.id = req[q].id)
Spends(q) ==
  /\ ~Holds(req'[q]) /\ opened' = [opened EXCEPT ![req[q].id] = @ + 1]
  /\ req[q].id = 0 \/ Holds(req[q])
Answers(q) == (opened' = opened /\ ~Holds(req'[q])) \/ Keeps(q) \/ Takes(q) \/ Spends(q)

LEMMA FinishAnswers ==
  ASSUME NEW q \in Req, RequestsOK, Finish(q), opened' = opened
  PROVE  Answers(q)
<1>1. req'[q].id = 0  BY Finished, WellFormedRequest, DoneFields
<1>2. QED  BY <1>1 DEF Answers, Holds

LEMMA WentAnswers ==
  ASSUME NEW q \in Req, NEW pc, NEW S, Went(q, pc, S), opened' = opened, "op" \notin S,
         \/ pc \notin HolderPcs
         \/ "id" \notin S /\ (req[q].pc \in HolderPcs \/ req[q].id = 0 \/ req[q].op = "pkce")
  PROVE  Answers(q)
BY DEF Went, Kept, Answers, Keeps, Holds

LEMMA BuildSessionAnswers ==
  ASSUME NEW q \in Req, RequestsOK, buildSession(q)
  PROVE  Answers(q)
<1>1. req'[q].id = 0  BY Finished, WellFormedRequest, DoneFields DEF buildSession, GiveSession
<1>2. ~Holds(req'[q])  BY <1>1 DEF Holds
<1>3. CASE opened' = opened
  BY <1>2, <1>3 DEF Answers
<1>4. CASE req[q].op # "pkce" /\ opened' = [opened EXCEPT ![req[q].id] = @ + 1]
  <2>1. req[q].id = 0 \/ Holds(req[q])
    BY <1>4 DEF buildSession, At, Holds, HolderPcs
  <2>2. QED  BY <1>2, <1>4, <2>1 DEF Answers, Spends
<1>5. QED  BY <1>3, <1>4 DEF buildSession, GiveSession

LEMMA GotoAnswers ==
  ASSUME NEW q \in Req, NEW pc, NEW f, RequestsOK, Goto(q, pc, f), opened' = opened, "op" \notin DOMAIN f,
         \/ pc \notin HolderPcs
         \/ "id" \notin DOMAIN f /\ (req[q].pc \in HolderPcs \/ req[q].op \notin IdOps \/ req[q].op = "pkce")
  PROVE  Answers(q)
<1>1. Went(q, pc, DOMAIN f)  BY WellFormedRequest, GotoKeeps
<1>2. req[q].op \notin IdOps => req[q].id = 0  BY WellFormedRequest DEF PlaceOK
<1>3. QED  BY <1>1, <1>2, WentAnswers

LEMMA DomainsHaveNoOp ==
  /\ "op" \notin DOMAIN <<>> /\ "id" \notin DOMAIN <<>>
  /\ \A u : "op" \notin DOMAIN [user |-> u] /\ "id" \notin DOMAIN [user |-> u]
  /\ \A u, b : "op" \notin DOMAIN [user |-> u, banned |-> b] /\ "id" \notin DOMAIN [user |-> u, banned |-> b]
  /\ \A b : "op" \notin DOMAIN [banned |-> b] /\ "id" \notin DOMAIN [banned |-> b]
  /\ \A e, p : "op" \notin DOMAIN [email |-> e, purpose |-> p]
  /\ \A i : "op" \notin DOMAIN [id |-> i]
  /\ \A i, u, p : "op" \notin DOMAIN [id |-> i, user |-> u, purpose |-> p]
  /\ \A u, b, p : "op" \notin DOMAIN [user |-> u, ok |-> b, purpose |-> p]
  /\ \A t : "op" \notin DOMAIN [to |-> t] /\ "id" \notin DOMAIN [to |-> t]
  /\ \A n : "op" \notin DOMAIN [n |-> n]
OBVIOUS

LEMMA StartAnswers ==
  ASSUME NEW q \in Req, RequestsOK,
         \/ Signup(q) \/ SignupAnonymous(q) \/ PasswordGrant(q) \/ IDTokenGrant(q)
  PROVE  Answers(q)
<1>1. opened' = opened /\ req[q].op \notin IdOps
  BY DEF Signup, SignupAnonymous, PasswordGrant, IDTokenGrant, Do, ghosts, IdOps
<1>2. CASE Finish(q)
  BY <1>1, <1>2, FinishAnswers
<1>3. ASSUME NEW pc, NEW u, NEW b, Goto(q, pc, [user |-> u, banned |-> b])
      PROVE  Answers(q)
  BY <1>1, <1>3, GotoAnswers, DomainsHaveNoOp
<1>4. CASE Goto(q, "upsert", <<>>)
  BY <1>1, <1>4, GotoAnswers, DomainsHaveNoOp
<1>5. QED
  BY <1>2, <1>3, <1>4 DEF Signup, SignupAnonymous, PasswordGrant, IDTokenGrant, CreateUser

LEMMA QuietAnswers ==
  ASSUME NEW q \in Req, RequestsOK,
         \/ GetUserIDByEmail(q) \/ CreateForMail(q) \/ ResendVerified(q) \/ otpCooldown(q)
         \/ DeleteUserTokensByPurpose(q) \/ Reauthenticate(q) \/ VerifyCode(q) \/ VerifyToken(q)
         \/ GetPKCEFlowState(q) \/ CountIdentities(q) \/ HasPassword(q)
         \/ AdminUpdateUser(q) \/ RevokeAllUserSessions(q) \/ AdminDeleteUser(q) \/ DeleteUserTokens(q)
  PROVE  Answers(q)
<1>1. opened' = opened
  BY DEF ghosts, GetUserIDByEmail, CreateForMail, ResendVerified, otpCooldown, DeleteUserTokensByPurpose,
     Reauthenticate, VerifyCode, VerifyToken, GetPKCEFlowState, CountIdentities, HasPassword,
     AdminUpdateUser, RevokeAllUserSessions, AdminDeleteUser, DeleteUserTokens
<1>2. CASE Finish(q)
  BY <1>1, <1>2, FinishAnswers
<1>3. ASSUME NEW pc, NEW f, Goto(q, pc, f), "op" \notin DOMAIN f, pc \notin HolderPcs
      PROVE  Answers(q)
  BY <1>1, <1>3, GotoAnswers
<1>4. {"insert", "resendVerified", "cooldown", "create", "sendVerification", "purge", "drop", "consume",
       "pkceDelete", "hasPassword", "unlink", "revokeAll", "deleteTokens", "deleteRow"} \cap HolderPcs = {}
  BY DEF HolderPcs, GrantPcs
<1>5. CASE GetUserIDByEmail(q) \/ ResendVerified(q) \/ otpCooldown(q) \/ DeleteUserTokensByPurpose(q)
  BY <1>2, <1>3, <1>4, <1>5, DomainsHaveNoOp
     DEF GetUserIDByEmail, ResendVerified, otpCooldown, DeleteUserTokensByPurpose
<1>6. CASE CreateForMail(q) \/ Reauthenticate(q) \/ VerifyCode(q)
  <2>1. ASSUME NEW u, NEW b, NEW pc \in {"cooldown", "sendVerification", "insert"},
               Goto(q, pc, [user |-> u, banned |-> b])
        PROVE  Answers(q)
    BY <1>3, <1>4, <2>1, DomainsHaveNoOp
  <2>2. CASE CreateForMail(q)
    BY <1>2, <2>1, <2>2 DEF CreateForMail, CreateUser
  <2>3. CASE Reauthenticate(q)
    BY <1>2, <1>3, <1>4, <2>3, DomainsHaveNoOp DEF Reauthenticate
  <2>4. ASSUME NEW t, \/ Goto(q, "drop", [id |-> t.id])
                      \/ Goto(q, "consume", [id |-> t.id, user |-> t.user, purpose |-> t.purpose])
        PROVE  Answers(q)
    BY <1>3, <1>4, <2>4, DomainsHaveNoOp
  <2>5. CASE VerifyCode(q)
    BY <1>2, <2>4, <2>5 DEF VerifyCode
  <2>6. QED  BY <1>6, <2>2, <2>3, <2>5
<1>7. CASE VerifyToken(q)
  <2> DEFINE b(t) == t.purpose = "recovery" \/ (req[q].op = "verifyGET" /\ req[q].purpose = "recovery")
  <2>1. \/ Finish(q) \/ Goto(q, "drop", <<>>)
        \/ \E t \in tokens : Goto(q, "consume", [user |-> t.user, ok |-> b(t), purpose |-> t.purpose])
    BY <1>7, Zenon DEF VerifyToken, Reserve
  <2> HIDE DEF b
  <2>2. QED  BY <1>2, <1>3, <1>4, <2>1, DomainsHaveNoOp
<1>8. CASE GetPKCEFlowState(q) \/ CountIdentities(q) \/ HasPassword(q)
  BY <1>2, <1>3, <1>4, <1>8, DomainsHaveNoOp DEF GetPKCEFlowState, CountIdentities, HasPassword
<1>9. CASE AdminUpdateUser(q) \/ RevokeAllUserSessions(q) \/ AdminDeleteUser(q) \/ DeleteUserTokens(q)
  BY <1>2, <1>3, <1>4, <1>9, DomainsHaveNoOp
     DEF AdminUpdateUser, RevokeAllUserSessions, AdminDeleteUser, DeleteUserTokens
<1>10. QED  BY <1>5, <1>6, <1>7, <1>8, <1>9

LEMMA HolderAnswers ==
  ASSUME NEW q \in Req, RequestsOK,
         \/ MarkEmailVerified(q) \/ GetUserByID(q) \/ UpsertOAuthUser(q) \/ linkOrCreateOAuthUser(q)
         \/ OAuthInsert(q) \/ OAuthMark(q) \/ RecordIdentity(q) \/ DeletePKCEFlowState(q)
  PROVE  Answers(q)
<1>1. opened' = opened
  BY DEF ghosts, MarkEmailVerified, GetUserByID, UpsertOAuthUser, linkOrCreateOAuthUser, OAuthInsert,
     OAuthMark, RecordIdentity, DeletePKCEFlowState
<1>2. CASE Finish(q)
  BY <1>1, <1>2, FinishAnswers
<1>3. req[q].pc \in HolderPcs \/ req[q].op = "pkce"
  BY WellFormedRequest
     DEF MarkEmailVerified, GetUserByID, UpsertOAuthUser, linkOrCreateOAuthUser, OAuthInsert, OAuthMark,
         RecordIdentity, DeletePKCEFlowState, At, HolderPcs, GrantPcs, PlaceOK
<1>4. ASSUME NEW pc, NEW f, Goto(q, pc, f), "op" \notin DOMAIN f, "id" \notin DOMAIN f
      PROVE  Answers(q)
  BY <1>1, <1>3, <1>4, GotoAnswers
<1>5. CASE MarkEmailVerified(q) \/ GetUserByID(q) \/ UpsertOAuthUser(q) \/ DeletePKCEFlowState(q)
  BY <1>2, <1>4, <1>5, DomainsHaveNoOp DEF MarkEmailVerified, GetUserByID, UpsertOAuthUser, DeletePKCEFlowState
<1>6. CASE linkOrCreateOAuthUser(q)
  BY <1>2, <1>4, <1>6, DomainsHaveNoOp DEF linkOrCreateOAuthUser
<1>7. CASE OAuthInsert(q) \/ OAuthMark(q) \/ RecordIdentity(q)
  BY <1>2, <1>4, <1>7, DomainsHaveNoOp DEF OAuthInsert, OAuthMark, RecordIdentity
<1>8. QED  BY <1>5, <1>6, <1>7

(* The DELETE hands the code to one request.                                *)
LEMMA ConsumeTokenAnswers ==
  ASSUME NEW q \in Req, RequestsOK, IdsOK, ConsumeToken(q)
  PROVE  Answers(q)
<1>1. opened' = opened /\ flows' = flows /\ tokens' = {t \in tokens : t.id # req[q].id}
  BY DEF ConsumeToken, ghosts
<1>2. CASE Finish(q)
  BY <1>1, <1>2, FinishAnswers
<1>4. CASE ~Finish(q)
  <2>1. PICK t \in tokens :
          /\ t.id = req[q].id
          /\ \/ \E pc, a : Goto(q, pc, [email |-> t.mailed, to |-> a])
             \/ \E pc : Goto(q, pc, [email |-> t.mailed])
    BY <1>4 DEF ConsumeToken
  <2>2. req'[q].id = req[q].id
    BY <2>1, WellFormedRequest, GotoMailed, GotoEmail DEF Went, Kept
  <2>3. \A f \in flows : f.id # req[q].id
    BY <2>1 DEF IdsOK
  <2>4. QED  BY <1>1, <2>1, <2>2, <2>3 DEF Answers, Takes
<1>5. QED  BY <1>2, <1>4

LEMMA CallbackAnswers ==
  ASSUME NEW q \in Req, RequestsOK, IdsOK, ConsumeOAuthFlowState(q)
  PROVE  Answers(q)
<1>1. /\ opened' = opened /\ tokens' = tokens
      /\ flows' = flows \ {f \in flows : f.kind = "oauth" /\ f.id = req[q].id}
  BY DEF ConsumeOAuthFlowState, ghosts
<1>2. CASE Finish(q)
  BY <1>1, <1>2, FinishAnswers
<1>3. CASE ~Finish(q)
  <2>1. PICK f \in flows :
          /\ f.kind = "oauth" /\ f.id = req[q].id
          /\ Goto(q, "upsert", [flow |-> f]) \/ Goto(q, "link", [flow |-> f, user |-> f.link])
    BY <1>3 DEF ConsumeOAuthFlowState
  <2>2. req'[q].id = req[q].id
    BY <2>1, WellFormedRequest, GotoFlow, GotoFlowUser DEF Went, Kept
  <2>3. \A t \in tokens : t.id # req[q].id
    BY <2>1 DEF IdsOK
  <2>4. QED  BY <1>1, <2>1, <2>2, <2>3 DEF Answers, Takes
<1>4. QED  BY <1>2, <1>3

LEMMA FinishingAnswers ==
  ASSUME NEW q \in Req, RequestsOK,
         \/ sendVerificationEmail(q) \/ CreateToken(q) \/ DropExpired(q) \/ Authorize(q) \/ LinkStart(q)
         \/ LinkIdentity(q) \/ CreatePKCEFlowState(q) \/ DeleteIdentityByID(q) \/ UpdateUser(q)
         \/ AdminCreateUser(q) \/ DeleteUserRow(q)
  PROVE  Answers(q)
<1>1. Finish(q) /\ opened' = opened
  BY DEF sendVerificationEmail, CreateToken, InsertToken, DropExpired, Authorize, LinkStart, InsertFlow,
         LinkIdentity, CreatePKCEFlowState, DeleteIdentityByID, UpdateUser, AdminCreateUser, CreateUser,
         DeleteUserRow, ghosts
<1>2. QED  BY <1>1, FinishAnswers

LEMMA HandlersAnswer ==
  ASSUME NEW q \in Req, RequestsOK, IdsOK, Handle(q)
  PROVE  Answers(q)
BY StartAnswers, QuietAnswers, HolderAnswers, ConsumeTokenAnswers, CallbackAnswers, FinishingAnswers,
   BuildSessionAnswers, Zenon DEF Handle

-----------------------------------------------------------------------------
(***************************************************************************)
(* Each part of the invariant is kept by a step of these kinds.            *)
(***************************************************************************)
(* Nothing a request may hold is outlived by the next id or the settings.   *)
LEMMA RequestOKLater ==
  ASSUME NEW r, NEW m \in Nat, NEW k \in Nat, NEW c, m <= k, RequestOK(r, m, c)
  PROVE  RequestOK(r, k, c)
<1>1. r.id \in 0..(k - 1)
  BY DEF RequestOK, FieldsOK
<1>2. QED  BY <1>1 DEF RequestOK, FieldsOK

LEMMA NextIdGrows ==
  ASSUME TablesOK, Stores
  PROVE  nextId' \in Nat \ {0} /\ nextId <= nextId'
BY DEF TablesOK, Stores, Shrinks, GainsToken, GainsFlow, Retouches, AgesFlow

LEMMA RequestsStayOK ==
  ASSUME NEW q \in Req, TablesOK, RequestsOK, Stores, Advance(q), conf' = conf
  PROVE  RequestsOK'
<1>1. nextId \in Nat /\ nextId' \in Nat /\ nextId <= nextId'  BY NextIdGrows DEF TablesOK
<1>2. OthersWait(q) /\ RequestOK(req'[q], nextId, conf)  BY DEF Advance
<1>3. ASSUME NEW p \in Req
      PROVE  RequestOK(req'[p], nextId', conf)
  <2>1. RequestOK(req'[p], nextId, conf)
    BY <1>2 DEF RequestsOK, OthersWait
  <2>2. QED  BY <1>1, <2>1, RequestOKLater
<1>4. QED  BY <1>2, <1>3 DEF RequestsOK, OthersWait

LEMMA IdsStayOK ==
  ASSUME TablesOK, IdsOK, Stores
  PROVE  IdsOK'
<1>0. nextId \in Nat /\ (\A t \in tokens : t.id \in Nat) /\ (\A f \in flows : f.id \in Nat)
  BY TokenFields, FlowFields, AccountsAssumption DEF TablesOK
<1>1. CASE Shrinks
  BY <1>1 DEF Shrinks, IdsOK
<1>2. CASE GainsToken
  BY <1>0, <1>2 DEF GainsToken, IdsOK
<1>3. CASE GainsFlow
  BY <1>0, <1>3 DEF GainsFlow, IdsOK
<1>4. CASE Retouches
  BY <1>4 DEF Retouches, IdsOK
<1>5. CASE AgesFlow
  BY <1>5 DEF AgesFlow, IdsOK
<1>6. QED  BY <1>1, <1>2, <1>3, <1>4, <1>5 DEF Stores

(* What was taken from the tables never comes back: new rows have new ids.  *)
LEMMA TakenStays ==
  ASSUME TablesOK, Stores, NEW i \in Nat, i < nextId, Taken(i)
  PROVE  Taken(i)'
<1>1. CASE Shrinks
  BY <1>1 DEF Shrinks, Taken
<1>2. CASE GainsToken
  BY <1>2 DEF GainsToken, Taken, TablesOK
<1>3. CASE GainsFlow
  BY <1>3 DEF GainsFlow, Taken, TablesOK
<1>4. CASE Retouches
  BY <1>4 DEF Retouches, Taken
<1>5. CASE AgesFlow
  BY <1>5 DEF AgesFlow, Taken
<1>6. QED  BY <1>1, <1>2, <1>3, <1>4, <1>5 DEF Stores

LEMMA HolderIds ==
  ASSUME TablesOK, RequestsOK, HoldersOK, NEW q \in Req, Holds(req[q])
  PROVE  /\ req[q].id \in Nat \ {0} /\ req[q].id < nextId
         /\ Taken(req[q].id) /\ opened[req[q].id] = 0
<1>1. req[q].id \in 0..(nextId - 1) /\ nextId \in Nat  BY WellFormedRequest DEF FieldsOK, TablesOK
<1>2. QED  BY <1>1 DEF HoldersOK, Holds

(* A code in the tables is nobody's, and opened nothing.                    *)
LEMMA Untaken ==
  ASSUME TablesOK, RequestsOK, HoldersOK, OpenedOK, NEW i,
         (\E t \in tokens : t.id = i) \/ (\E f \in flows : f.kind = "oauth" /\ f.id = i)
  PROVE  /\ i \in 1..MaxId /\ opened[i] = 0
         /\ \A q \in Req : Holds(req[q]) => req[q].id # i
<1>1. i \in 1..MaxId  BY TokenFields, FlowFields
<1>2. ~Taken(i)  BY DEF Taken
<1>3. QED  BY <1>1, <1>2 DEF HoldersOK, OpenedOK

LEMMA HoldersStayOK ==
  ASSUME NEW q \in Req, TablesOK, RequestsOK, HoldersOK, OpenedOK, Stores, Answers(q), OthersWait(q)
  PROVE  HoldersOK'
<1>1. ASSUME NEW p \in Req, p # q, Holds(req'[p])
      PROVE  /\ req'[p] = req[p] /\ Holds(req[p])
             /\ \A i : i = req[p].id => Taken(i)' /\ opened'[i] = 0
  <2>1. req'[p] = req[p] /\ Holds(req[p])  BY <1>1 DEF OthersWait
  <2>2. ASSUME NEW i, i = req[p].id
        PROVE  Taken(i)' /\ opened'[i] = 0
    <3>1. i \in Nat \ {0} /\ i < nextId /\ Taken(i) /\ opened[i] = 0
      BY <2>1, <2>2, HolderIds
    <3>2. Taken(i)'  BY <3>1, TakenStays
    <3>3. CASE opened' = opened
      BY <3>1, <3>2, <3>3
    <3>4. CASE Spends(q)
      <4>1. req[q].id # i  BY <1>1, <2>1, <2>2, <3>1, <3>4 DEF Spends, HoldersOK
      <4>2. QED  BY <3>1, <3>2, <3>4, <4>1 DEF Spends, OpenedOK
    <3>5. QED  BY <3>3, <3>4 DEF Answers, Keeps, Takes
  <2>3. QED  BY <2>1, <2>2
<1>2. ASSUME Holds(req'[q])
      PROVE  /\ \A i : i = req'[q].id => Taken(i)' /\ opened'[i] = 0
             /\ \A p \in Req \ {q} : Holds(req[p]) => req[p].id # req'[q].id
  <2>1. CASE Keeps(q)
    <3>1. ASSUME NEW i, i = req'[q].id
          PROVE  Taken(i)' /\ opened'[i] = 0
      <4>1. i \in Nat \ {0} /\ i < nextId /\ Taken(i) /\ opened[i] = 0
        BY <2>1, <3>1, HolderIds DEF Keeps
      <4>2. QED  BY <2>1, <4>1, TakenStays DEF Keeps
    <3>2. \A p \in Req \ {q} : Holds(req[p]) => req[p].id # req'[q].id
      BY <2>1 DEF Keeps, HoldersOK
    <3>3. QED  BY <3>1, <3>2
  <2>2. CASE Takes(q)
    <3>1. ASSUME NEW i, i = req'[q].id
          PROVE  Taken(i)' /\ opened'[i] = 0 /\ \A p \in Req : Holds(req[p]) => req[p].id # i
      <4>1. (\E t \in tokens : t.id = i) \/ (\E f \in flows : f.kind = "oauth" /\ f.id = i)
        BY <2>2, <3>1 DEF Takes
      <4>2. opened[i] = 0 /\ \A p \in Req : Holds(req[p]) => req[p].id # i
        BY <4>1, Untaken
      <4>3. Taken(i)'  BY <2>2, <3>1 DEF Takes, Taken
      <4>4. QED  BY <2>2, <4>2, <4>3 DEF Takes
    <3>2. QED  BY <3>1
  <2>3. QED  BY <1>2, <2>1, <2>2 DEF Answers, Spends
<1>3. ASSUME NEW p \in Req, Holds(req'[p])
      PROVE  \A i : i = req'[p].id => Taken(i)' /\ opened'[i] = 0
  BY <1>1, <1>2, <1>3
<1>4. ASSUME NEW p \in Req, NEW r \in Req, Holds(req'[p]), Holds(req'[r]), p # r
      PROVE  req'[p].id # req'[r].id
  <2>1. CASE p # q /\ r # q
    BY <1>1, <1>4, <2>1 DEF HoldersOK
  <2>2. CASE p = q \/ r = q
    BY <1>1, <1>2, <1>4, <2>2
  <2>3. QED  BY <2>1, <2>2
<1>5. \A p \in Req : Holds(req'[p]) => (\A t \in tokens' : t.id # req'[p].id)
                                       /\ (\A f \in flows' : f.kind = "oauth" => f.id # req'[p].id)
                                       /\ opened'[req'[p].id] = 0
  BY <1>3 DEF Taken
<1>6. QED  BY <1>4, <1>5 DEF HoldersOK, Taken, Holds

LEMMA OpenedStaysOK ==
  ASSUME NEW q \in Req, TablesOK, RequestsOK, HoldersOK, OpenedOK, Stores, Answers(q)
  PROVE  OpenedOK'
<1>0. nextId \in Nat /\ nextId' \in Nat /\ nextId <= nextId'  BY NextIdGrows DEF TablesOK
<1>1. ASSUME NEW i \in 1..MaxId, opened[i] # 0
      PROVE  opened[i] = 1 /\ i < nextId' /\ Taken(i)'
  <2>1. opened[i] = 1 /\ i < nextId /\ Taken(i)  BY <1>1 DEF OpenedOK
  <2>2. i \in Nat /\ i < nextId'  BY <1>0, <2>1, AccountsAssumption
  <2>3. QED  BY <2>1, <2>2, TakenStays
<1>2. CASE opened' = opened
  BY <1>1, <1>2 DEF OpenedOK
<1>3. CASE Spends(q)
  <2>1. opened' \in [0..MaxId -> Nat]
    <3>1. DOMAIN opened = 0..MaxId /\ \A i \in 0..MaxId : opened[i] \in Nat
      BY DEF OpenedOK
    <3>2. opened' = [i \in 0..MaxId |-> IF i = req[q].id THEN opened[i] + 1 ELSE opened[i]]
      BY <1>3, <3>1 DEF Spends
    <3>3. QED  BY <3>1, <3>2
  <2>2. ASSUME NEW i \in 1..MaxId, opened'[i] # 0
        PROVE  opened'[i] = 1 /\ i < nextId' /\ Taken(i)'
    <3>1. CASE i = req[q].id
      <4>1. Holds(req[q])  BY <1>3, <3>1, AccountsAssumption DEF Spends
      <4>2. opened[i] = 0 /\ i \in Nat /\ i < nextId /\ Taken(i)  BY <3>1, <4>1, HolderIds
      <4>3. opened'[i] = 1  BY <1>3, <3>1, <4>2, AccountsAssumption DEF Spends, OpenedOK
      <4>4. QED  BY <1>0, <4>2, <4>3, TakenStays
    <3>2. CASE i # req[q].id
      <4>1. opened'[i] = opened[i]  BY <1>3, <3>2, AccountsAssumption DEF Spends, OpenedOK
      <4>2. QED  BY <1>1, <2>2, <4>1
    <3>3. QED  BY <3>1, <3>2
  <2>3. QED  BY <2>1, <2>2 DEF OpenedOK
<1>4. QED  BY <1>2, <1>3 DEF Answers, Keeps, Takes

LEMMA TriesStayOK ==
  ASSUME TablesOK, IdsOK, TriesOK, Stores
  PROVE  TriesOK'
<1>0. /\ nextId \in Nat /\ MaxId \in Nat /\ MaxAttempts \in Nat
      /\ \A t \in tokens : t.id \in 1..MaxId /\ t.attempts \in 0..MaxAttempts /\ t.id < nextId
  BY TokenFields, AccountsAssumption DEF TablesOK, IdsOK
<1>1. CASE Shrinks
  BY <1>1 DEF Shrinks, TriesOK
<1>2. CASE GainsToken
  BY <1>0, <1>2 DEF GainsToken, TriesOK, Token
<1>3. CASE GainsFlow
  BY <1>0, <1>3 DEF GainsFlow, TriesOK
<1>4. CASE Retouches
  <2>1. PICK t \in tokens, s \in Token :
          /\ tokens' = (tokens \ {t}) \cup {s} /\ s.id = t.id
          /\ \/ s.attempts = t.attempts /\ tries' = tries
             \/ s.attempts = t.attempts + 1 /\ tries' = [tries EXCEPT ![t.id] = @ + 1]
    BY <1>4 DEF Retouches
  <2>2. s.attempts \in 0..MaxAttempts /\ nextId' = nextId  BY <1>4 DEF Token, Retouches
  <2>3. \A r \in tokens' : r = s \/ (r \in tokens /\ r.id # t.id)
    BY <2>1 DEF IdsOK
  <2>4. tries' \in [1..MaxId -> 0..MaxAttempts] /\ \A i \in 1..MaxId : i # t.id => tries'[i] = tries[i]
    BY <1>0, <2>1, <2>2 DEF TriesOK
  <2>5. tries'[t.id] = s.attempts
    BY <1>0, <2>1 DEF TriesOK
  <2>6. QED  BY <1>0, <2>1, <2>2, <2>3, <2>4, <2>5 DEF TriesOK
<1>5. CASE AgesFlow
  BY <1>5 DEF AgesFlow, TriesOK
<1>6. QED  BY <1>1, <1>2, <1>3, <1>4, <1>5 DEF Stores

LEMMA TablesStayOK ==
  ASSUME NEW q, TablesOK, Stores, KeepsRows(q), KeepsIdent, conf' = conf
  PROVE  TablesOK'
<1>0. None \notin Account /\ None \notin User  BY AccountsAssumption
<1>1. /\ users' \in [User -> Account \cup {None}]
      /\ \A v \in User : users[v] # None => users'[v] # None \/ Deletes(v)
  <2>1. CASE users' = users
    BY <2>1 DEF TablesOK
  <2>2. CASE \E u \in User : Alone(u) /\ (Updates(u) \/ Makes(q, u) \/ Deletes(u))
    <3>1. PICK u \in User : Alone(u) /\ (Updates(u) \/ Makes(q, u) \/ Deletes(u))
      BY <2>2
    <3>2. users'[u] \in Account \cup {None} /\ (users'[u] = None => Deletes(u))
      BY <1>0, <3>1 DEF Updates, Makes, Deletes
    <3>3. \A v \in User : users'[v] \in Account \cup {None}
      BY <3>1, <3>2 DEF Alone, TablesOK
    <3>4. \A v \in User : users[v] # None => users'[v] # None \/ Deletes(v)
      BY <3>1, <3>2 DEF Alone
    <3>5. users' = [v \in User |-> users'[v]]
      BY <3>1 DEF Alone
    <3>6. QED  BY <3>3, <3>4, <3>5
  <2>3. QED  BY <2>1, <2>2 DEF KeepsRows
<1>2. /\ ident' \in [Subject -> User \cup {None}]
      /\ \A s \in Subject : ident'[s] # None => users'[ident'[s]] # None
  <2>1. ASSUME NEW s \in Subject, ident'[s] # None
        PROVE  ident'[s] \in User /\ users'[ident'[s]] # None
    <3>1. ident'[s] \in User /\ users[ident'[s]] # None
      BY <2>1 DEF KeepsIdent, TablesOK
    <3>2. ~Deletes(ident'[s])  BY DEF Deletes
    <3>3. QED  BY <1>1, <3>1, <3>2
  <2>2. ident' = [s \in Subject |-> ident'[s]]  BY DEF KeepsIdent
  <2>3. QED  BY <2>1, <2>2
<1>3. tokens' \subseteq Token /\ \A t \in tokens' : users'[t.user] # None
  <2>1. ASSUME NEW t \in tokens'
        PROVE  t \in Token /\ t.user \in User /\ users[t.user] # None
    <3>1. CASE t \in tokens
      BY <3>1, TokenFields DEF TablesOK
    <3>2. CASE t \notin tokens
      <4>1. CASE GainsToken
        BY <2>1, <3>2, <4>1 DEF GainsToken, Token
      <4>2. CASE Retouches
        BY <2>1, <3>2, <4>2, TokenFields DEF Retouches, TablesOK
      <4>3. QED  BY <2>1, <3>2, <4>1, <4>2 DEF Stores, Shrinks, GainsFlow, AgesFlow
    <3>3. QED  BY <3>1, <3>2
  <2>2. ASSUME NEW t \in tokens'
        PROVE  ~Deletes(t.user)
    BY <2>2 DEF Deletes
  <2>3. QED  BY <1>1, <2>1, <2>2
<1>4. flows' \subseteq Flow /\ \A f \in flows' : f.kind = "pkce" => f.user \in User
  <2>1. CASE flows' \subseteq flows
    BY <2>1 DEF TablesOK
  <2>2. CASE GainsFlow
    BY <2>2 DEF GainsFlow, TablesOK
  <2>3. CASE AgesFlow
    BY <2>3 DEF AgesFlow, TablesOK
  <2>4. QED  BY <2>1, <2>2, <2>3 DEF Stores, Shrinks, GainsToken, Retouches
<1>5. nextId' \in Nat \ {0} /\ conf' \in Setups
  BY NextIdGrows DEF TablesOK
<1>6. QED  BY <1>1, <1>2, <1>3, <1>4, <1>5 DEF TablesOK

(* A row that is verified was vouched for, and stays so.                    *)
LEMMA VerifiedStaysProven ==
  ASSUME NEW q, TablesOK, KeepsRows(q), VerifiedMeansProven
  PROVE  VerifiedMeansProven'
<1>1. ASSUME NEW v \in User, users[v] # None, users[v].verified,
             NEW r, r.email = users[v].email
      PROVE  <<v, r.email>> \in proven' \/ v \in stale'
  BY <1>1 DEF VerifiedMeansProven, Existing, KeepsRows
<1>2. ASSUME NEW v \in User, users'[v] # None, users'[v].verified
      PROVE  <<v, users'[v].email>> \in proven' \/ v \in stale'
  <2>1. CASE users'[v] = users[v]
    BY <1>1, <1>2, <2>1
  <2>2. CASE users'[v] # users[v] /\ Updates(v)
    <3>1. CASE Vouched(v, users'[v])
      BY <1>2, <3>1 DEF Vouched
    <3>2. CASE users'[v].email = users[v].email /\ users'[v].verified = users[v].verified
      BY <1>1, <1>2, <2>2, <3>2 DEF Updates
    <3>3. QED  BY <2>2, <3>1, <3>2 DEF Updates
  <2>3. CASE users'[v] # users[v] /\ Makes(q, v)
    BY <1>2, <2>3 DEF Makes
  <2>4. QED  BY <1>2, <2>1, <2>2, <2>3 DEF KeepsRows, Alone, Deletes
<1>3. QED  BY <1>2 DEF VerifiedMeansProven, Existing

LEMMA UnlinkStaysOK ==
  ASSUME NEW q \in Req, TablesOK, RequestsOK, UnlinkOK, Advance(q), KeepsRows(q), HasPassword(q) => Unwritten
  PROVE  UnlinkOK'
<1>1. ASSUME NEW p \in Req, p # q, req'[p].pc = "unlink"
      PROVE  req'[p].n > 1 \/ users'[req'[p].user] = None \/ users'[req'[p].user].password
  <2>1. req'[p] = req[p] /\ req[p].user \in User
    BY <1>1, WellFormedRequest DEF Advance, OthersWait, RequestsOK, RequestOK, PlaceOK, UserPcs
  <2>2. ASSUME NEW u, u = req[p].user, users[u] # None /\ users[u].password
        PROVE  users'[u] = None \/ users'[u].password
    BY <2>1, <2>2 DEF KeepsRows, Alone, Updates, Makes, Unused, Deletes
  <2>3. ASSUME NEW u, u = req[p].user, users[u] = None
        PROVE  users'[u] = None
    BY <2>1, <2>3 DEF KeepsRows, Alone, Updates, Makes, Unused, Deletes
  <2>4. QED  BY <1>1, <2>1, <2>2, <2>3 DEF UnlinkOK
<1>2. ASSUME req'[q].pc = "unlink"
      PROVE  req'[q].n > 1 \/ users'[req'[q].user] = None \/ users'[req'[q].user].password
  <2>1. HasPassword(q) /\ users' = users  BY <1>2 DEF Advance, Unwritten
  <2>2. CASE Finish(q)
    BY <1>2, <2>2, Finished, WellFormedRequest, DoneFields
  <2>3. CASE keepsMethod(req[q].n, users[req[q].user] # None /\ users[req[q].user].password)
             /\ Goto(q, "unlink", <<>>)
    <3>1. req'[q].n = req[q].n /\ req'[q].user = req[q].user
      BY <2>3, WellFormedRequest, GotoAlone DEF Went, Kept
    <3>2. req[q].n > 1 \/ users[req[q].user].password
      BY <2>3, Zenon DEF keepsMethod
    <3>3. QED  BY <2>1, <3>1, <3>2
  <2>4. QED  BY <2>1, <2>2, <2>3, Zenon DEF HasPassword
<1>3. QED  BY <1>1, <1>2 DEF UnlinkOK

(* No request changes the settings.                                         *)
LEMMA SettingsStay ==
  ASSUME NEW q \in Req, Handle(q)
  PROVE  conf' = conf
<1>1. CASE \/ Signup(q) \/ sendVerificationEmail(q) \/ SignupAnonymous(q) \/ PasswordGrant(q)
           \/ GetUserIDByEmail(q) \/ CreateForMail(q) \/ ResendVerified(q) \/ otpCooldown(q)
           \/ DeleteUserTokensByPurpose(q) \/ CreateToken(q) \/ Reauthenticate(q)
           \/ VerifyCode(q) \/ VerifyToken(q) \/ DropExpired(q) \/ ConsumeToken(q) \/ MarkEmailVerified(q)
           \/ Authorize(q) \/ LinkStart(q) \/ ConsumeOAuthFlowState(q) \/ IDTokenGrant(q)
  BY <1>1 DEF Signup, sendVerificationEmail, InsertToken, SignupAnonymous, PasswordGrant,
     GetUserIDByEmail, CreateForMail, ResendVerified, otpCooldown, DeleteUserTokensByPurpose, CreateToken,
     Reauthenticate, VerifyCode, VerifyToken, DropExpired, ConsumeToken, MarkEmailVerified, Authorize,
     LinkStart, InsertFlow, ConsumeOAuthFlowState, IDTokenGrant
<1>2. CASE \/ UpsertOAuthUser(q) \/ linkOrCreateOAuthUser(q) \/ OAuthInsert(q) \/ OAuthMark(q)
           \/ RecordIdentity(q) \/ LinkIdentity(q) \/ CreatePKCEFlowState(q) \/ GetPKCEFlowState(q)
           \/ DeletePKCEFlowState(q) \/ CountIdentities(q) \/ HasPassword(q) \/ DeleteIdentityByID(q)
           \/ UpdateUser(q) \/ AdminCreateUser(q) \/ AdminUpdateUser(q) \/ RevokeAllUserSessions(q)
           \/ AdminDeleteUser(q) \/ DeleteUserTokens(q) \/ DeleteUserRow(q) \/ GetUserByID(q)
           \/ buildSession(q)
  BY <1>2 DEF UpsertOAuthUser, linkOrCreateOAuthUser, OAuthInsert, OAuthMark, RecordIdentity,
     LinkIdentity, CreatePKCEFlowState, GetPKCEFlowState, DeletePKCEFlowState, CountIdentities, HasPassword,
     DeleteIdentityByID, UpdateUser, AdminCreateUser, AdminUpdateUser, RevokeAllUserSessions, AdminDeleteUser,
     DeleteUserTokens, DeleteUserRow, GetUserByID, buildSession, GiveSession
<1>3. QED  BY <1>1, <1>2, Zenon DEF Handle

(* A session goes to the address of the request, once judged.               *)
LEMMA LandsHome ==
  ASSUME NEW q \in Req, RequestsOK, SessionsLandHome, Handle(q)
  PROVE  SessionsLandHome'
<1>1. CASE landed' = landed
  BY <1>1 DEF SessionsLandHome
<1>2. CASE CreatePKCEFlowState(q)
  BY <1>2 DEF CreatePKCEFlowState, redirectAllowed, SessionsLandHome
<1>3. CASE buildSession(q)
  <2>1. req[q].to # "foreign"
    BY <1>3, WellFormedRequest, NoForeign DEF buildSession, At
  <2>2. QED  BY <1>1, <1>3, <2>1 DEF buildSession, GiveSession, SessionsLandHome
<1>4. CASE \/ Signup(q) \/ sendVerificationEmail(q) \/ SignupAnonymous(q) \/ PasswordGrant(q)
           \/ GetUserIDByEmail(q) \/ CreateForMail(q) \/ ResendVerified(q) \/ otpCooldown(q)
           \/ DeleteUserTokensByPurpose(q) \/ CreateToken(q) \/ Reauthenticate(q)
           \/ VerifyCode(q) \/ VerifyToken(q) \/ DropExpired(q) \/ ConsumeToken(q) \/ MarkEmailVerified(q)
           \/ Authorize(q) \/ LinkStart(q) \/ ConsumeOAuthFlowState(q) \/ IDTokenGrant(q)
  <2>1. landed' = landed
    BY <1>4 DEF db, ghosts, Signup, sendVerificationEmail, InsertToken, SignupAnonymous, PasswordGrant,
       GetUserIDByEmail, CreateForMail, ResendVerified, otpCooldown, DeleteUserTokensByPurpose, CreateToken,
       Reauthenticate, VerifyCode, VerifyToken, DropExpired, ConsumeToken, MarkEmailVerified, Authorize,
       LinkStart, InsertFlow, ConsumeOAuthFlowState, IDTokenGrant
  <2>2. QED  BY <1>1, <2>1
<1>5. CASE \/ UpsertOAuthUser(q) \/ linkOrCreateOAuthUser(q) \/ OAuthInsert(q) \/ OAuthMark(q)
           \/ RecordIdentity(q) \/ LinkIdentity(q) \/ GetPKCEFlowState(q) \/ DeletePKCEFlowState(q)
           \/ CountIdentities(q) \/ HasPassword(q) \/ DeleteIdentityByID(q) \/ UpdateUser(q)
           \/ AdminCreateUser(q) \/ AdminUpdateUser(q) \/ RevokeAllUserSessions(q) \/ AdminDeleteUser(q)
           \/ DeleteUserTokens(q) \/ DeleteUserRow(q) \/ GetUserByID(q)
  <2>1. landed' = landed
    BY <1>5 DEF db, ghosts, UpsertOAuthUser, linkOrCreateOAuthUser, OAuthInsert, OAuthMark, RecordIdentity,
       LinkIdentity, GetPKCEFlowState, DeletePKCEFlowState, CountIdentities, HasPassword, DeleteIdentityByID,
       UpdateUser, AdminCreateUser, AdminUpdateUser, RevokeAllUserSessions, AdminDeleteUser, DeleteUserTokens,
       DeleteUserRow, GetUserByID
  <2>2. QED  BY <1>1, <2>1
<1>6. QED  BY <1>2, <1>3, <1>4, <1>5, Zenon DEF Handle

-----------------------------------------------------------------------------
(***************************************************************************)
(* The invariant holds at first, and every step keeps it.                  *)
(***************************************************************************)
LEMMA IdleOK ==
  ASSUME NEW m \in Nat \ {0}, NEW c
  PROVE  RequestOK(Idle, m, c) /\ ~Holds(Idle) /\ Idle.pc = "idle"
<1>1. /\ DOMAIN Idle = Fields
      /\ Idle.op = "none" /\ Idle.pc = "idle" /\ Idle.email = None /\ Idle.user = None /\ Idle.id = 0
      /\ Idle.purpose = "signup" /\ Idle.to = "none" /\ Idle.flow = None
  BY DEF Idle, Fields
<1>2. Idle.ok \in BOOLEAN /\ Idle.banned \in BOOLEAN
  BY DEF Idle
<1>3. FieldsOK(Idle, m)
  BY <1>1, <1>2 DEF FieldsOK, Purpose, Target, FlowOf
<1>4. PlaceOK(Idle) /\ AddressOK(Idle) /\ MakerOK(Idle, c)
  BY <1>1 DEF PlaceOK, AddressOK, MakerOK, UserPcs, GrantPcs, SubOps
<1>5. QED  BY <1>1, <1>3, <1>4 DEF RequestOK, Holds

LEMMA InitEstablishes ==
  ASSUME Init
  PROVE  AccountsInv
<1>1. PICK w \in Worlds :
        /\ users = w.users /\ ident = w.ident /\ tokens = w.tokens /\ flows = w.flows
        /\ tries = [i \in 1..MaxId |-> IF \E t \in w.tokens : t.id = i
                                      THEN (CHOOSE t \in w.tokens : t.id = i).attempts ELSE 0]
        /\ nextId = Cardinality(w.tokens) + Cardinality(w.flows) + 1
        /\ proven = {<<u, w.users[u].email>> : u \in {v \in User : w.users[v] # None /\ w.users[v].verified}}
  BY DEF Init
<1>2. WellFormed(w) /\ MaxId \in Nat /\ MaxAttempts \in Nat /\ None \notin User
  BY AccountsAssumption
<1>3. Cardinality(w.tokens) \in Nat /\ Cardinality(w.flows) \in Nat
  BY <1>2, FS_CardinalityType DEF WellFormed
<1>4. nextId \in Nat \ {0}  BY <1>1, <1>3
<1>5. TablesOK
  <2>1. \A f \in flows : f \in Flow  BY <1>1, <1>2 DEF WellFormed
  <2>2. \A f \in flows : f.kind = "pkce" => f.user \in User
    BY <1>1, <1>2, <2>1 DEF WellFormed, Flow
  <2>3. conf \in Setups  BY DEF Init
  <2>4. QED  BY <1>1, <1>2, <1>4, <2>2, <2>3 DEF TablesOK, WellFormed
<1>6. IdsOK
  <2>1. \A x \in tokens \cup flows : x.id \in 1..MaxId
    BY <1>5, TokenFields, FlowFields DEF TablesOK
  <2>2. \A x \in tokens \cup flows : x.id < nextId
    <3> TAKE x \in tokens \cup flows
    <3>1. x.id \in Nat /\ x.id <= Cardinality(w.tokens) + Cardinality(w.flows)
      BY <1>1, <1>2, <2>1 DEF WellFormed
    <3>2. QED  BY <1>1, <1>3, <3>1
  <2>3. QED  BY <1>1, <1>2, <2>2 DEF IdsOK, WellFormed
<1>7. DOMAIN req = Req /\ \A q \in Req : req[q] = Idle
  BY DEF Init
<1>8. RequestsOK /\ UnlinkOK
  BY <1>4, <1>7, IdleOK DEF RequestsOK, UnlinkOK
<1>9. HoldersOK
  BY <1>4, <1>7, IdleOK DEF HoldersOK
<1>10. OpenedOK
  <2>1. opened = [i \in 0..MaxId |-> 0]  BY DEF Init
  <2>2. 1..MaxId \subseteq 0..MaxId  BY <1>2
  <2>3. QED  BY <2>1, <2>2 DEF OpenedOK
<1>11. TriesOK
  <2>1. \A t \in tokens : t.id \in 1..MaxId /\ t.attempts \in 0..MaxAttempts
    BY <1>5, TokenFields DEF TablesOK
  <2>2. ASSUME NEW t \in tokens
        PROVE  tries[t.id] = t.attempts
    <3>1. \A s \in w.tokens : s.id = t.id => s = t
      BY <1>1, <1>6, <2>2 DEF IdsOK
    <3>2. (CHOOSE s \in w.tokens : s.id = t.id) = t
      BY <1>1, <2>2, <3>1
    <3>3. t.id \in 1..MaxId /\ \E s \in w.tokens : s.id = t.id
      BY <1>1, <2>1, <2>2
    <3>4. tries[t.id] = (CHOOSE s \in w.tokens : s.id = t.id).attempts
      BY <1>1, <3>3
    <3>5. QED  BY <3>2, <3>4
  <2>3. ASSUME NEW i \in 1..MaxId, \A t \in tokens : t.id # i
        PROVE  tries[i] = 0
    BY <1>1, <2>3
  <2>4. \A i \in 1..MaxId : tries[i] \in 0..MaxAttempts
    BY <1>2, <2>1, <2>2, <2>3
  <2>5. DOMAIN tries = 1..MaxId /\ tries = [i \in 1..MaxId |-> tries[i]]
    BY <1>1
  <2>6. tries \in [1..MaxId -> 0..MaxAttempts]
    BY <2>4, <2>5
  <2>7. \A i \in 1..MaxId : i >= nextId => \A t \in tokens : t.id # i
    BY <1>4, <1>6 DEF IdsOK
  <2>8. QED  BY <2>2, <2>3, <2>6, <2>7 DEF TriesOK
<1>12. VerifiedMeansProven
  BY <1>1 DEF VerifiedMeansProven, Existing
<1>13. SessionsLandHome
  BY DEF Init, SessionsLandHome
<1>14. QED
  BY <1>5, <1>6, <1>8, <1>9, <1>10, <1>11, <1>12, <1>13 DEF AccountsInv

LEMMA HandlersKeepInv ==
  ASSUME AccountsInv, NEW q \in Req, Handle(q)
  PROVE  AccountsInv'
<1>1. /\ TablesOK /\ RequestsOK /\ IdsOK /\ HoldersOK /\ OpenedOK /\ TriesOK
      /\ UnlinkOK /\ VerifiedMeansProven /\ SessionsLandHome
  BY DEF AccountsInv
<1>2. Advance(q)  BY <1>1, HandlersAdvance
<1>3. Stores /\ conf' = conf  BY <1>1, HandlersStore, SettingsStay
<1>4. KeepsRows(q) /\ KeepsIdent  BY <1>1, HandlersKeepRows, HandlersKeepIdent
<1>5. Answers(q) /\ OthersWait(q)  BY <1>1, <1>2, HandlersAnswer DEF Advance
<1>6. TablesOK'  BY <1>1, <1>3, <1>4, TablesStayOK
<1>7. RequestsOK'  BY <1>1, <1>2, <1>3, RequestsStayOK
<1>8. IdsOK' /\ TriesOK'  BY <1>1, <1>3, IdsStayOK, TriesStayOK
<1>9. HoldersOK'  BY <1>1, <1>3, <1>5, HoldersStayOK
<1>10. OpenedOK'  BY <1>1, <1>3, <1>5, OpenedStaysOK
<1>11. HasPassword(q) => Unwritten  BY DEF HasPassword, Unwritten, db, ghosts
<1>12. UnlinkOK'  BY <1>1, <1>2, <1>4, <1>11, UnlinkStaysOK
<1>13. VerifiedMeansProven'  BY <1>1, <1>4, VerifiedStaysProven
<1>14. SessionsLandHome'  BY <1>1, LandsHome
<1>15. QED
  BY <1>6, <1>7, <1>8, <1>9, <1>10, <1>12, <1>13, <1>14 DEF AccountsInv

(* A request that begins holds nothing, and the tables rest.                *)
LEMMA BeginKeepsInv ==
  ASSUME AccountsInv, NEW q \in Req, NEW op \in conf.ops, Begin(q, op)
  PROVE  AccountsInv'
<1>1. /\ TablesOK /\ RequestsOK /\ IdsOK /\ HoldersOK /\ OpenedOK /\ TriesOK
      /\ UnlinkOK /\ VerifiedMeansProven /\ SessionsLandHome
  BY DEF AccountsInv
<1>2. Advance(q) /\ req'[q].pc = "start"  BY <1>1, BeginAdvances
<1>3. UNCHANGED <<db, conf, ghosts>>  BY DEF Begin
<1>4. Stores /\ conf' = conf  BY <1>3 DEF Stores, Shrinks, db, ghosts
<1>5. opened' = opened /\ ~Holds(req'[q])  BY <1>2, <1>3 DEF Holds, HolderPcs, GrantPcs, ghosts
<1>6. Answers(q) /\ OthersWait(q)  BY <1>2, <1>5 DEF Answers, Advance
<1>7. RequestsOK'  BY <1>1, <1>2, <1>4, RequestsStayOK
<1>8. HoldersOK' /\ OpenedOK'  BY <1>1, <1>4, <1>6, HoldersStayOK, OpenedStaysOK
<1>9. IdsOK' /\ TriesOK'  BY <1>1, <1>4, IdsStayOK, TriesStayOK
<1>10. TablesOK' /\ VerifiedMeansProven' /\ SessionsLandHome'
  BY <1>1, <1>3 DEF TablesOK, VerifiedMeansProven, Existing, SessionsLandHome, db, ghosts
<1>11. UnlinkOK'
  BY <1>1, <1>2, <1>3 DEF UnlinkOK, Advance, OthersWait, db
<1>12. QED
  BY <1>7, <1>8, <1>9, <1>10, <1>11 DEF AccountsInv

(* Time passes over the rows; the requests and the accounts rest.           *)
LEMMA AgingKeepsInv ==
  ASSUME AccountsInv, AgeToken \/ AgeFlow
  PROVE  AccountsInv'
<1>1. /\ TablesOK /\ RequestsOK /\ IdsOK /\ HoldersOK /\ OpenedOK /\ TriesOK
      /\ UnlinkOK /\ VerifiedMeansProven /\ SessionsLandHome
  BY DEF AccountsInv
<1>2. UNCHANGED <<users, ident, nextId, req, conf>> /\ UNCHANGED <<proven, stale, opened, landed>>
  BY DEF AgeToken, AgeFlow, ghosts
<1>3. Stores  BY <1>1, AgeTokenStores, AgeFlowStores DEF Stores
<1>4. IdsOK' /\ TriesOK'  BY <1>1, <1>3, IdsStayOK, TriesStayOK
<1>5. RequestsOK' /\ UnlinkOK' /\ VerifiedMeansProven' /\ SessionsLandHome'
  BY <1>1, <1>2 DEF RequestsOK, UnlinkOK, VerifiedMeansProven, Existing, SessionsLandHome
<1>6. KeepsRows(None) /\ KeepsIdent
  BY <1>1, <1>2 DEF KeepsRows, KeepsIdent, TablesOK
<1>7. TablesOK'  BY <1>1, <1>2, <1>3, <1>6, TablesStayOK
<1>8. ASSUME NEW q \in Req, Holds(req[q])
      PROVE  Taken(req[q].id)'
  <2>1. req[q].id \in Nat /\ req[q].id < nextId /\ Taken(req[q].id)  BY <1>1, <1>8, HolderIds
  <2>2. ASSUME NEW i, i = req[q].id
        PROVE  Taken(i)'
    BY <1>1, <1>3, <2>1, <2>2, TakenStays
  <2>3. QED  BY <1>2, <2>2 DEF Taken
<1>9. HoldersOK'  BY <1>1, <1>2, <1>8 DEF HoldersOK
<1>10. OpenedOK'
  <2>1. ASSUME NEW i \in 1..MaxId, opened[i] # 0
        PROVE  Taken(i)'
    BY <1>1, <1>3, <2>1, TakenStays, AccountsAssumption DEF OpenedOK
  <2>2. QED  BY <1>1, <1>2, <2>1 DEF OpenedOK
<1>11. QED
  BY <1>4, <1>5, <1>7, <1>9, <1>10 DEF AccountsInv

LEMMA NextKeepsInv ==
  ASSUME AccountsInv, [Next]_vars
  PROVE  AccountsInv'
<1>1. CASE UNCHANGED vars
  BY <1>1 DEF vars, db, ghosts, AccountsInv, TablesOK, RequestsOK, IdsOK, HoldersOK, Taken, OpenedOK, TriesOK,
     UnlinkOK, VerifiedMeansProven, Existing, SessionsLandHome
<1>2. CASE \E q \in Req : Handle(q) \/ \E op \in conf.ops : Begin(q, op)
  BY <1>2, HandlersKeepInv, BeginKeepsInv
<1>3. CASE AgeToken \/ AgeFlow
  BY <1>3, AgingKeepsInv
<1>4. QED  BY <1>1, <1>2, <1>3 DEF Next

LEMMA AccountsInvariant == Spec => []AccountsInv
<1>1. Init => AccountsInv  BY InitEstablishes
<1>2. AccountsInv /\ [Next]_vars => AccountsInv'  BY NextKeepsInv
<1>3. QED  BY <1>1, <1>2, PTL DEF Spec

-----------------------------------------------------------------------------
(***************************************************************************)
(* What Accounts promises.                                                 *)
(***************************************************************************)
(* The rows of auth.users, auth.identities, auth.one_time_tokens and        *)
(* auth.flow_state are of their tables, and a code or an identity names an  *)
(* account that exists, whatever statements run between two of a handler.   *)
THEOREM TypeCorrect == Spec => []TypeOK
<1>1. AccountsInv => TypeOK
  BY Zenon DEF AccountsInv, TablesOK, TypeOK
<1>2. QED  BY <1>1, AccountsInvariant, PTL

LEMMA OneTimeInv ==
  ASSUME AccountsInv
  PROVE  OneTimeTokens
<1>1. ASSUME NEW i \in 1..MaxId
      PROVE  opened[i] <= 1 /\ tries[i] <= MaxAttempts
  <2>1. opened[i] = 0 \/ opened[i] = 1  BY DEF AccountsInv, OpenedOK
  <2>2. tries[i] \in 0..MaxAttempts  BY DEF AccountsInv, TriesOK
  <2>3. QED  BY <2>1, <2>2, AccountsAssumption
<1>2. QED  BY <1>1 DEF OneTimeTokens

(* A mailed code or link opens one session and its digits are compared at   *)
(* most maxOTPAttempts times, however many requests of POST and GET /verify *)
(* hold it, resend it or see it expire: VerifyOTP and its DELETE.           *)
THEOREM OneTimeTokensHold == Spec => []OneTimeTokens
<1>1. AccountsInv => OneTimeTokens  BY OneTimeInv
<1>2. QED  BY <1>1, AccountsInvariant, PTL

(* A verified account has proven the address it carries, by a code, a       *)
(* provider or an administrator, unless the address changed while the code  *)
(* was on its way: markEmailVerified, linkOrCreateOAuthUser, UpdateUser.    *)
THEOREM VerifiedMeansProvenHolds == Spec => []VerifiedMeansProven
<1>1. AccountsInv => VerifiedMeansProven  BY DEF AccountsInv
<1>2. QED  BY <1>1, AccountsInvariant, PTL

(* No session and no login code is sent outside auth.redirect_urls, from a  *)
(* flow stored by handleAuthorize, by handleLinkIdentity or before the list *)
(* was narrowed: oauthLanding and resolveRedirect judge again.              *)
THEOREM SessionsLandHomeHolds == Spec => []SessionsLandHome
<1>1. AccountsInv => SessionsLandHome  BY DEF AccountsInv
<1>2. QED  BY <1>1, AccountsInvariant, PTL

LEMMA StepMakes ==
  ASSUME AccountsInv, [Next]_vars, NEW u \in User, users[u] = None, users'[u] # None, ~conf.allowSignup
  PROVE  \E q \in Req : req[q].op \in {"adminCreate", "invite", "generateLink"} /\ req'[q] # req[q]
<1>1. CASE UNCHANGED vars \/ AgeToken \/ AgeFlow
  BY <1>1 DEF vars, db, AgeToken, AgeFlow
<1>2. ASSUME NEW q \in Req, Handle(q)
      PROVE  req[q].op \in {"adminCreate", "invite", "generateLink"} /\ req'[q] # req[q]
  <2>1. KeepsRows(q)  BY <1>2, HandlersKeepRows DEF AccountsInv
  <2>2. Makes(q, u)  BY <2>1 DEF KeepsRows, Alone, Updates, Deletes
  <2>3. QED  BY <2>2 DEF Makes, MakerOps
<1>3. ASSUME NEW q \in Req, NEW op \in conf.ops, Begin(q, op)
      PROVE  FALSE
  BY <1>3 DEF Begin, db
<1>4. QED  BY <1>1, <1>2, <1>3 DEF Next

(* With allow_signup off only an administrator's request makes an account,  *)
(* whichever of Signup, SignupAnonymous, handleOTP, the OAuth sign-in and   *)
(* the administrator's handlers runs, and although sign-up was looked at    *)
(* statements before the INSERT.                                            *)
THEOREM SignupDisabledHolds == Spec => SignupDisabledCreatesNobody
<1>1. AccountsInv /\ [Next]_vars =>
        [\A u \in User : users[u] = None /\ users'[u] # None /\ ~conf.allowSignup =>
           \E q \in Req : req[q].op \in {"adminCreate", "invite", "generateLink"} /\ req'[q] # req[q]]_vars
  BY StepMakes
<1>2. QED  BY <1>1, AccountsInvariant, PTL DEF Spec, SignupDisabledCreatesNobody

LEMMA StepUnlinks ==
  ASSUME AccountsInv, NEW q \in Req, NEW u \in User, At(q, "unlink"), u = req[q].user, users[u] # None
  PROVE  users[u].password \/ req[q].n > 1
BY DEF AccountsInv, UnlinkOK, At

(* handleUnlinkIdentity alone never takes the last way to sign in: when an  *)
(* account is left without identity, it had a password or had counted two.  *)
THEOREM UnlinkKeepsMethodHolds == Spec => UnlinkKeepsMethod
<1>1. AccountsInv =>
        [\A q \in Req, u \in User :
           /\ At(q, "unlink") /\ req'[q].pc = "done" /\ u = req[q].user
           /\ users[u] # None /\ ident[req[q].sub] = u
           /\ \A s \in Subject : ident'[s] # u
           => users[u].password \/ req[q].n > 1]_vars
  BY StepUnlinks
<1>2. QED  BY <1>1, AccountsInvariant, PTL DEF Spec, UnlinkKeepsMethod

-----------------------------------------------------------------------------
(***************************************************************************)
(* The inductive invariant of Factors.                                     *)
(***************************************************************************)
CallOps == {"none", "enroll", "challenge", "verify", "unenroll", "adminDelete"}
CallPcs == {"idle", "start", "insert", "statuses", "validate", "consume", "mark", "promote", "issue", "delete"}
CallRow == [op : CallOps, pc : CallPcs, sid : Session \cup {NoRow}, aal : {1, 2}, f : Factor \cup {NoRow},
            c : Challenge \cup {NoRow}, code : 0..MaxStep + 1, first : BOOLEAN]
FactorOps == {"challenge", "verify", "unenroll", "adminDelete"}
(* The places of a verification that has spent its step of the factor.      *)
CodePcs == {"mark", "promote", "issue"}

FactorTablesOK ==
  /\ factor \in [Factor -> FactorRow \cup {NoRow, Gone}]
  /\ challenge \in [Challenge -> ChallengeRow \cup {NoRow, Gone}]
  /\ \A c \in Challenge : Open(c) => Live(challenge[c].factor)
  /\ elevated \subseteq Session
  /\ spent \in [Factor -> [1..MaxStep + 1 -> Nat]]

(* A call names what it is about; the row of its factor was there once.     *)
CallOK(r) ==
  /\ r \in CallRow
  /\ r.op \in FactorOps => r.f \in Factor
  /\ r.op = "verify" => r.c \in Challenge /\ r.sid \in Session
  /\ r.op = "verify" /\ r.pc \in CodePcs \cup {"consume"} => r.code # 0
  /\ r.op = "verify" /\ r.pc \in {"statuses", "promote"} => r.first
CallsOK ==
  /\ call \in [Call -> CallRow]
  /\ \A p \in Call : CallOK(call[p]) /\ (call[p].op \in FactorOps => factor[call[p].f] # NoRow)

(* A step of a factor is behind its last one when a call has spent it, so   *)
(* no second call does; and only that call elevates a session with it.      *)
HoldsCode(r, f, s) == r.op = "verify" /\ r.pc \in CodePcs /\ r.f = f /\ r.code = s
Burnt(f, s) == factor[f] = Gone \/ (Live(f) /\ factor[f].last >= s)
SpentOK ==
  /\ \A f \in Factor, s \in 1..MaxStep + 1 : spent[f][s] # 0 => spent[f][s] = 1 /\ Burnt(f, s)
  /\ \A p \in Call, f \in Factor, s \in 1..MaxStep + 1 :
       HoldsCode(call[p], f, s) => spent[f][s] = 0 /\ Burnt(f, s)
  /\ \A p, q \in Call, f \in Factor, s \in 1..MaxStep + 1 :
       HoldsCode(call[p], f, s) /\ HoldsCode(call[q], f, s) => p = q

FreshOf(f) == {c \in Of(f) : challenge[c].fresh}
CapsOK == \A f \in Factor : IsFiniteSet(FreshOf(f)) /\ Cardinality(FreshOf(f)) <= MaxChallenges

(* While a call below aal2 is about to verify its first factor, no other    *)
(* factor is verified: the one that is takes the unverified ones with it.   *)
FirstPcs == {"validate", "consume", "mark", "promote"}
FirstOK ==
  \A p \in Call :
    /\ call[p].op = "verify" /\ call[p].pc \in FirstPcs /\ call[p].first /\ call[p].aal = 1
    /\ Live(call[p].f) /\ ~factor[call[p].f].verified
    => ~hasVerified

FactorsInv == FactorTablesOK /\ CallsOK /\ SpentOK /\ CapsOK /\ FirstOK

-----------------------------------------------------------------------------
(***************************************************************************)
(* What a statement does to its call.                                      *)
(***************************************************************************)
OthersRest(p) == call' = [x \in Call |-> call'[x]] /\ \A x \in Call \ {p} : call'[x] = call[x]
SameCall(i, j) ==
  j.op = i.op /\ j.sid = i.sid /\ j.aal = i.aal /\ j.f = i.f /\ j.c = i.c /\ j.code = i.code

LEMMA NoCallIs ==
  CallOK(NoCall) /\ NoCall.op = "none" /\ NoCall.pc = "idle"
<1>1. NoCall.first \in BOOLEAN  BY DEF NoCall
<1>2. NoCall \in CallRow
  BY FactorsAssumption DEF NoCall, CallRow, CallOps, CallPcs
<1>3. NoCall.op = "none" /\ NoCall.pc = "idle"  BY DEF NoCall
<1>4. QED  BY <1>2, <1>3 DEF CallOK, FactorOps

LEMMA Answered ==
  ASSUME NEW p \in Call, call \in [Call -> CallRow], Answer(p)
  PROVE  OthersRest(p) /\ call'[p] = NoCall
BY DEF Answer, OthersRest

LEMMA Moved ==
  ASSUME NEW p \in Call, call \in [Call -> CallRow], NEW pc \in CallPcs, Move(p, pc)
  PROVE  /\ OthersRest(p) /\ call'[p] \in CallRow
         /\ call'[p].pc = pc /\ SameCall(call[p], call'[p]) /\ call'[p].first = call[p].first
<1> DEFINE r == call[p]  j == [r EXCEPT !.pc = pc]
<1>1. r \in CallRow  OBVIOUS
<1>2. j \in CallRow  BY <1>1 DEF CallRow
<1>3. j.pc = pc /\ SameCall(r, j) /\ j.first = r.first  BY <1>1 DEF CallRow, SameCall
<1>4. OthersRest(p) /\ call'[p] = j  BY DEF Move, OthersRest
<1>5. QED  BY <1>2, <1>3, <1>4

Goes(p) ==
  /\ OthersRest(p) /\ call'[p] \in CallRow /\ CallOK(call'[p])
  /\ call'[p].op \in FactorOps => factor[call'[p].f] # NoRow

LEMMA AnswerGoes ==
  ASSUME NEW p \in Call, CallsOK, Answer(p)
  PROVE  Goes(p)
BY Answered, NoCallIs DEF Goes, CallsOK, CallOK, FactorOps

LEMMA MoveGoes ==
  ASSUME NEW p \in Call, CallsOK, NEW pc \in CallPcs, Move(p, pc),
         call[p].op = "verify" /\ pc \in CodePcs \cup {"consume"} => call[p].code # 0,
         call[p].op = "verify" /\ pc \in {"statuses", "promote"} => call[p].first
  PROVE  Goes(p)
<1>1. /\ OthersRest(p) /\ call'[p] \in CallRow
      /\ call'[p].pc = pc /\ SameCall(call[p], call'[p]) /\ call'[p].first = call[p].first
  BY Moved DEF CallsOK
<1>2. CallOK(call[p]) /\ (call[p].op \in FactorOps => factor[call[p].f] # NoRow)  BY DEF CallsOK
<1>3. call[p].op = "verify" /\ pc \in {"statuses", "promote"} => call'[p].first
  BY <1>1, Zenon
<1>4. CallOK(call'[p])  BY <1>1, <1>2, <1>3 DEF CallOK, SameCall
<1>5. QED  BY <1>1, <1>2, <1>4 DEF Goes, SameCall

(* A call arrives for a factor and a challenge that are there.              *)
LEMMA ArriveGoes ==
  ASSUME NEW p \in Call, CallsOK, Arrive(p)
  PROVE  Goes(p) /\ call'[p].pc = "start"
<1>1. PICK op \in {"enroll", "challenge", "verify", "unenroll", "adminDelete"}, sid \in Session, aal \in {1, 2} :
        /\ aal = 2 => sid \in elevated
        /\ \E f \in IF op = "enroll" THEN {NoRow} ELSE {g \in Factor : Live(g)},
              c \in IF op = "verify" THEN {d \in Challenge : Open(d)} ELSE {NoRow},
              code \in IF op = "verify" THEN Codes ELSE {0} :
             call' = [call EXCEPT ![p] = [NoCall EXCEPT !.op = op, !.pc = "start", !.sid = sid, !.aal = aal,
                                                        !.f = f, !.c = c, !.code = code]]
  BY Zenon DEF Arrive
<1>2. PICK f \in IF op = "enroll" THEN {NoRow} ELSE {g \in Factor : Live(g)},
           c \in IF op = "verify" THEN {d \in Challenge : Open(d)} ELSE {NoRow},
           code \in IF op = "verify" THEN Codes ELSE {0} :
        call' = [call EXCEPT ![p] = [NoCall EXCEPT !.op = op, !.pc = "start", !.sid = sid, !.aal = aal,
                                                   !.f = f, !.c = c, !.code = code]]
  BY <1>1
<1> DEFINE j == [NoCall EXCEPT !.op = op, !.pc = "start", !.sid = sid, !.aal = aal,
                               !.f = f, !.c = c, !.code = code]
<1>3. OthersRest(p) /\ call'[p] = j  BY <1>2 DEF CallsOK, OthersRest
<1>4. f \in Factor \cup {NoRow} /\ (op \in FactorOps => f \in Factor /\ factor[f] # NoRow)
  BY DEF Live, FactorOps
<1>5. c \in Challenge \cup {NoRow} /\ (op = "verify" => c \in Challenge)
  OBVIOUS
<1>6. code \in 0..MaxStep + 1
  BY FactorsAssumption DEF Codes
<1>7. j.first \in BOOLEAN  BY DEF NoCall
<1>8. /\ j \in CallRow /\ j.op = op /\ j.pc = "start" /\ j.sid = sid /\ j.f = f /\ j.c = c
  BY <1>4, <1>5, <1>6, <1>7 DEF NoCall, CallRow, CallOps, CallPcs
<1> HIDE DEF j
<1>9. CallOK(j)  BY <1>4, <1>5, <1>8 DEF CallOK, CodePcs
<1>10. QED  BY <1>3, <1>4, <1>8, <1>9 DEF Goes

LEMMA GetFactorGoes ==
  ASSUME NEW p \in Call, CallsOK, FactorTablesOK, GetFactorForVerify(p)
  PROVE  /\ Goes(p)
         /\ call'[p].pc \in {"idle", "statuses", "validate"}
         /\ call'[p].pc = "validate" /\ call'[p].first => call'[p].aal = 2
<1> DEFINE f == call[p].f  r == call[p]
<1>1. CASE ~Live(f) /\ Answer(p)
  BY <1>1, AnswerGoes, Answered, NoCallIs DEF CallsOK
<1>2. CASE /\ Live(f)
           /\ call' = [call EXCEPT ![p].first = ~factor[f].verified,
                                   ![p].pc = IF ~factor[f].verified /\ r.aal # 2 THEN "statuses" ELSE "validate"]
  <2> DEFINE pc == IF ~factor[f].verified /\ r.aal # 2 THEN "statuses" ELSE "validate"
             b == ~factor[f].verified
             j == [r EXCEPT !.first = b, !.pc = pc]
  <2>1. r \in CallRow /\ CallOK(r) /\ r.op = "verify" /\ factor[f] # NoRow
    BY DEF CallsOK, GetFactorForVerify, Is, FactorOps
  <2>2. b \in BOOLEAN /\ pc \in {"statuses", "validate"} /\ (pc = "statuses" => b)
        /\ (pc = "validate" /\ b => r.aal = 2)
    BY <2>1, Zenon DEF FactorOps
  <2>3. j \in CallRow /\ j.first = b /\ j.pc = pc /\ SameCall(r, j)
    <3> HIDE DEF b, pc
    <3>1. QED  BY <2>1, <2>2 DEF CallRow, CallPcs, SameCall
  <2>4. OthersRest(p) /\ call'[p] = j
    BY <1>2 DEF CallsOK, OthersRest
  <2> HIDE DEF b, pc, j
  <2>5. j.first => b  BY <2>3, Zenon
  <2>6. pc = "statuses" => j.first  BY <2>2, <2>3, Zenon
  <2>7. CallOK(j)  BY <2>1, <2>2, <2>3, <2>6 DEF CallOK, SameCall, CodePcs
  <2>8. j.pc = "validate" /\ j.first => j.aal = 2  BY <2>2, <2>3, <2>5 DEF SameCall
  <2>9. QED  BY <2>1, <2>2, <2>3, <2>4, <2>7, <2>8 DEF Goes, SameCall
<1>3. QED  BY <1>1, <1>2, Zenon DEF GetFactorForVerify

LEMMA CallsGo ==
  ASSUME NEW p \in Call, CallsOK, FactorTablesOK, FHandle(p)
  PROVE  Goes(p)
<1>0. CallOK(call[p])  BY DEF CallsOK
<1>1. CASE EnrollFactor(p) \/ CreateChallenge(p) \/ IssueAAL2(p) \/ DeleteFactorForUser(p)
  BY <1>1, AnswerGoes DEF EnrollFactor, CreateChallenge, IssueAAL2, DeleteFactorForUser
<1>2. CASE Enroll(p) \/ Unenroll(p)
  <2>1. call[p].op # "verify"  BY <1>2 DEF Enroll, Unenroll, Is
  <2>2. Answer(p) \/ Move(p, "insert") \/ Move(p, "delete")  BY <1>2, Zenon DEF Enroll, Unenroll
  <2>3. {"insert", "delete"} \subseteq CallPcs  BY DEF CallPcs
  <2>4. QED  BY <2>1, <2>2, <2>3, AnswerGoes, MoveGoes
<1>3. CASE FactorStatuses(p)
  <2>1. Answer(p) \/ Move(p, "validate")  BY <1>3, Zenon DEF FactorStatuses
  <2>2. "validate" \in CallPcs /\ "validate" \notin CodePcs  BY DEF CallPcs, CodePcs
  <2>3. QED  BY <2>1, <2>2, AnswerGoes, MoveGoes
<1>4. CASE ValidateChallenge(p)
  <2>1. Answer(p) \/ (call[p].code # 0 /\ Move(p, "consume"))  BY <1>4, Zenon DEF ValidateChallenge, Matches
  <2>2. "consume" \in CallPcs  BY DEF CallPcs
  <2>3. QED  BY <2>1, <2>2, AnswerGoes, MoveGoes
<1>5. CASE ConsumeTOTPStep(p) \/ MarkChallengeVerified(p) \/ PromoteFactorToVerified(p)
  <2>1. call[p].code # 0
    BY <1>0, <1>5 DEF ConsumeTOTPStep, MarkChallengeVerified, PromoteFactorToVerified, Is, CallOK, CodePcs
  <2>2. Answer(p) \/ Move(p, "mark") \/ (Move(p, "promote") /\ call[p].first) \/ Move(p, "issue")
    BY <1>5, Zenon DEF ConsumeTOTPStep, MarkChallengeVerified, PromoteFactorToVerified
  <2>3. {"mark", "promote", "issue"} \subseteq CallPcs  BY DEF CallPcs
  <2>4. QED  BY <2>1, <2>2, <2>3, AnswerGoes, MoveGoes
<1>6. QED
  BY <1>1, <1>2, <1>3, <1>4, <1>5, ArriveGoes, GetFactorGoes, Zenon DEF FHandle

-----------------------------------------------------------------------------
(***************************************************************************)
(* What a statement does to the factors and the challenges: a deleted row   *)
(* stays deleted, and the last step a factor accepted only rises.          *)
(***************************************************************************)
Grows(f) ==
  /\ factor[f] # NoRow => factor'[f] # NoRow
  /\ factor[f] = Gone => factor'[f] = Gone
  /\ Live(f) /\ factor'[f] # Gone => factor'[f] \in FactorRow /\ factor[f].last <= factor'[f].last
(* A factor that is verified, or not, after the step was so before, or is new. *)
Quiet(f) ==
  factor'[f] \notin {NoRow, Gone} =>
    \/ factor[f] = NoRow /\ ~factor'[f].verified
    \/ Live(f) /\ (factor'[f].verified <=> factor[f].verified)
Rests(c) ==
  \/ challenge'[c] = challenge[c] \/ challenge'[c] = Gone
  \/ /\ Open(c) /\ challenge'[c] \in ChallengeRow /\ challenge'[c].factor = challenge[c].factor
     /\ challenge'[c].fresh => challenge[c].fresh
Opens(c) ==
  /\ challenge[c] = NoRow /\ challenge'[c] \in ChallengeRow
  /\ Live(challenge'[c].factor) /\ Room(challenge'[c].factor) /\ factor' = factor
RowsGo ==
  /\ factor' \in [Factor -> FactorRow \cup {NoRow, Gone}] /\ \A f \in Factor : Grows(f)
  /\ challenge' = [c \in Challenge |-> challenge'[c]]
  /\ \/ \A c \in Challenge : Rests(c)
     \/ \E c \in Challenge : Opens(c) /\ \A d \in Challenge \ {c} : Rests(d)
(* The challenges of a deleted factor go with it.                           *)
NoOrphans ==
  \A c \in Challenge : challenge'[c] \notin {NoRow, Gone} /\ challenge'[c].factor \in Factor
                         /\ Live(challenge'[c].factor)
                       => factor'[challenge'[c].factor] # Gone

LEMMA FactorRows ==
  ASSUME FactorTablesOK, NEW f \in Factor, Live(f)
  PROVE  factor[f] \in FactorRow /\ factor[f].last \in 0..MaxStep + 1 /\ factor[f].verified \in BOOLEAN
<1>1. factor[f] \in FactorRow  BY DEF FactorTablesOK, Live
<1>2. QED  BY <1>1 DEF FactorRow

LEMMA ChallengeRows ==
  ASSUME FactorTablesOK, NEW c \in Challenge, Open(c)
  PROVE  /\ challenge[c] \in ChallengeRow /\ challenge[c].factor \in Factor
         /\ challenge[c].attempts \in 0..MaxMFAAttempts /\ Live(challenge[c].factor)
<1>1. challenge[c] \in ChallengeRow  BY DEF FactorTablesOK, Open
<1>2. QED  BY <1>1 DEF ChallengeRow, FactorTablesOK

LEMMA RowsRest ==
  ASSUME FactorTablesOK, UNCHANGED factor
  PROVE  /\ factor' \in [Factor -> FactorRow \cup {NoRow, Gone}]
         /\ \A f \in Factor : Grows(f) /\ Quiet(f)
         /\ NoOrphans
<1>1. \A f \in Factor : Grows(f)
  BY FactorRows DEF Grows, FactorTablesOK, FactorRow
<1>2. \A f \in Factor : Quiet(f)
  BY DEF Quiet, Live
<1>3. QED  BY <1>1, <1>2 DEF FactorTablesOK, NoOrphans, Live

LEMMA ChallengesRest ==
  ASSUME FactorTablesOK, UNCHANGED challenge
  PROVE  challenge' = [c \in Challenge |-> challenge'[c]] /\ \A c \in Challenge : Rests(c)
BY DEF FactorTablesOK, Rests

LEMMA QuietRows ==
  ASSUME FactorTablesOK, UNCHANGED <<factor, challenge>>
  PROVE  RowsGo /\ NoOrphans /\ \A f \in Factor : Quiet(f)
BY RowsRest, ChallengesRest DEF RowsGo

LEMMA EnrollRows ==
  ASSUME FactorTablesOK, NEW p \in Call, EnrollFactor(p)
  PROVE  RowsGo /\ NoOrphans /\ \A f \in Factor : Quiet(f)
<1> DEFINE row == [verified |-> FALSE, last |-> 0]
<1>1. PICK g \in Factor : factor[g] = NoRow /\ factor' = [factor EXCEPT ![g] = row]
  BY DEF EnrollFactor
<1>2. row \in FactorRow /\ ~row.verified
  BY FactorsAssumption DEF FactorRow
<1>3. row \notin {NoRow, Gone} /\ NoRow # Gone  BY <1>2, FactorsAssumption
<1> HIDE DEF row
<1>4. factor'[g] = row /\ \A f \in Factor \ {g} : factor'[f] = factor[f]
  BY <1>1 DEF FactorTablesOK
<1>5. factor' \in [Factor -> FactorRow \cup {NoRow, Gone}]
  BY <1>1, <1>2 DEF FactorTablesOK
<1>6. ASSUME NEW f \in Factor
      PROVE  Grows(f) /\ Quiet(f) /\ (Live(f) => factor'[f] # Gone)
  <2>1. CASE f = g
    BY <1>1, <1>2, <1>3, <1>4, <2>1 DEF Grows, Quiet, Live
  <2>2. CASE f # g
    <3>1. factor'[f] = factor[f]  BY <1>4, <2>2
    <3>2. Live(f) => factor[f] \in FactorRow /\ factor[f].last <= factor[f].last
      BY FactorRows
    <3>3. QED  BY <3>1, <3>2 DEF Grows, Quiet, Live
  <2>3. QED  BY <2>1, <2>2
<1>7. NoOrphans  BY <1>6 DEF NoOrphans
<1>8. challenge' = [c \in Challenge |-> challenge'[c]] /\ \A c \in Challenge : Rests(c)
  BY ChallengesRest DEF EnrollFactor
<1>9. QED  BY <1>5, <1>6, <1>7, <1>8 DEF RowsGo

LEMMA ConsumeRows ==
  ASSUME FactorTablesOK, CallsOK, NEW p \in Call, ConsumeTOTPStep(p)
  PROVE  /\ RowsGo /\ NoOrphans /\ \A f \in Factor : Quiet(f)
         /\ \/ Answer(p)
            \/ /\ Move(p, "mark") /\ Live(call[p].f) /\ factor[call[p].f].last < call[p].code
               /\ factor'[call[p].f] \in FactorRow /\ factor'[call[p].f].last = call[p].code
<1> DEFINE g == call[p].f  s == call[p].code
<1>1. CASE Answer(p) /\ UNCHANGED factor
  BY <1>1, QuietRows DEF ConsumeTOTPStep
<1>2. CASE /\ Live(g) /\ FreshStep(factor[g], s)
           /\ factor' = [factor EXCEPT ![g].last = s] /\ Move(p, "mark")
  <2> DEFINE row == [factor[g] EXCEPT !.last = s]
  <2>1. g \in Factor /\ s \in 0..MaxStep + 1
    BY DEF CallsOK, CallOK, ConsumeTOTPStep, Is, FactorOps, CallRow
  <2>2. factor[g] \in FactorRow /\ factor[g].last < s
    BY <1>2, <2>1, FactorRows DEF FreshStep
  <2>3. row \in FactorRow /\ row.last = s /\ (row.verified <=> factor[g].verified)
    BY <2>1, <2>2 DEF FactorRow
  <2>4. row \notin {NoRow, Gone}  BY <2>3, FactorsAssumption
  <2>5. factor'[g] = row /\ \A f \in Factor \ {g} : factor'[f] = factor[f]
    BY <1>2, <2>1 DEF FactorTablesOK
  <2>6. factor' \in [Factor -> FactorRow \cup {NoRow, Gone}]
    BY <1>2, <2>1, <2>3, <2>5 DEF FactorTablesOK
  <2>7. factor[g].last <= s
    BY <2>1, <2>2 DEF FactorRow
  <2> HIDE DEF row
  <2>8. ASSUME NEW f \in Factor
        PROVE  Grows(f) /\ Quiet(f) /\ (Live(f) => factor'[f] # Gone)
    <3>1. CASE f = g
      BY <1>2, <2>3, <2>4, <2>5, <2>7, <3>1 DEF Grows, Quiet, Live
    <3>2. CASE f # g
      <4>1. factor'[f] = factor[f]  BY <2>5, <3>2
      <4>2. Live(f) => factor[f] \in FactorRow /\ factor[f].last <= factor[f].last
        BY FactorRows
      <4>3. QED  BY <4>1, <4>2 DEF Grows, Quiet, Live
    <3>3. QED  BY <3>1, <3>2
  <2>9. NoOrphans  BY <2>8 DEF NoOrphans
  <2>10. challenge' = [c \in Challenge |-> challenge'[c]] /\ \A c \in Challenge : Rests(c)
    BY ChallengesRest DEF ConsumeTOTPStep
  <2>11. RowsGo  BY <2>6, <2>8, <2>10 DEF RowsGo
  <2>12. QED  BY <1>2, <2>2, <2>3, <2>5, <2>8, <2>9, <2>11
<1>3. QED  BY <1>1, <1>2, Zenon DEF ConsumeTOTPStep

(* Whoever is dropped goes; the others keep their rows.                     *)
LEMMA DropRows ==
  ASSUME FactorTablesOK, NEW p \in Call, DeleteFactorForUser(p)
  PROVE  RowsGo /\ NoOrphans /\ \A f \in Factor : Quiet(f)
<1>1. CASE UNCHANGED <<factor, challenge>>
  BY <1>1, QuietRows
<1>2. CASE DropFactors({call[p].f})
  <2>1. /\ factor' = [f \in Factor |-> IF f = call[p].f THEN Gone ELSE factor[f]]
        /\ challenge' = [c \in Challenge |-> IF Open(c) /\ challenge[c].factor = call[p].f THEN Gone ELSE challenge[c]]
        /\ Deletable(call[p].f, call[p].aal = 2 \/ call[p].op = "adminDelete") \/ UNCHANGED factor
    BY <1>2, Zenon DEF DropFactors, DeleteFactorForUser
  <2>2. factor' \in [Factor -> FactorRow \cup {NoRow, Gone}]
    BY <2>1 DEF FactorTablesOK
  <2>3. ASSUME NEW f \in Factor
        PROVE  /\ Grows(f) /\ Quiet(f)
               /\ factor[f] # Gone /\ factor'[f] = Gone => f = call[p].f
    <3>1. Live(f) => factor[f] \in FactorRow /\ factor[f].last <= factor[f].last
      BY FactorRows
    <3>2. QED  BY <2>1, <3>1, FactorsAssumption DEF Grows, Quiet, Live
  <2>4. NoOrphans
    <3> SUFFICES ASSUME NEW c \in Challenge, challenge'[c] \notin {NoRow, Gone}, challenge'[c].factor \in Factor,
                        Live(challenge'[c].factor)
                 PROVE  factor'[challenge'[c].factor] # Gone
      BY DEF NoOrphans
    <3>1. challenge'[c] = challenge[c] /\ challenge[c].factor # call[p].f
      BY <2>1 DEF Open
    <3>2. QED  BY <2>3, <3>1 DEF Live
  <2>5. challenge' = [c \in Challenge |-> challenge'[c]] /\ \A c \in Challenge : Rests(c)
    BY <2>1 DEF Rests
  <2>6. QED  BY <2>2, <2>3, <2>4, <2>5 DEF RowsGo
<1>3. QED  BY <1>1, <1>2, Zenon DEF DeleteFactorForUser

(* The factor a first verification makes verified is then the only one.     *)
LEMMA PromoteRows ==
  ASSUME FactorTablesOK, CallsOK, NEW p \in Call, PromoteFactorToVerified(p)
  PROVE  /\ RowsGo /\ NoOrphans
         /\ \A f \in Factor \ {call[p].f} : Quiet(f)
         /\ call[p].f \in Factor
         /\ Live(call[p].f) =>
              /\ factor'[call[p].f] \in FactorRow /\ factor'[call[p].f].verified
              /\ \A f \in Factor \ {call[p].f} : factor'[f] \notin {NoRow, Gone} => factor[f].verified
         /\ ~Live(call[p].f) => UNCHANGED factor
<1> DEFINE g == call[p].f
<1>0. g \in Factor
  BY DEF CallsOK, CallOK, PromoteFactorToVerified, Is, FactorOps
<1>1. CASE ~Live(g)
  <2>1. UNCHANGED <<factor, challenge>>  BY <1>1 DEF PromoteFactorToVerified
  <2>2. QED  BY <1>0, <1>1, <2>1, QuietRows
<1>2. CASE Live(g)
  <2> DEFINE row == [factor[g] EXCEPT !.verified = TRUE]
  <2>1. /\ factor' = [f \in Factor |-> IF f = g THEN row ELSE IF f \in Promoted(g) THEN Gone ELSE factor[f]]
        /\ challenge' = [c \in Challenge |-> IF Open(c) /\ challenge[c].factor \in Promoted(g) THEN Gone ELSE challenge[c]]
    BY <1>2 DEF PromoteFactorToVerified
  <2>2. factor[g] \in FactorRow /\ factor[g].last \in 0..MaxStep + 1  BY <1>0, <1>2, FactorRows
  <2>3. row \in FactorRow /\ row.last = factor[g].last /\ row.verified
    BY <2>2 DEF FactorRow
  <2>4. row \notin {NoRow, Gone}  BY <2>3, FactorsAssumption
  <2> HIDE DEF row
  <2>5. factor'[g] = row /\ \A f \in Factor \ {g} : factor'[f] = IF f \in Promoted(g) THEN Gone ELSE factor[f]
    BY <1>0, <2>1
  <2>6. factor' \in [Factor -> FactorRow \cup {NoRow, Gone}]
    BY <2>1, <2>3 DEF FactorTablesOK
  <2>7. ASSUME NEW f \in Factor
        PROVE  Grows(f) /\ (f # g => Quiet(f)) /\ (factor[f] # Gone /\ factor'[f] = Gone => f \in Promoted(g))
    <3>1. CASE f = g
      BY <1>2, <2>2, <2>3, <2>4, <2>5, <3>1 DEF Grows, Live
    <3>2. CASE f # g
      <4>1. factor'[f] = IF f \in Promoted(g) THEN Gone ELSE factor[f]  BY <2>5, <3>2
      <4>2. Live(f) => factor[f] \in FactorRow /\ factor[f].last <= factor[f].last
        BY FactorRows
      <4>3. f \in Promoted(g) => Live(f)  BY DEF Promoted
      <4>4. QED  BY <3>2, <4>1, <4>2, <4>3, FactorsAssumption DEF Grows, Quiet, Live
    <3>3. QED  BY <3>1, <3>2
  <2>8. ASSUME NEW f \in Factor \ {g}, factor'[f] \notin {NoRow, Gone}
        PROVE  factor[f].verified
    BY <2>5, <2>8 DEF Promoted, Live
  <2>9. NoOrphans
    <3> SUFFICES ASSUME NEW c \in Challenge, challenge'[c] \notin {NoRow, Gone}, challenge'[c].factor \in Factor,
                        Live(challenge'[c].factor)
                 PROVE  factor'[challenge'[c].factor] # Gone
      BY DEF NoOrphans
    <3>1. challenge'[c] = challenge[c] /\ challenge[c].factor \notin Promoted(g)
      BY <2>1 DEF Open
    <3>2. QED  BY <2>7, <3>1 DEF Live
  <2>10. challenge' = [c \in Challenge |-> challenge'[c]] /\ \A c \in Challenge : Rests(c)
    BY <2>1 DEF Rests
  <2>11. QED  BY <1>0, <1>2, <2>3, <2>5, <2>6, <2>7, <2>8, <2>9, <2>10 DEF RowsGo
<1>3. QED  BY <1>1, <1>2

(* An attempt is spent, a challenge is used or leaves its five minutes.     *)
LEMMA TouchRows ==
  ASSUME FactorTablesOK, NEW c \in Challenge, NEW j, Open(c), UNCHANGED factor,
         challenge' = [challenge EXCEPT ![c] = j], j \in ChallengeRow, j.factor = challenge[c].factor,
         j.fresh => challenge[c].fresh
  PROVE  RowsGo /\ NoOrphans /\ \A f \in Factor : Quiet(f)
<1>1. challenge'[c] = j /\ \A d \in Challenge \ {c} : challenge'[d] = challenge[d]
  BY DEF FactorTablesOK
<1>2. \A d \in Challenge : Rests(d)
  BY <1>1 DEF Rests
<1>3. challenge' = [d \in Challenge |-> challenge'[d]]
  BY DEF FactorTablesOK
<1>4. QED  BY <1>2, <1>3, RowsRest DEF RowsGo

LEMMA ValidateRows ==
  ASSUME FactorTablesOK, NEW p \in Call, ValidateChallenge(p) \/ MarkChallengeVerified(p)
  PROVE  RowsGo /\ NoOrphans /\ \A f \in Factor : Quiet(f)
<1> DEFINE c == call[p].c
<1>0. UNCHANGED factor  BY DEF ValidateChallenge, MarkChallengeVerified
<1>1. CASE UNCHANGED challenge
  BY <1>0, <1>1, QuietRows
<1>2. CASE Open(c) /\ Reservable(challenge[c]) /\ challenge' = [challenge EXCEPT ![c].attempts = @ + 1]
  <2>1. CASE c \in Challenge
    <3> DEFINE j == [challenge[c] EXCEPT !.attempts = @ + 1]
    <3>1. challenge[c] \in ChallengeRow /\ challenge[c].attempts \in 0..MaxMFAAttempts
          /\ challenge[c].attempts < MaxMFAAttempts
      BY <1>2, <2>1, ChallengeRows DEF Reservable
    <3>2. challenge[c].attempts + 1 \in 0..MaxMFAAttempts  BY <3>1, FactorsAssumption
    <3>3. j \in ChallengeRow /\ j.factor = challenge[c].factor /\ (j.fresh => challenge[c].fresh)
      BY <3>1, <3>2 DEF ChallengeRow
    <3>4. challenge' = [challenge EXCEPT ![c] = j]  BY <1>2, <2>1 DEF FactorTablesOK
    <3> HIDE DEF j
    <3>5. QED  BY <1>0, <1>2, <2>1, <3>3, <3>4, TouchRows
  <2>2. CASE c \notin Challenge
    <3>1. UNCHANGED challenge  BY <1>2, <2>2 DEF FactorTablesOK
    <3>2. QED  BY <1>0, <3>1, QuietRows
  <2>3. QED  BY <2>1, <2>2
<1>3. CASE Open(c) /\ challenge' = [challenge EXCEPT ![c].used = TRUE]
  <2>1. CASE c \in Challenge
    <3> DEFINE j == [challenge[c] EXCEPT !.used = TRUE]
    <3>1. challenge[c] \in ChallengeRow  BY <1>3, <2>1, ChallengeRows
    <3>2. j \in ChallengeRow /\ j.factor = challenge[c].factor /\ (j.fresh => challenge[c].fresh)
      BY <3>1 DEF ChallengeRow
    <3>3. challenge' = [challenge EXCEPT ![c] = j]  BY <1>3, <2>1 DEF FactorTablesOK
    <3> HIDE DEF j
    <3>4. QED  BY <1>0, <1>3, <2>1, <3>2, <3>3, TouchRows
  <2>2. CASE c \notin Challenge
    <3>1. UNCHANGED challenge  BY <1>3, <2>2 DEF FactorTablesOK
    <3>2. QED  BY <1>0, <3>1, QuietRows
  <2>3. QED  BY <2>1, <2>2
<1>4. QED  BY <1>1, <1>2, <1>3, Zenon DEF ValidateChallenge, MarkChallengeVerified

LEMMA ExpireRows ==
  ASSUME FactorTablesOK, ExpireChallenge
  PROVE  RowsGo /\ NoOrphans /\ \A f \in Factor : Quiet(f)
<1>1. PICK c \in Challenge : Open(c) /\ challenge' = [challenge EXCEPT ![c].fresh = FALSE]
  BY DEF ExpireChallenge
<1> DEFINE j == [challenge[c] EXCEPT !.fresh = FALSE]
<1>2. challenge[c] \in ChallengeRow  BY <1>1, ChallengeRows
<1>3. j \in ChallengeRow /\ j.factor = challenge[c].factor /\ ~j.fresh
  BY <1>2 DEF ChallengeRow
<1>4. challenge' = [challenge EXCEPT ![c] = j] /\ UNCHANGED factor
  BY <1>1 DEF FactorTablesOK, ExpireChallenge
<1> HIDE DEF j
<1>5. QED  BY <1>1, <1>3, <1>4, TouchRows

(* CreateChallenge opens one challenge of a live factor that has room.      *)
LEMMA CreateRows ==
  ASSUME FactorTablesOK, CallsOK, NEW p \in Call, CreateChallenge(p)
  PROVE  RowsGo /\ NoOrphans /\ \A f \in Factor : Quiet(f)
<1> DEFINE g == call[p].f
           j == [factor |-> g, attempts |-> 0, used |-> FALSE, fresh |-> TRUE]
<1>0. g \in Factor /\ UNCHANGED factor
  BY DEF CallsOK, CallOK, CreateChallenge, Is, FactorOps
<1>1. CASE UNCHANGED challenge
  BY <1>0, <1>1, QuietRows
<1>2. ASSUME Live(g), Room(g), NEW c \in Challenge, challenge[c] = NoRow,
             challenge' = [d \in Challenge |->
                 IF d = c THEN j ELSE IF d \in Of(g) /\ ~challenge[d].fresh THEN Gone ELSE challenge[d]]
      PROVE  RowsGo /\ NoOrphans /\ \A f \in Factor : Quiet(f)
  <2>1. j \in ChallengeRow /\ j.factor = g
    BY <1>0, FactorsAssumption DEF ChallengeRow
  <2> HIDE DEF j
  <2>2. challenge'[c] = j /\ \A d \in Challenge \ {c} : challenge'[d] = challenge[d] \/ challenge'[d] = Gone
    BY <1>2
  <2>3. Opens(c)  BY <1>0, <1>2, <2>1, <2>2 DEF Opens
  <2>4. \A d \in Challenge \ {c} : Rests(d)  BY <2>2 DEF Rests
  <2>5. challenge' = [d \in Challenge |-> challenge'[d]]  BY <1>2
  <2>6. QED  BY <1>0, <2>3, <2>4, <2>5, RowsRest DEF RowsGo
<1>3. QED  BY <1>1, <1>2, Zenon DEF CreateChallenge

LEMMA StepsGoRows ==
  ASSUME FactorTablesOK, CallsOK, FNext
  PROVE  /\ RowsGo /\ NoOrphans
         /\ \/ \A f \in Factor : Quiet(f)
            \/ \E p \in Call : PromoteFactorToVerified(p)
<1>1. ASSUME NEW p \in Call, FHandle(p)
      PROVE  /\ RowsGo /\ NoOrphans
             /\ (\A f \in Factor : Quiet(f)) \/ PromoteFactorToVerified(p)
  <2>1. CASE \/ Arrive(p) \/ Enroll(p) \/ GetFactorForVerify(p) \/ FactorStatuses(p) \/ IssueAAL2(p) \/ Unenroll(p)
    <3>1. UNCHANGED <<factor, challenge>>
      BY <2>1 DEF Arrive, Enroll, GetFactorForVerify, FactorStatuses, IssueAAL2, Unenroll
    <3>2. QED  BY <3>1, QuietRows
  <2>2. QED
    BY <1>1, <2>1, EnrollRows, ConsumeRows, DropRows, PromoteRows, ValidateRows, CreateRows, Zenon DEF FHandle
<1>2. CASE NextStep
  BY <1>2, QuietRows DEF NextStep
<1>3. CASE ExpireChallenge
  BY <1>3, ExpireRows
<1>4. QED  BY <1>1, <1>2, <1>3, Zenon DEF FNext

(* Only IssueAAL2 elevates a session, with the code of its call.            *)
LEMMA StepElevates ==
  ASSUME NEW p \in Call, FHandle(p)
  PROVE  UNCHANGED <<elevated, spent>> \/ IssueAAL2(p)
BY DEF FHandle, Arrive, Enroll, EnrollFactor, CreateChallenge, GetFactorForVerify, FactorStatuses,
   ValidateChallenge, ConsumeTOTPStep, MarkChallengeVerified, PromoteFactorToVerified, Unenroll, DeleteFactorForUser

LEMMA Issued ==
  ASSUME FactorTablesOK, CallsOK, NEW p \in Call, IssueAAL2(p)
  PROVE  /\ call[p].f \in Factor /\ call[p].code \in 1..MaxStep + 1
         /\ HoldsCode(call[p], call[p].f, call[p].code)
         /\ elevated' \subseteq Session
         /\ spent' \in [Factor -> [1..MaxStep + 1 -> Nat]]
         /\ spent'[call[p].f][call[p].code] = spent[call[p].f][call[p].code] + 1
         /\ \A f \in Factor, s \in 1..MaxStep + 1 :
              ~(f = call[p].f /\ s = call[p].code) => spent'[f][s] = spent[f][s]
         /\ UNCHANGED factor /\ Answer(p)
<1>1. /\ call[p].f \in Factor /\ call[p].code \in 1..MaxStep + 1 /\ call[p].sid \in Session
      /\ HoldsCode(call[p], call[p].f, call[p].code)
  BY FactorsAssumption DEF CallsOK, CallOK, IssueAAL2, Is, FactorOps, CodePcs, CallRow, HoldsCode
<1>2. elevated' \subseteq Session  BY <1>1 DEF IssueAAL2, FactorTablesOK
<1> DEFINE f == call[p].f  s == call[p].code
<1>3. /\ spent[f] \in [1..MaxStep + 1 -> Nat] /\ spent \in [Factor -> [1..MaxStep + 1 -> Nat]]
  BY <1>1 DEF FactorTablesOK
<1>4. spent[f][s] + 1 \in Nat
  <2>1. spent[f][s] \in Nat  BY <1>1, <1>3
  <2>2. QED  BY <2>1
<1> DEFINE row == [spent[f] EXCEPT ![s] = @ + 1]
<1>5. row \in [1..MaxStep + 1 -> Nat] /\ row[s] = spent[f][s] + 1
      /\ \A t \in 1..MaxStep + 1 : t # s => row[t] = spent[f][t]
  BY <1>1, <1>3, <1>4
<1>6. spent' = [spent EXCEPT ![f] = row]  BY <1>1, <1>3 DEF IssueAAL2
<1> HIDE DEF row
<1>7. spent' \in [Factor -> [1..MaxStep + 1 -> Nat]] /\ spent'[f] = row /\ \A g \in Factor : g # f => spent'[g] = spent[g]
  BY <1>1, <1>3, <1>5, <1>6
<1>8. QED  BY <1>1, <1>2, <1>5, <1>7 DEF IssueAAL2

LEMMA FactorTablesStayOK ==
  ASSUME FactorTablesOK, CallsOK, FNext
  PROVE  FactorTablesOK'
<1>1. RowsGo /\ NoOrphans  BY StepsGoRows
<1>2. factor' \in [Factor -> FactorRow \cup {NoRow, Gone}]  BY <1>1 DEF RowsGo
<1>3. ASSUME NEW c \in Challenge
      PROVE  /\ challenge'[c] \in ChallengeRow \cup {NoRow, Gone}
             /\ challenge'[c] \notin {NoRow, Gone} => factor'[challenge'[c].factor] \notin {NoRow, Gone}
  <2>1. /\ challenge'[c] \in ChallengeRow \cup {NoRow, Gone}
        /\ challenge'[c] \notin {NoRow, Gone} => Live(challenge'[c].factor)
    <3>1. CASE Rests(c)
      BY <3>1 DEF Rests, FactorTablesOK, Open
    <3>2. CASE Opens(c)
      BY <3>2 DEF Opens
    <3>3. QED  BY <1>1, <3>1, <3>2 DEF RowsGo
  <2>2. challenge'[c] \notin {NoRow, Gone} => challenge'[c].factor \in Factor
    BY <2>1 DEF ChallengeRow
  <2>3. QED  BY <1>1, <2>1, <2>2 DEF NoOrphans, RowsGo, Grows, Live
<1>4. challenge' \in [Challenge -> ChallengeRow \cup {NoRow, Gone}]
  BY <1>1, <1>3 DEF RowsGo
<1>5. elevated' \subseteq Session /\ spent' \in [Factor -> [1..MaxStep + 1 -> Nat]]
  <2>1. ASSUME NEW p \in Call, FHandle(p)
        PROVE  elevated' \subseteq Session /\ spent' \in [Factor -> [1..MaxStep + 1 -> Nat]]
    BY <2>1, StepElevates, Issued DEF FactorTablesOK
  <2>2. CASE NextStep \/ ExpireChallenge
    BY <2>2 DEF NextStep, ExpireChallenge, FactorTablesOK
  <2>3. QED  BY <2>1, <2>2, Zenon DEF FNext
<1>6. QED  BY <1>2, <1>3, <1>4, <1>5 DEF FactorTablesOK, Open, Live

(* The cap holds through CreateChallenge's count, which it takes under the  *)
(* lock of the factor.                                                     *)
LEMMA CapsStayOK ==
  ASSUME FactorTablesOK, CapsOK, RowsGo
  PROVE  CapsOK'
<1>1. ASSUME NEW c \in Challenge, NEW f \in Factor, Rests(c), c \in FreshOf(f)'
      PROVE  c \in FreshOf(f)
  BY <1>1 DEF Rests, FreshOf, Of, Open
<1>2. ASSUME NEW f \in Factor
      PROVE  IsFiniteSet(FreshOf(f)') /\ Cardinality(FreshOf(f)') <= MaxChallenges
  <2>1. IsFiniteSet(FreshOf(f)) /\ Cardinality(FreshOf(f)) \in Nat /\ Cardinality(FreshOf(f)) <= MaxChallenges
        /\ MaxChallenges \in Nat
    BY FS_CardinalityType, FactorsAssumption DEF CapsOK
  <2>2. CASE FreshOf(f)' \subseteq FreshOf(f)
    <3>1. /\ IsFiniteSet(FreshOf(f)') /\ Cardinality(FreshOf(f)') <= Cardinality(FreshOf(f))
          /\ Cardinality(FreshOf(f)') \in Nat
      BY <2>1, <2>2, FS_Subset, FS_CardinalityType
    <3>2. QED  BY <2>1, <3>1
  <2>3. ASSUME NEW c \in Challenge, Opens(c), \A d \in Challenge \ {c} : Rests(d)
        PROVE  IsFiniteSet(FreshOf(f)') /\ Cardinality(FreshOf(f)') <= MaxChallenges
    <3>1. FreshOf(f)' \subseteq FreshOf(f) \cup {c}
      <4>1. \A d \in FreshOf(f)' : d \in Challenge  BY DEF FreshOf, Of
      <4>2. QED  BY <1>1, <2>3, <4>1
    <3>2. CASE challenge'[c].factor # f
      <4>1. c \notin FreshOf(f)'  BY <3>2 DEF FreshOf, Of
      <4>2. QED  BY <2>2, <3>1, <4>1
    <3>3. CASE challenge'[c].factor = f
      <4>1. Cardinality(FreshOf(f)) < MaxChallenges
        BY <2>3, <3>3 DEF Opens, Room, FreshOf
      <4>2. /\ IsFiniteSet(FreshOf(f) \cup {c})
            /\ Cardinality(FreshOf(f) \cup {c}) \in {Cardinality(FreshOf(f)), Cardinality(FreshOf(f)) + 1}
        BY <2>1, FS_AddElement
      <4>3. /\ IsFiniteSet(FreshOf(f)') /\ Cardinality(FreshOf(f)') <= Cardinality(FreshOf(f) \cup {c})
            /\ Cardinality(FreshOf(f)') \in Nat
        BY <3>1, <4>2, FS_Subset, FS_CardinalityType
      <4>4. QED  BY <2>1, <4>1, <4>2, <4>3
    <3>4. QED  BY <3>2, <3>3
  <2>4. CASE \A d \in Challenge : Rests(d)
    <3>1. \A d \in FreshOf(f)' : d \in Challenge  BY DEF FreshOf, Of
    <3>2. QED  BY <1>1, <2>2, <2>4, <3>1
  <2>5. QED  BY <2>3, <2>4 DEF RowsGo
<1>3. QED  BY <1>2 DEF CapsOK

LEMMA CallsStayOK ==
  ASSUME FactorTablesOK, CallsOK, FNext
  PROVE  CallsOK'
<1>1. \A f \in Factor : factor[f] # NoRow => factor'[f] # NoRow
  BY StepsGoRows DEF RowsGo, Grows
<1>2. ASSUME NEW p \in Call, FHandle(p)
      PROVE  CallsOK'
  <2>1. Goes(p)  BY <1>2, CallsGo
  <2>2. call' \in [Call -> CallRow]  BY <2>1 DEF Goes, OthersRest, CallsOK
  <2>3. ASSUME NEW x \in Call
        PROVE  CallOK(call'[x]) /\ (call'[x].op \in FactorOps => factor'[call'[x].f] # NoRow)
    <3>1. CallOK(call'[x]) /\ (call'[x].op \in FactorOps => factor[call'[x].f] # NoRow)
      BY <2>1 DEF Goes, OthersRest, CallsOK
    <3>2. QED  BY <1>1, <3>1 DEF CallOK
  <2>4. QED  BY <2>2, <2>3 DEF CallsOK
<1>3. CASE NextStep \/ ExpireChallenge
  BY <1>1, <1>3 DEF NextStep, ExpireChallenge, CallsOK, CallOK
<1>4. QED  BY <1>2, <1>3, Zenon DEF FNext

(* Whoever holds a code after the step held it before, or has just spent a  *)
(* step the factor had not seen.                                           *)
LEMMA HoldersGo ==
  ASSUME FactorTablesOK, CallsOK, NEW p \in Call, FHandle(p), NEW f \in Factor, NEW s \in 1..MaxStep + 1,
         HoldsCode(call'[p], f, s)
  PROVE  \/ HoldsCode(call[p], f, s)
         \/ Live(f) /\ factor[f].last < s /\ factor'[f] \in FactorRow /\ factor'[f].last = s
<1>1. ~Answer(p)
  BY Answered, NoCallIs DEF CallsOK, HoldsCode
<1>2. ASSUME NEW pc \in CallPcs, Move(p, pc)
      PROVE  pc \in CodePcs /\ call[p].op = "verify" /\ call[p].f = f /\ call[p].code = s
  BY <1>2, Moved DEF CallsOK, HoldsCode, SameCall
<1>3. ~Arrive(p)
  BY ArriveGoes DEF HoldsCode, CodePcs
<1>4. ~GetFactorForVerify(p)
  BY GetFactorGoes DEF HoldsCode, CodePcs
<1>5. /\ {"insert", "delete", "validate", "consume", "mark", "promote", "issue"} \subseteq CallPcs
      /\ {"insert", "delete", "validate", "consume"} \cap CodePcs = {}
  BY DEF CallPcs, CodePcs
<1>6. /\ ~EnrollFactor(p) /\ ~CreateChallenge(p) /\ ~IssueAAL2(p) /\ ~DeleteFactorForUser(p)
      /\ ~Enroll(p) /\ ~Unenroll(p) /\ ~FactorStatuses(p) /\ ~ValidateChallenge(p)
  <2>1. ~Move(p, "insert") /\ ~Move(p, "delete") /\ ~Move(p, "validate") /\ ~Move(p, "consume")
    BY <1>2, <1>5
  <2>2. ~EnrollFactor(p) /\ ~CreateChallenge(p) /\ ~IssueAAL2(p) /\ ~DeleteFactorForUser(p)
    BY <1>1 DEF EnrollFactor, CreateChallenge, IssueAAL2, DeleteFactorForUser
  <2>3. ~Enroll(p) /\ ~Unenroll(p) /\ ~FactorStatuses(p) /\ ~ValidateChallenge(p)
    BY <1>1, <2>1, Zenon DEF Enroll, Unenroll, FactorStatuses, ValidateChallenge
  <2>4. QED  BY <2>2, <2>3
<1>7. CASE MarkChallengeVerified(p) \/ PromoteFactorToVerified(p)
  <2>1. Move(p, "promote") \/ Move(p, "issue")
    BY <1>1, <1>7, Zenon DEF MarkChallengeVerified, PromoteFactorToVerified
  <2>2. call[p].op = "verify" /\ call[p].f = f /\ call[p].code = s
    BY <1>2, <1>5, <2>1
  <2>3. call[p].pc \in CodePcs
    BY <1>7 DEF MarkChallengeVerified, PromoteFactorToVerified, Is, CodePcs
  <2>4. QED  BY <2>2, <2>3 DEF HoldsCode
<1>8. CASE ConsumeTOTPStep(p)
  BY <1>1, <1>2, <1>5, <1>8, ConsumeRows
<1>9. QED  BY <1>3, <1>4, <1>6, <1>7, <1>8, Zenon DEF FHandle

LEMMA BurntStays ==
  ASSUME FactorTablesOK, RowsGo, NEW f \in Factor, NEW s \in 1..MaxStep + 1, Burnt(f, s)
  PROVE  Burnt(f, s)'
<1>1. Grows(f) /\ factor'[f] \in FactorRow \cup {NoRow, Gone}  BY DEF RowsGo
<1>2. CASE factor[f] = Gone
  BY <1>1, <1>2 DEF Grows, Burnt
<1>3. CASE Live(f) /\ factor[f].last >= s /\ factor'[f] # Gone
  <2>1. factor'[f] \in FactorRow /\ factor[f].last <= factor'[f].last /\ factor'[f] # NoRow
    BY <1>1, <1>3 DEF Grows, Live
  <2>2. factor[f].last \in Nat /\ factor'[f].last \in Nat /\ s \in Nat
    BY <1>3, <2>1, FactorRows DEF FactorRow
  <2>3. factor'[f].last >= s  BY <1>3, <2>1, <2>2
  <2>4. QED  BY <1>3, <2>1, <2>3 DEF Burnt, Live
<1>4. QED  BY <1>2, <1>3 DEF Burnt

LEMMA SpentStaysOK ==
  ASSUME FactorTablesOK, CallsOK, SpentOK, NEW p \in Call, FHandle(p)
  PROVE  SpentOK'
<1>1. /\ \A f \in Factor, s \in 1..MaxStep + 1 : spent[f][s] # 0 => spent[f][s] = 1 /\ Burnt(f, s)
      /\ \A x \in Call, f \in Factor, s \in 1..MaxStep + 1 :
           HoldsCode(call[x], f, s) => spent[f][s] = 0 /\ Burnt(f, s)
      /\ \A x, y \in Call, f \in Factor, s \in 1..MaxStep + 1 :
           HoldsCode(call[x], f, s) /\ HoldsCode(call[y], f, s) => x = y
  BY Zenon DEF SpentOK
<1>2. RowsGo  BY StepsGoRows, Zenon DEF FNext
<1>3. ASSUME NEW f \in Factor, NEW s \in 1..MaxStep + 1, Burnt(f, s)
      PROVE  Burnt(f, s)'
  BY <1>2, <1>3, BurntStays
<1>4. \A x \in Call \ {p} : call'[x] = call[x]  BY CallsGo DEF Goes, OthersRest
<1>5. ASSUME NEW f \in Factor, NEW s \in 1..MaxStep + 1, HoldsCode(call'[p], f, s), ~HoldsCode(call[p], f, s)
      PROVE  ~Burnt(f, s) /\ spent[f][s] = 0 /\ Burnt(f, s)'
  <2>1. Live(f) /\ factor[f].last < s /\ factor'[f] \in FactorRow /\ factor'[f].last = s
    BY <1>5, HoldersGo
  <2>2. factor[f].last \in Nat /\ s \in Nat  BY <2>1, FactorRows
  <2>3. ~Burnt(f, s)  BY <2>1, <2>2 DEF Burnt, Live
  <2>4. factor'[f] \notin {NoRow, Gone}  BY <2>1, FactorsAssumption
  <2>5. Burnt(f, s)'  BY <2>1, <2>2, <2>4 DEF Burnt, Live
  <2>6. QED  BY <1>1, <2>3, <2>5
<1>6. ASSUME NEW x \in Call, NEW y \in Call, NEW f \in Factor, NEW s \in 1..MaxStep + 1,
             HoldsCode(call'[x], f, s), HoldsCode(call'[y], f, s)
      PROVE  x = y
  BY <1>1, <1>4, <1>5, <1>6
<1>7. CASE UNCHANGED spent
  <2>1. ASSUME NEW x \in Call, NEW f \in Factor, NEW s \in 1..MaxStep + 1, HoldsCode(call'[x], f, s)
        PROVE  spent'[f][s] = 0 /\ Burnt(f, s)'
    BY <1>1, <1>3, <1>4, <1>5, <1>7, <2>1
  <2>2. ASSUME NEW f \in Factor, NEW s \in 1..MaxStep + 1, spent'[f][s] # 0
        PROVE  spent'[f][s] = 1 /\ Burnt(f, s)'
    BY <1>1, <1>3, <1>7, <2>2
  <2>3. QED  BY <1>6, <2>1, <2>2, Zenon DEF SpentOK
<1>8. CASE IssueAAL2(p)
  <2>1. /\ call[p].f \in Factor /\ call[p].code \in 1..MaxStep + 1
        /\ HoldsCode(call[p], call[p].f, call[p].code)
        /\ spent'[call[p].f][call[p].code] = spent[call[p].f][call[p].code] + 1
        /\ \A f \in Factor, s \in 1..MaxStep + 1 :
             ~(f = call[p].f /\ s = call[p].code) => spent'[f][s] = spent[f][s]
        /\ Answer(p)
    BY <1>8, Issued
  <2>2. ASSUME NEW x \in Call, NEW f \in Factor, NEW s \in 1..MaxStep + 1, HoldsCode(call'[x], f, s)
        PROVE  spent'[f][s] = 0 /\ Burnt(f, s)'
    <3>1. x # p  BY <2>1, <2>2, Answered, NoCallIs DEF CallsOK, HoldsCode
    <3>2. HoldsCode(call[x], f, s)  BY <1>4, <2>2, <3>1
    <3>3. ~(f = call[p].f /\ s = call[p].code)  BY <1>1, <2>1, <3>1, <3>2
    <3>4. QED  BY <1>1, <1>3, <2>1, <3>2, <3>3
  <2>3. ASSUME NEW f \in Factor, NEW s \in 1..MaxStep + 1, spent'[f][s] # 0
        PROVE  spent'[f][s] = 1 /\ Burnt(f, s)'
    <3>1. CASE f = call[p].f /\ s = call[p].code
      <4>1. spent[f][s] = 0 /\ Burnt(f, s)  BY <1>1, <2>1, <3>1
      <4>2. spent'[f][s] = 1  BY <2>1, <3>1, <4>1
      <4>3. QED  BY <1>3, <4>1, <4>2
    <3>2. CASE ~(f = call[p].f /\ s = call[p].code)
      BY <1>1, <1>3, <2>1, <2>3, <3>2
    <3>3. QED  BY <3>1, <3>2
  <2>4. QED  BY <1>6, <2>2, <2>3, Zenon DEF SpentOK
<1>9. QED  BY <1>7, <1>8, StepElevates

(* A call below aal2 comes to verify its first factor only after it has     *)
(* found none verified.                                                    *)
Firsts(r) == r.op = "verify" /\ r.pc \in FirstPcs /\ r.first /\ r.aal = 1
LEMMA FirstGoes ==
  ASSUME FactorTablesOK, CallsOK, NEW p \in Call, FHandle(p), Firsts(call'[p])
  PROVE  ~hasVerified \/ (Firsts(call[p]) /\ call'[p].f = call[p].f)
<1>1. ~Answer(p)
  BY Answered, NoCallIs DEF CallsOK, Firsts
<1>2. ~Arrive(p)
  BY ArriveGoes DEF Firsts, FirstPcs
<1>3. ~GetFactorForVerify(p)
  BY GetFactorGoes DEF Firsts, FirstPcs
<1>4. ASSUME NEW pc \in CallPcs, Move(p, pc)
      PROVE  /\ pc \in FirstPcs /\ call'[p].f = call[p].f
             /\ call[p].op = "verify" /\ call[p].first /\ call[p].aal = 1
  <2>1. call'[p].pc = pc /\ SameCall(call[p], call'[p]) /\ call'[p].first = call[p].first
    BY <1>4, Moved DEF CallsOK
  <2>2. call[p].first  BY <2>1, Zenon DEF Firsts
  <2>3. QED  BY <2>1, <2>2 DEF Firsts, SameCall
<1>5. /\ {"insert", "delete", "validate", "consume", "mark", "promote", "issue"} \subseteq CallPcs
      /\ {"insert", "delete", "issue"} \cap FirstPcs = {}
  BY DEF CallPcs, FirstPcs
<1>6. ~Move(p, "insert") /\ ~Move(p, "delete") /\ ~Move(p, "issue")
  BY <1>4, <1>5
<1>7. /\ ~EnrollFactor(p) /\ ~CreateChallenge(p) /\ ~IssueAAL2(p) /\ ~DeleteFactorForUser(p)
      /\ ~PromoteFactorToVerified(p)
  BY <1>1, <1>6 DEF EnrollFactor, CreateChallenge, IssueAAL2, DeleteFactorForUser, PromoteFactorToVerified
<1>8. ~Enroll(p) /\ ~Unenroll(p)
  BY <1>1, <1>6, Zenon DEF Enroll, Unenroll
<1>9. CASE FactorStatuses(p)
  BY <1>1, <1>9, Zenon DEF FactorStatuses
<1>10. CASE ValidateChallenge(p) \/ ConsumeTOTPStep(p) \/ MarkChallengeVerified(p)
  <2>1. Move(p, "consume") \/ Move(p, "mark") \/ Move(p, "promote")
    BY <1>1, <1>6, <1>10, Zenon DEF ValidateChallenge, ConsumeTOTPStep, MarkChallengeVerified
  <2>2. /\ call'[p].f = call[p].f
        /\ call[p].op = "verify" /\ call[p].first /\ call[p].aal = 1
    BY <1>4, <1>5, <2>1
  <2>3. call[p].pc \in FirstPcs
    BY <1>10 DEF ValidateChallenge, ConsumeTOTPStep, MarkChallengeVerified, Is, FirstPcs
  <2>4. QED  BY <2>2, <2>3 DEF Firsts
<1>11. QED  BY <1>2, <1>3, <1>7, <1>8, <1>9, <1>10, Zenon DEF FHandle

LEMMA FirstStaysOK ==
  ASSUME FactorTablesOK, CallsOK, FirstOK, FNext
  PROVE  FirstOK'
<1>1. \A x \in Call : call[x].op = "verify" => call[x].f \in Factor /\ factor[call[x].f] # NoRow
  BY DEF CallsOK, CallOK, FactorOps
<1>2. ASSUME NEW x \in Call, Firsts(call'[x])
      PROVE  /\ call'[x].f \in Factor /\ factor[call'[x].f] # NoRow
             /\ ~hasVerified \/ (Firsts(call[x]) /\ call'[x].f = call[x].f)
  <2>1. ASSUME NEW p \in Call, FHandle(p)
        PROVE  /\ call'[x].f \in Factor /\ factor[call'[x].f] # NoRow
               /\ ~hasVerified \/ (Firsts(call[x]) /\ call'[x].f = call[x].f)
    <3>1. Goes(p)  BY <2>1, CallsGo
    <3>2. CASE x = p
      BY <1>2, <2>1, <3>1, <3>2, FirstGoes DEF Goes, CallOK, FactorOps, Firsts
    <3>3. CASE x # p
      BY <1>1, <1>2, <3>1, <3>3 DEF Goes, OthersRest, Firsts
    <3>4. QED  BY <3>2, <3>3
  <2>2. CASE NextStep \/ ExpireChallenge
    BY <1>1, <1>2, <2>2 DEF NextStep, ExpireChallenge, Firsts
  <2>3. QED  BY <2>1, <2>2, Zenon DEF FNext
<1>3. CASE \A f \in Factor : Quiet(f)
  <2>1. ASSUME NEW x \in Call, Firsts(call'[x]), NEW f \in Factor, f = call'[x].f,
               factor'[f] \notin {NoRow, Gone}, ~factor'[f].verified
        PROVE  ~hasVerified
    <3>1. Live(f) /\ ~factor[f].verified  BY <1>2, <1>3, <2>1 DEF Quiet
    <3>2. QED  BY <1>2, <2>1, <3>1 DEF FirstOK, Firsts
  <2>2. ASSUME NEW g \in Factor, factor'[g] \notin {NoRow, Gone}, factor'[g].verified
        PROVE  hasVerified
    BY <1>3, <2>2, Zenon DEF Quiet, hasVerified
  <2>3. QED  BY <1>2, <2>1, <2>2 DEF FirstOK, Firsts, Live, hasVerified
<1>4. ASSUME NEW p \in Call, PromoteFactorToVerified(p)
      PROVE  FirstOK'
  <2>1. CASE ~Live(call[p].f)
    <3>1. \A f \in Factor : Quiet(f)  BY <1>4, <2>1, PromoteRows, RowsRest
    <3>2. QED  BY <1>3, <3>1
  <2>2. CASE Live(call[p].f)
    <3>1. ASSUME NEW f \in Factor, factor'[f] \notin {NoRow, Gone}
          PROVE  factor'[f].verified
      <4>1. CASE f = call[p].f
        BY <1>4, <2>2, <4>1, PromoteRows
      <4>2. CASE f # call[p].f
        <5>1. Quiet(f) /\ factor[f].verified
          BY <1>4, <2>2, <3>1, <4>2, PromoteRows
        <5>2. factor[f] # NoRow
          BY <1>4, <3>1, <4>2, <2>2 DEF PromoteFactorToVerified, FactorTablesOK
        <5>3. QED  BY <3>1, <5>1, <5>2, Zenon DEF Quiet
      <4>3. QED  BY <4>1, <4>2
    <3>2. QED  BY <1>2, <3>1 DEF FirstOK, Firsts, Live
  <2>3. QED  BY <2>1, <2>2
<1>5. QED  BY <1>3, <1>4, StepsGoRows

LEMMA FactorsInit ==
  ASSUME FInit
  PROVE  FactorsInv
<1>1. \A f \in Factor : factor[f] = NoRow  BY DEF FInit
<1>2. \A c \in Challenge : challenge[c] = NoRow  BY DEF FInit
<1>3. \A p \in Call : call[p] = NoCall  BY DEF FInit
<1>4. FactorTablesOK
  <2>1. spent \in [Factor -> [1..MaxStep + 1 -> Nat]]  BY DEF FInit
  <2>2. factor \in [Factor -> FactorRow \cup {NoRow, Gone}]  BY DEF FInit
  <2>3. challenge \in [Challenge -> ChallengeRow \cup {NoRow, Gone}]  BY DEF FInit
  <2>4. QED  BY <1>2, <2>1, <2>2, <2>3 DEF FactorTablesOK, FInit, Open
<1>5. CallsOK
  <2>1. NoCall \in CallRow  BY NoCallIs DEF CallOK
  <2>2. call \in [Call -> CallRow]  BY <2>1 DEF FInit
  <2>3. QED  BY <1>3, <2>2, NoCallIs DEF CallsOK, FactorOps
<1>6. SpentOK
  <2>1. \A f \in Factor, s \in 1..MaxStep + 1 : spent[f][s] = 0  BY DEF FInit
  <2>2. QED  BY <1>3, <2>1, NoCallIs DEF SpentOK, HoldsCode
<1>7. CapsOK
  <2>1. \A f \in Factor : FreshOf(f) = {}  BY <1>2 DEF FreshOf, Of, Open
  <2>2. QED  BY <2>1, FS_EmptySet, FactorsAssumption DEF CapsOK
<1>8. FirstOK  BY <1>3, NoCallIs DEF FirstOK
<1>9. QED  BY <1>4, <1>5, <1>6, <1>7, <1>8 DEF FactorsInv

LEMMA FactorsStep ==
  ASSUME FactorsInv, [FNext]_fvars
  PROVE  FactorsInv'
<1>1. CASE UNCHANGED fvars
  <2>1. FactorTablesOK /\ CallsOK /\ SpentOK /\ CapsOK /\ FirstOK  BY DEF FactorsInv
  <2>2. factor' = factor /\ challenge' = challenge /\ elevated' = elevated /\ call' = call /\ spent' = spent
    BY <1>1 DEF fvars
  <2>3. FactorTablesOK' /\ CallsOK'
    BY <2>1, <2>2 DEF FactorTablesOK, CallsOK, Live, Open
  <2>4. SpentOK'  BY <2>1, <2>2 DEF SpentOK, Burnt, Live
  <2>5. CapsOK'  BY <2>1, <2>2 DEF CapsOK, FreshOf, Of, Open
  <2>6. FirstOK'  BY <2>1, <2>2 DEF FirstOK, hasVerified, Live
  <2>7. QED  BY <2>3, <2>4, <2>5, <2>6 DEF FactorsInv
<1>2. CASE FNext
  <2>1. FactorTablesOK /\ CallsOK /\ SpentOK /\ CapsOK /\ FirstOK  BY DEF FactorsInv
  <2>2. FactorTablesOK' /\ CallsOK' /\ FirstOK'
    BY <1>2, <2>1, FactorTablesStayOK, CallsStayOK, FirstStaysOK
  <2>3. CapsOK'  BY <1>2, <2>1, StepsGoRows, CapsStayOK
  <2>4. SpentOK'
    <3>1. ASSUME NEW p \in Call, FHandle(p)
          PROVE  SpentOK'
      BY <2>1, <3>1, SpentStaysOK
    <3>2. CASE NextStep \/ ExpireChallenge
      BY <2>1, <3>2 DEF NextStep, ExpireChallenge, SpentOK, Burnt, Live
    <3>3. QED  BY <1>2, <3>1, <3>2, Zenon DEF FNext
  <2>5. QED  BY <2>2, <2>3, <2>4 DEF FactorsInv
<1>3. QED  BY <1>1, <1>2

LEMMA FactorsInvariant == FSpec => []FactorsInv
<1>1. FInit => FactorsInv  BY FactorsInit
<1>2. FactorsInv /\ [FNext]_fvars => FactorsInv'  BY FactorsStep
<1>3. QED  BY <1>1, <1>2, PTL DEF FSpec

-----------------------------------------------------------------------------
(***************************************************************************)
(* What Factors promises.                                                  *)
(***************************************************************************)
(* The rows of auth.mfa_factors and auth.mfa_challenges are of their        *)
(* tables, and a challenge belongs to a factor that is still there:         *)
(* unenrolling and promoting take the challenges along.                     *)
THEOREM FactorsTypeCorrect == FSpec => []FactorsTypeOK
<1>1. FactorsInv => FactorsTypeOK
  BY FactorRows, ChallengeRows DEF FactorsInv, FactorTablesOK, FactorsTypeOK
<1>2. QED  BY <1>1, FactorsInvariant, PTL

LEMMA CodesSpentInv ==
  ASSUME FactorsInv
  PROVE  CodesAreSpent
<1>1. ASSUME NEW f \in Factor, NEW s \in 1..MaxStep + 1
      PROVE  spent[f][s] <= 1
  <2>1. spent[f][s] = 0 \/ spent[f][s] = 1  BY DEF FactorsInv, SpentOK
  <2>2. QED  BY <2>1
<1>2. \A f \in Factor : Cardinality({c \in Of(f) : challenge[c].fresh}) <= MaxChallenges
  BY DEF FactorsInv, CapsOK, FreshOf
<1>3. QED  BY <1>1, <1>2 DEF CodesAreSpent

(* A TOTP code lifts at most one session, in whatever order verifications   *)
(* with it run (ConsumeTOTPStep), and a factor never has more fresh         *)
(* challenges than maxChallengesPerFactor.                                  *)
THEOREM CodesAreSpentHolds == FSpec => []CodesAreSpent
<1>1. FactorsInv => CodesAreSpent  BY CodesSpentInv
<1>2. QED  BY <1>1, FactorsInvariant, PTL

LEMMA StepPromotes ==
  ASSUME FactorsInv, [FNext]_fvars, NEW p \in Call, NEW f \in Factor,
         Is(p, "verify", "promote"), call'[p].pc = "issue", call[p].aal = 1, call[p].f = f, Live(f),
         ~factor[f].verified, NEW g \in Factor \ {f}
  PROVE  factor'[g] \in {NoRow, Gone}
<1>0. FactorTablesOK /\ CallsOK /\ FirstOK  BY DEF FactorsInv
<1>1. FNext /\ ~(call'[p] = call[p])  BY DEF fvars, Is
<1>2. ~NextStep /\ ~ExpireChallenge  BY <1>1 DEF NextStep, ExpireChallenge
<1>3. PICK q \in Call : FHandle(q)  BY <1>1, <1>2 DEF FNext
<1>4. q = p  BY <1>0, <1>1, <1>3, CallsGo DEF Goes, OthersRest
<1>5. PromoteFactorToVerified(p)
  <2>1. ~Arrive(p)
    BY ArriveGoes, <1>0
  <2>2. QED
    BY <1>3, <1>4, <2>1 DEF FHandle, Is, Enroll, EnrollFactor, CreateChallenge, GetFactorForVerify, FactorStatuses,
       ValidateChallenge, ConsumeTOTPStep, MarkChallengeVerified, IssueAAL2, Unenroll, DeleteFactorForUser
<1>6. call[p].first  BY <1>0 DEF CallsOK, CallOK, Is
<1>7. ~hasVerified  BY <1>0, <1>6 DEF FirstOK, FirstPcs, Is
<1>8. ASSUME factor'[g] \notin {NoRow, Gone}
      PROVE  FALSE
  <2>1. Quiet(g) /\ factor[g].verified  BY <1>0, <1>5, <1>8, PromoteRows
  <2>2. factor[g] # NoRow
    BY <1>0, <1>5, <1>8 DEF PromoteFactorToVerified, FactorTablesOK
  <2>3. Live(g)  BY <1>8, <2>1, <2>2, Zenon DEF Quiet
  <2>4. QED  BY <1>7, <2>1, <2>3 DEF hasVerified
<1>9. QED  BY <1>8

(* Below aal2 only a first factor becomes verified, and the user's other    *)
(* unverified ones go in the same statement: two first verifications at     *)
(* once leave one factor (FactorStatuses, PromoteFactorToVerified).         *)
THEOREM FirstFactorOnlyHolds == FSpec => FirstFactorOnly
<1>1. FactorsInv /\ [FNext]_fvars =>
        [\A p \in Call, f \in Factor :
           (Is(p, "verify", "promote") /\ call'[p].pc = "issue" /\ call[p].aal = 1
              /\ call[p].f = f /\ Live(f) /\ ~factor[f].verified)
           => \A g \in Factor \ {f} : factor'[g] \in {NoRow, Gone}]_fvars
  BY StepPromotes
<1>2. QED  BY <1>1, FactorsInvariant, PTL DEF FSpec, FirstFactorOnly

LEMMA StepUnenrolls ==
  ASSUME FactorsInv, [FNext]_fvars, NEW f \in Factor, Live(f), factor[f].verified, factor'[f] = Gone
  PROVE  \E p \in Call : call[p].f = f /\ call'[p] = NoCall
                         /\ (call[p].op = "adminDelete" \/ (call[p].op = "unenroll" /\ call[p].aal = 2))
<1>0. FactorTablesOK /\ CallsOK  BY DEF FactorsInv
<1>1. ~(factor' = factor)  BY DEF Live
<1>2. FNext /\ ~NextStep /\ ~ExpireChallenge  BY <1>1 DEF fvars, NextStep, ExpireChallenge
<1>3. PICK q \in Call : FHandle(q)  BY <1>2 DEF FNext
<1>4. ~EnrollFactor(q)  BY EnrollRows, <1>0 DEF EnrollFactor, FactorTablesOK, Live
<1>5. ~ConsumeTOTPStep(q)
  <2> SUFFICES ASSUME ConsumeTOTPStep(q) PROVE FALSE  OBVIOUS
  <2>0. factor' = [factor EXCEPT ![call[q].f].last = call[q].code] /\ Move(q, "mark")
    BY <1>1, Zenon DEF ConsumeTOTPStep
  <2>A. ~Answer(q)
    BY <1>0, <2>0, Answered, Moved, NoCallIs DEF CallsOK, CallPcs
  <2>1. factor' = [factor EXCEPT ![call[q].f].last = call[q].code] /\ factor'[call[q].f] \in FactorRow
    BY <1>0, <2>0, <2>A, ConsumeRows
  <2>2. f # call[q].f => factor'[f] = factor[f]  BY <2>1 DEF FactorTablesOK
  <2>3. QED  BY <2>1, <2>2, FactorsAssumption DEF Live
<1>6. ~PromoteFactorToVerified(q)
  <2> SUFFICES ASSUME PromoteFactorToVerified(q) PROVE FALSE  OBVIOUS
  <2>1. Live(call[q].f) /\ factor'[call[q].f] \in FactorRow  BY <1>0, <1>1, PromoteRows
  <2>2. f # call[q].f  BY <2>1, FactorsAssumption
  <2>3. f \in Promoted(call[q].f)
    BY <2>1, <2>2 DEF PromoteFactorToVerified, Live
  <2>4. QED  BY <2>3 DEF Promoted
<1>7. DeleteFactorForUser(q)
  BY <1>1, <1>3, <1>4, <1>5, <1>6 DEF FHandle, Arrive, Enroll, CreateChallenge, GetFactorForVerify, FactorStatuses,
     ValidateChallenge, MarkChallengeVerified, IssueAAL2, Unenroll
<1>8. DropFactors({call[q].f}) /\ Deletable(call[q].f, call[q].aal = 2 \/ call[q].op = "adminDelete")
  BY <1>1, <1>7 DEF DeleteFactorForUser
<1>9. f = call[q].f  BY <1>8 DEF DropFactors, Live
<1>10. call[q].aal = 2 \/ call[q].op = "adminDelete"  BY <1>8, <1>9 DEF Deletable
<1>11. call'[q] = NoCall /\ call[q].op \in {"unenroll", "adminDelete"}
  BY <1>0, <1>7, Answered DEF DeleteFactorForUser, Is, CallsOK
<1>12. QED  BY <1>9, <1>10, <1>11

(* A verified factor goes only by a request at aal2 or an administrator's,  *)
(* also when it was verified between handleUnenrollFactor's read and its    *)
(* DELETE, and when another factor is promoted.                             *)
THEOREM UnenrollNeedsAAL2Holds == FSpec => UnenrollNeedsAAL2
<1>1. FactorsInv /\ [FNext]_fvars =>
        [\A f \in Factor : Live(f) /\ factor[f].verified /\ factor'[f] = Gone =>
           \E p \in Call : call[p].f = f /\ call'[p] = NoCall
                           /\ (call[p].op = "adminDelete" \/ (call[p].op = "unenroll" /\ call[p].aal = 2))]_fvars
  BY StepUnenrolls
<1>2. QED  BY <1>1, FactorsInvariant, PTL DEF FSpec, UnenrollNeedsAAL2

-----------------------------------------------------------------------------
(***************************************************************************)
(* The two side by side.                                                   *)
(***************************************************************************)
LEMMA ImplementsAccounts == MCSpec => Spec
<1>1. MCInit => Init  BY DEF MCInit
<1>2. [MCNext]_<<vars, fvars>> => [Next]_vars  BY DEF MCNext
<1>3. QED  BY <1>1, <1>2, PTL DEF MCSpec, Spec

LEMMA ImplementsFactors == MCSpec => FSpec
<1>1. MCInit => FInit  BY DEF MCInit
<1>2. [MCNext]_<<vars, fvars>> => [FNext]_fvars  BY DEF MCNext
<1>3. QED  BY <1>1, <1>2, PTL DEF MCSpec, FSpec

(* Mailed codes open one session and TOTP codes lift one, with the caps on  *)
(* guesses and challenges.                                                 *)
THEOREM CodesOpenOnceHolds == MCSpec => []CodesOpenOnce
<1>1. OneTimeTokens /\ CodesAreSpent => CodesOpenOnce  BY DEF CodesOpenOnce
<1>2. QED  BY <1>1, ImplementsAccounts, ImplementsFactors, OneTimeTokensHold, CodesAreSpentHolds, PTL

(* The last way to sign in, the first factor and a verified factor change   *)
(* hands only under their guards.                                          *)
THEOREM MethodsAreGuardedHolds == MCSpec => MethodsAreGuarded
BY ImplementsAccounts, ImplementsFactors, UnlinkKeepsMethodHolds, FirstFactorOnlyHolds, UnenrollNeedsAAL2Holds, PTL
   DEF MethodsAreGuarded
=============================================================================
