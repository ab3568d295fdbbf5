------------------------------- MODULE Storage -------------------------------
(* Objects: a metadata row in storage.objects and bytes in an object store,  *)
(* written in separate steps by the handlers of storage_v1_handler.go and    *)
(* storage_handler.go.  A request runs one statement or one store call per   *)
(* step; row locks last until its transaction ends.  Row level security is   *)
(* a set of permitted commands per bucket, for any row or for one's own.     *)
EXTENDS Naturals

CONSTANTS
  Key, BucketOf(_),      \* object keys, and the bucket each one is in
  User, Anon, Service,   \* callers
  Slot,                  \* request slots, each used once
  Setups,                \* configurations: [ops, public, all, own, grants], Init picks one
  Stocks,                \* initial stores: rows by key; their bytes are in place
  None, Torn

VARIABLES rows, bytes, lock, tokens, active, job, conf, unsafe
store == <<rows, bytes, lock>>
svars == <<rows, bytes, lock, tokens, active, job, conf, unsafe>>

Caller == User \cup {Anon, Service}
Command == {"select", "insert", "update", "delete"}
Bucket == {BucketOf(k) : k \in Key}
(* The row names its uploader and, in size and metadata, the content: the    *)
(* request that brought it, 0 for what was there before.                     *)
ObjectRow == [owner : User \cup {None}, ver : Slot \cup {0}]
(* Signed URLs: for a download, a download with a transform or an upload,    *)
(* which carries the minter's id; epoch: the key it is signed with.          *)
Token == [for : {"download", "render", "upload"}, key : Key, by : Caller, upsert : BOOLEAN, epoch : 0..1]
Operation == {"upload", "remove", "empty", "move", "copy", "sign", "signMany", "signUpload", "uploadSigned",
              "presign", "get"}
(* None is nobody, no key, no row, no token and no content; the rows of an   *)
(* initial store describe the bytes that are in place.                       *)
ASSUME StorageAssumption ==
  /\ Slot \subseteq Nat \ {0}
  /\ None \notin Key \cup ObjectRow \cup Token \cup Slot \cup {0, Torn, Anon, Service} \cup User
  /\ {Anon, Service} \cap User = {} /\ Anon # Service
  /\ Stocks \subseteq [Key -> {None} \cup {r \in ObjectRow : r.ver = 0}]
  /\ \A c \in Setups : c.grants \subseteq Token /\ c.ops \subseteq Operation \cup {"rotate"}

NoJob == [op |-> "none", pc |-> "idle", by |-> None, key |-> None, to |-> None, mode |-> "insert",
          row |-> None, wipe |-> {}, tok |-> None, can |-> FALSE]

On(q, op, pc) == job[q].op = op /\ job[q].pc = pc
Step(q, j) == job' = [job EXCEPT ![q] = j]
Goto(q, pc) == Step(q, [job[q] EXCEPT !.pc = pc])
End(q) == Step(q, [NoJob EXCEPT !.pc = "done"])
uploadedBy(c) == IF c \in User THEN c ELSE None

(* What a request is still going to do to a key, and whether it does it      *)
(* without holding the row: bytes deleted after the commit, the source of a  *)
(* copy, and a signed upload, which stores the bytes before the row.         *)
Work(j) == IF j.pc \in {"idle", "done", "bytes"} \/ j.op \in {"get", "sign", "signMany", "signUpload"} THEN {}
           ELSE ({j.key, j.to} \ {None}) \cup j.wipe
Loose(j) == IF j.op \in {"remove", "empty", "uploadSigned", "presign", "move", "copy"} THEN Work(j) ELSE {}
Clash == {k \in Key : \E p, q \in Slot : p # q /\ k \in Loose(job[p]) /\ k \in Work(job[q])}
Mark(K) == unsafe' = unsafe \cup K \cup Clash'

----------------------------------------------------------------------------
(* Authorisation.                                                            *)

hasRLS(b) == conf.all[b] \cup conf.own[b] # {}
rlsOn == \E b \in Bucket : hasRLS(b)
(* anon reaches only buckets whose own policies decide. *)
anonMayReach(c, k) == c # Anon \/ hasRLS(BucketOf(k))
(* Postgres under the caller's role: no policy anywhere leaves RLS off. *)
may(c, cmd, k, owner) ==
  \/ c = Service \/ ~rlsOn
  \/ cmd \in conf.all[BucketOf(k)]
  \/ c \in User /\ owner = c /\ cmd \in conf.own[BucketOf(k)]
visible(c, k) == rows[k] # None /\ may(c, "select", k, rows[k].owner)
changeable(c, cmd, k) == visible(c, k) /\ may(c, cmd, k, rows[k].owner)
(* writeObjectRow: a plain INSERT, an upsert or an UPDATE; TRUE if the row   *)
(* may be written, FALSE for the 404, 409 and 403 of uploadWriteError.       *)
writeObjectRow(c, k, mode) ==
  CASE mode = "insert" -> rows[k] = None /\ may(c, "insert", k, uploadedBy(c))
    [] mode = "upsert" -> /\ may(c, "insert", k, uploadedBy(c))
                          /\ rows[k] # None => changeable(c, "update", k)
    [] mode = "update" -> /\ changeable(c, "update", k)
                          /\ may(c, "update", k, uploadedBy(c)) /\ may(c, "select", k, uploadedBy(c))

\* Mutant: the row is not locked.
freeAlways(K) == TRUE
(* A write to a row another transaction has written waits for it. *)
free(K) == \A k \in K : lock[k] = 0

----------------------------------------------------------------------------
(* Uploads: probe in a rolled-back transaction, spool the body, write the    *)
(* row, store the bytes, commit.                                             *)
readUpload(q) ==
  /\ job[q].pc = "start"
  /\ job[q].op = "upload"
  /\ LET j == job[q] IN
       IF ~anonMayReach(j.by, j.key) THEN End(q)
       ELSE /\ free({j.key})
            /\ \/ End(q)                              \* bad body, content type, size
               \/ IF writeObjectRow(j.by, j.key, j.mode) THEN Goto(q, "write") ELSE End(q)
  /\ Mark({}) /\ UNCHANGED <<store, tokens, active, conf>>

doUpload(q) ==
  /\ On(q, "upload", "write")
  /\ LET j == job[q] IN
       /\ free({j.key})
       /\ IF writeObjectRow(j.by, j.key, j.mode)
            THEN /\ lock' = [lock EXCEPT ![j.key] = q]
                 /\ Step(q, [j EXCEPT !.pc = "put", !.row = [owner |-> uploadedBy(j.by), ver |-> q]])
            ELSE End(q) /\ UNCHANGED lock
  /\ Mark({}) /\ UNCHANGED <<rows, bytes, tokens, active, conf>>

(* A failed write may have stored nothing, part of the file or all of it.    *)
Unlock(q) == lock' = [k \in Key |-> IF lock[k] = q THEN 0 ELSE lock[k]]

\* Mutant: an early return without the rollback.
AbandonKeepsLock(q, k, v) ==
  \E b \in {bytes[k], Torn, v} : /\ bytes' = [bytes EXCEPT ![k] = b]
                                 /\ End(q) /\ UNCHANGED lock /\ Mark({k})
Abandon(q, k, v) ==
  \E b \in {bytes[k], Torn, v} : /\ bytes' = [bytes EXCEPT ![k] = b]
                                 /\ Unlock(q) /\ End(q) /\ Mark({k})
Upload(q) ==
  /\ On(q, "upload", "put")
  /\ \/ /\ bytes' = [bytes EXCEPT ![job[q].key] = q]
        /\ Goto(q, "commit") /\ Mark({}) /\ UNCHANGED lock
     \/ Abandon(q, job[q].key, q)
  /\ UNCHANGED <<rows, tokens, active, conf>>

WipeNext(q, K) == Step(q, [job[q] EXCEPT !.pc = "wipe", !.wipe = K, !.key = None, !.to = None])
(* An ambiguous commit may have applied, so storage is left alone. *)
Written(j) == CASE j.op = "move" -> [rows EXCEPT ![j.key] = None, ![j.to] = j.row]
                [] j.op = "copy" -> [rows EXCEPT ![j.to] = j.row]
                [] OTHER -> [rows EXCEPT ![j.key] = j.row]
Commit(q) ==
  /\ job[q].pc = "commit"
  /\ LET j == job[q] IN
       \/ /\ rows' = Written(j)
          /\ IF j.op = "move" THEN WipeNext(q, {j.key}) ELSE End(q)
          /\ Mark({})
       \/ /\ rows' \in {rows, Written(j)}
          /\ End(q) /\ Mark({j.key, j.to} \ {None})
  /\ Unlock(q)
  /\ UNCHANGED <<bytes, tokens, active, conf>>

----------------------------------------------------------------------------
\* Mutant: the rows are deleted as the owner.
deletableAny(c, K) == {k \in K : rows[k] # None}
(* Removal: rows first, in one statement under the caller's policies; bytes  *)
(* after the commit, one by one, detached from the request.                  *)
deletable(c, K) == {k \in K : changeable(c, "delete", k)}
deleteRows(q, K) ==
  LET D == deletable(job[q].by, K) IN
    /\ free(D)
    /\ rows' = [k \in Key |-> IF k \in D THEN None ELSE rows[k]]
    /\ IF D = {} THEN End(q) ELSE WipeNext(q, D)
    /\ Mark({}) /\ UNCHANGED <<bytes, lock, tokens, active, conf>>
deleteKeys(q) ==
  /\ On(q, "remove", "start")
  /\ deleteRows(q, {k \in {job[q].key, job[q].to} \ {None} : anonMayReach(job[q].by, k)})
emptyBucket(q) ==
  /\ On(q, "empty", "start")
  /\ deleteRows(q, {k \in Key : BucketOf(k) = BucketOf(job[q].key)})

(* A failure is only logged. *)
deleteBytes(q) ==
  /\ job[q].pc = "wipe"
  /\ \E k \in job[q].wipe :
       /\ IF job[q].wipe = {k} THEN End(q) ELSE Step(q, [job[q] EXCEPT !.wipe = @ \ {k}])
       /\ \/ bytes' = [bytes EXCEPT ![k] = None] /\ Mark({})
          \/ UNCHANGED bytes /\ Mark({k})
  /\ UNCHANGED <<rows, lock, tokens, active, conf>>

----------------------------------------------------------------------------
(* Move: one UPDATE of the row, the bytes copied before the commit and the   *)
(* source deleted after it.  Copy: INSERT ... SELECT, always an upsert, owned *)
(* by the caller; its source is not locked.                                  *)
movable(c, k, to) ==
  /\ changeable(c, "update", k) /\ rows[to] = None
  /\ may(c, "update", to, rows[k].owner) /\ may(c, "select", to, rows[k].owner)
copiable(c, k, to) == visible(c, k) /\ writeObjectRow(c, to, "upsert")
moveObject(q) ==
  /\ On(q, "move", "start")
  /\ LET j == job[q] IN
       IF j.key = j.to \/ ~(anonMayReach(j.by, j.key) /\ anonMayReach(j.by, j.to)) THEN End(q) /\ UNCHANGED lock
       ELSE /\ free({j.key, j.to})
            /\ IF movable(j.by, j.key, j.to)
                 THEN /\ lock' = [lock EXCEPT ![j.key] = q, ![j.to] = q]
                      /\ Step(q, [j EXCEPT !.pc = "copyBytes", !.row = rows[j.key]])
                 ELSE End(q) /\ UNCHANGED lock
  /\ Mark({}) /\ UNCHANGED <<rows, bytes, tokens, active, conf>>
copyObject(q) ==
  /\ On(q, "copy", "start")
  /\ LET j == job[q] IN
       IF j.key = j.to \/ ~(anonMayReach(j.by, j.key) /\ anonMayReach(j.by, j.to)) THEN End(q) /\ UNCHANGED lock
       ELSE /\ free({j.to})
            /\ IF copiable(j.by, j.key, j.to)
                 THEN /\ lock' = [lock EXCEPT ![j.to] = q]
                      /\ Step(q, [j EXCEPT !.pc = "copyBytes",
                                            !.row = [rows[j.key] EXCEPT !.owner = uploadedBy(j.by)]])
                 ELSE End(q) /\ UNCHANGED lock
  /\ Mark({}) /\ UNCHANGED <<rows, bytes, tokens, active, conf>>
Copy(q) ==
  /\ job[q].pc = "copyBytes"
  /\ LET j == job[q] IN
       \/ /\ bytes[j.key] # None
          /\ bytes' = [bytes EXCEPT ![j.to] = bytes[j.key]]
          /\ Goto(q, "commit") /\ Mark(IF j.key \in unsafe THEN {j.to} ELSE {}) /\ UNCHANGED lock
       \/ Abandon(q, j.to, bytes[j.key])
  /\ UNCHANGED <<rows, tokens, active, conf>>

----------------------------------------------------------------------------
(* Signed URLs: the token is the grant.  A download token is minted for a    *)
(* row the caller sees; an upload token after a probe of the write, with the *)
(* x-upsert header of the minting request.  Both are signed with the key that *)
(* is active then, and verified with the one active now.                     *)
sign(q, for, K) ==
  /\ tokens' = tokens \cup {[for |-> for, key |-> k, by |-> job[q].by,
                             upsert |-> job[q].mode = "upsert", epoch |-> active] : k \in K}
  /\ End(q)
  /\ Mark({}) /\ UNCHANGED <<store, active, conf>>
reachable(c, K) == {k \in K : anonMayReach(c, k) /\ visible(c, k)}
createSignedURL(q) ==
  /\ On(q, "sign", "start")
  /\ sign(q, job[q].mode, reachable(job[q].by, {job[q].key}))
createSignedURLs(q) ==
  /\ On(q, "signMany", "start")
  /\ sign(q, "download", reachable(job[q].by, Key))
createSignedUploadURL(q) ==
  /\ On(q, "signUpload", "start")
  /\ LET j == job[q] IN
       /\ free({j.key})
       /\ sign(q, "upload", {k \in {j.key} : anonMayReach(j.by, k) /\ writeObjectRow(j.by, k, j.mode)})
verifyTokenAnyKey(t, for, k) == t # None /\ t.for = for /\ t.epoch = active
verifyToken(t, for, k) == t # None /\ t.for = for /\ t.key = k /\ t.epoch = active
(* A render route takes a plain download token too. *)
verifyRenderToken(t, k) == verifyToken(t, "render", k) \/ verifyToken(t, "download", k)
verifyUploadToken(t, k) == verifyToken(t, "upload", k)

(* The redemption stores the bytes first and then the row, as service_role   *)
(* and with no transaction around both.                                      *)
uploadToSignedURL(q) ==
  /\ On(q, "uploadSigned", "start")
  /\ IF verifyUploadToken(job[q].tok, job[q].key)
       THEN Goto(q, "putFirst") \/ End(q)       \* the body may be refused
       ELSE End(q)
  /\ Mark({}) /\ UNCHANGED <<store, tokens, active, conf>>
PutFirst(q) ==
  /\ On(q, "uploadSigned", "putFirst")
  /\ \/ /\ bytes' = [bytes EXCEPT ![job[q].key] = q]
        /\ Goto(q, "record") /\ Mark({}) /\ UNCHANGED lock
     \/ Abandon(q, job[q].key, q)
  /\ UNCHANGED <<rows, tokens, active, conf>>
RecordSigned(q) ==
  /\ On(q, "uploadSigned", "record")
  /\ LET k == job[q].key IN
       \/ /\ free({k})
          /\ rows' = [rows EXCEPT ![k] = [owner |-> uploadedBy(job[q].tok.by), ver |-> q]]
          /\ End(q) /\ Mark({})
       \/ End(q) /\ Mark({k}) /\ UNCHANGED rows
  /\ UNCHANGED <<bytes, lock, tokens, active, conf>>

(* storage_handler.go: a presigned PUT, then a row of size 0; the client     *)
(* stores the bytes later or never.                                          *)
handleSignUpload(q) ==
  /\ On(q, "presign", "start")
  /\ LET j == job[q] IN
       /\ free({j.key})
       /\ IF anonMayReach(j.by, j.key) /\ writeObjectRow(j.by, j.key, "insert")
            THEN /\ rows' = [rows EXCEPT ![j.key] = [owner |-> uploadedBy(j.by), ver |-> q]]
                 /\ Goto(q, "client")
            ELSE End(q) /\ UNCHANGED rows
  /\ Mark({}) /\ UNCHANGED <<bytes, lock, tokens, active, conf>>
ClientPut(q) ==
  /\ On(q, "presign", "client")
  /\ End(q)
  /\ \/ bytes' = [bytes EXCEPT ![job[q].key] = q] /\ Mark({})
     \/ UNCHANGED bytes /\ Mark({job[q].key})
  /\ UNCHANGED <<rows, lock, tokens, active, conf>>

----------------------------------------------------------------------------
(* Reads: the row under the caller's policies or, for a public bucket and    *)
(* for a token, as service_role; then the bytes, or for info and HEAD only   *)
(* the row.  can is what the configuration and the tokens entitle the caller *)
(* to, whichever route he takes.                                             *)
Route == {"public", "authenticated", "sign", "render", "info", "head", "presigned"}
entitled(j) ==
  \/ BucketOf(j.key) \in conf.public
  \/ anonMayReach(j.by, j.key) /\ visible(j.by, j.key)
  \/ \E t \in tokens : t.for # "upload" /\ t.key = j.key
publicOnly(j) == BucketOf(j.key) \in conf.public
callerMayReach(j) == anonMayReach(j.by, j.key) /\ visible(j.by, j.key)
redeemSignedURL(j) == verifyToken(j.tok, "download", j.key)
redeemRenderURL(j) == verifyRenderToken(j.tok, j.key)
objectInfo(j) == publicOnly(j) \/ callerMayReach(j)
headObject(j) == publicOnly(j) \/ callerMayReach(j)
handleSignDownload(j) == publicOnly(j) \/ callerMayReach(j)
objectGetDispatch(j) ==
  /\ rows[j.key] # None
  /\ CASE j.mode = "public" -> publicOnly(j)
       [] j.mode = "authenticated" -> callerMayReach(j)
       [] j.mode = "sign" -> redeemSignedURL(j)
       [] j.mode = "render" -> redeemRenderURL(j)
       [] j.mode = "info" -> objectInfo(j)
       [] j.mode = "head" -> headObject(j)
       [] j.mode = "presigned" -> handleSignDownload(j)
serveObject(q) ==
  /\ On(q, "get", "start")
  /\ IF objectGetDispatch(job[q]) THEN Step(q, [job[q] EXCEPT !.pc = "bytes", !.can = entitled(job[q])]) ELSE End(q)
  /\ Mark({}) /\ UNCHANGED <<store, tokens, active, conf>>
(* Bytes that are gone answer 404. *)
Download(q) ==
  /\ On(q, "get", "bytes")
  /\ End(q)
  /\ Mark({}) /\ UNCHANGED <<store, tokens, active, conf>>

----------------------------------------------------------------------------
(* A request arrives; the signing key is rotated.                            *)
Modes(op) == CASE op = "upload" -> {"insert", "upsert", "update"}
               [] op = "sign" -> {"download", "render"}
               [] op = "signUpload" -> {"insert", "upsert"}
               [] op = "get" -> Route
               [] OTHER -> {"insert"}
Arrives(q, op) ==
  /\ job[q].pc = "idle"
  /\ \E c \in Caller, k \in Key, m \in Modes(op),
        to \in IF op \in {"move", "copy"} THEN Key ELSE IF op = "remove" THEN Key \cup {None} ELSE {None},
        t \in IF op \in {"get", "uploadSigned"} THEN tokens \cup {None} ELSE {None} :
       /\ op = "empty" => c # Anon
       /\ op = "uploadSigned" => c = Anon /\ t # None
       /\ op = "get" => (m \in {"sign", "render"}) = (t # None)
       /\ Step(q, [job[q] EXCEPT !.pc = "start", !.op = op, !.by = c, !.key = k, !.to = to, !.mode = m, !.tok = t])
  /\ Mark({}) /\ UNCHANGED <<store, tokens, active, conf>>
RotateKey == /\ "rotate" \in conf.ops /\ active = 0 /\ active' = 1
             /\ UNCHANGED <<store, tokens, job, conf, unsafe>>

SInit ==
  /\ conf \in Setups
  /\ rows \in Stocks
  /\ bytes = [k \in Key |-> IF rows[k] = None THEN None ELSE 0]
  /\ lock = [k \in Key |-> 0]
  /\ tokens = conf.grants /\ active = 0 /\ unsafe = {}
  /\ job = [q \in Slot |-> NoJob]

Serve(q) ==
  \/ readUpload(q) \/ doUpload(q) \/ Upload(q) \/ Commit(q) \/ deleteKeys(q) \/ emptyBucket(q) \/ deleteBytes(q)
  \/ moveObject(q) \/ copyObject(q) \/ Copy(q) \/ createSignedURL(q) \/ createSignedURLs(q) \/ createSignedUploadURL(q)
  \/ uploadToSignedURL(q) \/ PutFirst(q) \/ RecordSigned(q) \/ handleSignUpload(q)
  \/ serveObject(q) \/ Download(q)
SNext == \/ \E q \in Slot : Serve(q) \/ ClientPut(q) \/ \E op \in conf.ops \ {"rotate"} : Arrives(q, op)
         \/ RotateKey
SFair == \A q \in Slot : WF_svars(Serve(q))
SSpec == SInit /\ [][SNext]_svars /\ SFair

----------------------------------------------------------------------------
(* Types; a lock belongs to a request that is between its write and its      *)
(* commit.                                                                   *)
StorageTypeOK ==
  /\ \A k \in Key : rows[k] = None \/ rows[k] \in ObjectRow
  /\ \A k \in Key : bytes[k] \in {None, Torn, 0} \cup Slot
  /\ \A k \in Key : lock[k] # 0 => job[lock[k]].pc \in {"put", "copyBytes", "commit"}
  /\ tokens \subseteq Token

(* Once no request works on a key, its row and its bytes agree: both absent, *)
(* or the bytes are the content the row describes.  Uploads, upserts and     *)
(* updates of one key keep this in any order, because the row is locked      *)
(* while the bytes are stored.  Excused (unsafe) are keys whose store call   *)
(* or commit failed, and keys two requests worked on at once of which one    *)
(* touched the bytes without the row's lock: a removal, a move, the source   *)
(* of a copy, a signed upload or a presigned PUT; what is copied from such a key is excused too. *)
RowAndBytesAgree ==
  \A k \in Key \ unsafe :
    (\A q \in Slot : k \notin Work(job[q])) =>
      IF rows[k] = None THEN bytes[k] = None ELSE bytes[k] = rows[k].ver

(* Whatever the route, bytes are read only for a caller entitled to them     *)
(* when the row was checked, and a row changes or goes only by a request     *)
(* whose caller the policies of its bucket let change it, or by a signed     *)
(* upload.  A plain upload never replaces a row.                             *)
AccessIsGranted ==
  [][/\ \A q \in Slot : On(q, "get", "bytes") => job[q].can
     /\ \A k \in Key : rows[k] # None /\ rows'[k] # rows[k] =>
          \E q \in Slot : LET j == job[q]  o == rows[k].owner IN
            /\ job'[q] # j
            /\ \/ j.op = "uploadSigned"
               \/ j.op \in {"remove", "empty"} /\ may(j.by, "delete", k, o)
               \/ j.op \in {"upload", "move", "copy"} /\ may(j.by, "update", k, o)
                    /\ ~(j.op = "upload" /\ j.mode = "insert")]_svars

(* No row lock is kept: every request is answered, also after a failed store *)
(* call or commit, and none waits for good behind another.                   *)
WritersReturn == \A q \in Slot : job[q].pc = "start" ~> job[q].pc \in {"client", "done"}

(* A signed upload minted without x-upsert does not replace an object.       *)
SignedUploadRespectsUpsert ==
  [][\A q \in Slot, k \in Key :
       On(q, "uploadSigned", "record") /\ k = job[q].key /\ rows[k] # None /\ rows'[k] # rows[k]
         => job[q].tok.upsert]_svars
=============================================================================
