------------------------------ MODULE Accounts ------------------------------
(* Accounts, the codes and links mailed to them, the OAuth and PKCE flows     *)
(* and the identities linked to them: the handlers of auth_handler.go over    *)
(* the statements of auth/service.go.  A request is a process that runs one   *)
(* statement per step, as the handlers do without a transaction, so two       *)
(* requests interleave between any two statements.  Time is an age per code:  *)
(* 0 within the resend cooldown, 1 valid, 2 expired.                          *)
EXTENDS Naturals, FiniteSets, TLC

CONSTANTS
  User, Email, Subject,   \* account ids, addresses, provider accounts
  Req,                    \* request slots, each used once
  MaxId,                  \* codes, states and links created in all
  MaxAttempts,            \* maxOTPAttempts
  Setups,                 \* configurations, with the operations in use: Init picks one
  Worlds,                 \* initial databases: [users, ident, tokens, flows]
  None

VARIABLES users, ident, tokens, flows, nextId, req, conf, proven, stale, opened, tries, landed
db == <<users, ident, tokens, flows, nextId>>
ghosts == <<proven, stale, opened, tries, landed>>
vars == <<db, req, conf, ghosts>>

Purpose == {"signup", "magiclink", "recovery", "reauthentication"}
Ops == {"signup", "anonymous", "otp", "recover", "resend", "reauth", "verifyCode", "verifyToken",
        "verifyGET", "authorize", "callback", "idtoken", "pkce", "linkStart", "unlink", "updateUser",
        "generateLink", "adminCreate", "adminUpdate", "adminDelete", "invite", "password"}
Target == {"none", "own", "foreign"}

(* A row of auth.users; session: it has a row in auth.refresh_tokens. *)
Account == [email : Email \cup {None}, verified : BOOLEAN, password : BOOLEAN,
            anon : BOOLEAN, banned : BOOLEAN, session : BOOLEAN]
NewAccount(e) == [email |-> e, verified |-> FALSE, password |-> FALSE,
                  anon |-> FALSE, banned |-> FALSE, session |-> FALSE]
(* A row of auth.one_time_tokens; code: it also carries six digits. *)
Token == [id : 1..MaxId, user : User, purpose : Purpose, code : BOOLEAN, email : Email \cup {None},
          mailed : Email \cup {None}, attempts : 0..MaxAttempts, age : 0..2]
(* A row of auth.flow_state: an OAuth state, or the code of a PKCE login. *)
Flow == [id : 1..MaxId, kind : {"oauth", "pkce"}, user : User \cup {None}, link : User \cup {None},
         pkce : BOOLEAN, to : Target, fresh : BOOLEAN]

(* A database the schema allows: its ids were handed out one by one.         *)
WellFormed(w) ==
  /\ w.users \in [User -> Account \cup {None}] /\ w.ident \in [Subject -> User \cup {None}]
  /\ \A s \in Subject : w.ident[s] # None => w.users[w.ident[s]] # None
  /\ w.tokens \subseteq Token /\ \A t \in w.tokens : w.users[t.user] # None
  /\ w.flows \subseteq Flow /\ \A f \in w.flows : f.kind = "pkce" => f.user # None
  /\ IsFiniteSet(w.tokens) /\ IsFiniteSet(w.flows)
  /\ \A s, t \in w.tokens : s.id = t.id => s = t
  /\ \A f, g \in w.flows : f.id = g.id => f = g
  /\ \A t \in w.tokens, f \in w.flows : t.id # f.id
  /\ \A x \in w.tokens \cup w.flows : x.id <= Cardinality(w.tokens) + Cardinality(w.flows)

ASSUME AccountsAssumption ==
  /\ MaxId \in Nat \ {0} /\ MaxAttempts \in Nat \ {0}
  /\ None \notin User \cup Email \cup Subject \cup Account
  /\ \A c \in Setups : c.ops \subseteq Ops
                     /\ {c.allowSignup, c.allowAnonymous, c.verifyEmail, c.urls} \subseteq BOOLEAN
  /\ \A w \in Worlds : WellFormed(w)

Idle == [op |-> "none", pc |-> "idle", email |-> None, user |-> None, id |-> 0, sub |-> None,
         ok |-> FALSE, purpose |-> "signup", to |-> "none", flow |-> None, claim |-> None, banned |-> FALSE, n |-> 0]

(* The record r with the fields of f in place of its own. *)
With(r, f) == [x \in DOMAIN r |-> IF x \in DOMAIN f THEN f[x] ELSE r[x]]
At(q, pc) == req[q].pc = pc
Do(q, op) == req[q].op = op /\ req[q].pc = "start"
Goto(q, pc, f) == req' = [req EXCEPT ![q] = [With(@, f) EXCEPT !.pc = pc]]
Finish(q) == req' = [req EXCEPT ![q] = [Idle EXCEPT !.pc = "done"]]
Existing == {u \in User : users[u] # None}
ByEmail(e) == {u \in Existing : users[u].email = e}
Unused == {u \in User : users[u] = None /\ \A q \in Req : req[q].user # u}
Set(u, row) == users' = [users EXCEPT ![u] = row]

(* auth.redirect_urls and the base URL decide where a session may be sent. *)
redirectAllowed(t) == t # "foreign"

\* Mutant: the stored address is not checked again.
oauthLandingStored(t) == IF t # "none" THEN t ELSE IF conf.urls THEN "own" ELSE "none"
oauthLanding(t) ==
  IF t # "none" /\ redirectAllowed(t) THEN t ELSE IF conf.urls THEN "own" ELSE "none"
resolveRedirect(t) == IF t # "none" /\ redirectAllowed(t) THEN t ELSE "own"

(* The session a login answers with: buildSession refuses a user whose row,  *)
(* as the request read it, is banned; the refresh token needs the row.       *)
GiveSession(q, u, to) ==
  /\ IF ~req[q].banned /\ users[u] # None
       THEN /\ Set(u, [users[u] EXCEPT !.session = TRUE])
            /\ opened' = IF req[q].op = "pkce" THEN opened ELSE [opened EXCEPT ![req[q].id] = @ + 1]
            /\ landed' = landed \cup {to}
       ELSE UNCHANGED <<users, opened, landed>>
  /\ Finish(q)
  /\ UNCHANGED <<ident, tokens, flows, nextId, conf, proven, stale, tries>>

buildSession(q) == At(q, "session") /\ GiveSession(q, req[q].user, req[q].to)

(* GetUserByID before the session is built. *)
GetUserByID(q) ==
  /\ At(q, "getUser")
  /\ LET u == req[q].user IN
       IF users[u] = None THEN Finish(q) ELSE Goto(q, "session", [banned |-> users[u].banned])
  /\ UNCHANGED <<db, conf, ghosts>>

(* INSERT INTO auth.users: email is UNIQUE, and NULL for anonymous users. *)
CreateUser(q, row, pc) ==
  IF row.email # None /\ ByEmail(row.email) # {}
    THEN Finish(q) /\ UNCHANGED users
    ELSE \E u \in Unused : /\ users' = [users EXCEPT ![u] = row]
                           /\ IF pc = "done" THEN Finish(q) ELSE Goto(q, pc, [user |-> u, banned |-> row.banned])

Vouch(u, e) == proven' = proven \cup {<<u, e>>}

(* A new row of auth.one_time_tokens, mailed to the address the request names. *)
InsertToken(q, purpose, code) ==
  /\ nextId <= MaxId
  /\ LET u == req[q].user IN
       IF users[u] = None
         THEN Finish(q) /\ UNCHANGED <<tokens, nextId>>
         ELSE /\ tokens' = tokens \cup {[id |-> nextId, user |-> u, purpose |-> purpose, code |-> code,
                                         email |-> IF code THEN req[q].email ELSE None,
                                         mailed |-> req[q].email, attempts |-> 0, age |-> 0]}
              /\ nextId' = nextId + 1
              /\ Finish(q)
  /\ UNCHANGED <<users, ident, flows, conf, ghosts>>

RecentOTPSent(u, purpose) == \E t \in tokens : t.user = u /\ t.purpose = purpose /\ t.age = 0

----------------------------------------------------------------------------
(* Sign-up.                                                                  *)

(* handleSignup: verify_email withholds the session until the link is used. *)
Signup(q) ==
  /\ Do(q, "signup")
  /\ IF ~conf.allowSignup THEN Finish(q) /\ UNCHANGED users
     ELSE CreateUser(q, [NewAccount(req[q].email) EXCEPT !.password = TRUE],
                     IF conf.verifyEmail THEN "sendVerification" ELSE "session")
  /\ UNCHANGED <<ident, tokens, flows, nextId, conf, ghosts>>

sendVerificationEmail(q) == At(q, "sendVerification") /\ InsertToken(q, "signup", FALSE)

SignupAnonymous(q) ==
  /\ Do(q, "anonymous")
  /\ IF ~(conf.allowSignup /\ conf.allowAnonymous) THEN Finish(q) /\ UNCHANGED users
     ELSE CreateUser(q, [NewAccount(None) EXCEPT !.anon = TRUE], "session")
  /\ UNCHANGED <<ident, tokens, flows, nextId, conf, ghosts>>

(* handlePasswordGrant: verify_email refuses an address not confirmed. *)
PasswordGrant(q) ==
  /\ Do(q, "password")
  /\ \E u \in ByEmail(req[q].email) \cup {None} :
       IF u = None \/ ~users[u].password \/ (conf.verifyEmail /\ ~users[u].verified)
         THEN (u = None => ByEmail(req[q].email) = {}) /\ Finish(q)
         ELSE Goto(q, "session", [user |-> u, banned |-> users[u].banned])
  /\ UNCHANGED <<db, conf, ghosts>>

----------------------------------------------------------------------------
(* Codes and links by mail.                                                  *)

\* Mutant: disable_signup is not looked at for codes.
mayCreateAlways(r) == r.op \in {"otp", "generateLink", "invite"}
(* handleOTP creates the account when asked to and sign-up is allowed,       *)
(* generate_link for sign-up and invite always may.                          *)
mayCreate(r) == \/ r.op = "otp" /\ r.ok /\ conf.allowSignup
                \/ r.op = "generateLink" /\ r.purpose = "signup"
                \/ r.op = "invite"
(* They, handleRecover and handleResend first read the user of the address.  *)
GetUserIDByEmail(q) ==
  /\ req[q].op \in {"otp", "recover", "resend", "generateLink", "invite"} /\ At(q, "start")
  /\ LET S == ByEmail(req[q].email)  r == req[q] IN
       IF S # {}
         THEN \E u \in S :
                CASE r.op = "invite" -> Finish(q)
                  [] r.op = "generateLink" -> Goto(q, "insert", [user |-> u])
                  [] r.op = "resend" /\ r.purpose = "signup" -> Goto(q, "resendVerified", [user |-> u])
                  [] OTHER -> Goto(q, "cooldown", [user |-> u])
         ELSE IF mayCreate(r) THEN Goto(q, "create", <<>>) ELSE Finish(q)
  /\ UNCHANGED <<db, conf, ghosts>>

(* An address taken meanwhile ends the request. *)
CreateForMail(q) ==
  /\ At(q, "create")
  /\ CreateUser(q, [NewAccount(req[q].email) EXCEPT !.password = (req[q].op = "generateLink" /\ req[q].ok)],
                IF req[q].op = "otp" THEN "cooldown"
                ELSE IF req[q].op = "invite" THEN "sendVerification" ELSE "insert")
  /\ UNCHANGED <<ident, tokens, flows, nextId, conf, ghosts>>

(* handleResend sends nothing once the address is confirmed. *)
ResendVerified(q) ==
  /\ At(q, "resendVerified")
  /\ LET u == req[q].user IN
       IF users[u] # None /\ users[u].verified THEN Finish(q) ELSE Goto(q, "cooldown", <<>>)
  /\ UNCHANGED <<db, conf, ghosts>>

(* otpCooldown: read first, inserted later. *)
otpCooldown(q) ==
  /\ At(q, "cooldown")
  /\ IF RecentOTPSent(req[q].user, req[q].purpose) THEN Finish(q)
     ELSE Goto(q, IF req[q].op = "resend" THEN "purge" ELSE "insert", <<>>)
  /\ UNCHANGED <<db, conf, ghosts>>

DeleteUserTokensByPurpose(q) ==
  /\ At(q, "purge")
  /\ tokens' = {t \in tokens : ~(t.user = req[q].user /\ t.purpose = req[q].purpose)}
  /\ Goto(q, "insert", <<>>)
  /\ UNCHANGED <<users, ident, flows, nextId, conf, ghosts>>

(* handleOTP, handleResend and handleReauthenticate add six digits. *)
CreateToken(q) ==
  /\ At(q, "insert")
  /\ InsertToken(q, req[q].purpose, req[q].op \in {"otp", "resend", "reauth"})

(* handleReauthenticate: a code for the signed-in user's own address. *)
Reauthenticate(q) ==
  /\ Do(q, "reauth")
  /\ LET u == req[q].user IN
       IF users[u] = None \/ (users[u] # None /\ users[u].email = None)
         THEN Finish(q)
         ELSE Goto(q, "insert", [email |-> users[u].email, purpose |-> "reauthentication"])
  /\ UNCHANGED <<db, conf, ghosts>>

purposeAllowed(purpose, type) ==
  purpose \in (IF type = "recovery" THEN {"recovery"} ELSE {"signup", "magiclink"})

\* Mutant: <= for < in the attempt cap.
ReserveOneMore(T) == {t \in T : t.attempts <= MaxAttempts}
(* VerifyOTP with six digits: the attempt is spent on the newest code of the *)
(* address, whatever its purpose, before the digits are compared.            *)
Reserve(T) == {t \in T : t.attempts < MaxAttempts}
Newest(e) == {t \in tokens : t.code /\ t.email = e /\ \A s \in tokens : s.code /\ s.email = e => s.id <= t.id}
VerifyCode(q) ==
  /\ Do(q, "verifyCode")
  /\ LET C == Reserve(Newest(req[q].email)) IN
       IF C = {} THEN Finish(q) /\ UNCHANGED <<tokens, tries>>
       ELSE \E t \in C :
              /\ tokens' = (tokens \ {t}) \cup {[t EXCEPT !.attempts = @ + 1]}
              /\ tries' = [tries EXCEPT ![t.id] = @ + 1]
              /\ IF t.age = 2 THEN Goto(q, "drop", [id |-> t.id])
                 ELSE IF ~req[q].ok THEN Finish(q)
                 ELSE IF ~purposeAllowed(t.purpose, req[q].purpose) THEN Finish(q)
                 ELSE Goto(q, "consume", [id |-> t.id, user |-> t.user, purpose |-> t.purpose])
  /\ UNCHANGED <<users, ident, flows, nextId, conf, proven, stale, opened, landed>>

(* VerifyOTP with the opaque token, and PeekOneTimeToken of handleVerifyGET. *)
VerifyToken(q) ==
  /\ Do(q, "verifyToken") \/ Do(q, "verifyGET")
  /\ LET C == {t \in Reserve(tokens) : t.id = req[q].id} IN
       IF C = {} THEN Finish(q)
       ELSE \E t \in C :
              IF t.age = 2 THEN Goto(q, "drop", <<>>)
              ELSE IF req[q].op = "verifyToken" /\ ~purposeAllowed(t.purpose, req[q].purpose) THEN Finish(q)
              ELSE Goto(q, "consume", [user |-> t.user,
                                       ok |-> t.purpose = "recovery" \/ (req[q].op = "verifyGET" /\ req[q].purpose = "recovery"),
                                       purpose |-> t.purpose])
  /\ UNCHANGED <<db, conf, ghosts>>

DropExpired(q) ==
  /\ At(q, "drop")
  /\ tokens' = {t \in tokens : t.id # req[q].id}
  /\ Finish(q)
  /\ UNCHANGED <<users, ident, flows, nextId, conf, ghosts>>

(* Single use: only the request whose DELETE hits the row goes on.  POST      *)
(* marks the address for sign-up and magic-link codes and answers with a     *)
(* session; GET answers with a session for recovery links and marks the      *)
(* address for any other.                                                    *)
ConsumeToken(q) ==
  /\ At(q, "consume")
  /\ tokens' = {t \in tokens : t.id # req[q].id}
  /\ LET r == req[q]
         T == {t \in tokens : t.id = r.id} IN
       IF T = {} THEN Finish(q)
       ELSE \E t \in T :
              IF r.op = "verifyGET"
                THEN Goto(q, IF r.ok THEN "getUser" ELSE "mark",
                          [email |-> t.mailed, to |-> IF r.ok THEN resolveRedirect(r.to) ELSE "none"])
                ELSE Goto(q, IF r.purpose \in {"signup", "magiclink"} THEN "mark" ELSE "getUser",
                          [email |-> t.mailed])
  /\ UNCHANGED <<users, ident, flows, nextId, conf, ghosts>>

(* The link was mailed to the address of the request's token. *)
MarkEmailVerified(q) ==
  /\ At(q, "mark")
  /\ LET u == req[q].user IN
       IF users[u] = None THEN UNCHANGED <<users, proven, stale>>
       ELSE /\ Set(u, [users[u] EXCEPT !.verified = TRUE])
            /\ Vouch(u, req[q].email)
            /\ stale' = IF req[q].email = users[u].email THEN stale ELSE stale \cup {u}
  /\ IF req[q].op = "verifyGET" THEN Finish(q) ELSE Goto(q, "getUser", <<>>)
  /\ UNCHANGED <<ident, tokens, flows, nextId, conf, opened, tries, landed>>

----------------------------------------------------------------------------
(* OAuth, ID tokens and PKCE.                                                *)

InsertFlow(q, link, pkce, to) ==
  /\ nextId <= MaxId
  /\ \E old \in SUBSET {g \in flows : ~g.fresh} :     \* the trim of day-old rows
       flows' = (flows \ old) \cup {[id |-> nextId, kind |-> "oauth", user |-> None, link |-> link,
                                     pkce |-> pkce, to |-> to, fresh |-> TRUE]}
  /\ nextId' = nextId + 1
  /\ Finish(q)
  /\ UNCHANGED <<users, ident, tokens, conf>>

(* A redirect the allowlist refuses is never stored by handleAuthorize.      *)
Authorize(q) ==
  /\ Do(q, "authorize")
  /\ IF redirectAllowed(req[q].to)
       THEN InsertFlow(q, None, req[q].ok, req[q].to)
       ELSE Finish(q) /\ UNCHANGED <<db, conf>>
  /\ UNCHANGED ghosts

(* handleLinkIdentity stores what it is given. *)
LinkStart(q) ==
  /\ Do(q, "linkStart")
  /\ InsertFlow(q, req[q].user, FALSE, req[q].to)
  /\ UNCHANGED ghosts

(* The state is deleted and read at once; a link must come back to the       *)
(* browser that holds its cookie; then the provider may still refuse.        *)
ConsumeOAuthFlowState(q) ==
  /\ Do(q, "callback")
  /\ LET F == {f \in flows : f.kind = "oauth" /\ f.id = req[q].id} IN
       /\ flows' = flows \ F
       /\ \/ Finish(q)
          \/ \E f \in F :
               /\ f.fresh
               /\ IF f.link = None THEN Goto(q, "upsert", [flow |-> f])
                  ELSE /\ req[q].purpose = "signup"    \* the cookie equals the state
                       /\ Goto(q, "link", [flow |-> f, user |-> f.link])
  /\ UNCHANGED <<users, ident, tokens, nextId, conf, ghosts>>

(* handleIDTokenGrant, once oidc.Verify has accepted the token. *)
IDTokenGrant(q) ==
  /\ Do(q, "idtoken")
  /\ Goto(q, "upsert", <<>>) \/ Finish(q)
  /\ UNCHANGED <<db, conf, ghosts>>

(* UpsertOAuthUser: a linked provider account needs no e-mail.               *)
UpsertOAuthUser(q) ==
  /\ At(q, "upsert")
  /\ LET u == ident[req[q].sub] IN
       IF u # None THEN Goto(q, "record", [user |-> u, banned |-> users[u].banned])
       ELSE IF req[q].ok THEN Goto(q, "byEmail", <<>>)
       ELSE Finish(q)
  /\ UNCHANGED <<db, conf, ghosts>>

(* Someone can already sign in to the account. *)
claimed(u) == users[u].password \/ users[u].anon \/ users[u].session \/ \E s \in Subject : ident[s] = u

(* linkOrCreateOAuthUser, also after a lost insert race ("rejudge").         *)
linkOrCreateOAuthUser(q) ==
  /\ At(q, "byEmail") \/ At(q, "rejudge")
  /\ LET S == ByEmail(req[q].email) IN
       IF S = {}
         THEN IF At(q, "byEmail") /\ conf.allowSignup THEN Goto(q, "oauthInsert", <<>>) ELSE Finish(q)
         ELSE \E u \in S :
                CASE users[u].verified -> Goto(q, "record", [user |-> u, banned |-> users[u].banned])
                  [] ~users[u].verified /\ claimed(u) -> Finish(q)
                  [] OTHER -> Goto(q, "oauthMark", [user |-> u])
  /\ UNCHANGED <<db, conf, ghosts>>

OAuthInsert(q) ==
  /\ At(q, "oauthInsert")
  /\ IF ByEmail(req[q].email) # {}
       THEN Goto(q, "rejudge", <<>>) /\ UNCHANGED <<users, proven>>
       ELSE \E u \in Unused :
              /\ users' = [users EXCEPT ![u] = [NewAccount(req[q].email) EXCEPT !.verified = TRUE]]
              /\ Vouch(u, req[q].email)
              /\ Goto(q, "record", [user |-> u, banned |-> FALSE])
  /\ UNCHANGED <<ident, tokens, flows, nextId, conf, stale, opened, tries, landed>>

(* The UPDATE names the row by id: its address may have changed since.       *)
OAuthMark(q) ==
  /\ At(q, "oauthMark")
  /\ LET u == req[q].user IN
       IF users[u] = None THEN Finish(q) /\ UNCHANGED <<users, proven, stale>>
       ELSE /\ Set(u, [users[u] EXCEPT !.verified = TRUE])
            /\ Vouch(u, req[q].email)
            /\ stale' = IF req[q].email = users[u].email THEN stale ELSE stale \cup {u}
            /\ Goto(q, "record", [banned |-> users[u].banned])
  /\ UNCHANGED <<ident, tokens, flows, nextId, conf, opened, tries, landed>>

(* ON CONFLICT keeps the owner of a provider account that is linked already; *)
(* an account deleted meanwhile gets no row and the error is dropped.        *)
Linked(s, u) == IF ident[s] = None /\ users[u] # None THEN [ident EXCEPT ![s] = u] ELSE ident
RecordIdentity(q) ==
  /\ At(q, "record")
  /\ ident' = Linked(req[q].sub, req[q].user)
  /\ IF req[q].flow # None /\ req[q].flow.pkce THEN Goto(q, "pkceCode", [to |-> req[q].flow.to])
     ELSE Goto(q, "session", [to |-> IF req[q].flow = None THEN "none" ELSE oauthLanding(req[q].flow.to)])
  /\ UNCHANGED <<users, tokens, flows, nextId, conf, ghosts>>

LinkIdentity(q) ==
  /\ At(q, "link")
  /\ ident' = Linked(req[q].sub, req[q].user)
  /\ Finish(q)
  /\ UNCHANGED <<users, tokens, flows, nextId, conf, ghosts>>

(* A PKCE login is answered with a code, sent where the flow said if allowed. *)
CreatePKCEFlowState(q) ==
  /\ At(q, "pkceCode")
  /\ nextId <= MaxId
  /\ flows' = flows \cup {[id |-> nextId, kind |-> "pkce", user |-> req[q].user, link |-> None,
                           pkce |-> TRUE, to |-> req[q].to, fresh |-> TRUE]}
  /\ nextId' = nextId + 1
  /\ landed' = landed \cup {IF redirectAllowed(req[q].to) THEN req[q].to ELSE "none"}
  /\ Finish(q)
  /\ UNCHANGED <<users, ident, tokens, conf, proven, stale, opened, tries>>

(* handlePKCEGrant reads the code, deletes it whatever the count, and then   *)
(* compares the verifier.                                                    *)
GetPKCEFlowState(q) ==
  /\ Do(q, "pkce")
  /\ LET F == {f \in flows : f.kind = "pkce" /\ f.id = req[q].id /\ f.fresh} IN
       IF F = {} THEN Finish(q) ELSE \E f \in F : Goto(q, "pkceDelete", [user |-> f.user])
  /\ UNCHANGED <<db, conf, ghosts>>
DeletePKCEFlowState(q) ==
  /\ At(q, "pkceDelete")
  /\ flows' = {f \in flows : f.id # req[q].id}
  /\ IF req[q].ok THEN Goto(q, "getUser", <<>>) ELSE Finish(q)
  /\ UNCHANGED <<users, ident, tokens, nextId, conf, ghosts>>

----------------------------------------------------------------------------
(* Identities, profile and administration.                                   *)

(* handleUnlinkIdentity: the count, the password, the DELETE.                *)
CountIdentities(q) ==
  /\ Do(q, "unlink")
  /\ Goto(q, "hasPassword", [n |-> Cardinality({s \in Subject : ident[s] = req[q].user})])
  /\ UNCHANGED <<db, conf, ghosts>>
keepsMethod(n, password) == n > 1 \/ password
HasPassword(q) ==
  /\ At(q, "hasPassword")
  /\ LET u == req[q].user IN
       IF keepsMethod(req[q].n, users[u] # None /\ users[u].password)
         THEN Goto(q, "unlink", <<>>) ELSE Finish(q)
  /\ UNCHANGED <<db, conf, ghosts>>
DeleteIdentityByID(q) ==
  /\ At(q, "unlink")
  /\ ident' = IF ident[req[q].sub] = req[q].user THEN [ident EXCEPT ![req[q].sub] = None] ELSE ident
  /\ Finish(q)
  /\ UNCHANGED <<users, tokens, flows, nextId, conf, ghosts>>

\* Mutant: a new address keeps the flag.
clearVerifiedNever(q) == FALSE
(* UpdateUser: a new address is unverified, unless it is the one the access  *)
(* token still names (req.claim, read when the request began).               *)
clearVerified(q) == req[q].email # req[q].claim
UpdateUser(q) ==
  /\ Do(q, "updateUser")
  /\ LET u == req[q].user  e == req[q].email IN
       IF users[u] = None \/ (e # None /\ ByEmail(e) \ {u} # {})
         THEN UNCHANGED <<users, stale>>
         ELSE /\ Set(u, [users[u] EXCEPT !.email = IF e = None THEN @ ELSE e,
                                     !.verified = @ /\ ~(e # None /\ clearVerified(q)),
                                     !.password = @ \/ req[q].ok])
              /\ stale' = IF e # None /\ e # users[u].email /\ e = req[q].claim
                            THEN stale \cup {u} ELSE stale
  /\ Finish(q)
  /\ UNCHANGED <<ident, tokens, flows, nextId, conf, proven, opened, tries, landed>>

(* handleAdminCreateUser and handleAdminUpdateUser ignore allow_signup, and  *)
(* an administrator's address counts as confirmed when he says so.           *)
AdminCreateUser(q) ==
  /\ Do(q, "adminCreate")
  /\ CreateUser(q, [NewAccount(req[q].email) EXCEPT !.verified = req[q].ok], "done")
  /\ proven' = IF req[q].ok THEN proven \cup (User \X {req[q].email}) ELSE proven
  /\ UNCHANGED <<ident, tokens, flows, nextId, conf, stale, opened, tries, landed>>
AdminUpdateUser(q) ==
  /\ Do(q, "adminUpdate")
  /\ LET u == req[q].user  e == req[q].email IN
       IF users[u] = None \/ (e # None /\ ByEmail(e) \ {u} # {})
         THEN Finish(q) /\ UNCHANGED <<users, proven>>
         ELSE /\ Set(u, [users[u] EXCEPT !.email = IF e = None THEN @ ELSE e, !.banned = req[q].banned,
                                     !.verified = @ \/ req[q].ok])
              /\ IF e # None \/ req[q].ok THEN Vouch(u, IF e = None THEN users[u].email ELSE e)
                                          ELSE UNCHANGED proven
              /\ IF req[q].banned THEN Goto(q, "revokeAll", <<>>) ELSE Finish(q)
  /\ UNCHANGED <<ident, tokens, flows, nextId, conf, stale, opened, tries, landed>>
RevokeAllUserSessions(q) ==
  /\ At(q, "revokeAll")
  /\ LET u == req[q].user IN
       IF users[u] = None THEN UNCHANGED users ELSE Set(u, [users[u] EXCEPT !.session = FALSE])
  /\ IF req[q].op = "adminDelete" THEN Goto(q, "deleteTokens", <<>>) ELSE Finish(q)
  /\ UNCHANGED <<ident, tokens, flows, nextId, conf, ghosts>>

(* DeleteUser: the sessions, the codes, then the row, which cascades.        *)
AdminDeleteUser(q) ==
  /\ Do(q, "adminDelete") /\ Goto(q, "revokeAll", <<>>)
  /\ UNCHANGED <<db, conf, ghosts>>
DeleteUserTokens(q) ==
  /\ At(q, "deleteTokens")
  /\ tokens' = {t \in tokens : t.user # req[q].user}
  /\ Goto(q, "deleteRow", <<>>)
  /\ UNCHANGED <<users, ident, flows, nextId, conf, ghosts>>
DeleteUserRow(q) ==
  /\ At(q, "deleteRow")
  /\ LET u == req[q].user IN
       /\ users' = [users EXCEPT ![u] = None]
       /\ tokens' = {t \in tokens : t.user # u}
       /\ ident' = [s \in Subject |-> IF ident[s] = u THEN None ELSE ident[s]]
  /\ Finish(q)
  /\ UNCHANGED <<flows, nextId, conf, ghosts>>

----------------------------------------------------------------------------
(* A request arrives with the inputs its operation reads.  Six digits and a  *)
(* link are guessed or known; ok is the flag of the operation: create_user,  *)
(* the right digits, email_verified, code_challenge, the right verifier.     *)
EmailOps == {"signup", "password", "otp", "recover", "resend", "generateLink", "invite", "verifyCode",
             "callback", "idtoken", "updateUser", "adminCreate", "adminUpdate"}
PurposeOf(op) == CASE op = "otp" -> {"magiclink"}
                   [] op = "recover" -> {"recovery"}
                   [] op = "resend" -> {"signup", "magiclink"}
                   [] op \in {"generateLink", "verifyCode", "verifyToken", "verifyGET"} -> {"signup", "recovery"}
                   [] op = "callback" -> {"signup", "recovery"}
                   [] OTHER -> {"signup"}
UserOps == {"reauth", "linkStart", "unlink", "updateUser", "adminUpdate", "adminDelete"}
EmailsOf(op) == IF op \in {"updateUser", "adminUpdate"} THEN Email \cup {None}
                ELSE IF op \in EmailOps THEN Email ELSE {None}
UsersOf(op) == IF op \in UserOps THEN Existing ELSE {None}
IdsOf(op) == IF op \in {"verifyToken", "verifyGET", "callback", "pkce"} THEN 1..(nextId - 1) ELSE {0}
SubjectsOf(op) == IF op \in {"callback", "idtoken", "unlink"} THEN Subject ELSE {None}
TargetsOf(op) == IF op \in {"authorize", "verifyGET", "linkStart"} THEN Target ELSE {"none"}
FlagsOf(op) == IF op \in {"otp", "generateLink", "verifyCode", "authorize", "callback", "idtoken", "pkce",
                          "updateUser", "adminCreate", "adminUpdate"} THEN BOOLEAN ELSE {FALSE}
BansOf(op) == IF op = "adminUpdate" THEN BOOLEAN ELSE {FALSE}
Arrived(op, e, p, u, i, s, t, ok, b) ==
  [Idle EXCEPT !.op = op, !.pc = "start", !.email = e, !.purpose = p, !.user = u, !.id = i, !.sub = s,
               !.to = t, !.ok = ok, !.banned = b, !.claim = IF op = "updateUser" THEN users[u].email ELSE None]
Begin(q, op) ==
  /\ req[q].pc = "idle"
  /\ \E e \in EmailsOf(op), p \in PurposeOf(op), u \in UsersOf(op), i \in IdsOf(op), s \in SubjectsOf(op),
        t \in TargetsOf(op), ok \in FlagsOf(op), b \in BansOf(op) :
       /\ op = "unlink" => ident[s] = u
       /\ req' = [req EXCEPT ![q] = Arrived(op, e, p, u, i, s, t, ok, b)]
  /\ UNCHANGED <<db, conf, ghosts>>

(* Time: codes age in the order they were made, states stop being fresh.     *)
AgeToken == \E t \in tokens :
  /\ t.age < 2
  /\ \A s \in tokens : s.id < t.id => s.age > t.age \/ s.age = 2
  /\ tokens' = (tokens \ {t}) \cup {[t EXCEPT !.age = @ + 1]}
  /\ UNCHANGED <<users, ident, flows, nextId, req, conf, ghosts>>
AgeFlow == \E f \in flows :
  /\ f.fresh
  /\ flows' = (flows \ {f}) \cup {[f EXCEPT !.fresh = FALSE]}
  /\ UNCHANGED <<users, ident, tokens, nextId, req, conf, ghosts>>

Init ==
  /\ \E w \in Worlds :
       /\ users = w.users /\ ident = w.ident /\ tokens = w.tokens /\ flows = w.flows
       /\ tries = [i \in 1..MaxId |-> IF \E t \in w.tokens : t.id = i
                                     THEN (CHOOSE t \in w.tokens : t.id = i).attempts ELSE 0]
       /\ nextId = Cardinality(w.tokens) + Cardinality(w.flows) + 1
       /\ proven = {<<u, w.users[u].email>> : u \in {v \in User : w.users[v] # None /\ w.users[v].verified}}
  /\ req = [q \in Req |-> Idle]
  /\ conf \in Setups
  /\ stale = {} /\ landed = {}
  /\ opened = [i \in 0..MaxId |-> 0]

Handle(q) ==
  \/ Signup(q) \/ sendVerificationEmail(q) \/ SignupAnonymous(q) \/ PasswordGrant(q)
  \/ GetUserIDByEmail(q) \/ CreateForMail(q) \/ ResendVerified(q) \/ otpCooldown(q)
  \/ DeleteUserTokensByPurpose(q) \/ CreateToken(q) \/ Reauthenticate(q)
  \/ VerifyCode(q) \/ VerifyToken(q) \/ DropExpired(q) \/ ConsumeToken(q) \/ MarkEmailVerified(q)
  \/ Authorize(q) \/ LinkStart(q) \/ ConsumeOAuthFlowState(q) \/ IDTokenGrant(q) \/ UpsertOAuthUser(q)
  \/ linkOrCreateOAuthUser(q) \/ OAuthInsert(q) \/ OAuthMark(q) \/ RecordIdentity(q) \/ LinkIdentity(q)
  \/ CreatePKCEFlowState(q) \/ GetPKCEFlowState(q) \/ DeletePKCEFlowState(q)
  \/ CountIdentities(q) \/ HasPassword(q) \/ DeleteIdentityByID(q) \/ UpdateUser(q)
  \/ AdminCreateUser(q) \/ AdminUpdateUser(q) \/ RevokeAllUserSessions(q)
  \/ AdminDeleteUser(q) \/ DeleteUserTokens(q) \/ DeleteUserRow(q)
  \/ GetUserByID(q) \/ buildSession(q)

Next == \/ \E q \in Req : Handle(q) \/ \E op \in conf.ops : Begin(q, op)
        \/ AgeToken \/ AgeFlow
Spec == Init /\ [][Next]_vars

----------------------------------------------------------------------------
(* Types: every row is of its table, and codes belong to accounts that exist *)
(* (ON DELETE CASCADE).                                                      *)
TypeOK ==
  /\ \A u \in User : users[u] = None \/ users[u] \in Account
  /\ \A s \in Subject : ident[s] # None => users[ident[s]] # None
  /\ tokens \subseteq Token /\ \A t \in tokens : users[t.user] # None
  /\ flows \subseteq Flow

(* However two requests that hold the same mailed code or link interleave    *)
(* (POST /verify, GET /verify, a resend, an expiry), it opens one session,   *)
(* and its digits are compared at most MaxAttempts times.                    *)
OneTimeTokens ==
  \A i \in 1..MaxId : opened[i] <= 1 /\ tries[i] <= MaxAttempts

(* An account marked verified has proven the address it carries now: by a    *)
(* code mailed there, by a provider that vouches for it or by an             *)
(* administrator.  Excused are the accounts (stale) whose address changed    *)
(* between the mail or the token and its use.                                *)
VerifiedMeansProven ==
  \A u \in Existing : users[u].verified => <<u, users[u].email>> \in proven \/ u \in stale

(* With allow_signup off no request but an administrator's makes an account, *)
(* whichever of the five ways to make one it takes.                          *)
SignupDisabledCreatesNobody ==
  [][\A u \in User : users[u] = None /\ users'[u] # None /\ ~conf.allowSignup =>
       \E q \in Req : req[q].op \in {"adminCreate", "invite", "generateLink"} /\ req'[q] # req[q]]_vars

(* A session or a login code only ever leaves for a URL of the allowlist,    *)
(* also when the flow was stored while the list was wider.                   *)
SessionsLandHome == "foreign" \notin landed

(* Unlinking alone never takes the last way to sign in: an account that is   *)
(* left with neither identity nor password lost another one to a request     *)
(* that ran between the count and the DELETE.                                *)
UnlinkKeepsMethod ==
  [][\A q \in Req, u \in User :
       /\ At(q, "unlink") /\ req'[q].pc = "done" /\ u = req[q].user
       /\ users[u] # None /\ ident[req[q].sub] = u
       /\ \A s \in Subject : ident'[s] # u
       => users[u].password \/ req[q].n > 1]_vars
=============================================================================
