---------------------------- MODULE AuthSessions ----------------------------
(***************************************************************************)
(* Refresh tokens and sessions of the auth service:                        *)
(* internal/adapter/auth/service.go (the SQL) and the handlers of          *)
(* internal/adapter/http/{auth_handler,mfa_handler,admin_handler}.go.      *)
(*                                                                         *)
(* Each request runs on its own goroutine and talks to Postgres one        *)
(* statement at a time under READ COMMITTED: a statement sees the rows     *)
(* committed when it starts, waits for the row locks of open transactions, *)
(* and a transaction's rows appear when it commits.  One action below is   *)
(* one statement (or one run of statements nothing can be seen between).   *)
(* A statement that waits for a row is one that has not happened yet, and  *)
(* what a DELETE locks before it waits nobody sees until it commits: its   *)
(* rows are taken at once here, and one that a deadlock ends is a request  *)
(* that fails.  Who waits for whom, row by row, is in TokenLocks.          *)
(***************************************************************************)
EXTENDS Naturals, FiniteSets

CONSTANTS
  User,        \* rows of auth.users
  Proc,        \* request goroutines
  MaxToken,    \* bound: ids auth.refresh_tokens hands out (BIGSERIAL)
  MaxClock,    \* bound: last instant of the horizon
  MaxPw,       \* bound: password changes per user
  Grace,       \* refreshReuseInterval
  Life,        \* auth.refresh_token_expiry
  TxMax,       \* bound: ticks a refresh transaction stays open
  MFA,         \* do users verify TOTP factors
  Legacy       \* users that start with one token whose session_id is NULL

ASSUME SessionsAssumption ==
  /\ MaxToken \in Nat /\ MaxClock \in Nat /\ MaxPw \in Nat
  /\ Grace \in Nat /\ Life \in Nat /\ TxMax \in Nat
  /\ MFA \in BOOLEAN /\ Legacy \subseteq User /\ User # {}

VARIABLES
  users,  \* auth.users: does the row exist, banned_until > NOW(), the password's version
  rt,     \* auth.refresh_tokens by id, with the fate of each id
  req,    \* the state of each request between two statements
  held,   \* tokens whose response reached a client, with the access token beside them
  clock   \* NOW()

vars == <<users, rt, req, held, clock>>

Token == 1..MaxToken
NoId  == 0                  \* no token, and a NULL session_id
Id    == Token \cup {NoId}
AAL   == {"aal1", "aal2"}
Time  == 0..MaxClock

(* "pending": inserted by a transaction still open.  "gone": deleted, or   *)
(* rolled back.  root names the line of rotations the token belongs to and *)
(* pw the password version its session was authenticated with: both are    *)
(* history, the table has no such column.                                  *)
Row == [state: {"none", "pending", "live", "revoked", "gone"}, user: User,
        sid: Id, aal: AAL, root: Token, pw: 0..MaxPw,
        exp: 0..(MaxClock + Life), rev: Time]

Scope == {"session", "others", "all", "below2", "below2session"}

(* sticky: history, the user was banned when the request began and at all  *)
(* times since.                                                            *)
Request == [pc: {"idle", "issue", "update", "lookup", "child", "loaduser",
                 "commit", "revoke", "deleting", "deluser", "done"},
            op: {"none", "grant", "mfa", "refresh", "password", "logout",
                 "ban", "delete"},
            ans: {"none", "session", "reuse", "ok", "error"},
            user: User, tok: Id, new: Id, sid: Id, aal: AAL, pw: 0..MaxPw,
            now: Time, inGrace: BOOLEAN, banned: BOOLEAN, sticky: BOOLEAN,
            first: BOOLEAN, scope: Scope, targets: SUBSET Token]

(* A refresh names the token presented, and then the one it answers with.  *)
WellFormed(r) ==
  /\ r \in Request
  /\ r.pc \in {"update", "lookup", "child", "loaduser", "commit"}
       => r.tok \in Token
  /\ r.pc \in {"loaduser", "commit"} => r.new \in Token

Idle == [pc |-> "idle", op |-> "none", ans |-> "none",
         user |-> CHOOSE u \in User : TRUE, tok |-> NoId, new |-> NoId,
         sid |-> NoId, aal |-> "aal1", pw |-> 0, now |-> 0,
         inGrace |-> FALSE, banned |-> FALSE, sticky |-> FALSE,
         first |-> FALSE, scope |-> "all", targets |-> {}]

TypeOK ==
  /\ users \in [User -> [exists: BOOLEAN, banned: BOOLEAN, pw: 0..MaxPw]]
  /\ rt \in [Token -> Row]
  /\ req \in [Proc -> Request]
  /\ \A p \in Proc : WellFormed(req[p])
  /\ held \subseteq Token
  /\ clock \in Time
-----------------------------------------------------------------------------
(* Rows, locks and statements.                                             *)

Stored(t) == rt[t].state \in {"live", "revoked"}
Live(t)   == rt[t].state = "live"

IsNextId(n) == /\ rt[n].state = "none"
               /\ \A m \in Token : rt[m].state = "none" => n <= m

(* The request updated the row of tok and inserted new, and has not        *)
(* committed: it holds the lock on that row.                               *)
Rotating(p) == /\ req[p].pc \in {"loaduser", "commit"}
               /\ req[p].new \in Token
               /\ rt[req[p].new].state = "pending"

\* Mutant: SELECT, then an UPDATE that does not repeat the condition.
LockedNever(t) == FALSE
Locked(t) == \E q \in Proc : Rotating(q) /\ req[q].tok = t

NewRow(u, s, a, r, w, e) ==
  [state |-> "live", user |-> u, sid |-> s, aal |-> a, root |-> r, pw |-> w,
   exp |-> e, rev |-> 0]

Remove(table, S) ==
  [t \in Token |-> IF t \in S THEN [table[t] EXCEPT !.state = "gone"]
                              ELSE table[t]]

\* Mutant: session_id != $2 alone, which a NULL session_id does not satisfy.
MatchesNotNull(r, t) ==
  CASE r.scope = "session" -> rt[t].sid = r.sid
    [] r.scope = "others"  -> rt[t].user = r.user /\ rt[t].sid \notin {r.sid, NoId}
    [] OTHER -> rt[t].user = r.user

(* The WHERE clause of each DELETE of refresh_tokens.                      *)
Matches(r, t) ==
  CASE r.scope = "session" -> rt[t].sid = r.sid
    [] r.scope = "others"  -> rt[t].user = r.user /\ rt[t].sid # r.sid
    [] r.scope = "all"     -> rt[t].user = r.user
    [] r.scope = "below2"  -> rt[t].user = r.user /\ rt[t].aal # "aal2"
    [] r.scope = "below2session" ->
         rt[t].user = r.user /\ rt[t].aal # "aal2" /\ rt[t].sid = r.sid

(* Bound: a request that will take an id begins only while one is left.    *)
IdLeft == Cardinality({p \in Proc : \/ req[p].pc = "issue"
                                    \/ req[p].pc = "update" /\ Live(req[p].tok)})
            < Cardinality({t \in Token : rt[t].state = "none"})

Begin(p, r) == /\ req[p].pc = "idle"
               /\ req' = [req EXCEPT ![p] = r]

Answer(p, a) ==
  [Idle EXCEPT !.pc = "done", !.ans = a, !.op = req[p].op, !.user = req[p].user,
               !.sid = req[p].sid, !.scope = req[p].scope,
               !.sticky = req[p].sticky]

(* The response reaches the client, or is lost with the connection.        *)
Deliver(t) == held' \in {held, held \cup {t}}

\* Mutant: the ban is not looked at.
RefusedNever(p) == FALSE

(* signSession refuses a banned user, by the row read earlier.             *)
Refused(p) == req[p].banned
-----------------------------------------------------------------------------
(* Sessions are issued: the password grant (the other grants read the user *)
(* row and call buildSession the same way) and the factor verification     *)
(* that re-issues a session at aal2.                                       *)

handlePasswordGrant(p, u) ==
  /\ IdLeft
  /\ users[u].exists
  /\ Begin(p, [Idle EXCEPT !.pc = "issue", !.op = "grant", !.user = u,
                           !.pw = users[u].pw, !.banned = users[u].banned,
                           !.sticky = users[u].banned])
  /\ UNCHANGED <<users, rt, held, clock>>

handleVerifyFactor(p, j, first) ==
  LET u == rt[j].user
  IN  /\ MFA /\ IdLeft
      /\ j \in held
      /\ users[u].exists
      /\ Begin(p, [Idle EXCEPT !.pc = "issue", !.op = "mfa", !.user = u,
                               !.sid = rt[j].sid, !.aal = "aal2",
                               !.pw = rt[j].pw, !.banned = users[u].banned,
                               !.sticky = users[u].banned, !.first = first])
      /\ UNCHANGED <<users, rt, held, clock>>

(* No token for a refused user; the INSERT fails on its foreign key        *)
(* when the user is gone.  A verified factor then revokes what is below    *)
(* aal2, detached from the request.                                        *)
issueSession(p) ==
  /\ req[p].pc = "issue"
  /\ IF Refused(p) \/ ~users[req[p].user].exists
     THEN /\ req' = [req EXCEPT ![p] = Answer(p, "error")]
          /\ UNCHANGED <<rt, held>>
     ELSE \E n \in Token :
          LET s == IF req[p].sid = NoId THEN n ELSE req[p].sid
          IN  /\ IsNextId(n)
              /\ rt' = [rt EXCEPT ![n] = NewRow(req[p].user, s, req[p].aal, n,
                                                req[p].pw, clock + Life)]
              /\ Deliver(n)
              /\ req' = [req EXCEPT ![p] =
                   IF req[p].op = "mfa"
                   THEN [@ EXCEPT !.pc = "revoke", !.ans = "session",
                           !.scope = IF req[p].first THEN "below2"
                                         ELSE "below2session"]
                   ELSE Answer(p, "session")]
  /\ UNCHANGED <<users, clock>>
-----------------------------------------------------------------------------
(* ConsumeRefreshToken: one transaction, statement by statement.  now is   *)
(* NOW(), the start of the transaction.                                    *)

handleRefreshGrant(p, t) ==
  /\ t \in held
  /\ Live(t) => IdLeft
  /\ Begin(p, [Idle EXCEPT !.pc = "update", !.op = "refresh", !.tok = t,
                           !.user = rt[t].user, !.now = clock,
                           !.sticky = users[rt[t].user].banned])
  /\ UNCHANGED <<users, rt, held, clock>>

(* UPDATE ... SET revoked_at WHERE revoked_at IS NULL, then the child's    *)
(* INSERT: an expired token is left as it is, a spent one looked up.       *)
RotateToken(p) ==
  LET t == req[p].tok
      r == rt[t]
  IN  /\ req[p].pc = "update"
      /\ ~Locked(t)
      /\ \/ /\ Live(t) /\ r.exp <= req[p].now
            /\ req' = [req EXCEPT ![p] = Answer(p, "error")]
            /\ UNCHANGED rt
         \/ /\ Live(t) /\ r.exp > req[p].now
            /\ \E n \in Token :
                 LET s == IF r.sid = NoId THEN n ELSE r.sid
                 IN  /\ IsNextId(n)
                     /\ rt' = [rt EXCEPT ![n] =
                          [NewRow(r.user, s, r.aal, r.root, r.pw,
                                  req[p].now + Life) EXCEPT !.state = "pending"]]
                     /\ req' = [req EXCEPT ![p] =
                          [@ EXCEPT !.pc = "loaduser", !.new = n, !.sid = s,
                                    !.aal = r.aal]]
         \/ /\ ~Live(t)
            /\ req' = [req EXCEPT ![p] = [@ EXCEPT !.pc = "lookup"]]
            /\ UNCHANGED rt
      /\ UNCHANGED <<users, held, clock>>

\* Mutant: no grace, a spent token is always reuse.
InGraceNever(rev, now) == FALSE

InGrace(rev, now) == rev + Grace > now

LookupParent(p) ==
  LET r == rt[req[p].tok]
  IN  /\ req[p].pc = "lookup"
      /\ req' = [req EXCEPT ![p] =
           IF r.state = "revoked"
           THEN [@ EXCEPT !.pc = "child", !.sid = r.sid, !.aal = r.aal,
                          !.inGrace = InGrace(r.rev, req[p].now)]
           ELSE Answer(p, "error")]
      /\ UNCHANGED <<users, rt, held, clock>>

\* Mutant: the newest live token of the session, whatever its level.
ChildrenAnyLevel(p) == {c \in Token : /\ Live(c)
                                      /\ rt[c].sid = req[p].sid
                                      /\ rt[c].exp > req[p].now}

(* The live tokens of the session at the parent's level.                   *)
Children(p) == {c \in Token : /\ Live(c)
                              /\ rt[c].sid = req[p].sid
                              /\ rt[c].aal = req[p].aal
                              /\ rt[c].exp > req[p].now}

FindChild(p) ==
  /\ req[p].pc = "child"
  /\ IF req[p].inGrace /\ req[p].sid # NoId /\ Children(p) # {}
     THEN \E c \in Children(p) :
            /\ \A d \in Children(p) : d <= c
            /\ req' = [req EXCEPT ![p] = [@ EXCEPT !.pc = "loaduser", !.new = c]]
     ELSE req' = [req EXCEPT ![p] =
                    [@ EXCEPT !.pc = "revoke", !.ans = "reuse",
                              !.scope = IF req[p].sid = NoId
                                        THEN "all" ELSE "session"]]
  /\ UNCHANGED <<users, rt, held, clock>>

(* The prune's targets and the user row, read before the commit.  The      *)
(* prune may wait for a row of another DELETE, or fail in a deadlock       *)
(* (RequestFails); the rows it finds are spent ones either way.            *)
LoadUser(p) ==
  /\ req[p].pc = "loaduser"
  /\ IF users[req[p].user].exists
     THEN /\ req' = [req EXCEPT ![p] =
               [@ EXCEPT !.pc = "commit",
                         !.banned = users[req[p].user].banned,
                         !.targets = {t \in Token : /\ rt[t].state = "revoked"
                                                    /\ rt[t].sid = req[p].sid
                                                    /\ rt[t].exp < req[p].now}]]
          /\ UNCHANGED rt
     ELSE /\ req' = [req EXCEPT ![p] = Answer(p, "error")]
          /\ rt' = IF Rotating(p) THEN Remove(rt, {req[p].new}) ELSE rt
  /\ UNCHANGED <<users, held, clock>>

\* Mutant: revoked_at takes the token's expiry.
CommittedAtExpiry(p) ==
  IF Rotating(p)
  THEN [rt EXCEPT ![req[p].tok].state = "revoked",
                  ![req[p].tok].rev   = rt[req[p].tok].exp,
                  ![req[p].new].state = "live"]
  ELSE rt

Committed(p) ==
  IF Rotating(p)
  THEN [rt EXCEPT ![req[p].tok].state = "revoked",
                  ![req[p].tok].rev   = req[p].now,
                  ![req[p].new].state = "live"]
  ELSE rt

(* COMMIT, then signSession: a banned user's token has been rotated all    *)
(* the same.                                                               *)
CommitRefresh(p) ==
  LET n == req[p].new
  IN  /\ req[p].pc = "commit"
      /\ rt' = Remove(Committed(p), req[p].targets)
      /\ IF Refused(p)
         THEN /\ req' = [req EXCEPT ![p] = Answer(p, "error")]
              /\ UNCHANGED held
         ELSE /\ req' = [req EXCEPT ![p] = Answer(p, "session")]
              /\ Deliver(n)
      /\ UNCHANGED <<users, clock>>
-----------------------------------------------------------------------------
(* Sessions are revoked: every handler below ends in one DELETE of         *)
(* refresh_tokens, of the whole user when there is no session id.  j is    *)
(* the token delivered beside the access token of the request.             *)

Revoking(op, u, sid, scope) ==
  [Idle EXCEPT !.pc = "revoke", !.op = op, !.user = u, !.sid = sid,
               !.scope = IF sid = NoId THEN "all" ELSE scope, !.ans = "ok"]

(* PUT /user with a new password.                                          *)
handleUpdateUser(p, j) ==
  LET u == rt[j].user
  IN  /\ j \in held
      /\ users[u].exists /\ users[u].pw < MaxPw
      /\ users' = [users EXCEPT ![u].pw = @ + 1]
      /\ Begin(p, Revoking("password", u, rt[j].sid, "others"))
      /\ UNCHANGED <<rt, held, clock>>

handleLogout(p, j, scope) ==
  /\ j \in held
  /\ Begin(p, Revoking("logout", rt[j].user, rt[j].sid, scope))
  /\ UNCHANGED <<users, rt, held, clock>>

handleAdminSignOut(p, u) ==
  /\ Begin(p, Revoking("logout", u, NoId, "all"))
  /\ UNCHANGED <<users, rt, held, clock>>

(* The dashboard's disable and the admin API's ban_duration: the ban       *)
(* first, then the sessions.                                               *)
handleDisableUser(p, u) ==
  /\ users[u].exists
  /\ users' = [users EXCEPT ![u].banned = TRUE]
  /\ Begin(p, Revoking("ban", u, NoId, "all"))
  /\ UNCHANGED <<rt, held, clock>>

(* ban_duration "none", or banned_until has passed.                        *)
Unban(u) ==
  /\ users[u].banned
  /\ users' = [users EXCEPT ![u].banned = FALSE]
  /\ req' = [p \in Proc |-> IF req[p].user = u
                            THEN [req[p] EXCEPT !.sticky = FALSE] ELSE req[p]]
  /\ UNCHANGED <<rt, held, clock>>

DeleteUser(p, u) ==
  /\ users[u].exists
  /\ Begin(p, Revoking("delete", u, NoId, "all"))
  /\ UNCHANGED <<users, rt, held, clock>>

(* The DELETE takes its snapshot ...                                       *)
RevokeStart(p) ==
  /\ req[p].pc = "revoke"
  /\ req' = [req EXCEPT ![p] =
       [@ EXCEPT !.pc = "deleting",
                 !.targets = {t \in Token : Stored(t) /\ Matches(req[p], t)}]]
  /\ UNCHANGED <<users, rt, held, clock>>

(* ... and deletes those rows, waiting for the transactions that lock      *)
(* them: a row committed since is not among them.  They are taken one by   *)
(* one and held till the end, which shows only in who waits (TokenLocks).  *)
RevokeFinish(p) ==
  /\ req[p].pc = "deleting"
  /\ \A t \in req[p].targets : ~Locked(t)
  /\ rt' = Remove(rt, req[p].targets)
  /\ req' = [req EXCEPT ![p] =
       [@ EXCEPT !.pc = IF req[p].op = "delete" THEN "deluser" ELSE "done",
                 !.targets = {}]]
  /\ UNCHANGED <<users, held, clock>>

Cascade(u) == {t \in Token : Stored(t) /\ rt[t].user = u}

(* DELETE FROM auth.users, cascading with a snapshot of its own: the       *)
(* user's row first and then the tokens', which a rotation may hold while  *)
(* its INSERT waits for the user's (TokenLocks).                           *)
DeleteUserRow(p) ==
  LET u == req[p].user
  IN  /\ req[p].pc = "deluser"
      /\ \A t \in Token : rt[t].user = u => ~Locked(t)
      /\ users' = [users EXCEPT ![u].exists = FALSE]
      /\ rt' = Remove(rt, Cascade(u))
      /\ req' = [req EXCEPT ![p] = Answer(p, "ok")]
      /\ UNCHANGED <<held, clock>>
-----------------------------------------------------------------------------
(* A statement fails or the client goes away: an open transaction rolls    *)
(* back.  The errors of a DELETE are logged or dropped and the handler     *)
(* goes on.                                                                *)
RequestFails(p) ==
  /\ req[p].pc \notin {"idle", "done"}
  /\ rt' = IF Rotating(p) THEN Remove(rt, {req[p].new}) ELSE rt
  /\ req' = [req EXCEPT ![p] =
       IF req[p].op = "delete" /\ req[p].pc \in {"revoke", "deleting"}
       THEN [@ EXCEPT !.pc = "deluser", !.targets = {}]
       ELSE Answer(p, "error")]
  /\ UNCHANGED <<users, held, clock>>

Return(p) ==
  /\ req[p].pc = "done"
  /\ req' = [req EXCEPT ![p] = Idle]
  /\ UNCHANGED <<users, rt, held, clock>>

(* Time passes, within the horizon and the length of a transaction.        *)
Tick ==
  /\ clock < MaxClock
  /\ \A p \in Proc :
       req[p].op = "refresh" /\ req[p].pc \notin {"idle", "done"}
         => clock + 1 <= req[p].now + TxMax
  /\ clock' = clock + 1
  /\ UNCHANGED <<users, rt, req, held>>
-----------------------------------------------------------------------------
(* Empty but for the legacy tokens, which their clients hold.              *)
Init ==
  /\ users = [u \in User |-> [exists |-> TRUE, banned |-> FALSE, pw |-> 0]]
  /\ \E f \in [Legacy -> Token] :
       /\ \A u, v \in Legacy : f[u] = f[v] => u = v
       /\ \A u \in Legacy : \A t \in 1..f[u] : \E v \in Legacy : f[v] = t
       /\ held = {f[u] : u \in Legacy}
       /\ rt = [t \in Token |->
            IF t \in held
            THEN NewRow(CHOOSE u \in Legacy : f[u] = t, NoId, "aal1", t, 0, Life)
            ELSE [NewRow(CHOOSE u \in User : TRUE, NoId, "aal1", t, 0, 0)
                    EXCEPT !.state = "none"]]
  /\ req = [p \in Proc |-> Idle]
  /\ clock = 0

Refresh(p) == \/ \E t \in Token : handleRefreshGrant(p, t)
              \/ RotateToken(p) \/ LookupParent(p) \/ FindChild(p)
              \/ LoadUser(p) \/ CommitRefresh(p)

Issue(p) == \/ \E u \in User : handlePasswordGrant(p, u)
            \/ \E j \in Token, first \in BOOLEAN : handleVerifyFactor(p, j, first)
            \/ issueSession(p)

Revoke(p) == \/ \E j \in Token : handleUpdateUser(p, j)
             \/ \E j \in Token, scope \in {"session", "others", "all"} :
                  handleLogout(p, j, scope)
             \/ \E u \in User : \/ handleAdminSignOut(p, u)
                                \/ handleDisableUser(p, u)
                                \/ DeleteUser(p, u)
             \/ RevokeStart(p) \/ RevokeFinish(p) \/ DeleteUserRow(p)

Next == \/ \E p \in Proc : Refresh(p) \/ Issue(p) \/ Revoke(p) \/ RequestFails(p)
                            \/ Return(p)
        \/ \E u \in User : Unban(u)
        \/ Tick

Spec == Init /\ [][Next]_vars

(* Clients that refresh on time, several tabs at once: a token is sent     *)
(* while it is live, or again until Grace after its rotation.              *)
OnTime(t) == \/ Live(t) /\ rt[t].exp > clock
             \/ rt[t].state = "revoked" /\ clock < rt[t].rev + Grace

HonestNext ==
  \/ \E p \in Proc :
       \/ \E t \in Token : OnTime(t) /\ handleRefreshGrant(p, t)
       \/ RotateToken(p) \/ LookupParent(p) \/ FindChild(p) \/ LoadUser(p)
       \/ CommitRefresh(p) \/ RevokeStart(p) \/ RevokeFinish(p)
       \/ \E u \in User : handlePasswordGrant(p, u)
       \/ \E j \in Token : handleVerifyFactor(p, j, FALSE)
       \/ issueSession(p) \/ RequestFails(p) \/ Return(p)
  \/ Tick

HonestSpec == Init /\ [][HonestNext]_vars
-----------------------------------------------------------------------------
(* Properties.                                                             *)

(* Concurrent and replayed refreshes never fork a session: of the tokens   *)
(* rotated from one issued token at most one is unspent                    *)
(* (ConsumeRefreshToken's guarded UPDATE).                                 *)
NoFork == \A a, b \in Token :
            Live(a) /\ Live(b) /\ rt[a].root = rt[b].root => a = b

(* A refresh answers with a token of the same user, session, assurance     *)
(* level and proof of password as the token presented: neither a replay    *)
(* nor the shared child of another tab crosses sessions or lifts aal1 to   *)
(* aal2 (the child lookup of ConsumeRefreshToken).                         *)
AnswerKeepsSession ==
  \A p \in Proc : req[p].pc = "commit" =>
    LET old == rt[req[p].tok]
        new == rt[req[p].new]
    IN  /\ <<new.user, new.aal, new.pw>> = <<old.user, old.aal, old.pw>>
        /\ old.sid # NoId => new.sid = old.sid

(* No request that began while its user was banned, and stayed so, answers *)
(* with a session: neither the tokens a ban left behind nor a login racing *)
(* it (handleDisableUser, signSession).                                    *)
BannedGetsNothing ==
  \A p \in Proc : req[p].ans = "session" => ~req[p].sticky

(* Nothing of a deleted user's sessions stays, whatever was in flight: the *)
(* foreign key refuses late inserts and the cascade waits for rotations    *)
(* (DeleteUser, refreshTokensDDL).                                         *)
DeletedUserHasNoTokens ==
  \A t \in Token : rt[t].state \in {"pending", "live", "revoked"}
                     => users[rt[t].user].exists

(* Once a replayed token is answered with "reuse detected, session         *)
(* revoked", the session has no unspent token (ConsumeRefreshToken).       *)
ReuseRevokesSession ==
  \A p \in Proc : req[p].pc = "done" /\ req[p].ans = "reuse" =>
    \A t \in Token : Live(t) /\ rt[t].user = req[p].user
                     => req[p].sid \notin {NoId, rt[t].sid}

(* Once a password change has answered, every session opened with an       *)
(* earlier password is gone, the caller's excepted (handleUpdateUser).     *)
PasswordChangeSignsOut ==
  \A p \in Proc, t \in Token :
    (/\ req[p].pc = "done" /\ req[p].op = "password" /\ req[p].ans = "ok"
     /\ Live(t) /\ rt[t].user = req[p].user
     /\ rt[t].pw < users[rt[t].user].pw)
      => rt[t].sid = req[p].sid

(* Once a sign-out or a ban has answered, the live tokens its user has     *)
(* left are those of the session it spares: none for all, the caller's for *)
(* others, the others' for its own (handleLogout, handleAdminSignOut,      *)
(* handleDisableUser).                                                     *)
SignOutIsComplete ==
  \A p \in Proc, t \in Token :
    (/\ req[p].pc = "done" /\ req[p].op \in {"logout", "ban"}
     /\ req[p].ans = "ok" /\ Live(t) /\ rt[t].user = req[p].user)
      => \/ req[p].scope = "others"  /\ rt[t].sid = req[p].sid
         \/ req[p].scope = "session" /\ rt[t].sid # req[p].sid

(* A client that refreshes on time, from any number of tabs and with any   *)
(* response lost, keeps its session (the grace path of                     *)
(* ConsumeRefreshToken).                                                   *)
HonestClientKeepsSession ==
  \A s \in Token :
    (\E t \in Token : rt[t].sid = s /\ rt[t].state \in {"live", "revoked", "gone"}
                       /\ rt[t].root = t)
      => \E t \in Token : rt[t].sid = s /\ Live(t)

(* Each issued token opens a line of which one token at a time is current. *)
Current(l) == LET S == {t \in Token : Live(t) /\ rt[t].root = l}
              IN  IF S = {} THEN NoId ELSE CHOOSE t \in S : TRUE

Lines == INSTANCE TokenLines WITH
           cur   <- [l \in Token |-> Current(l)],
           spent <- {t \in Token : rt[t].state \in {"revoked", "gone"}}

(* Rotation, replay, sign-out, ban and deletion implement lines of tokens: *)
(* a spent token is never current again, a closed line never reopens.      *)
ImplementsLines == Lines!Spec
=============================================================================
