------------------------- MODULE AuthSessionsProofs -------------------------
(***************************************************************************)
(* Proofs about AuthSessions, for any users, requests, ids and times, and  *)
(* about the modes its run explores.                                       *)
(***************************************************************************)
EXTENDS MCAuthModes, FiniteSetTheorems, TLAPS

(***************************************************************************)
(* Type correctness.  A request's record is opaque in the steps of the     *)
(* theorem: the lemmas type the records the actions write.                 *)
(***************************************************************************)
ReqsOK == /\ req \in [Proc -> Request]
          /\ \A p \in Proc : WellFormed(req[p])

LEMMA IdleType == WellFormed(Idle)
  BY SessionsAssumption DEF Idle, WellFormed, Request, Id, Token, NoId, AAL, Time, Scope

LEMMA AnswerType ==
  ASSUME TypeOK, NEW p \in Proc,
         NEW a \in {"none", "session", "reuse", "ok", "error"}
  PROVE  WellFormed(Answer(p, a))
<1>1. WellFormed(req[p])
  BY DEF ReqsOK, TypeOK
<1>2. QED
  BY ZenonT(120), <1>1, IdleType DEF Answer, WellFormed, Request

LEMMA RevokingType ==
  ASSUME NEW u \in User, NEW sid \in Id, NEW scope \in Scope,
         NEW op \in {"password", "logout", "ban", "delete"}
  PROVE  WellFormed(Revoking(op, u, sid, scope))
<1> DEFINE sc == IF sid = NoId THEN "all" ELSE scope
<1>1. sc \in Scope
  BY DEF Scope
<1>2. WellFormed([Idle EXCEPT !.pc = "revoke", !.op = op, !.user = u, !.sid = sid,
                             !.scope = sc, !.ans = "ok"])
  <2> HIDE DEF sc
  <2> QED BY <1>1, IdleType DEF WellFormed, Request
<1>3. QED
  BY <1>2 DEF Revoking

LEMMA ReqType ==
  ASSUME TypeOK, NEW p \in Proc, NEW r, WellFormed(r),
         req' = [req EXCEPT ![p] = r]
  PROVE  ReqsOK'
<1>1. req \in [Proc -> Request] /\ \A q \in Proc : WellFormed(req[q])
  BY DEF TypeOK
<1>2. r \in Request
  BY DEF WellFormed
<1>3. req' \in [Proc -> Request]
  BY <1>1, <1>2
<1>4. ASSUME NEW q \in Proc
      PROVE  WellFormed(req'[q])
  <2>1. req'[q] = r \/ req'[q] = req[q]
    BY <1>1
  <2>2. QED
    BY <1>1, <2>1
<1>5. QED
  BY <1>3, <1>4 DEF ReqsOK

(* The edits of a request's record, from one statement to the next.        *)
LEMMA EditType ==
  ASSUME NEW r, WellFormed(r)
  PROVE  /\ WellFormed([r EXCEPT !.sticky = FALSE])
         /\ WellFormed([r EXCEPT !.pc = "deluser", !.targets = {}])
         /\ WellFormed([r EXCEPT !.pc = "done", !.targets = {}])
         /\ r.pc = "update" => WellFormed([r EXCEPT !.pc = "lookup"])
<1>1. WellFormed([r EXCEPT !.sticky = FALSE])
  BY ZenonT(60) DEF WellFormed, Request
<1>2. WellFormed([r EXCEPT !.pc = "deluser", !.targets = {}])
  BY DEF WellFormed, Request
<1>3. WellFormed([r EXCEPT !.pc = "done", !.targets = {}])
  BY DEF WellFormed, Request
<1>4. r.pc = "update" => WellFormed([r EXCEPT !.pc = "lookup"])
  BY DEF WellFormed, Request
<1>5. QED
  BY <1>1, <1>2, <1>3, <1>4

LEMMA RevokeEditType ==
  ASSUME NEW r, WellFormed(r), NEW sc \in Scope, NEW S \in SUBSET Token,
         NEW a \in {"session", "reuse"}
  PROVE  /\ WellFormed([r EXCEPT !.pc = "revoke", !.ans = a, !.scope = sc])
         /\ WellFormed([r EXCEPT !.pc = "deleting", !.targets = S])
  BY ZenonT(60) DEF WellFormed, Request

LEMMA RotateEditType ==
  ASSUME NEW r, WellFormed(r), r.tok \in Token, NEW n \in Token
  PROVE  /\ WellFormed([r EXCEPT !.pc = "loaduser", !.new = n])
         /\ \A s \in Id, a \in AAL :
              WellFormed([r EXCEPT !.pc = "loaduser", !.new = n, !.sid = s,
                                   !.aal = a])
  BY ZenonT(60) DEF WellFormed, Request, Id

LEMMA LookupEditType ==
  ASSUME NEW r, WellFormed(r), r.tok \in Token, NEW s \in Id, NEW a \in AAL,
         NEW b \in BOOLEAN
  PROVE  WellFormed([r EXCEPT !.pc = "child", !.sid = s, !.aal = a,
                              !.inGrace = b])
  BY DEF WellFormed, Request

LEMMA LoadEditType ==
  ASSUME NEW r, WellFormed(r), r.tok \in Token, r.new \in Token,
         NEW b \in BOOLEAN, NEW S \in SUBSET Token
  PROVE  WellFormed([r EXCEPT !.pc = "commit", !.banned = b, !.targets = S])
  BY DEF WellFormed, Request

LEMMA InsertType ==
  ASSUME TypeOK, NEW n \in Token, NEW row \in Row, rt' = [rt EXCEPT ![n] = row]
  PROVE  rt' \in [Token -> Row]
  BY DEF TypeOK

LEMMA RemoveType ==
  ASSUME NEW table \in [Token -> Row], NEW S
  PROVE  Remove(table, S) \in [Token -> Row]
  BY DEF Remove, Row

LEMMA NewRowType ==
  ASSUME NEW u \in User, NEW s \in Id, NEW a \in AAL, NEW r \in Token,
         NEW w \in 0..MaxPw, NEW e \in 0..(MaxClock + Life)
  PROVE  /\ NewRow(u, s, a, r, w, e) \in Row
         /\ [NewRow(u, s, a, r, w, e) EXCEPT !.state = "pending"] \in Row
         /\ [NewRow(u, s, a, r, w, e) EXCEPT !.state = "none"] \in Row
  BY SessionsAssumption DEF NewRow, Row, Time

LEMMA ExpiryType ==
  ASSUME NEW c \in Time
  PROVE  c + Life \in 0..(MaxClock + Life)
  BY SessionsAssumption DEF Time

LEMMA CommittedType ==
  ASSUME TypeOK, NEW p \in Proc
  PROVE  Committed(p) \in [Token -> Row]
<1> DEFINE A == [rt EXCEPT ![req[p].tok].state = "revoked"]
           B == [A EXCEPT ![req[p].tok].rev = req[p].now]
<1>1. WellFormed(req[p]) /\ rt \in [Token -> Row]
  BY DEF ReqsOK, TypeOK
<1>2. req[p].now \in Time
  BY <1>1 DEF WellFormed, Request
<1>3. A \in [Token -> Row]
  BY ZenonT(60), <1>1 DEF Row
<1>4. B \in [Token -> Row]
  <2> HIDE DEF A
  <2> QED BY ZenonT(60), <1>2, <1>3 DEF Row
<1>5. [B EXCEPT ![req[p].new].state = "live"] \in [Token -> Row]
  <2> HIDE DEF B
  <2> QED BY ZenonT(60), <1>4 DEF Row
<1>6. QED
  BY <1>1, <1>5 DEF Committed

LEMMA InitType == Init => TypeOK
<1> SUFFICES ASSUME Init PROVE TypeOK
  OBVIOUS
<1>1. rt \in [Token -> Row]
  <2> PICK f \in [Legacy -> Token] :
        /\ held = {f[u] : u \in Legacy}
        /\ rt = [t \in Token |->
             IF t \in held
             THEN NewRow(CHOOSE u \in Legacy : f[u] = t, NoId, "aal1", t, 0, Life)
             ELSE [NewRow(CHOOSE u \in User : TRUE, NoId, "aal1", t, 0, 0)
                     EXCEPT !.state = "none"]]
    BY DEF Init
  <2> SUFFICES ASSUME NEW t \in Token PROVE rt[t] \in Row
    OBVIOUS
  <2>0. /\ 0 \in 0..MaxPw /\ NoId \in Id /\ "aal1" \in AAL
        /\ 0 \in 0..(MaxClock + Life) /\ Life \in 0..(MaxClock + Life)
    BY SessionsAssumption DEF Id, AAL
  <2>1. CASE t \in held
    <3>1. (CHOOSE u \in Legacy : f[u] = t) \in User
      BY <2>1, SessionsAssumption
    <3>2. QED
      BY <2>0, <2>1, <3>1, NewRowType
  <2>2. CASE t \notin held
    <3>1. (CHOOSE u \in User : TRUE) \in User
      BY SessionsAssumption
    <3>2. QED
      BY <2>0, <2>2, <3>1, NewRowType
  <2>3. QED
    BY <2>1, <2>2
<1>2. /\ req \in [Proc -> Request]
      /\ \A p \in Proc : WellFormed(req[p])
  BY IdleType DEF Init, WellFormed
<1>3. held \subseteq Token
  BY DEF Init
<1>4. users \in [User -> [exists: BOOLEAN, banned: BOOLEAN, pw: 0..MaxPw]]
  BY SessionsAssumption DEF Init
<1>5. clock \in Time
  BY SessionsAssumption DEF Init, Time
<1>6. QED
  BY <1>1, <1>2, <1>3, <1>4, <1>5 DEF TypeOK

LEMMA StepType == TypeOK /\ [Next]_vars => TypeOK'
<1> SUFFICES ASSUME TypeOK, [Next]_vars PROVE TypeOK'
  OBVIOUS
<1>0. /\ rt \in [Token -> Row] /\ held \subseteq Token /\ clock \in Time
      /\ users \in [User -> [exists: BOOLEAN, banned: BOOLEAN, pw: 0..MaxPw]]
      /\ \A p \in Proc : WellFormed(req[p])
  BY DEF ReqsOK, TypeOK
<1>1. ASSUME NEW p \in Proc, NEW u \in User, handlePasswordGrant(p, u)
      PROVE  TypeOK'
  <2>1. WellFormed([Idle EXCEPT !.pc = "issue", !.op = "grant", !.user = u,
                     !.pw = users[u].pw, !.banned = users[u].banned,
                     !.sticky = users[u].banned])
    BY ZenonT(60), <1>0, IdleType DEF WellFormed, Request
  <2>2. QED
    BY <1>1, <2>1, ReqType DEF handlePasswordGrant, Begin, ReqsOK, TypeOK
<1>2. ASSUME NEW p \in Proc, NEW j \in Token, NEW first \in BOOLEAN,
             handleVerifyFactor(p, j, first)
      PROVE  TypeOK'
  <2> DEFINE u == rt[j].user
             r == [Idle EXCEPT !.pc = "issue", !.op = "mfa", !.user = u,
                               !.sid = rt[j].sid, !.aal = "aal2",
                               !.pw = rt[j].pw, !.banned = users[u].banned,
                               !.sticky = users[u].banned, !.first = first]
  <2>1. u \in User /\ rt[j].sid \in Id /\ rt[j].pw \in 0..MaxPw
    BY <1>0 DEF Row
  <2>2. WellFormed(r)
    BY ZenonT(120), <1>0, <2>1, IdleType DEF WellFormed, Request, AAL
  <2>3. QED
    BY <1>2, <2>2, ReqType DEF handleVerifyFactor, Begin, ReqsOK, TypeOK
<1>3. ASSUME NEW p \in Proc, issueSession(p)
      PROVE  TypeOK'
  <2>1. CASE req' = [req EXCEPT ![p] = Answer(p, "error")] /\ UNCHANGED <<rt, held>>
    BY <1>3, <2>1, AnswerType, ReqType DEF issueSession, ReqsOK, TypeOK
  <2>2. CASE ~(Refused(p) \/ ~users[req[p].user].exists)
    <3> PICK n \in Token :
          LET s == IF req[p].sid = NoId THEN n ELSE req[p].sid
          IN  /\ rt' = [rt EXCEPT ![n] = NewRow(req[p].user, s, req[p].aal, n,
                                                req[p].pw, clock + Life)]
              /\ Deliver(n)
              /\ req' = [req EXCEPT ![p] =
                   IF req[p].op = "mfa"
                   THEN [@ EXCEPT !.pc = "revoke", !.ans = "session",
                           !.scope = IF req[p].first THEN "below2"
                                         ELSE "below2session"]
                   ELSE Answer(p, "session")]
      BY <1>3, <2>2 DEF issueSession
    <3> DEFINE s == IF req[p].sid = NoId THEN n ELSE req[p].sid
               r == [req[p] EXCEPT !.pc = "revoke", !.ans = "session",
                       !.scope = IF req[p].first THEN "below2"
                                 ELSE "below2session"]
    <3>1. /\ req[p].user \in User /\ s \in Id /\ req[p].aal \in AAL
          /\ req[p].pw \in 0..MaxPw
      BY <1>0 DEF WellFormed, Request, Id
    <3>2. NewRow(req[p].user, s, req[p].aal, n, req[p].pw, clock + Life) \in Row
      BY <1>0, <3>1, NewRowType, ExpiryType
    <3>3. WellFormed(r)
      BY <1>0, RevokeEditType DEF Scope
    <3>4. WellFormed(IF req[p].op = "mfa" THEN r ELSE Answer(p, "session"))
      BY <3>3, AnswerType
    <3>5. ReqsOK'
      BY <3>4, ReqType
    <3>6. QED
      <4>1. rt' \in [Token -> Row]
        BY <1>0, <3>2
      <4>2. held' \subseteq Token
        BY <1>0 DEF Deliver
      <4>3. QED
        BY <1>0, <1>3, <3>5, <4>1, <4>2 DEF issueSession, ReqsOK, TypeOK
  <2>3. QED
    BY <1>3, <2>1, <2>2 DEF issueSession
<1>4. ASSUME NEW p \in Proc, NEW t \in Token, handleRefreshGrant(p, t)
      PROVE  TypeOK'
  <2>1. rt[t].user \in User
    BY <1>0 DEF Row
  <2>2. WellFormed([Idle EXCEPT !.pc = "update", !.op = "refresh", !.tok = t,
                     !.user = rt[t].user, !.now = clock,
                     !.sticky = users[rt[t].user].banned])
    BY ZenonT(60), <1>0, <2>1, IdleType DEF WellFormed, Request, Id
  <2>3. QED
    BY <1>4, <2>2, ReqType DEF handleRefreshGrant, Begin, ReqsOK, TypeOK
<1>5. ASSUME NEW p \in Proc, RotateToken(p)
      PROVE  TypeOK'
  <2> DEFINE t == req[p].tok
             r == rt[t]
  <2>1. CASE req' = [req EXCEPT ![p] = Answer(p, "error")] /\ UNCHANGED rt
    BY <1>5, <2>1, AnswerType, ReqType DEF RotateToken, ReqsOK, TypeOK
  <2>2. CASE req' = [req EXCEPT ![p] = [@ EXCEPT !.pc = "lookup"]] /\ UNCHANGED rt
    <3>1. WellFormed([req[p] EXCEPT !.pc = "lookup"])
      BY <1>0, <1>5, EditType DEF RotateToken
    <3>2. QED
      BY <1>5, <2>2, <3>1, ReqType DEF RotateToken, ReqsOK, TypeOK
  <2>0. /\ t \in Token /\ r.user \in User /\ r.sid \in Id /\ r.aal \in AAL
        /\ r.root \in Token /\ r.pw \in 0..MaxPw
        /\ req[p].now \in Nat /\ req[p].now \in Time /\ r.exp \in Nat
    <3>1. t \in Token /\ req[p].now \in Time
      BY <1>0, <1>5 DEF RotateToken, WellFormed, Request
    <3>2. QED
      BY <1>0, <3>1 DEF Row, Time
  <2>3. ASSUME NEW n \in Token, NEW s \in Id,
               rt' = [rt EXCEPT ![n] =
                 [NewRow(r.user, s, r.aal, r.root, r.pw, req[p].now + Life)
                    EXCEPT !.state = "pending"]],
               req' = [req EXCEPT ![p] =
                 [@ EXCEPT !.pc = "loaduser", !.new = n, !.sid = s, !.aal = r.aal]]
        PROVE  TypeOK'
    <3> DEFINE row == [NewRow(r.user, s, r.aal, r.root, r.pw, req[p].now + Life)
                         EXCEPT !.state = "pending"]
    <3>2. row \in Row
      BY <2>0, NewRowType, ExpiryType
    <3>3. rt' \in [Token -> Row]
      BY <2>3, <3>2, InsertType
    <3>4. WellFormed([req[p] EXCEPT !.pc = "loaduser", !.new = n, !.sid = s, !.aal = r.aal])
      BY <1>0, <2>0, <2>3, RotateEditType
    <3>5. QED
      BY <1>5, <2>3, <3>3, <3>4, ReqType DEF RotateToken, ReqsOK, TypeOK
  <2>4. \A n \in Token : (IF r.sid = NoId THEN n ELSE r.sid) \in Id
    BY <2>0 DEF Id
  <2>5. CASE Live(t) /\ r.exp > req[p].now
    <3> PICK n \in Token :
          LET s == IF r.sid = NoId THEN n ELSE r.sid
          IN  /\ IsNextId(n)
              /\ rt' = [rt EXCEPT ![n] =
                   [NewRow(r.user, s, r.aal, r.root, r.pw,
                           req[p].now + Life) EXCEPT !.state = "pending"]]
              /\ req' = [req EXCEPT ![p] =
                   [@ EXCEPT !.pc = "loaduser", !.new = n, !.sid = s,
                             !.aal = r.aal]]
      <4>1. ~(r.exp <= req[p].now)
        BY <2>0, <2>5
      <4>2. QED
        BY <1>5, <2>5, <4>1, Zenon DEF RotateToken
    <3> QED BY <2>3, <2>4
  <2>6. QED
    BY <1>5, <2>1, <2>2, <2>5 DEF RotateToken
<1>6. ASSUME NEW p \in Proc, LookupParent(p)
      PROVE  TypeOK'
  <2> DEFINE r == rt[req[p].tok]
             q == [req[p] EXCEPT !.pc = "child", !.sid = r.sid, !.aal = r.aal,
                                 !.inGrace = InGrace(r.rev, req[p].now)]
  <2>1. req[p].tok \in Token /\ req[p].pc = "lookup"
    BY <1>0, <1>6 DEF LookupParent, WellFormed, Request
  <2>2. r.sid \in Id /\ r.aal \in AAL
    BY <1>0, <2>1 DEF Row
  <2>3. WellFormed(q)
    <3>1. InGrace(r.rev, req[p].now) \in BOOLEAN
      BY DEF InGrace
    <3>2. QED
      BY <1>0, <2>1, <2>2, <3>1, LookupEditType
  <2>4. QED
    BY <1>6, <2>3, AnswerType, ReqType DEF LookupParent, ReqsOK, TypeOK
<1>7. ASSUME NEW p \in Proc, FindChild(p)
      PROVE  TypeOK'
  <2>1. ASSUME NEW c \in Token
        PROVE  WellFormed([req[p] EXCEPT !.pc = "loaduser", !.new = c])
    <3>1. req[p].tok \in Token
      BY <1>0, <1>7 DEF FindChild, WellFormed
    <3>2. QED
      BY <1>0, <3>1, RotateEditType
  <2>2. WellFormed([req[p] EXCEPT !.pc = "revoke", !.ans = "reuse",
                       !.scope = IF req[p].sid = NoId
                                 THEN "all" ELSE "session"])
    BY <1>0, RevokeEditType DEF Scope
  <2>3. QED
    BY <1>7, <2>1, <2>2, ReqType DEF FindChild, Children, ReqsOK, TypeOK
<1>8. ASSUME NEW p \in Proc, LoadUser(p)
      PROVE  TypeOK'
  <2> DEFINE S == {t \in Token : /\ rt[t].state = "revoked"
                                 /\ rt[t].sid = req[p].sid
                                 /\ rt[t].exp < req[p].now}
  <2>1. req[p].user \in User
    BY <1>0 DEF WellFormed, Request
  <2>2. WellFormed([req[p] EXCEPT !.pc = "commit", !.banned = users[req[p].user].banned,
                       !.targets = S])
    <3>1. req[p].tok \in Token /\ req[p].new \in Token
      BY <1>0, <1>8 DEF LoadUser, WellFormed
    <3>2. users[req[p].user].banned \in BOOLEAN /\ S \in SUBSET Token
      BY <1>0, <2>1
    <3> HIDE DEF S
    <3>3. QED
      BY <1>0, <3>1, <3>2, LoadEditType
  <2>3. rt' \in [Token -> Row]
    BY <1>0, <1>8, RemoveType DEF LoadUser
  <2>4. ReqsOK'
    BY <1>8, <2>2, AnswerType, ReqType DEF LoadUser
  <2>5. QED
    BY <1>8, <2>3, <2>4 DEF LoadUser, ReqsOK, TypeOK
<1>9. ASSUME NEW p \in Proc, CommitRefresh(p)
      PROVE  TypeOK'
  <2>1. rt' \in [Token -> Row]
    BY <1>9, CommittedType, RemoveType DEF CommitRefresh
  <2>2. ReqsOK'
    BY <1>9, AnswerType, ReqType DEF CommitRefresh
  <2>3. held' \subseteq Token
    <3>1. req[p].new \in Token
      BY <1>0, <1>9 DEF CommitRefresh, WellFormed
    <3>2. QED
      BY <1>0, <1>9, <3>1 DEF CommitRefresh, Deliver
  <2>4. QED
    BY <1>9, <2>1, <2>2, <2>3 DEF CommitRefresh, ReqsOK, TypeOK
<1>10. ASSUME NEW p \in Proc, NEW j \in Token, handleUpdateUser(p, j)
       PROVE  TypeOK'
  <2>1. rt[j].user \in User /\ rt[j].sid \in Id
    BY <1>0 DEF Row
  <2>2. ReqsOK'
    BY <1>10, <2>1, RevokingType, ReqType DEF handleUpdateUser, Begin, Scope
  <2>3. users' \in [User -> [exists: BOOLEAN, banned: BOOLEAN, pw: 0..MaxPw]]
    BY <1>0, <1>10, <2>1, SessionsAssumption DEF handleUpdateUser
  <2>4. QED
    BY <1>10, <2>2, <2>3 DEF handleUpdateUser, ReqsOK, TypeOK
<1>11. ASSUME NEW p \in Proc, NEW j \in Token,
              NEW scope \in {"session", "others", "all"},
              handleLogout(p, j, scope)
       PROVE  TypeOK'
  <2>1. rt[j].user \in User /\ rt[j].sid \in Id
    BY <1>0 DEF Row
  <2>2. ReqsOK'
    BY <1>11, <2>1, RevokingType, ReqType DEF handleLogout, Begin, Scope
  <2>3. QED
    BY <1>11, <2>2 DEF handleLogout, ReqsOK, TypeOK
<1>12. ASSUME NEW p \in Proc, NEW u \in User,
              handleAdminSignOut(p, u) \/ handleDisableUser(p, u)
                \/ DeleteUser(p, u)
       PROVE  TypeOK'
  <2>1. NoId \in Id
    BY DEF Id
  <2>2. ReqsOK'
    BY <1>12, <2>1, RevokingType, ReqType
    DEF handleAdminSignOut, handleDisableUser, DeleteUser, Begin, Scope
  <2>3. users' \in [User -> [exists: BOOLEAN, banned: BOOLEAN, pw: 0..MaxPw]]
    BY <1>0, <1>12 DEF handleAdminSignOut, handleDisableUser, DeleteUser
  <2>4. QED
    BY <1>12, <2>2, <2>3
    DEF handleAdminSignOut, handleDisableUser, DeleteUser, ReqsOK, TypeOK
<1>13. ASSUME NEW p \in Proc, RevokeStart(p)
       PROVE  TypeOK'
  <2>1. WellFormed([req[p] EXCEPT !.pc = "deleting",
                       !.targets = {t \in Token : Stored(t) /\ Matches(req[p], t)}])
    BY <1>0, RevokeEditType DEF Scope
  <2>2. QED
    BY <1>13, <2>1, ReqType DEF RevokeStart, ReqsOK, TypeOK
<1>14. ASSUME NEW p \in Proc, RevokeFinish(p)
       PROVE  TypeOK'
  <2> DEFINE r == [req[p] EXCEPT !.pc = IF req[p].op = "delete"
                                        THEN "deluser" ELSE "done",
                                 !.targets = {}]
  <2>1. WellFormed(r)
    BY <1>0, EditType
  <2>3. ReqsOK'
    BY <1>14, <2>1, ReqType DEF RevokeFinish
  <2>4. rt' \in [Token -> Row]
    BY <1>0, <1>14, RemoveType DEF RevokeFinish
  <2>5. QED
    BY <1>14, <2>3, <2>4 DEF RevokeFinish, ReqsOK, TypeOK
<1>15. ASSUME NEW p \in Proc, DeleteUserRow(p)
       PROVE  TypeOK'
  <2>1. ReqsOK'
    BY <1>15, AnswerType, ReqType DEF DeleteUserRow
  <2>2. rt' \in [Token -> Row]
    BY <1>0, <1>15, RemoveType DEF DeleteUserRow
  <2>3. users' \in [User -> [exists: BOOLEAN, banned: BOOLEAN, pw: 0..MaxPw]]
    BY <1>0, <1>15 DEF DeleteUserRow
  <2>4. QED
    BY <1>15, <2>1, <2>2, <2>3 DEF DeleteUserRow, ReqsOK, TypeOK
<1>16. ASSUME NEW p \in Proc, RequestFails(p)
       PROVE  TypeOK'
  <2>1. WellFormed([req[p] EXCEPT !.pc = "deluser", !.targets = {}])
    BY <1>0, EditType
  <2>2. ReqsOK'
    BY <1>16, <2>1, AnswerType, ReqType DEF WellFormed, RequestFails
  <2>3. rt' \in [Token -> Row]
    BY <1>0, <1>16, RemoveType DEF WellFormed, RequestFails
  <2>4. QED
    BY <1>16, <2>2, <2>3 DEF WellFormed, RequestFails, ReqsOK, TypeOK
<1>17. ASSUME NEW p \in Proc, Return(p)
       PROVE  TypeOK'
  BY <1>17, IdleType, ReqType DEF Return, ReqsOK, TypeOK
<1>18. ASSUME NEW u \in User, Unban(u)
       PROVE  TypeOK'
  <2>1. \A p \in Proc : WellFormed([req[p] EXCEPT !.sticky = FALSE])
    BY <1>0, EditType
  <2>2. ReqsOK'
    <3>1. \A p \in Proc : req'[p] \in {req[p], [req[p] EXCEPT !.sticky = FALSE]}
      BY <1>18 DEF Unban
    <3>2. \A p \in Proc : WellFormed(req'[p])
      BY <1>0, <2>1, <3>1
    <3>3. req' \in [Proc -> Request]
      BY <1>18, <3>2 DEF Unban, WellFormed
    <3>4. QED
      BY <3>2, <3>3 DEF ReqsOK
  <2>3. users' \in [User -> [exists: BOOLEAN, banned: BOOLEAN, pw: 0..MaxPw]]
    BY <1>0, <1>18 DEF Unban
  <2>4. QED
    BY <1>18, <2>2, <2>3 DEF Unban, ReqsOK, TypeOK
<1>19. CASE Tick
  BY <1>19, SessionsAssumption DEF Tick, Time, ReqsOK, TypeOK
<1>20. CASE UNCHANGED vars
  BY <1>20 DEF vars, ReqsOK, TypeOK
<1>21. QED
  BY <1>1, <1>2, <1>3, <1>4, <1>5, <1>6, <1>7, <1>8, <1>9, <1>10, <1>11,
     <1>12, <1>13, <1>14, <1>15, <1>16, <1>17, <1>18, <1>19, <1>20
  DEF Next, Refresh, Issue, Revoke

(* Every state has well-formed tables and requests.                        *)
THEOREM TypeCorrect == Spec => []TypeOK
  BY InitType, StepType, PTL DEF Spec
-----------------------------------------------------------------------------
(***************************************************************************)
(* No fork.  The invariant says what the row lock of a rotation buys: the  *)
(* parent stays live and the child apart until the commit.                 *)
(***************************************************************************)
RotationsOK ==
  \A p \in Proc : Rotating(p) =>
    /\ Live(req[p].tok)
    /\ rt[req[p].new].root = rt[req[p].tok].root

RotationsApart ==
  \A p, q \in Proc : Rotating(p) /\ Rotating(q) /\ p # q =>
    req[p].tok # req[q].tok /\ req[p].new # req[q].new

(* The token a refresh will answer with is an id the table handed out.     *)
AnswersExist ==
  \A p \in Proc : req[p].pc \in {"loaduser", "commit"}
                    => rt[req[p].new].state # "none"

(* The rows a statement will delete: spent ones for the prune, committed   *)
(* ones for the others.                                                    *)
TargetsOK ==
  \A p \in Proc : \A t \in req[p].targets :
    /\ req[p].pc = "commit" => rt[t].state \in {"revoked", "gone"}
    /\ req[p].pc = "deleting" => rt[t].state \in {"live", "revoked", "gone"}

(* A line is named by an id the table handed out.                          *)
RootsExist ==
  \A t \in Token : rt[t].state # "none" => rt[rt[t].root].state # "none"

IInv == /\ TypeOK /\ RotationsOK /\ RotationsApart /\ AnswersExist
        /\ TargetsOK /\ RootsExist /\ NoFork

(* What the next record of q may name once the tokens of S are removed: a  *)
(* rotation can only be the one under way.                                 *)
Continues(q, S) ==
  /\ req'[q].pc \in {"loaduser", "commit"} =>
       /\ req'[q].new \in Token
       /\ rt[req'[q].new].state # "none"
       /\ rt[req'[q].new].state = "pending" /\ req'[q].new \notin S =>
            /\ Rotating(q)
            /\ req'[q].tok = req[q].tok /\ req'[q].new = req[q].new
            /\ req[q].tok \notin S
  /\ \A t \in req'[q].targets :
       /\ req'[q].pc = "commit" => rt[t].state \in {"revoked", "gone"}
       /\ req'[q].pc = "deleting" => rt[t].state \in {"live", "revoked", "gone"}

LEMMA RemoveFields ==
  ASSUME TypeOK, NEW S \in SUBSET Token, rt' = Remove(rt, S), NEW t \in Token
  PROVE  /\ rt'[t].root = rt[t].root
         /\ rt'[t].state = IF t \in S THEN "gone" ELSE rt[t].state
  BY DEF TypeOK, Remove, Row

LEMMA RemoveKeeps ==
  ASSUME IInv, TypeOK', NEW S \in SUBSET Token, rt' = Remove(rt, S),
         \A t \in S : rt[t].state # "none",
         \A q \in Proc : Continues(q, S)
  PROVE  IInv'
<1>0. /\ TypeOK
      /\ \A t \in Token : rt[t].root \in Token
      /\ \A q \in Proc : req'[q].targets \subseteq Token
      /\ \A q \in Proc : WellFormed(req[q]) /\ WellFormed(req'[q])
  BY DEF IInv, TypeOK, Row, Request, WellFormed
<1>1. \A t \in Token :
        /\ rt'[t].root = rt[t].root
        /\ rt'[t].state = IF t \in S THEN "gone" ELSE rt[t].state
  BY <1>0, RemoveFields
<1>2. \A t \in Token : Live(t)' => Live(t) /\ t \notin S
  BY <1>1 DEF Live
<1>3. ASSUME NEW q \in Proc, Rotating(q)'
      PROVE  /\ Rotating(q) /\ req'[q].tok = req[q].tok /\ req'[q].new = req[q].new
             /\ req[q].tok \in Token /\ req[q].tok \notin S
             /\ req[q].new \in Token /\ req[q].new \notin S
  <2>1. /\ req'[q].pc \in {"loaduser", "commit"} /\ req'[q].new \in Token
        /\ rt[req'[q].new].state = "pending" /\ req'[q].new \notin S
    BY <1>1, <1>3 DEF Rotating
  <2>2. /\ Rotating(q) /\ req'[q].tok = req[q].tok /\ req'[q].new = req[q].new
        /\ req[q].tok \notin S
    BY <2>1 DEF Continues
  <2>3. req[q].tok \in Token
    BY <1>0, <2>2 DEF Rotating, WellFormed
  <2>4. QED
    BY <2>1, <2>2, <2>3
<1>4. RotationsOK'
  BY <1>1, <1>3 DEF IInv, RotationsOK, Live
<1>5. RotationsApart'
  BY <1>3 DEF IInv, RotationsApart
<1>6. AnswersExist'
  BY <1>1 DEF AnswersExist, Continues
<1>7. TargetsOK'
  BY <1>0, <1>1 DEF TargetsOK, Continues
<1>8. RootsExist'
  BY <1>0, <1>1 DEF IInv, RootsExist
<1>9. NoFork'
  BY <1>1, <1>2 DEF IInv, NoFork
<1>10. QED
  BY <1>4, <1>5, <1>6, <1>7, <1>8, <1>9 DEF IInv

(* One request goes on, the others stay.                                   *)
LEMMA OneKeeps ==
  ASSUME IInv, TypeOK', NEW p \in Proc, \A q \in Proc : q # p => req'[q] = req[q],
         NEW S \in SUBSET Token, rt' = Remove(rt, S),
         \A t \in S : rt[t].state # "none",
         \A q \in Proc : q # p /\ Rotating(q) => req[q].tok \notin S,
         Continues(p, S)
  PROVE  IInv'
<1>1. ASSUME NEW q \in Proc, q # p
      PROVE  Continues(q, S)
  <2>1. WellFormed(req[q]) /\ req'[q] = req[q]
    BY <1>1 DEF IInv, TypeOK
  <2>2. req[q].pc \in {"loaduser", "commit"} =>
          req[q].new \in Token /\ rt[req[q].new].state # "none"
    BY <2>1 DEF IInv, AnswersExist, WellFormed
  <2>3. QED
    BY <1>1, <2>1, <2>2 DEF IInv, Continues, TargetsOK, Rotating
<1>2. QED
  BY <1>1, RemoveKeeps

(* The table is not written.                                               *)
LEMMA ReadKeeps ==
  ASSUME IInv, TypeOK', NEW p \in Proc, \A q \in Proc : q # p => req'[q] = req[q],
         UNCHANGED rt, Continues(p, {})
  PROVE  IInv'
<1>1. rt' = Remove(rt, {})
  BY DEF IInv, TypeOK, Remove
<1>2. QED
  BY <1>1, OneKeeps

(* A record that names neither a rotation nor targets.                     *)
LEMMA PlainContinues ==
  ASSUME NEW q \in Proc, NEW S,
         req'[q].pc \notin {"loaduser", "commit", "deleting"}
  PROVE  Continues(q, S)
  BY DEF Continues

LEMMA IssueKeeps ==
  ASSUME IInv, TypeOK', NEW p \in Proc, \A q \in Proc : q # p => req'[q] = req[q],
         req'[p].pc \in {"revoke", "done"},
         NEW n \in Token, rt[n].state = "none",
         NEW row, row.state = "live", row.root = n, rt' = [rt EXCEPT ![n] = row]
  PROVE  IInv'
<1>0. /\ \A t \in Token : rt[t].root \in Token
      /\ \A q \in Proc : WellFormed(req[q]) /\ req[q].targets \subseteq Token
  BY DEF IInv, TypeOK, Row, Request, WellFormed
<1>1. /\ rt'[n] = row
      /\ \A t \in Token : t # n => rt'[t] = rt[t]
  BY DEF IInv, TypeOK
<1>2. ASSUME NEW q \in Proc, Rotating(q)'
      PROVE  /\ q # p /\ req'[q] = req[q] /\ Rotating(q)
             /\ req[q].tok \in Token /\ req[q].tok # n
             /\ req[q].new \in Token /\ req[q].new # n
  <2>1. q # p /\ req'[q] = req[q] /\ req[q].new # n /\ Rotating(q)
    BY <1>1, <1>2 DEF Rotating
  <2>2. req[q].tok \in Token /\ Live(req[q].tok)
    BY <1>0, <2>1 DEF IInv, RotationsOK, Rotating, WellFormed
  <2>3. QED
    BY <2>1, <2>2 DEF Live, Rotating
<1>3. RotationsOK'
  BY <1>1, <1>2 DEF IInv, RotationsOK, Live
<1>4. RotationsApart'
  BY <1>2 DEF IInv, RotationsApart
<1>5. AnswersExist'
  BY <1>0, <1>1 DEF IInv, AnswersExist, WellFormed
<1>6. TargetsOK'
  BY <1>0, <1>1 DEF IInv, TargetsOK
<1>7. RootsExist'
  BY <1>0, <1>1 DEF IInv, RootsExist
<1>8. NoFork'
  BY <1>1 DEF IInv, NoFork, RootsExist, Live
<1>9. QED
  BY <1>3, <1>4, <1>5, <1>6, <1>7, <1>8 DEF IInv

LEMMA RotateKeeps ==
  ASSUME IInv, TypeOK', NEW p \in Proc, \A q \in Proc : q # p => req'[q] = req[q],
         NEW n \in Token, rt[n].state = "none",
         req[p].tok \in Token, Live(req[p].tok), ~Locked(req[p].tok),
         req'[p].pc = "loaduser", req'[p].new = n, req'[p].tok = req[p].tok,
         NEW row, row.state = "pending", row.root = rt[req[p].tok].root,
         rt' = [rt EXCEPT ![n] = row]
  PROVE  IInv'
<1>0. /\ \A t \in Token : rt[t].root \in Token
      /\ \A q \in Proc : WellFormed(req[q]) /\ req[q].targets \subseteq Token
  BY DEF IInv, TypeOK, Row, Request, WellFormed
<1>1. /\ rt'[n] = row
      /\ \A t \in Token : t # n => rt'[t] = rt[t]
  BY DEF IInv, TypeOK
<1>2. ASSUME NEW q \in Proc, q # p, Rotating(q)'
      PROVE  /\ req'[q] = req[q] /\ Rotating(q)
             /\ req[q].tok \in Token /\ req[q].tok # n /\ req[q].tok # req[p].tok
             /\ req[q].new \in Token /\ req[q].new # n
  <2>1. req'[q] = req[q] /\ req[q].new # n /\ Rotating(q)
    BY <1>1, <1>2 DEF IInv, AnswersExist, Rotating
  <2>2. req[q].tok \in Token /\ Live(req[q].tok)
    BY <1>0, <2>1 DEF IInv, RotationsOK, Rotating, WellFormed
  <2>3. QED
    BY <2>1, <2>2 DEF Live, Rotating, Locked
<1>3. RotationsOK'
  BY <1>1, <1>2 DEF IInv, RotationsOK, Live
<1>4. RotationsApart'
  BY <1>2 DEF IInv, RotationsApart
<1>5. AnswersExist'
  BY <1>0, <1>1 DEF IInv, AnswersExist, WellFormed
<1>6. TargetsOK'
  BY <1>0, <1>1 DEF IInv, TargetsOK
<1>7. RootsExist'
  BY <1>0, <1>1 DEF IInv, RootsExist, Live
<1>8. NoFork'
  BY <1>1 DEF IInv, NoFork, Live
<1>9. QED
  BY <1>3, <1>4, <1>5, <1>6, <1>7, <1>8 DEF IInv

(* The rows a commit writes, for the statement that may follow it.         *)
Edited(f, x, y, d) ==
  [f EXCEPT ![x].state = "revoked", ![x].rev = d, ![y].state = "live"]

LEMMA EditedRows ==
  ASSUME NEW f \in [Token -> Row], NEW x \in Token, NEW y \in Token, x # y, NEW d,
         NEW S, NEW t \in Token, NEW g,
         g = Remove(Edited(f, x, y, d), S)
  PROVE  /\ g[t].root = f[t].root /\ g[t].exp = f[t].exp
         /\ g[t].rev = IF t = x THEN d ELSE f[t].rev
         /\ g[t].state = IF t \in S THEN "gone" ELSE IF t = x THEN "revoked"
                         ELSE IF t = y THEN "live" ELSE f[t].state
<1> DEFINE e == Edited(f, x, y, d)
<1>1. f[t] \in Row /\ DOMAIN f = Token
  OBVIOUS
<1>2. /\ e[t].root = f[t].root /\ e[t].exp = f[t].exp
      /\ e[t].rev = IF t = x THEN d ELSE f[t].rev
      /\ e[t].state = IF t = x THEN "revoked" ELSE IF t = y THEN "live" ELSE f[t].state
      /\ DOMAIN e[t] = DOMAIN f[t]
  <2>1. CASE t = x
    <3>1. e[t] = [f[t] EXCEPT !.state = "revoked", !.rev = d]
      BY <2>1, <1>1 DEF Edited
    <3>2. QED
      BY <1>1, <2>1, <3>1 DEF Row
  <2>2. CASE t = y
    <3>1. e[t] = [f[t] EXCEPT !.state = "live"]
      BY <2>2, <1>1 DEF Edited
    <3>2. QED
      BY <1>1, <2>2, <3>1 DEF Row
  <2>3. CASE t # x /\ t # y
    BY <1>1, <2>3 DEF Edited
  <2>4. QED
    BY <2>1, <2>2, <2>3
<1>3. g[t] = IF t \in S THEN [e[t] EXCEPT !.state = "gone"] ELSE e[t]
  BY DEF Remove
<1>4. "state" \in DOMAIN f[t]
  BY <1>1 DEF Row
<1> HIDE DEF e
<1>5. /\ g[t].root = e[t].root /\ g[t].exp = e[t].exp /\ g[t].rev = e[t].rev
      /\ g[t].state = IF t \in S THEN "gone" ELSE e[t].state
  BY <1>1, <1>2, <1>3, <1>4 DEF Row
<1>6. QED
  BY <1>2, <1>5

LEMMA CommitFields ==
  ASSUME TypeOK, NEW p \in Proc, Rotating(p), req[p].tok \in Token,
         req[p].tok # req[p].new, NEW S \in SUBSET Token,
         req[p].tok \notin S, req[p].new \notin S,
         rt' = Remove(Committed(p), S), NEW t \in Token
  PROVE  /\ rt'[t].root = rt[t].root
         /\ rt'[t].state = CASE t = req[p].tok -> "revoked"
                             [] t = req[p].new -> "live"
                             [] t \in S -> "gone"
                             [] OTHER -> rt[t].state
<1>1. rt \in [Token -> Row] /\ req[p].new \in Token
  BY DEF TypeOK, Rotating
<1>2. rt' = Remove(Edited(rt, req[p].tok, req[p].new, req[p].now), S)
  BY DEF Committed, Edited
<1>3. /\ rt'[t].root = rt[t].root
      /\ rt'[t].state = IF t \in S THEN "gone" ELSE IF t = req[p].tok THEN "revoked"
                        ELSE IF t = req[p].new THEN "live" ELSE rt[t].state
  BY <1>1, <1>2, EditedRows
<1>4. CASE t \in S
  BY <1>3, <1>4
<1>5. CASE t \notin S /\ t = req[p].tok
  BY <1>3, <1>5
<1>6. CASE t \notin S /\ t = req[p].new
  BY <1>3, <1>6
<1>7. CASE t \notin S /\ t # req[p].tok /\ t # req[p].new
  BY <1>3, <1>7
<1>8. QED
  BY <1>4, <1>5, <1>6, <1>7

LEMMA CommitKeeps ==
  ASSUME IInv, TypeOK', NEW p \in Proc, \A q \in Proc : q # p => req'[q] = req[q],
         Rotating(p), req[p].pc = "commit", req'[p].pc = "done",
         rt' = Remove(Committed(p), req[p].targets)
  PROVE  IInv'
<1> DEFINE tok == req[p].tok
           new == req[p].new
           S == req[p].targets
<1>0. /\ \A t \in Token : rt[t].root \in Token
      /\ \A q \in Proc : WellFormed(req[q]) /\ req[q].targets \subseteq Token
  BY DEF IInv, TypeOK, Row, Request, WellFormed
<1>1. /\ tok \in Token /\ new \in Token /\ tok # new
      /\ Live(tok) /\ rt[new].state = "pending" /\ rt[new].root = rt[tok].root
      /\ \A t \in S : rt[t].state \in {"revoked", "gone"}
  BY <1>0 DEF IInv, RotationsOK, TargetsOK, Rotating, WellFormed, Live
<1>2. tok \notin S /\ new \notin S
  BY <1>1 DEF Live
<1>3. \A t \in Token :
        /\ rt'[t].root = rt[t].root
        /\ rt'[t].state = CASE t = tok -> "revoked"
                            [] t = new -> "live"
                            [] t \in S -> "gone"
                            [] OTHER -> rt[t].state
  BY <1>0, <1>1, <1>2, CommitFields DEF IInv
<1>4. ASSUME NEW q \in Proc, Rotating(q)'
      PROVE  /\ q # p /\ req'[q] = req[q] /\ Rotating(q)
             /\ req[q].tok \in Token /\ req[q].new \in Token
             /\ Live(req[q].tok)'
  <2>1. q # p /\ req'[q] = req[q] /\ Rotating(q)
    BY <1>3, <1>4 DEF Rotating
  <2>2. /\ req[q].tok \in Token /\ req[q].new \in Token /\ Live(req[q].tok)
        /\ req[q].tok # tok
    BY <1>0, <2>1 DEF IInv, RotationsOK, RotationsApart, Rotating, WellFormed
  <2>3. req[q].tok \notin S
    BY <1>1, <2>2 DEF Live
  <2>4. QED
    BY <1>1, <1>3, <2>1, <2>2, <2>3 DEF Live
<1>5. RotationsOK'
  BY <1>3, <1>4 DEF IInv, RotationsOK, Live
<1>6. RotationsApart'
  BY <1>4 DEF IInv, RotationsApart
<1>7. AnswersExist'
  BY <1>0, <1>3 DEF IInv, AnswersExist, WellFormed
<1>8. TargetsOK'
  BY <1>0, <1>1, <1>3 DEF IInv, TargetsOK
<1>9. RootsExist'
  BY <1>0, <1>1, <1>3 DEF IInv, RootsExist
<1>10. NoFork'
  <2>1. \A t \in Token : Live(t)' => t = new \/ (Live(t) /\ t # tok)
    BY <1>3 DEF Live
  <2>2. QED
    BY <1>1, <1>3, <2>1 DEF IInv, NoFork
<1>11. QED
  BY <1>5, <1>6, <1>7, <1>8, <1>9, <1>10 DEF IInv

LEMMA AnswerPc == \A p, a : Answer(p, a).pc = "done"
  BY DEF Answer, Idle

LEMMA RevokingPc == \A op, u, sid, sc : Revoking(op, u, sid, sc).pc = "revoke"
  BY DEF Revoking, Idle

LEMMA InitFork == Init => IInv
<1> SUFFICES ASSUME Init PROVE IInv
  OBVIOUS
<1>1. TypeOK
  BY InitType
<1>2. \A t \in Token : rt[t].root = t
  BY DEF Init, NewRow
<1>3. \A p \in Proc : req[p].pc = "idle" /\ req[p].targets = {}
  BY DEF Init, Idle
<1>4. QED
  BY <1>1, <1>2, <1>3
  DEF IInv, RotationsOK, RotationsApart, AnswersExist, TargetsOK, RootsExist,
      NoFork, Rotating

LEMMA StepFork == IInv /\ [Next]_vars => IInv'
<1> SUFFICES ASSUME IInv, [Next]_vars PROVE IInv'
  OBVIOUS
<1>0. /\ TypeOK /\ TypeOK' /\ req \in [Proc -> Request]
      /\ \A q \in Proc : WellFormed(req[q]) /\ req[q].targets \subseteq Token
  BY StepType DEF IInv, TypeOK, Request, WellFormed
<1>. DEFINE Moves(p, PC) == /\ req'[p].pc \in PC
                            /\ \A q \in Proc : q # p => req'[q] = req[q]
            Plain == {"idle", "issue", "update", "lookup", "child", "revoke",
                      "deluser", "done"}
<1>1. ASSUME NEW p \in Proc, Moves(p, Plain), UNCHANGED rt
      PROVE  IInv'
  <2>1. Continues(p, {})
    BY <1>0, <1>1, PlainContinues
  <2>2. QED
    BY <1>0, <1>1, <2>1, ReadKeeps
<1>2. ASSUME NEW p \in Proc,
             \/ \E u \in User : \/ handlePasswordGrant(p, u)
                               \/ handleAdminSignOut(p, u)
                               \/ handleDisableUser(p, u)
                               \/ DeleteUser(p, u)
             \/ \E j \in Token, first \in BOOLEAN : handleVerifyFactor(p, j, first)
             \/ \E t \in Token : handleRefreshGrant(p, t) \/ handleUpdateUser(p, t)
             \/ \E j \in Token, scope \in {"session", "others", "all"} :
                  handleLogout(p, j, scope)
      PROVE  IInv'
  <2>2. CASE \E u \in User : handlePasswordGrant(p, u)
    <3>1. req'[p].pc = "issue"
      BY <1>0, <2>2 DEF handlePasswordGrant, Begin, Idle
    <3>2. QED
      BY <1>0, <1>1, <2>2, <3>1 DEF handlePasswordGrant, Begin
  <2>3. CASE \E j \in Token, first \in BOOLEAN : handleVerifyFactor(p, j, first)
    <3>1. req'[p].pc = "issue"
      BY <1>0, <2>3 DEF handleVerifyFactor, Begin, Idle
    <3>2. QED
      BY <1>0, <1>1, <2>3, <3>1 DEF handleVerifyFactor, Begin
  <2>4. CASE \E t \in Token : handleRefreshGrant(p, t)
    <3>1. req'[p].pc = "update"
      BY <1>0, <2>4 DEF handleRefreshGrant, Begin, Idle
    <3>2. QED
      BY <1>0, <1>1, <2>4, <3>1 DEF handleRefreshGrant, Begin
  <2>5. CASE \E op, u, sid, sc : Begin(p, Revoking(op, u, sid, sc)) /\ UNCHANGED rt
    <3>1. req'[p].pc = "revoke"
      BY <1>0, <2>5, RevokingPc DEF Begin
    <3>2. QED
      BY <1>0, <1>1, <2>5, <3>1 DEF Begin
  <2>6. ASSUME NEW t \in Token, handleUpdateUser(p, t)
        PROVE  IInv'
    BY <2>5, <2>6 DEF handleUpdateUser
  <2>7. ASSUME NEW j \in Token, NEW scope \in {"session", "others", "all"},
               handleLogout(p, j, scope)
        PROVE  IInv'
    BY <2>5, <2>7 DEF handleLogout
  <2>8. ASSUME NEW u \in User,
               \/ handleAdminSignOut(p, u) \/ handleDisableUser(p, u)
               \/ DeleteUser(p, u)
        PROVE  IInv'
    BY <2>5, <2>8 DEF handleAdminSignOut, handleDisableUser, DeleteUser
  <2>9. QED
    BY <1>2, <2>2, <2>3, <2>4, <2>6, <2>7, <2>8
<1>3. ASSUME NEW p \in Proc, issueSession(p)
      PROVE  IInv'
  <2>1. CASE Refused(p) \/ ~users[req[p].user].exists
    BY <1>0, <1>1, <1>3, <2>1, AnswerPc DEF issueSession
  <2>2. CASE ~(Refused(p) \/ ~users[req[p].user].exists)
    <3> PICK n \in Token :
          LET s == IF req[p].sid = NoId THEN n ELSE req[p].sid
          IN  /\ IsNextId(n)
              /\ rt' = [rt EXCEPT ![n] = NewRow(req[p].user, s, req[p].aal, n,
                                                req[p].pw, clock + Life)]
              /\ Deliver(n)
              /\ req' = [req EXCEPT ![p] =
                   IF req[p].op = "mfa"
                   THEN [@ EXCEPT !.pc = "revoke", !.ans = "session",
                           !.scope = IF req[p].first THEN "below2"
                                         ELSE "below2session"]
                   ELSE Answer(p, "session")]
      BY <1>3, <2>2 DEF issueSession
    <3> DEFINE s == IF req[p].sid = NoId THEN n ELSE req[p].sid
               row == NewRow(req[p].user, s, req[p].aal, n, req[p].pw, clock + Life)
    <3>1. row.state = "live" /\ row.root = n /\ rt[n].state = "none"
      BY DEF NewRow, IsNextId
    <3>2. req'[p].pc \in {"revoke", "done"}
      BY <1>0, AnswerPc DEF WellFormed, Request
    <3>3. \A q \in Proc : q # p => req'[q] = req[q]
      BY <1>0
    <3>4. rt' = [rt EXCEPT ![n] = row]
      OBVIOUS
    <3> HIDE DEF row
    <3>5. QED
      BY <1>0, <3>1, <3>2, <3>3, <3>4, IssueKeeps
  <2>3. QED
    BY <2>1, <2>2
<1>4. ASSUME NEW p \in Proc, RotateToken(p)
      PROVE  IInv'
  <2> DEFINE t == req[p].tok
  <2>0. t \in Token /\ rt[t].exp \in Nat /\ req[p].now \in Nat
    <3>1. t \in Token /\ req[p].now \in Time
      BY <1>0, <1>4 DEF RotateToken, WellFormed, Request
    <3>2. QED
      BY <1>0, <3>1 DEF TypeOK, Row, Time
  <2>1. CASE ~Live(t) \/ rt[t].exp <= req[p].now
    <3>1. CASE req' = [req EXCEPT ![p] = Answer(p, "error")] /\ UNCHANGED rt
      BY <1>0, <1>1, <3>1, AnswerPc
    <3>2. CASE req' = [req EXCEPT ![p] = [@ EXCEPT !.pc = "lookup"]] /\ UNCHANGED rt
      <4>1. req'[p].pc = "lookup" /\ \A q \in Proc : q # p => req'[q] = req[q]
        BY <1>0, <3>2 DEF Request
      <4>2. QED
        BY <1>1, <3>2, <4>1
    <3>3. QED
      <4>1. ~(Live(t) /\ rt[t].exp > req[p].now)
        BY <2>0, <2>1
      <4>2. QED
        BY <1>4, <3>1, <3>2, <4>1, Zenon DEF RotateToken
  <2>2. CASE Live(t) /\ ~(rt[t].exp <= req[p].now)
    <3> DEFINE r == rt[t]
    <3>0. PICK n \in Token :
          LET s == IF r.sid = NoId THEN n ELSE r.sid
          IN  /\ IsNextId(n)
              /\ rt' = [rt EXCEPT ![n] =
                   [NewRow(r.user, s, r.aal, r.root, r.pw,
                           req[p].now + Life) EXCEPT !.state = "pending"]]
              /\ req' = [req EXCEPT ![p] =
                   [@ EXCEPT !.pc = "loaduser", !.new = n, !.sid = s,
                             !.aal = r.aal]]
      BY <1>4, <2>2, Zenon DEF RotateToken
    <3> DEFINE s == IF r.sid = NoId THEN n ELSE r.sid
               row == [NewRow(r.user, s, r.aal, r.root, r.pw,
                              req[p].now + Life) EXCEPT !.state = "pending"]
    <3>1. row.state = "pending" /\ row.root = r.root /\ rt[n].state = "none"
      BY <3>0 DEF NewRow, IsNextId
    <3>2. /\ req'[p].pc = "loaduser" /\ req'[p].new = n /\ req'[p].tok = t
          /\ \A q \in Proc : q # p => req'[q] = req[q]
      BY <1>0, <3>0 DEF Request
    <3>3. ~Locked(t)
      BY <1>4 DEF RotateToken
    <3>4. rt' = [rt EXCEPT ![n] = row]
      BY <3>0
    <3> HIDE DEF row
    <3>5. QED
      BY <1>0, <2>0, <2>2, <3>1, <3>2, <3>3, <3>4, RotateKeeps
  <2>3. QED
    BY <2>1, <2>2
<1>5. ASSUME NEW p \in Proc, LookupParent(p)
      PROVE  IInv'
  <2>1. req'[p].pc \in {"child", "done"}
    BY <1>0, <1>5, AnswerPc DEF LookupParent, Request
  <2>2. QED
    BY <1>0, <1>1, <1>5, <2>1 DEF LookupParent
<1>6. ASSUME NEW p \in Proc, FindChild(p)
      PROVE  IInv'
  <2>1. CASE \E c \in Token : /\ Live(c)
                             /\ req' = [req EXCEPT ![p] = [@ EXCEPT !.pc = "loaduser",
                                                                   !.new = c]]
    <3>1. PICK c \in Token : /\ Live(c)
                             /\ req' = [req EXCEPT ![p] = [@ EXCEPT !.pc = "loaduser",
                                                                   !.new = c]]
      BY <2>1
    <3>2. req'[p].pc = "loaduser" /\ req'[p].new = c
      BY <1>0, <3>1 DEF Request
    <3>3. Continues(p, {})
      BY <3>1, <3>2 DEF Continues, Live
    <3>4. QED
      BY <1>0, <1>6, <3>1, <3>3, ReadKeeps DEF FindChild
  <2>2. CASE \E sc : req' = [req EXCEPT ![p] = [@ EXCEPT !.pc = "revoke",
                                                       !.ans = "reuse", !.scope = sc]]
    <3>1. PICK sc : req' = [req EXCEPT ![p] = [@ EXCEPT !.pc = "revoke",
                                                       !.ans = "reuse", !.scope = sc]]
      BY <2>2
    <3>2. [req[p] EXCEPT !.pc = "revoke", !.ans = "reuse", !.scope = sc].pc = "revoke"
      BY <1>0 DEF Request
    <3>3. QED
      BY <1>0, <1>1, <1>6, <3>1, <3>2 DEF FindChild
  <2>3. QED
    BY <1>6, <2>1, <2>2 DEF FindChild, Children
<1>7. ASSUME NEW p \in Proc, NEW S \in SUBSET Token,
             \A t \in S : rt[t].state # "none",
             \A q \in Proc : q # p /\ Rotating(q) => req[q].tok \notin S,
             Moves(p, Plain), rt' = Remove(rt, S)
      PROVE  IInv'
  <2>1. Continues(p, S)
    BY <1>0, <1>7, PlainContinues
  <2>2. QED
    BY <1>0, <1>7, <2>1, OneKeeps
<1>8. ASSUME NEW p \in Proc, Moves(p, Plain),
             rt' = IF Rotating(p) THEN Remove(rt, {req[p].new}) ELSE rt
      PROVE  IInv'
  <2>1. CASE ~Rotating(p)
    BY <1>1, <1>8, <2>1
  <2>2. CASE Rotating(p)
    <3>1. req[p].new \in Token /\ rt[req[p].new].state = "pending"
      BY <2>2 DEF Rotating
    <3>2. \A q \in Proc : q # p /\ Rotating(q) => req[q].tok \notin {req[p].new}
      BY <3>1 DEF IInv, RotationsOK, Live
    <3>3. QED
      BY <1>7, <1>8, <2>2, <3>1, <3>2
  <2>3. QED
    BY <2>1, <2>2
<1>9. ASSUME NEW p \in Proc, LoadUser(p)
      PROVE  IInv'
  <2> DEFINE S == {t \in Token : /\ rt[t].state = "revoked"
                                 /\ rt[t].sid = req[p].sid
                                 /\ rt[t].exp < req[p].now}
  <2>1. CASE users[req[p].user].exists
    <3>1. /\ req'[p].pc = "commit" /\ req'[p].targets = S
          /\ req'[p].new = req[p].new /\ req'[p].tok = req[p].tok
          /\ \A q \in Proc : q # p => req'[q] = req[q]
          /\ UNCHANGED rt
      BY ZenonT(60), <1>0, <1>9, <2>1 DEF LoadUser, Request
    <3>2. req[p].pc = "loaduser" /\ req[p].new \in Token
      BY <1>0, <1>9 DEF LoadUser, WellFormed
    <3>3. Continues(p, {})
      BY <3>1, <3>2 DEF Continues, Rotating, IInv, AnswersExist
    <3>4. QED
      BY <1>0, <3>1, <3>3, ReadKeeps
  <2>2. CASE ~users[req[p].user].exists
    <3>1. req'[p].pc = "done"
      BY <1>0, <1>9, <2>2, AnswerPc DEF LoadUser
    <3>2. QED
      BY <1>0, <1>8, <1>9, <2>2, <3>1 DEF LoadUser
  <2>3. QED
    BY <2>1, <2>2
<1>10. ASSUME NEW p \in Proc, CommitRefresh(p)
       PROVE  IInv'
  <2>2. req'[p].pc = "done" /\ \A q \in Proc : q # p => req'[q] = req[q]
    BY <1>0, <1>10, AnswerPc DEF CommitRefresh
  <2>3. CASE Rotating(p)
    BY <1>0, <1>10, <2>2, <2>3, CommitKeeps DEF CommitRefresh
  <2>4. CASE ~Rotating(p)
    <3>1. rt' = Remove(rt, req[p].targets)
      BY <1>10, <2>4 DEF CommitRefresh, Committed
    <3>2. \A t \in req[p].targets : rt[t].state \in {"revoked", "gone"}
      BY <1>10 DEF CommitRefresh, IInv, TargetsOK
    <3>3. \A q \in Proc : q # p /\ Rotating(q) => req[q].tok \notin req[p].targets
      BY <3>2 DEF IInv, RotationsOK, Live
    <3>4. QED
      BY <1>0, <1>7, <2>2, <3>1, <3>2, <3>3
  <2>5. QED
    BY <2>3, <2>4
<1>11. ASSUME NEW p \in Proc, RevokeStart(p)
       PROVE  IInv'
  <2> DEFINE S == {t \in Token : Stored(t) /\ Matches(req[p], t)}
  <2>1. /\ req'[p].pc = "deleting" /\ req'[p].targets = S
        /\ \A q \in Proc : q # p => req'[q] = req[q]
        /\ UNCHANGED rt
    BY <1>0, <1>11 DEF RevokeStart, Request
  <2>2. \A t \in S : rt[t].state \in {"live", "revoked"}
    BY DEF Stored
  <2>3. Continues(p, {})
    BY <2>1, <2>2 DEF Continues
  <2>4. QED
    BY <1>0, <2>1, <2>3, ReadKeeps
<1>12. ASSUME NEW p \in Proc, RevokeFinish(p)
       PROVE  IInv'
  <2>1. req'[p].pc \in {"deluser", "done"} /\ \A q \in Proc : q # p => req'[q] = req[q]
    BY <1>0, <1>12 DEF RevokeFinish, Request
  <2>2. \A t \in req[p].targets : rt[t].state \in {"live", "revoked", "gone"}
    BY <1>12 DEF RevokeFinish, IInv, TargetsOK
  <2>3. \A q \in Proc : q # p /\ Rotating(q) => req[q].tok \notin req[p].targets
    BY <1>12 DEF RevokeFinish, Locked
  <2>4. QED
    BY <1>0, <1>7, <1>12, <2>1, <2>2, <2>3 DEF RevokeFinish
<1>13. ASSUME NEW p \in Proc, DeleteUserRow(p)
       PROVE  IInv'
  <2> DEFINE S == Cascade(req[p].user)
  <2>1. \A t \in S : rt[t].state \in {"live", "revoked"}
    BY DEF Cascade, Stored
  <2>2. \A q \in Proc : q # p /\ Rotating(q) => req[q].tok \notin S
    BY <1>13 DEF DeleteUserRow, Locked, Cascade
  <2>3. S \in SUBSET Token
    BY DEF Cascade
  <2>4. req'[p].pc = "done" /\ \A q \in Proc : q # p => req'[q] = req[q]
    BY <1>0, <1>13, AnswerPc DEF DeleteUserRow
  <2> HIDE DEF S
  <2>5. QED
    BY <1>7, <1>13, <2>1, <2>2, <2>3, <2>4 DEF DeleteUserRow, S
<1>14. ASSUME NEW p \in Proc, RequestFails(p)
       PROVE  IInv'
  <2>1. req'[p].pc \in {"deluser", "done"} /\ \A q \in Proc : q # p => req'[q] = req[q]
    BY <1>0, <1>14, AnswerPc DEF RequestFails, Request
  <2>2. QED
    BY <1>8, <1>14, <2>1 DEF RequestFails
<1>15. ASSUME NEW p \in Proc, Return(p)
       PROVE  IInv'
  BY <1>0, <1>1, <1>15 DEF Return, Idle
<1>16. ASSUME NEW u \in User, Unban(u)
       PROVE  IInv'
  <2>1. rt' = Remove(rt, {})
    BY <1>0, <1>16 DEF Unban, Remove, TypeOK
  <2>2. ASSUME NEW q \in Proc
        PROVE  Continues(q, {})
    <3>1. /\ req'[q].pc = req[q].pc /\ req'[q].tok = req[q].tok
          /\ req'[q].new = req[q].new /\ req'[q].targets = req[q].targets
      BY <1>0, <1>16 DEF Unban, Request
    <3>2. QED
      BY <1>0, <3>1
      DEF Continues, IInv, AnswersExist, TargetsOK, Rotating, WellFormed
  <2>3. QED
    BY <1>0, <2>1, <2>2, RemoveKeeps
<1>17. CASE UNCHANGED <<rt, req>>
  BY <1>0, <1>17
  DEF IInv, RotationsOK, RotationsApart, AnswersExist, TargetsOK, RootsExist,
      NoFork, Rotating, Live
<1>18. QED
  BY <1>0, <1>2, <1>3, <1>4, <1>5, <1>6, <1>9, <1>10, <1>11, <1>12, <1>13, <1>14,
     <1>15, <1>16, <1>17
  DEF Next, Refresh, Issue, Revoke, Tick, vars

(* Refreshes and replays, however they interleave with each other and with *)
(* sign-outs, leave at most one unspent token of those rotated from one    *)
(* issued token.                                                           *)
THEOREM NoForkHolds == Spec => []NoFork
<1>1. IInv => NoFork
  BY DEF IInv
<1>2. QED
  BY <1>1, InitFork, StepFork, PTL DEF Spec
-----------------------------------------------------------------------------
(***************************************************************************)
(* Bans.  A user banned all along is still banned when the row is read.    *)
(***************************************************************************)
BanSeen(r) ==
  /\ r.sticky => users[r.user].banned
  /\ r.pc \in {"issue", "commit"} /\ r.sticky => r.banned
  /\ r.ans = "session" => ~r.sticky

BInv == TypeOK /\ \A p \in Proc : BanSeen(req[p])

LEMMA BanKeeps ==
  ASSUME BInv, TypeOK', NEW p \in Proc, \A q \in Proc : q # p => req'[q] = req[q],
         \A u \in User : users[u].banned => users'[u].banned,
         BanSeen(req[p])'
  PROVE  BInv'
<1>1. ASSUME NEW q \in Proc, q # p
      PROVE  BanSeen(req[q])'
  <2>1. req[q].user \in User
    BY DEF BInv, TypeOK, WellFormed, Request
  <2>2. QED
    BY <1>1, <2>1 DEF BInv, BanSeen
<1>2. QED
  BY <1>1 DEF BInv

(* A record that carries on the stickiness of the one before, or has none. *)
LEMMA BanCarried ==
  ASSUME BInv, NEW p \in Proc, \A u \in User : users[u].banned => users'[u].banned,
         req'[p].user = req[p].user, req'[p].sticky = req[p].sticky,
         req'[p].pc \notin {"issue", "commit"},
         req'[p].ans \in {req[p].ans, "none", "ok", "reuse", "error"}
  PROVE  BanSeen(req[p])'
<1>1. req[p].user \in User /\ BanSeen(req[p])
  BY DEF BInv, TypeOK, WellFormed, Request
<1>2. QED
  BY <1>1 DEF BanSeen

LEMMA AnswerFields ==
  \A p, a : /\ Answer(p, a).pc = "done" /\ Answer(p, a).ans = a
            /\ Answer(p, a).user = req[p].user
            /\ Answer(p, a).sticky = req[p].sticky
  BY DEF Answer, Idle

LEMMA StepBanned == BInv /\ [Next]_vars => BInv'
<1> SUFFICES ASSUME BInv, [Next]_vars PROVE BInv'
  OBVIOUS
<1>0. /\ TypeOK /\ TypeOK' /\ req \in [Proc -> Request]
      /\ \A q \in Proc : WellFormed(req[q]) /\ BanSeen(req[q])
  BY StepType DEF BInv, TypeOK
<1> DEFINE Others(p) == \A q \in Proc : q # p => req'[q] = req[q]
           Carried(p) == /\ req'[p].user = req[p].user
                         /\ req'[p].sticky = req[p].sticky
                         /\ req'[p].pc \notin {"issue", "commit"}
                         /\ req'[p].ans \in {req[p].ans, "none", "ok", "reuse", "error"}
<1>1. ASSUME NEW p \in Proc, Others(p), Carried(p),
             \A u \in User : users[u].banned => users'[u].banned
      PROVE  BInv'
  BY <1>0, <1>1, BanCarried, BanKeeps
<1>2. ASSUME NEW p \in Proc, Others(p), ~req'[p].sticky,
             \A u \in User : users[u].banned => users'[u].banned
      PROVE  BInv'
  <2>1. BanSeen(req[p])'
    BY <1>2 DEF BanSeen
  <2>2. QED
    BY <1>0, <1>2, <2>1, BanKeeps
<1>3. ASSUME NEW p \in Proc, Others(p), UNCHANGED users,
             req'[p].pc \in {"issue", "update"}, req'[p].ans = "none",
             req'[p].sticky = users[req'[p].user].banned,
             req'[p].pc = "issue" => req'[p].banned = req'[p].sticky,
             users[req'[p].user].banned \in BOOLEAN
      PROVE  BInv'
  <2>1. BanSeen(req[p])'
    BY <1>3 DEF BanSeen
  <2>2. QED
    BY <1>0, <1>3, <2>1, BanKeeps
<1>4. ASSUME NEW p \in Proc, NEW u \in User, handlePasswordGrant(p, u)
      PROVE  BInv'
  <2>1. users[u].banned \in BOOLEAN
    BY <1>0 DEF TypeOK
  <2>2. /\ req'[p].pc = "issue" /\ req'[p].ans = "none" /\ req'[p].user = u
        /\ req'[p].sticky = users[u].banned /\ req'[p].banned = users[u].banned
        /\ Others(p)
    BY <1>0, <1>4 DEF handlePasswordGrant, Begin, Idle
  <2>3. QED
    BY <1>3, <1>4, <2>1, <2>2 DEF handlePasswordGrant
<1>5. ASSUME NEW p \in Proc, NEW j \in Token, NEW first \in BOOLEAN,
             handleVerifyFactor(p, j, first)
      PROVE  BInv'
  <2> DEFINE u == rt[j].user
  <2>1. users[u].banned \in BOOLEAN
    BY <1>0 DEF TypeOK, Row
  <2>2. /\ req'[p].pc = "issue" /\ req'[p].ans = "none" /\ req'[p].user = u
        /\ req'[p].sticky = users[u].banned /\ req'[p].banned = users[u].banned
        /\ Others(p)
    BY <1>0, <1>5 DEF handleVerifyFactor, Begin, Idle
  <2>3. QED
    BY <1>3, <1>5, <2>1, <2>2 DEF handleVerifyFactor
<1>6. ASSUME NEW p \in Proc, issueSession(p)
      PROVE  BInv'
  <2>1. CASE Refused(p) \/ ~users[req[p].user].exists
    <3>1. Others(p) /\ Carried(p)
      BY <1>0, <1>6, <2>1, AnswerFields DEF issueSession
    <3>2. QED
      BY <1>1, <1>6, <3>1 DEF issueSession
  <2>2. CASE ~(Refused(p) \/ ~users[req[p].user].exists)
    <3>1. ~req[p].sticky
      BY <1>0, <1>6, <2>2 DEF issueSession, Refused, BanSeen
    <3>2. Others(p) /\ req'[p].sticky = req[p].sticky
      <4>1. CASE req[p].op = "mfa"
        <5>1. PICK sc : req' = [req EXCEPT ![p] =
                [@ EXCEPT !.pc = "revoke", !.ans = "session", !.scope = sc]]
          BY <1>6, <2>2, <4>1 DEF issueSession
        <5>2. QED
          BY <1>0, <5>1 DEF WellFormed, Request
      <4>2. CASE req[p].op # "mfa"
        BY <1>0, <1>6, <2>2, <4>2, AnswerFields DEF issueSession
      <4>3. QED
        BY <4>1, <4>2
    <3>3. QED
      BY <1>2, <1>6, <3>1, <3>2 DEF issueSession
  <2>3. QED
    BY <2>1, <2>2
<1>7. ASSUME NEW p \in Proc, NEW t \in Token, handleRefreshGrant(p, t)
      PROVE  BInv'
  <2> DEFINE u == rt[t].user
  <2>1. users[u].banned \in BOOLEAN
    BY <1>0 DEF TypeOK, Row
  <2>2. /\ req'[p].pc = "update" /\ req'[p].ans = "none" /\ req'[p].user = u
        /\ req'[p].sticky = users[u].banned /\ Others(p)
    BY <1>0, <1>7 DEF handleRefreshGrant, Begin, Idle
  <2>3. QED
    BY <1>3, <1>7, <2>1, <2>2 DEF handleRefreshGrant
<1>8. ASSUME NEW p \in Proc,
             \/ LookupParent(p) \/ FindChild(p) \/ RevokeStart(p)
             \/ RevokeFinish(p) \/ RequestFails(p)
      PROVE  BInv'
  <2>1. CASE LookupParent(p)
    <3>1. Others(p) /\ Carried(p)
      BY <1>0, <2>1, AnswerFields DEF LookupParent, Request
    <3>2. QED
      BY <1>1, <2>1, <3>1 DEF LookupParent
  <2>2. CASE FindChild(p)
    <3>1. Others(p) /\ Carried(p)
      <4>1. CASE \E c : req' = [req EXCEPT ![p] = [@ EXCEPT !.pc = "loaduser",
                                                           !.new = c]]
        BY <1>0, <4>1 DEF WellFormed, Request
      <4>2. CASE \E sc : req' = [req EXCEPT ![p] = [@ EXCEPT !.pc = "revoke",
                                               !.ans = "reuse", !.scope = sc]]
        BY <1>0, <4>2 DEF WellFormed, Request
      <4>3. QED
        BY <2>2, <4>1, <4>2 DEF FindChild
    <3>2. QED
      BY <1>1, <2>2, <3>1 DEF FindChild
  <2>3. CASE RevokeStart(p)
    <3>1. Others(p) /\ Carried(p)
      BY <1>0, <2>3 DEF RevokeStart, Request
    <3>2. QED
      BY <1>1, <2>3, <3>1 DEF RevokeStart
  <2>4. CASE RevokeFinish(p)
    <3>1. Others(p) /\ Carried(p)
      BY <1>0, <2>4 DEF RevokeFinish, Request
    <3>2. QED
      BY <1>1, <2>4, <3>1 DEF RevokeFinish
  <2>5. CASE RequestFails(p)
    <3>1. Others(p) /\ Carried(p)
      BY <1>0, <2>5, AnswerFields DEF RequestFails, Request
    <3>2. QED
      BY <1>1, <2>5, <3>1 DEF RequestFails
  <2>6. QED
    BY <1>8, <2>1, <2>2, <2>3, <2>4, <2>5
<1>9. ASSUME NEW p \in Proc, RotateToken(p)
      PROVE  BInv'
  <2>1. Others(p) /\ Carried(p)
    <3>1. CASE req' = [req EXCEPT ![p] = Answer(p, "error")]
      BY <1>0, <3>1, AnswerFields
    <3>2. CASE req' = [req EXCEPT ![p] = [@ EXCEPT !.pc = "lookup"]]
      BY <1>0, <3>2 DEF Request
    <3>3. CASE \E n \in Token :
                 LET s == IF rt[req[p].tok].sid = NoId THEN n
                                                       ELSE rt[req[p].tok].sid
                 IN  req' = [req EXCEPT ![p] =
                       [@ EXCEPT !.pc = "loaduser", !.new = n, !.sid = s,
                                 !.aal = rt[req[p].tok].aal]]
      BY <1>0, <3>3 DEF WellFormed, Request
    <3>4. QED
      BY <1>9, <3>1, <3>2, <3>3, Zenon DEF RotateToken
  <2>2. QED
    BY <1>1, <1>9, <2>1 DEF RotateToken
<1>10. ASSUME NEW p \in Proc, LoadUser(p)
       PROVE  BInv'
  <2>1. CASE users[req[p].user].exists
    <3>1. /\ Others(p) /\ req'[p].pc = "commit" /\ req'[p].user = req[p].user
          /\ req'[p].sticky = req[p].sticky /\ req'[p].ans = req[p].ans
          /\ req'[p].banned = users[req[p].user].banned /\ UNCHANGED users
      BY ZenonT(60), <1>0, <1>10, <2>1 DEF LoadUser, Request
    <3>2. BanSeen(req[p])'
      BY <1>0, <3>1 DEF BanSeen
    <3>3. QED
      BY <1>0, <3>1, <3>2, BanKeeps
  <2>2. CASE ~users[req[p].user].exists
    <3>1. Others(p) /\ Carried(p)
      BY <1>0, <1>10, <2>2, AnswerFields DEF LoadUser
    <3>2. QED
      BY <1>1, <1>10, <3>1 DEF LoadUser
  <2>3. QED
    BY <2>1, <2>2
<1>11. ASSUME NEW p \in Proc, CommitRefresh(p)
       PROVE  BInv'
  <2>1. CASE Refused(p)
    <3>1. Others(p) /\ Carried(p)
      BY <1>0, <1>11, <2>1, AnswerFields DEF CommitRefresh
    <3>2. QED
      BY <1>1, <1>11, <3>1 DEF CommitRefresh
  <2>2. CASE ~Refused(p)
    <3>1. ~req[p].sticky
      BY <1>0, <1>11, <2>2 DEF CommitRefresh, Refused, BanSeen
    <3>2. Others(p) /\ req'[p].sticky = req[p].sticky
      BY <1>0, <1>11, <2>2, AnswerFields DEF CommitRefresh
    <3>3. QED
      BY <1>2, <1>11, <3>1, <3>2 DEF CommitRefresh
  <2>3. QED
    BY <2>1, <2>2
<1>12. ASSUME NEW p \in Proc, \E op, u, sid, sc : Begin(p, Revoking(op, u, sid, sc)),
              \A u \in User : users[u].banned => users'[u].banned
       PROVE  BInv'
  <2>1. \A op, u, sid, sc : Revoking(op, u, sid, sc).sticky = FALSE
    BY DEF Revoking, Idle
  <2>2. Others(p) /\ ~req'[p].sticky
    BY <1>0, <1>12, <2>1 DEF Begin
  <2>3. QED
    BY <1>2, <1>12, <2>2
<1>13. ASSUME NEW p \in Proc, NEW j \in Token, handleUpdateUser(p, j)
       PROVE  BInv'
  <2>1. \A u \in User : users[u].banned => users'[u].banned
    BY <1>0, <1>13 DEF handleUpdateUser, TypeOK
  <2>2. QED
    BY <1>12, <1>13, <2>1 DEF handleUpdateUser
<1>14. ASSUME NEW p \in Proc, NEW j \in Token,
              NEW scope \in {"session", "others", "all"},
              handleLogout(p, j, scope)
       PROVE  BInv'
  BY <1>12, <1>14 DEF handleLogout
<1>15. ASSUME NEW p \in Proc, NEW u \in User,
              \/ handleAdminSignOut(p, u) \/ handleDisableUser(p, u)
              \/ DeleteUser(p, u)
       PROVE  BInv'
  <2>1. \A v \in User : users[v].banned => users'[v].banned
    BY <1>0, <1>15 DEF handleAdminSignOut, handleDisableUser, DeleteUser, TypeOK
  <2>2. QED
    BY <1>12, <1>15, <2>1 DEF handleAdminSignOut, handleDisableUser, DeleteUser
<1>16. ASSUME NEW p \in Proc, DeleteUserRow(p)
       PROVE  BInv'
  <2>1. Others(p) /\ Carried(p)
    BY <1>0, <1>16, AnswerFields DEF DeleteUserRow
  <2>2. \A u \in User : users[u].banned => users'[u].banned
    BY <1>0, <1>16 DEF DeleteUserRow, TypeOK
  <2>3. QED
    BY <1>1, <2>1, <2>2
<1>17. ASSUME NEW p \in Proc, Return(p)
       PROVE  BInv'
  <2>1. Others(p) /\ ~req'[p].sticky
    BY <1>0, <1>17 DEF Return, Idle
  <2>2. QED
    BY <1>2, <1>17, <2>1 DEF Return
<1>18. ASSUME NEW u \in User, Unban(u)
       PROVE  BInv'
  <2>1. \A v \in User : v # u => users'[v] = users[v]
    BY <1>0, <1>18 DEF Unban, TypeOK
  <2>2. ASSUME NEW q \in Proc
        PROVE  BanSeen(req[q])'
    <3>1. req[q].user \in User /\ BanSeen(req[q])
      BY <1>0 DEF WellFormed, Request
    <3>2. CASE req[q].user = u
      <4>1. req'[q].sticky = FALSE
        BY <1>0, <1>18, <3>2 DEF Unban, Request
      <4>2. QED
        BY <4>1 DEF BanSeen
    <3>3. CASE req[q].user # u
      <4>1. req'[q] = req[q]
        BY <1>18, <3>3 DEF Unban
      <4>2. QED
        BY <2>1, <3>1, <3>3, <4>1 DEF BanSeen
    <3>4. QED
      BY <3>2, <3>3
  <2>3. QED
    BY <1>0, <2>2 DEF BInv
<1>19. CASE UNCHANGED <<users, req>>
  BY <1>0, <1>19 DEF BInv, BanSeen
<1>20. QED
  BY <1>4, <1>5, <1>6, <1>7, <1>8, <1>9, <1>10, <1>11, <1>13, <1>14, <1>15,
     <1>16, <1>17, <1>18, <1>19
  DEF Next, Refresh, Issue, Revoke, Tick, vars

(* A request that began while its user was banned, and stayed so, is never *)
(* answered with a session, whatever it races.                             *)
THEOREM BannedGetsNothingHolds == Spec => []BannedGetsNothing
<1>1. Init => BInv
  <2> SUFFICES ASSUME Init PROVE BInv
    OBVIOUS
  <2>1. \A p \in Proc : req[p].sticky = FALSE
    BY DEF Init, Idle
  <2>2. QED
    BY <2>1, InitType DEF BInv, BanSeen
<1>2. BInv => BannedGetsNothing
  BY DEF BInv, BanSeen, BannedGetsNothing
<1>3. QED
  BY <1>1, <1>2, StepBanned, PTL DEF Spec

(***************************************************************************)
(* What a step may do to the table.                                        *)
(***************************************************************************)
(* The columns no statement updates, and the history beside them.          *)
Keeps(t) == /\ rt'[t].user = rt[t].user /\ rt'[t].sid = rt[t].sid
            /\ rt'[t].aal = rt[t].aal /\ rt'[t].pw = rt[t].pw
            /\ rt'[t].root = rt[t].root

(* The rows of S are deleted.                                              *)
Removes(S) ==
  \A t \in Token : /\ Keeps(t)
                   /\ rt'[t].state = IF t \in S THEN "gone" ELSE rt[t].state

(* The next id takes a row, of a new session or of a rotation.             *)
Inserts(n) == /\ n \in Token /\ rt[n].state = "none"
              /\ \A t \in Token : t # n => rt'[t] = rt[t]

(* The rotation of p commits.                                              *)
Commits(p) ==
  /\ Rotating(p) /\ req[p].pc = "commit" /\ req[p].tok \in Token
  /\ \A t \in Token :
       /\ Keeps(t)
       /\ rt'[t].state = CASE t = req[p].tok -> "revoked"
                           [] t = req[p].new -> "live"
                           [] t \in req[p].targets -> "gone"
                           [] OTHER -> rt[t].state

LEMMA RemoveShape ==
  ASSUME TypeOK, NEW S \in SUBSET Token, rt' = Remove(rt, S)
  PROVE  Removes(S)
  BY DEF TypeOK, Remove, Row, Removes, Keeps

LEMMA SameShape ==
  ASSUME UNCHANGED rt
  PROVE  Removes({})
  BY DEF Removes, Keeps

LEMMA CommitShape ==
  ASSUME IInv, NEW p \in Proc, Rotating(p), req[p].pc = "commit",
         rt' = Remove(Committed(p), req[p].targets)
  PROVE  Commits(p)
<1> DEFINE tok == req[p].tok
           new == req[p].new
           S == req[p].targets
<1>1. TypeOK /\ WellFormed(req[p]) /\ req[p] \in Request
  BY DEF IInv, TypeOK, WellFormed
<1>2. /\ tok \in Token /\ new \in Token /\ tok # new /\ S \in SUBSET Token
      /\ rt[tok].state = "live" /\ rt[new].state = "pending"
      /\ \A t \in S : rt[t].state \in {"revoked", "gone"}
  BY <1>1 DEF IInv, RotationsOK, TargetsOK, Rotating, WellFormed, Live, Request
<1>3. tok \notin S /\ new \notin S
  BY <1>2
<1> DEFINE c == Committed(p)
<1>4. /\ c = [rt EXCEPT ![tok].state = "revoked", ![tok].rev = req[p].now, ![new].state = "live"]
      /\ rt \in [Token -> Row]
  BY <1>1 DEF Committed, TypeOK
<1>5. ASSUME NEW t \in Token
      PROVE  /\ c[t].user = rt[t].user /\ c[t].sid = rt[t].sid /\ c[t].root = rt[t].root
             /\ c[t].aal = rt[t].aal /\ c[t].pw = rt[t].pw
             /\ c[t].state = CASE t = tok -> "revoked" [] t = new -> "live" [] OTHER -> rt[t].state
             /\ DOMAIN c[t] = DOMAIN rt[t] /\ "state" \in DOMAIN rt[t]
  <2>1. rt[t] \in Row
    BY <1>4, <1>5
  <2>2. CASE t = tok
    <3>1. c[t] = [rt[t] EXCEPT !.state = "revoked", !.rev = req[p].now]
      BY <1>2, <1>4, <2>2
    <3>2. "state" \in DOMAIN rt[t] /\ "rev" \in DOMAIN rt[t]
      BY <2>1 DEF Row
    <3>3. QED
      BY <1>2, <2>2, <3>1, <3>2
  <2>3. CASE t = new
    <3>1. c[t] = [rt[t] EXCEPT !.state = "live"]
      BY <1>2, <1>4, <2>3
    <3>2. "state" \in DOMAIN rt[t]
      BY <2>1 DEF Row
    <3>3. QED
      BY <1>2, <2>3, <3>1, <3>2
  <2>4. CASE t # tok /\ t # new
    <3>1. c[t] = rt[t]
      BY <1>2, <1>4, <2>4
    <3>2. QED
      BY <2>1, <2>4, <3>1 DEF Row
  <2>5. QED
    BY <2>2, <2>3, <2>4
<1>6. rt' = Remove(c, S)
  OBVIOUS
<1> HIDE DEF c
<1>7. ASSUME NEW t \in Token
      PROVE  Keeps(t) /\ rt'[t].state = IF t \in S THEN "gone" ELSE c[t].state
  <2>1. CASE t \in S
    <3>1. rt'[t] = [c[t] EXCEPT !.state = "gone"]
      BY <1>6, <2>1 DEF Remove
    <3>2. QED
      BY <1>5, <2>1, <3>1 DEF Keeps
  <2>2. CASE t \notin S
    BY <1>5, <1>6, <2>2 DEF Keeps, Remove
  <2>3. QED
    BY <2>1, <2>2
<1>8. QED
  BY <1>1, <1>2, <1>3, <1>5, <1>7 DEF Commits

(* The row a session is issued with.                                       *)
LEMMA IssueFields ==
  ASSUME TypeOK, NEW p \in Proc, issueSession(p)
  PROVE  \/ UNCHANGED <<rt, held>> /\ req'[p].pc = "done"
         \/ \E n \in Token :
              /\ Inserts(n) /\ users[req[p].user].exists
              /\ rt'[n].state = "live" /\ rt'[n].root = n
              /\ rt'[n].user = req[p].user /\ rt'[n].pw = req[p].pw
              /\ rt'[n].sid = IF req[p].sid = NoId THEN n ELSE req[p].sid
              /\ held' \subseteq held \cup {n} /\ req'[p].pc \in {"revoke", "done"}
<1>0. /\ req \in [Proc -> Request] /\ rt \in [Token -> Row] /\ req[p] \in Request
  BY DEF TypeOK
<1>1. CASE Refused(p) \/ ~users[req[p].user].exists
  <2>1. req' = [req EXCEPT ![p] = Answer(p, "error")] /\ UNCHANGED <<rt, held>>
    BY <1>1 DEF issueSession
  <2>2. QED
    BY <1>0, <2>1, AnswerPc
<1>2. CASE ~(Refused(p) \/ ~users[req[p].user].exists)
  <2> PICK n \in Token :
        LET s == IF req[p].sid = NoId THEN n ELSE req[p].sid
        IN  /\ IsNextId(n)
            /\ rt' = [rt EXCEPT ![n] = NewRow(req[p].user, s, req[p].aal, n,
                                              req[p].pw, clock + Life)]
            /\ Deliver(n)
            /\ req' = [req EXCEPT ![p] =
                 IF req[p].op = "mfa"
                 THEN [@ EXCEPT !.pc = "revoke", !.ans = "session",
                         !.scope = IF req[p].first THEN "below2"
                                       ELSE "below2session"]
                 ELSE Answer(p, "session")]
    BY <1>2 DEF issueSession
  <2> DEFINE s == IF req[p].sid = NoId THEN n ELSE req[p].sid
             row == NewRow(req[p].user, s, req[p].aal, n, req[p].pw, clock + Life)
  <2>1. /\ row.state = "live" /\ row.root = n /\ row.user = req[p].user
        /\ row.pw = req[p].pw /\ row.sid = s
    BY DEF NewRow
  <2>2. req'[p].pc \in {"revoke", "done"}
    BY <1>0, AnswerPc DEF Request
  <2>3. rt' = [rt EXCEPT ![n] = row]
    OBVIOUS
  <2> HIDE DEF row
  <2>4. rt'[n] = row /\ Inserts(n)
    BY <1>0, <2>3 DEF Inserts, IsNextId
  <2>5. held' \subseteq held \cup {n}
    BY DEF Deliver
  <2>6. QED
    BY <1>2, <2>1, <2>2, <2>4, <2>5
<1>3. QED
  BY <1>1, <1>2

(* The row a rotation inserts: the session's, at its level.                *)
LEMMA RotateFields ==
  ASSUME TypeOK, NEW p \in Proc, RotateToken(p), NEW t, t = req[p].tok
  PROVE  /\ t \in Token
         /\ \/ UNCHANGED rt /\ req'[p].pc = "done"
            \/ UNCHANGED rt /\ req'[p].pc = "lookup" /\ req'[p].tok = t
            \/ \E n \in Token :
                 /\ Inserts(n) /\ Live(t)
                 /\ rt'[n].state = "pending" /\ rt'[n].root = rt[t].root
                 /\ rt'[n].user = rt[t].user /\ rt'[n].pw = rt[t].pw
                 /\ rt'[n].aal = rt[t].aal
                 /\ rt'[n].sid = IF rt[t].sid = NoId THEN n ELSE rt[t].sid
                 /\ req'[p].pc = "loaduser" /\ req'[p].new = n /\ req'[p].tok = t
<1>0. /\ req \in [Proc -> Request] /\ rt \in [Token -> Row] /\ req[p] \in Request
      /\ WellFormed(req[p])
  BY DEF TypeOK
<1>1. t \in Token
  BY <1>0 DEF RotateToken, WellFormed
<1>2. CASE req' = [req EXCEPT ![p] = Answer(p, "error")] /\ UNCHANGED rt
  BY <1>0, <1>1, <1>2, AnswerPc
<1>3. CASE req' = [req EXCEPT ![p] = [@ EXCEPT !.pc = "lookup"]] /\ UNCHANGED rt
  BY <1>0, <1>1, <1>3 DEF Request
<1>4. CASE /\ Live(t)
           /\ \E n \in Token :
                LET s == IF rt[t].sid = NoId THEN n ELSE rt[t].sid
                IN  /\ IsNextId(n)
                    /\ rt' = [rt EXCEPT ![n] =
                         [NewRow(rt[t].user, s, rt[t].aal, rt[t].root, rt[t].pw,
                                 req[p].now + Life) EXCEPT !.state = "pending"]]
                    /\ req' = [req EXCEPT ![p] =
                         [@ EXCEPT !.pc = "loaduser", !.new = n, !.sid = s,
                                   !.aal = rt[t].aal]]
  <2> PICK n \in Token :
        LET s == IF rt[t].sid = NoId THEN n ELSE rt[t].sid
        IN  /\ IsNextId(n)
            /\ rt' = [rt EXCEPT ![n] =
                 [NewRow(rt[t].user, s, rt[t].aal, rt[t].root, rt[t].pw,
                         req[p].now + Life) EXCEPT !.state = "pending"]]
            /\ req' = [req EXCEPT ![p] =
                 [@ EXCEPT !.pc = "loaduser", !.new = n, !.sid = s, !.aal = rt[t].aal]]
    BY <1>4
  <2> DEFINE s == IF rt[t].sid = NoId THEN n ELSE rt[t].sid
             row == [NewRow(rt[t].user, s, rt[t].aal, rt[t].root, rt[t].pw,
                            req[p].now + Life) EXCEPT !.state = "pending"]
  <2>1. /\ row.state = "pending" /\ row.root = rt[t].root /\ row.user = rt[t].user
        /\ row.pw = rt[t].pw /\ row.aal = rt[t].aal /\ row.sid = s
    BY DEF NewRow
  <2>2. req'[p].pc = "loaduser" /\ req'[p].new = n /\ req'[p].tok = t
    BY <1>0 DEF Request
  <2>3. rt' = [rt EXCEPT ![n] = row]
    OBVIOUS
  <2> HIDE DEF row
  <2>4. rt'[n] = row /\ Inserts(n)
    BY <1>0, <2>3 DEF Inserts, IsNextId
  <2>5. QED
    BY <1>1, <1>4, <2>1, <2>2, <2>4
<1>5. QED
  BY <1>2, <1>3, <1>4, Zenon DEF RotateToken

(* Spent or committed rows may be deleted; a row not committed, when its   *)
(* transaction rolls back.                                                 *)
Deletes(S) == /\ S \in SUBSET Token /\ Removes(S)
              /\ \/ \A t \in S : rt[t].state \in {"live", "revoked", "gone"}
                 \/ \E n \in Token : S = {n} /\ rt[n].state = "pending"

(* A new session opens a line; a rotation, until it commits, none.  Either *)
(* way the new row's user is there, or has a live token.                   *)
TableStep == \/ \E S : Deletes(S)
             \/ \E n \in Token : /\ Inserts(n)
                                  /\ \/ rt'[n].state = "live" /\ rt'[n].root = n
                                     \/ rt'[n].state = "pending"
                                  /\ \/ users[rt'[n].user].exists
                                     \/ \E t \in Token : Live(t) /\ rt'[n].user = rt[t].user
             \/ \E p \in Proc : Commits(p)

LEMMA StepTable == IInv /\ [Next]_vars => TableStep
<1> SUFFICES ASSUME IInv, [Next]_vars PROVE TableStep
  OBVIOUS
<1>0. TypeOK /\ \A p \in Proc : WellFormed(req[p]) /\ req[p].targets \subseteq Token
  BY DEF IInv, TypeOK, WellFormed, Request
<1>1. CASE UNCHANGED rt
  BY <1>1, SameShape DEF TableStep, Deletes
<1>2. ASSUME NEW S \in SUBSET Token, rt' = Remove(rt, S),
             \A t \in S : rt[t].state \in {"live", "revoked", "gone"}
      PROVE  TableStep
  BY <1>0, <1>2, RemoveShape DEF TableStep, Deletes
<1>3. ASSUME NEW p \in Proc,
             rt' = IF Rotating(p) THEN Remove(rt, {req[p].new}) ELSE rt
      PROVE  TableStep
  <2>1. CASE Rotating(p)
    <3>1. rt' = Remove(rt, {req[p].new}) /\ {req[p].new} \in SUBSET Token
          /\ req[p].new \in Token /\ rt[req[p].new].state = "pending"
      BY <1>3, <2>1 DEF Rotating
    <3>2. Removes({req[p].new})
      BY <1>0, <3>1, RemoveShape
    <3>3. QED
      BY <3>1, <3>2 DEF TableStep, Deletes
  <2>2. QED
    BY <1>1, <1>3, <2>1
<1>4. ASSUME NEW p \in Proc, Refresh(p)
      PROVE  TableStep
  <2>1. CASE RotateToken(p)
    BY <1>0, <1>1, <2>1, RotateFields DEF TableStep
  <2>2. CASE LoadUser(p)
    BY <1>1, <1>3, <2>2 DEF LoadUser
  <2>3. CASE CommitRefresh(p)
    <3>1. CASE Rotating(p)
      BY <2>3, <3>1, CommitShape DEF CommitRefresh, TableStep
    <3>2. CASE ~Rotating(p)
      <4>1. rt' = Remove(rt, req[p].targets) /\ req[p].pc = "commit"
        BY <2>3, <3>2 DEF CommitRefresh, Committed
      <4>2. \A t \in req[p].targets : rt[t].state \in {"live", "revoked", "gone"}
        BY <4>1 DEF IInv, TargetsOK
      <4>3. QED
        BY <1>0, <1>2, <4>1, <4>2
    <3>3. QED
      BY <3>1, <3>2
  <2>4. QED
    BY <1>1, <1>4, <2>1, <2>2, <2>3
    DEF Refresh, handleRefreshGrant, LookupParent, FindChild
<1>5. ASSUME NEW p \in Proc, Issue(p)
      PROVE  TableStep
  <2>1. CASE issueSession(p)
    BY <1>0, <1>1, <2>1, IssueFields DEF TableStep
  <2>2. QED
    BY <1>1, <1>5, <2>1 DEF Issue, handlePasswordGrant, handleVerifyFactor
<1>6. ASSUME NEW p \in Proc, Revoke(p)
      PROVE  TableStep
  <2>1. CASE RevokeFinish(p)
    <3>1. rt' = Remove(rt, req[p].targets) /\ req[p].pc = "deleting"
      BY <2>1 DEF RevokeFinish
    <3>2. \A t \in req[p].targets : rt[t].state \in {"live", "revoked", "gone"}
      BY <3>1 DEF IInv, TargetsOK
    <3>3. QED
      BY <1>0, <1>2, <3>1, <3>2
  <2>2. CASE DeleteUserRow(p)
    <3>1. rt' = Remove(rt, Cascade(req[p].user))
      BY <2>2 DEF DeleteUserRow
    <3>2. /\ Cascade(req[p].user) \in SUBSET Token
          /\ \A t \in Cascade(req[p].user) : rt[t].state \in {"live", "revoked", "gone"}
      BY DEF Cascade, Stored
    <3>3. QED
      BY <1>2, <3>1, <3>2
  <2>3. QED
    BY <1>1, <1>6, <2>1, <2>2
    DEF Revoke, handleUpdateUser, handleLogout, handleAdminSignOut,
        handleDisableUser, DeleteUser, RevokeStart
<1>7. ASSUME NEW p \in Proc, RequestFails(p) \/ Return(p)
      PROVE  TableStep
  BY <1>1, <1>3, <1>7 DEF RequestFails, Return
<1>8. CASE (\E u \in User : Unban(u)) \/ Tick \/ UNCHANGED vars
  BY <1>1, <1>8 DEF Unban, Tick, vars
<1>9. QED
  BY <1>4, <1>5, <1>6, <1>7, <1>8 DEF Next
-----------------------------------------------------------------------------
(***************************************************************************)
(* The refinement: every step of the table is one of TokenLines.           *)
(***************************************************************************)
Members(l) == {t \in Token : Live(t) /\ rt[t].root = l}
Spent == {t \in Token : rt[t].state \in {"revoked", "gone"}}

(* The current token of a line is its one unspent member (NoFork).         *)
LEMMA CurrentIs ==
  ASSUME NoFork, NEW l \in Token
  PROVE  /\ \A t \in Token : Current(l) = t <=> t \in Members(l)
         /\ Current(l) = NoId <=> Members(l) = {}
         /\ Current(l) \in Token \cup {NoId}
<1>1. Current(l) = IF Members(l) = {} THEN NoId ELSE CHOOSE t \in Members(l) : TRUE
  BY DEF Current, Members
<1>2. \A t, u \in Members(l) : t = u
  BY DEF NoFork, Members
<1>3. Members(l) \subseteq Token /\ NoId \notin Token
  BY DEF Members, NoId, Token
<1>4. QED
  BY <1>1, <1>2, <1>3

LEMMA CurrentIsNext ==
  ASSUME NoFork', NEW l \in Token
  PROVE  /\ \A t \in Token : Current(l)' = t <=> t \in Members(l)'
         /\ Current(l)' = NoId <=> Members(l)' = {}
         /\ Current(l)' \in Token \cup {NoId}
<1>1. Current(l)' = IF Members(l)' = {} THEN NoId ELSE CHOOSE t \in Members(l)' : TRUE
  BY DEF Current, Members
<1>2. \A t, u \in Members(l)' : t = u
  BY DEF NoFork, Members
<1>3. Members(l)' \subseteq Token /\ NoId \notin Token
  BY DEF Members, NoId, Token
<1>4. QED
  BY <1>1, <1>2, <1>3

LEMMA LinesToken == Lines!Token = Token /\ Lines!NoId = NoId /\ NoId \notin Token
  BY DEF Lines!Token, Lines!NoId, Token, NoId

(* Deleting committed rows closes the lines they were current of.          *)
LEMMA DeletesClose ==
  ASSUME TypeOK, NoFork, NoFork', NEW S, Removes(S),
         \A t \in S : t \in Token /\ rt[t].state \in {"live", "revoked", "gone"}
  PROVE  [Lines!Next]_<<[l \in Token |-> Current(l)], Spent>>
<1>0. PICK L : L = {l \in Token : \E t \in S : t \in Members(l)}
  OBVIOUS
<1>1. \A t \in Token : /\ rt[t].root \in Token /\ rt'[t].root = rt[t].root
                       /\ Live(t)' <=> Live(t) /\ t \notin S
  BY DEF TypeOK, Row, Removes, Keeps, Live
<1>2. \A l \in Token, t \in Token : t \in Members(l)' <=> t \in Members(l) /\ t \notin S
  BY <1>1 DEF Members
<1>3. \A l \in Token, t \in Token : t \in Members(l) => Current(l) = t
  BY CurrentIs
<1>4. ASSUME NEW l \in L
      PROVE  l \in Token /\ Current(l) \in S /\ Current(l) \in Members(l) /\ Current(l)' = NoId
  <2>1. PICK t \in S : t \in Members(l)
    BY <1>0, <1>4
  <2>2. l \in Token /\ t \in Token /\ Current(l) = t
    BY <1>0, <1>3, <1>4, <2>1
  <2>3. Members(l)' = {}
    <3>1. \A u \in Members(l) : u = t
      BY <1>3, <2>2 DEF Members
    <3>2. Members(l)' \subseteq Token
      BY DEF Members
    <3>3. QED
      BY <1>2, <2>1, <2>2, <3>1, <3>2
  <2>4. QED
    BY <2>1, <2>2, <2>3, CurrentIsNext
<1>5. ASSUME NEW l \in Token, l \notin L
      PROVE  Current(l)' = Current(l)
  <2>1. \A t \in Token : t \in Members(l)' <=> t \in Members(l)
    BY <1>0, <1>2, <1>5
  <2>2. Members(l) \subseteq Token /\ Members(l)' \subseteq Token
    BY DEF Members
  <2>3. Members(l)' = Members(l)
    BY <2>1, <2>2
  <2>4. QED
    BY <2>3, CurrentIs, CurrentIsNext
<1>6. Spent' = Spent \cup {Current(l) : l \in L}
  <2>1. \A t \in Token : t \in Spent' <=> t \in Spent \/ t \in S
    <3>1. \A t \in S : rt'[t].state = "gone"
      BY DEF Removes
    <3>2. \A t \in Token : t \notin S => rt'[t].state = rt[t].state
      BY DEF Removes
    <3>3. QED
      BY <3>1, <3>2 DEF Spent
  <2>2. ASSUME NEW t \in S, t \notin Spent
        PROVE  t \in {Current(l) : l \in L}
    <3>1. t \in Members(rt[t].root) /\ rt[t].root \in L
      BY <1>0, <1>1, <2>2 DEF Members, Spent, Live
    <3>2. Current(rt[t].root) = t
      BY <1>1, <1>3, <3>1
    <3>3. QED
      BY <3>1, <3>2
  <2>3. \A t \in {Current(l) : l \in L} : t \in S /\ t \in Token
    BY <1>4
  <2>4. Spent \subseteq Token /\ Spent' \subseteq Token
    BY DEF Spent
  <2>5. QED
    BY <2>1, <2>2, <2>3, <2>4
<1>7. CASE L = {}
  <2>1. \A l \in Token : Current(l)' = Current(l)
    BY <1>5, <1>7
  <2>2. Spent' = Spent
    BY <1>6, <1>7
  <2>3. QED
    BY <2>1, <2>2
<1>8. CASE L # {}
  <2>1. PICK k \in L : TRUE
    BY <1>8
  <2>2. Current(k) \notin Spent
    BY <1>4, <2>1 DEF Members, Spent, Live
  <2>3. Spent' # Spent
    BY <1>6, <2>1, <2>2
  <2>4. \A l \in L : l \in Token /\ Current(l) # NoId /\ Current(l)' = NoId
    BY <1>4, LinesToken DEF Members
  <2>5. L \in SUBSET Token
    BY <1>0
  <2>6. Lines!Close(L)
    <3>1. \A l \in L : [i \in Token |-> Current(i)][l] # NoId
      BY <2>4
    <3>2. [i \in Token |-> Current(i)']
            = [l \in Token |-> IF l \in L THEN NoId ELSE [i \in Token |-> Current(i)][l]]
      BY <1>5, <2>4
    <3>3. {[i \in Token |-> Current(i)][l] : l \in L} = {Current(l) : l \in L}
      BY <2>4
    <3>4. Spent' = Spent \cup {[i \in Token |-> Current(i)][l] : l \in L}
      BY <1>6, <3>3
    <3>5. QED
      BY <3>1, <3>2, <3>4, LinesToken DEF Lines!Close, Spent
  <2>7. \E X \in SUBSET Lines!Token : Lines!Close(X)
    BY <2>5, <2>6, LinesToken
  <2>8. QED
    BY <2>3, <2>7, Zenon DEF Lines!Next, Spent
<1>9. QED
  BY <1>7, <1>8

(* A row that never was current is given up with its transaction.          *)
LEMMA RollbackDiscards ==
  ASSUME TypeOK, NoFork, NoFork', NEW n \in Token, Removes({n}), rt[n].state = "pending"
  PROVE  [Lines!Next]_<<[l \in Token |-> Current(l)], Spent>>
<1>1. \A t \in Token : /\ rt'[t].root = rt[t].root /\ (Live(t)' <=> Live(t))
                       /\ t # n => rt'[t].state = rt[t].state
                       /\ rt'[n].state = "gone"
  BY DEF Removes, Keeps, Live
<1>2. \A l \in Token : Members(l)' = Members(l)
  <2>1. \A l \in Token, t \in Token : t \in Members(l)' <=> t \in Members(l)
    BY <1>1 DEF Members
  <2>2. \A l \in Token : Members(l) \subseteq Token /\ Members(l)' \subseteq Token
    BY DEF Members
  <2>3. QED
    BY <2>1, <2>2
<1>3. \A l \in Token : Current(l)' = Current(l) /\ Current(l) # n
  BY <1>2, CurrentIs, CurrentIsNext DEF Members, Live
<1>4. Spent' = Spent \cup {n} /\ n \notin Spent
  BY <1>1 DEF Spent
<1>5. Lines!Discard(n) /\ Spent' # Spent
  BY <1>3, <1>4, LinesToken DEF Lines!Discard, Lines!Fresh, Spent
<1>6. QED
  BY <1>5, LinesToken DEF Lines!Next, Spent

(* The row of a new session opens its line, one of a transaction none.     *)
LEMMA InsertOpens ==
  ASSUME TypeOK, RootsExist, NoFork, NoFork', NEW n \in Token, Inserts(n),
         \/ rt'[n].state = "live" /\ rt'[n].root = n
         \/ rt'[n].state = "pending"
  PROVE  [Lines!Next]_<<[l \in Token |-> Current(l)], Spent>>
<1>1. Spent' = Spent /\ n \notin Spent
  <2>1. \A t \in Token : t # n => rt'[t] = rt[t]
    BY DEF Inserts
  <2>2. rt[n].state = "none" /\ rt'[n].state \in {"live", "pending"}
    BY DEF Inserts
  <2>3. QED
    BY <2>1, <2>2 DEF Spent
<1>2. \A l \in Token, t \in Token : t # n => (t \in Members(l)' <=> t \in Members(l))
  BY DEF Inserts, Members, Live
<1>3. \A l \in Token : n \notin Members(l)
  BY DEF Inserts, Members, Live
<1>4. \A l \in Token : Members(l) \subseteq Token /\ Members(l)' \subseteq Token
  BY DEF Members
<1>5. ASSUME NEW l \in Token, n \notin Members(l)'
      PROVE  Current(l)' = Current(l)
  <2>1. \A t \in Token : t \in Members(l)' <=> t \in Members(l)
    BY <1>2, <1>3, <1>5
  <2>2. Members(l)' = Members(l)
    BY <1>4, <2>1
  <2>3. QED
    BY <2>2, CurrentIs, CurrentIsNext
<1>6. CASE rt'[n].state = "pending"
  <2>1. \A l \in Token : n \notin Members(l)'
    BY <1>6 DEF Members, Live
  <2>2. QED
    BY <1>1, <1>5, <2>1
<1>7. CASE rt'[n].state = "live" /\ rt'[n].root = n
  <2>1. \A l \in Token : n \in Members(l)' <=> l = n
    BY <1>7 DEF Members, Live
  <2>2. \A l \in Token : Current(l)' = IF l = n THEN n ELSE Current(l)
    BY <1>5, <2>1, CurrentIsNext
  <2>3. \A l \in Token : Current(l) # n
    BY <1>3, CurrentIs
  <2>4. Lines!Open(n)
    BY <1>1, <2>2, <2>3, LinesToken DEF Lines!Open, Lines!Fresh, Spent
  <2>5. QED
    BY <2>4, LinesToken DEF Lines!Next
<1>8. QED
  BY <1>6, <1>7

(* A rotation that commits makes the child the current token of the line.  *)
LEMMA CommitRotates ==
  ASSUME IInv, NoFork', NEW p \in Proc, Commits(p)
  PROVE  [Lines!Next]_<<[l \in Token |-> Current(l)], Spent>>
<1>0. PICK tok, new, S, k : /\ tok = req[p].tok /\ new = req[p].new
                           /\ S = req[p].targets /\ k = rt[tok].root
  OBVIOUS
<1>1. /\ tok \in Token /\ new \in Token /\ k \in Token
      /\ Live(tok) /\ rt[new].state = "pending" /\ rt[new].root = k
      /\ \A t \in Token : rt'[t].root = rt[t].root
  BY <1>0 DEF Commits, Rotating, IInv, RotationsOK, TypeOK, Row, Keeps
<1>2. \A t \in S : t \in Token /\ rt[t].state \in {"revoked", "gone"}
  BY <1>0 DEF Commits, IInv, TargetsOK, TypeOK, WellFormed, Request
<1>3. \A t \in Token : rt'[t].state = CASE t = tok -> "revoked"
                                        [] t = new -> "live"
                                        [] t \in S -> "gone"
                                        [] OTHER -> rt[t].state
  BY <1>0 DEF Commits
<1>4. NoFork
  BY DEF IInv
<1>5. tok # new /\ tok \notin S /\ new \notin S
  BY <1>1, <1>2 DEF Live
<1>6. \A t \in Token : /\ t = tok => rt'[t].state = "revoked"
                       /\ t = new => rt'[t].state = "live"
                       /\ t \in S => rt'[t].state = "gone"
                       /\ t \notin {tok, new} \cup S => rt'[t].state = rt[t].state
  BY <1>1, <1>3, <1>5
<1>7. \A t \in Token : Live(t)' <=> t = new \/ (Live(t) /\ t # tok)
  BY <1>2, <1>5, <1>6 DEF Live
<1>8. Spent' = Spent \cup {tok}
  <2>1. \A t \in Token : t \in Spent' <=> t \in Spent \/ t = tok
    BY <1>1, <1>2, <1>5, <1>6 DEF Spent
  <2>2. Spent \subseteq Token /\ Spent' \subseteq Token
    BY DEF Spent
  <2>3. QED
    BY <1>1, <2>1, <2>2
<1>9. /\ tok \in Members(k) /\ new \in Members(k)'
      /\ tok \notin Spent /\ new \notin Spent /\ \A l \in Token : new \notin Members(l)
  BY <1>0, <1>1, <1>7 DEF Members, Spent, Live
<1>10. Current(k) = tok /\ Current(k)' = new
  BY <1>1, <1>4, <1>9, CurrentIs, CurrentIsNext
<1>11. ASSUME NEW l \in Token, l # k
       PROVE  Current(l)' = Current(l)
  <2>1. ASSUME NEW t \in Token
        PROVE  t \in Members(l)' <=> t \in Members(l)
    <3>1. t \in Members(l)' <=> Live(t)' /\ rt[t].root = l
      BY <1>1 DEF Members
    <3>2. rt[t].root = l => t # tok /\ t # new
      BY <1>0, <1>1, <1>11
    <3>3. QED
      BY <1>7, <3>1, <3>2 DEF Members
  <2>2. Members(l) \subseteq Token /\ Members(l)' \subseteq Token
    BY DEF Members
  <2>3. Members(l)' = Members(l)
    BY <2>1, <2>2
  <2>4. QED
    BY <1>4, <2>3, CurrentIs, CurrentIsNext
<1>12. \A l \in Token : Current(l) # new
  BY <1>1, <1>4, <1>9, CurrentIs
<1>13. Lines!Rotate(k)
  <2> DEFINE f == [l \in Token |-> Current(l)]
             g == [l \in Token |-> Current(l)']
  <2>1. f[k] = tok /\ g[k] = new /\ tok # NoId /\ new # NoId
    BY <1>1, <1>10, LinesToken
  <2>2. g = [f EXCEPT ![k] = g[k]]
    BY <1>11, <2>1
  <2>3. new \notin Spent /\ \A l \in Token : f[l] # new
    BY <1>9, <1>12
  <2>4. Spent' = Spent \cup {f[k]}
    BY <1>8, <2>1
  <2>5. QED
    BY <2>1, <2>2, <2>3, <2>4, LinesToken DEF Lines!Rotate, Lines!Fresh, Spent
<1>14. Spent' # Spent
  BY <1>8, <1>9
<1>15. \E l \in Lines!Token : Lines!Rotate(l)
  BY <1>1, <1>13, LinesToken
<1>16. QED
  BY <1>14, <1>15, Zenon DEF Lines!Next, Spent

LEMMA StepLines ==
  IInv /\ IInv' /\ [Next]_vars => [Lines!Next]_<<[l \in Token |-> Current(l)], Spent>>
<1> SUFFICES ASSUME IInv, IInv', [Next]_vars
             PROVE  [Lines!Next]_<<[l \in Token |-> Current(l)], Spent>>
  OBVIOUS
<1>1. TypeOK /\ RootsExist /\ NoFork /\ NoFork'
  BY DEF IInv
<1>2. TableStep
  BY StepTable
<1>3. ASSUME NEW S, Deletes(S)
      PROVE  [Lines!Next]_<<[l \in Token |-> Current(l)], Spent>>
  <2>1. CASE \A t \in S : rt[t].state \in {"live", "revoked", "gone"}
    BY <1>1, <1>3, <2>1, DeletesClose DEF Deletes
  <2>2. CASE \E n \in Token : S = {n} /\ rt[n].state = "pending"
    BY <1>1, <1>3, <2>2, RollbackDiscards DEF Deletes
  <2>3. QED
    BY <1>3, <2>1, <2>2 DEF Deletes
<1>4. QED
  BY <1>1, <1>2, <1>3, InsertOpens, CommitRotates DEF TableStep

LEMMA InitLines == Init => Lines!Init
<1> SUFFICES ASSUME Init PROVE Lines!Init
  OBVIOUS
<1>1. NoFork
  BY InitFork DEF IInv
<1>2. \A t \in Token : rt[t].root = t /\ rt[t].state \in {"none", "live"}
  BY DEF Init, NewRow
<1>3. \A l \in Token : Current(l) \in {NoId, l}
  BY <1>1, <1>2, CurrentIs DEF Members
<1>4. Spent = {}
  BY <1>2 DEF Spent
<1>5. QED
  BY <1>1, <1>3, <1>4, CurrentIs, LinesToken DEF Lines!Init, Spent

(* Refreshes, replays, logins, sign-outs, bans and deletions, however they *)
(* interleave, implement lines of tokens: a spent token never becomes      *)
(* current again, and a closed line never reopens.                         *)
THEOREM TableImplementsLines == Spec => ImplementsLines
<1>1. Spec => []IInv
  BY InitFork, StepFork, PTL DEF Spec
<1>2. QED
  BY <1>1, InitLines, StepLines, PTL DEF Spec, ImplementsLines, Lines!Spec, Spent
-----------------------------------------------------------------------------
(***************************************************************************)
(* What a session proved.  The tokens of one session have one user and one *)
(* password version, and a row keeps them; so a refresh, and the child it  *)
(* shares with another tab, keeps them too.                                *)
(***************************************************************************)
Exists(t) == rt[t].state # "none"
Agree(a, b) == rt[a].user = rt[b].user /\ rt[a].pw = rt[b].pw

HeldExist == \A t \in held : Exists(t)

(* A session is named by the id of its first token.                        *)
SidsExist == \A t \in Token : Exists(t) /\ rt[t].sid # NoId => Exists(rt[t].sid)

SessionsAgree ==
  \A a, b \in Token : Exists(a) /\ Exists(b) /\ rt[a].sid # NoId /\ rt[a].sid = rt[b].sid
                        => Agree(a, b)

(* The token n a refresh answers with, and the token t presented.          *)
Follows(n, t) == /\ Agree(n, t) /\ rt[n].aal = rt[t].aal
                 /\ rt[t].sid # NoId => rt[n].sid = rt[t].sid

(* A factor steps up the session of a token that exists; a replay looks    *)
(* for the children of the session and level it read.                      *)
Proven(r) ==
  /\ r.pc = "issue" /\ r.sid # NoId =>
       \E t \in Token : /\ Exists(t) /\ rt[t].sid = r.sid
                        /\ rt[t].user = r.user /\ rt[t].pw = r.pw
  /\ r.pc \in {"update", "lookup", "child", "loaduser", "commit"} => Exists(r.tok)
  /\ r.pc = "child" => r.sid = rt[r.tok].sid /\ r.aal = rt[r.tok].aal
  /\ r.pc \in {"loaduser", "commit"} => Exists(r.new) /\ Follows(r.new, r.tok)

SInv == /\ TypeOK /\ HeldExist /\ SidsExist /\ SessionsAgree
        /\ \A p \in Proc : Proven(req[p])

(* Rows stay, whatever becomes of them.                                    *)
Lasts == \A t \in Token : Exists(t) => Exists(t)' /\ Keeps(t)

LEMMA RowsLast == TypeOK /\ TableStep => Lasts
<1> SUFFICES ASSUME TypeOK, TableStep PROVE Lasts
  OBVIOUS
<1>1. ASSUME NEW S, Removes(S) PROVE Lasts
  BY <1>1 DEF Removes, Lasts, Exists
<1>2. ASSUME NEW n \in Token, Inserts(n) PROVE Lasts
  BY <1>2 DEF Inserts, Lasts, Exists, Keeps
<1>3. ASSUME NEW p \in Proc, Commits(p) PROVE Lasts
  BY <1>3 DEF Commits, Lasts, Exists
<1>4. QED
  BY <1>1, <1>2, <1>3 DEF TableStep, Deletes

LEMMA ProvenLasts ==
  ASSUME TypeOK, Lasts, NEW r, WellFormed(r), Proven(r)
  PROVE  Proven(r)'
<1>1. /\ r.pc \in {"update", "lookup", "child", "loaduser", "commit"} => r.tok \in Token
      /\ r.pc \in {"loaduser", "commit"} => r.new \in Token
  BY DEF WellFormed
<1>2. r.pc = "issue" /\ r.sid # NoId =>
       \E t \in Token : /\ Exists(t)' /\ rt'[t].sid = r.sid
                        /\ rt'[t].user = r.user /\ rt'[t].pw = r.pw
  BY DEF Proven, Lasts, Keeps
<1>3. /\ r.pc \in {"update", "lookup", "child", "loaduser", "commit"} => Exists(r.tok)'
      /\ r.pc = "child" => r.sid = rt'[r.tok].sid /\ r.aal = rt'[r.tok].aal
  BY <1>1 DEF Proven, Lasts, Keeps
<1>4. r.pc \in {"loaduser", "commit"} => Exists(r.new)' /\ Follows(r.new, r.tok)'
  BY <1>1 DEF Proven, Lasts, Keeps, Follows, Agree
<1>5. QED
  BY <1>2, <1>3, <1>4 DEF Proven

(* One request goes on; the new row, if any, is of a session of its own or *)
(* of the session of a row that agrees with it.                            *)
LEMMA OneProves ==
  ASSUME SInv, TypeOK', Lasts, NEW p \in Proc,
         \A q \in Proc : q # p => req'[q] = req[q], Proven(req[p])',
         NEW n, \A t \in Token : t # n => (Exists(t)' => Exists(t)),
         \/ n \notin Token
         \/ rt'[n].sid = n
         \/ \E t \in Token : /\ Exists(t) /\ rt'[n].sid = rt[t].sid /\ rt[t].sid # NoId
                             /\ rt'[n].user = rt[t].user /\ rt'[n].pw = rt[t].pw,
         \A t \in held' : t \in held \/ (t \in Token /\ Exists(t)')
  PROVE  SInv'
<1>0. /\ TypeOK /\ held \subseteq Token
      /\ \A t \in Token : rt[t].sid \in Token \cup {NoId}
      /\ \A q \in Proc : WellFormed(req[q])
  BY DEF SInv, TypeOK, Row, Id
<1>1. HeldExist'
  BY <1>0 DEF SInv, HeldExist, Lasts
<1>2. ASSUME NEW q \in Proc PROVE Proven(req[q])'
  <2>1. PICK r : r = req[q]
    OBVIOUS
  <2>2. CASE q # p
    <3>1. TypeOK /\ WellFormed(r)
      BY <1>0, <2>1
    <3>2. Proven(r)
      BY <2>1 DEF SInv, Proven
    <3>3. Proven(r)'
      BY <3>1, <3>2, ProvenLasts
    <3>4. QED
      BY <2>1, <2>2, <3>3 DEF Proven, Follows
  <2>3. QED
    BY <2>2
<1>3. CASE n \notin Token \/ (Exists(n)' => Exists(n))
  <2>1. \A t \in Token : Exists(t)' => Exists(t) /\ Keeps(t)
    BY <1>3 DEF Lasts
  <2>2. SidsExist' /\ SessionsAgree'
    BY <1>0, <2>1 DEF SInv, SidsExist, SessionsAgree, Lasts, Keeps, Agree
  <2>3. QED
    BY <1>1, <1>2, <2>2 DEF SInv
<1>4. CASE n \in Token /\ Exists(n)' /\ ~Exists(n)
  <2>1. \A t \in Token : t # n /\ Exists(t)' => Exists(t) /\ Keeps(t)
    BY DEF Lasts
  <2>2. \A t \in Token : Exists(t) => rt[t].sid # n
    <3>1. n # NoId
      BY <1>4 DEF NoId, Token
    <3>2. QED
      BY <1>4, <3>1 DEF SInv, SidsExist
  <2>3. SidsExist'
    BY <1>0, <1>4, <2>1 DEF SInv, SidsExist, Lasts, Keeps
  <2>4. ASSUME NEW b \in Token, b # n, Exists(b)', rt'[b].sid # NoId, rt'[n].sid = rt'[b].sid
        PROVE  rt'[n].user = rt'[b].user /\ rt'[n].pw = rt'[b].pw
    <3>1. Exists(b) /\ Keeps(b)
      BY <2>1, <2>4
    <3>2. rt'[n].sid # n
      BY <2>2, <2>4, <3>1 DEF Keeps
    <3>3. PICK t \in Token : /\ Exists(t) /\ rt'[n].sid = rt[t].sid /\ rt[t].sid # NoId
                             /\ rt'[n].user = rt[t].user /\ rt'[n].pw = rt[t].pw
      BY <1>4, <3>2
    <3>4. Agree(t, b)
      BY <2>4, <3>1, <3>3 DEF SInv, SessionsAgree, Keeps
    <3>5. QED
      BY <3>1, <3>3, <3>4 DEF Agree, Keeps
  <2>5. SessionsAgree'
    <3> SUFFICES ASSUME NEW a \in Token, NEW b \in Token, Exists(a)', Exists(b)',
                        rt'[a].sid # NoId, rt'[a].sid = rt'[b].sid
                 PROVE  rt'[a].user = rt'[b].user /\ rt'[a].pw = rt'[b].pw
      BY DEF SessionsAgree, Agree
    <3>1. CASE a # n /\ b # n
      BY <2>1, <3>1 DEF SInv, SessionsAgree, Agree, Keeps
    <3>2. CASE a = n /\ b # n
      BY <2>4, <3>2
    <3>3. CASE a # n /\ b = n
      BY <2>4, <3>3
    <3>4. QED
      BY <3>1, <3>2, <3>3
  <2>6. QED
    BY <1>1, <1>2, <2>3, <2>5 DEF SInv
<1>5. QED
  BY <1>3, <1>4

(* A request whose next record claims nothing, and no new row.             *)
LEMMA PlainProves ==
  ASSUME SInv, TypeOK', Lasts, NEW p \in Proc,
         \A q \in Proc : q # p => req'[q] = req[q],
         \A t \in Token : Exists(t)' => Exists(t), held' = held,
         \/ req'[p].pc \in {"idle", "revoke", "deleting", "deluser", "done"}
         \/ req'[p].pc = "issue" /\ req'[p].sid = NoId
  PROVE  SInv'
<1>1. Proven(req[p])'
  BY DEF Proven
<1>2. NoId \notin Token
  BY DEF NoId, Token
<1>3. QED
  BY <1>1, <1>2, OneProves

LEMMA InitProves == Init => SInv
<1> SUFFICES ASSUME Init PROVE SInv
  OBVIOUS
<1>1. TypeOK
  BY InitType
<1>2. \A t \in Token : rt[t].sid = NoId
  BY DEF Init, NewRow
<1>3. \A t \in held : t \in Token /\ rt[t].state = "live"
  BY <1>1 DEF Init, NewRow, TypeOK
<1>4. \A p \in Proc : req[p].pc = "idle"
  BY DEF Init, Idle
<1>5. QED
  BY <1>1, <1>2, <1>3, <1>4
  DEF SInv, HeldExist, SidsExist, SessionsAgree, Proven, Exists

LEMMA StepProves == IInv /\ SInv /\ [Next]_vars => SInv'
<1> SUFFICES ASSUME IInv, SInv, [Next]_vars PROVE SInv'
  OBVIOUS
<1>0. /\ TypeOK /\ TypeOK' /\ Lasts /\ req \in [Proc -> Request]
      /\ \A q \in Proc : WellFormed(req[q]) /\ req[q] \in Request /\ Proven(req[q])
      /\ \A t \in Token : rt[t].sid \in Id
  BY StepType, StepTable, RowsLast DEF SInv, TypeOK, WellFormed, Row
<1> DEFINE Others(p) == \A q \in Proc : q # p => req'[q] = req[q]
           Quiet == {"idle", "revoke", "deleting", "deluser", "done"}
           NoNewRow == \A t \in Token : Exists(t)' => Exists(t)
<1>1. ASSUME NEW p \in Proc, Others(p), NoNewRow, held' = held,
             req'[p].pc \in Quiet \/ (req'[p].pc = "issue" /\ req'[p].sid = NoId)
      PROVE  SInv'
  BY <1>0, <1>1, PlainProves
<1>2. ASSUME NEW p \in Proc, Others(p), NoNewRow, Proven(req[p])',
             \A t \in held' : t \in held \/ (t \in Token /\ Exists(t)')
      PROVE  SInv'
  <2>1. NoId \notin Token
    BY DEF NoId, Token
  <2>2. QED
    BY <1>0, <1>2, <2>1, OneProves
<1>3. UNCHANGED rt => NoNewRow
  BY DEF Exists
<1>4. ASSUME NEW S, rt' = Remove(rt, S), \A t \in S : rt[t].state # "none"
      PROVE  NoNewRow
  BY <1>4 DEF Remove, Exists
<1>5. ASSUME NEW p \in Proc,
             \/ \E op, u, sid, sc : Begin(p, Revoking(op, u, sid, sc))
             \/ RevokeStart(p), UNCHANGED <<rt, held>>
      PROVE  SInv'
  <2>1. Others(p)
    BY <1>0, <1>5 DEF Begin, RevokeStart
  <2>2. req'[p].pc \in {"revoke", "deleting"}
    <3>1. CASE \E op, u, sid, sc : Begin(p, Revoking(op, u, sid, sc))
      BY <1>0, <3>1, RevokingPc DEF Begin
    <3>2. CASE RevokeStart(p)
      BY <1>0, <3>2 DEF RevokeStart, Request
    <3>3. QED
      BY <1>5, <3>1, <3>2
  <2>3. QED
    BY <1>1, <1>3, <1>5, <2>1, <2>2
<1>6. ASSUME NEW p \in Proc, Revoke(p)
      PROVE  SInv'
  <2>1. CASE RevokeFinish(p)
    <3>1. Others(p) /\ req'[p].pc \in Quiet
      BY <1>0, <2>1 DEF RevokeFinish, Request
    <3>2. NoNewRow
      BY <1>4, <2>1 DEF RevokeFinish, IInv, TargetsOK
    <3>3. QED
      BY <1>1, <2>1, <3>1, <3>2 DEF RevokeFinish
  <2>2. CASE DeleteUserRow(p)
    <3>1. Others(p) /\ req'[p].pc = "done"
      BY <1>0, <2>2, AnswerPc DEF DeleteUserRow
    <3>2. NoNewRow
      BY <1>4, <2>2 DEF DeleteUserRow, Cascade, Stored
    <3>3. QED
      BY <1>1, <2>2, <3>1, <3>2 DEF DeleteUserRow
  <2>3. ASSUME NEW j \in Token, handleUpdateUser(p, j) PROVE SInv'
    BY <1>5, <2>3 DEF handleUpdateUser
  <2>4. ASSUME NEW j \in Token, NEW sc \in {"session", "others", "all"}, handleLogout(p, j, sc)
        PROVE  SInv'
    BY <1>5, <2>4 DEF handleLogout
  <2>5. ASSUME NEW u \in User,
               handleAdminSignOut(p, u) \/ handleDisableUser(p, u) \/ DeleteUser(p, u)
        PROVE  SInv'
    BY <1>5, <2>5 DEF handleAdminSignOut, handleDisableUser, DeleteUser
  <2>6. CASE RevokeStart(p)
    BY <1>5, <2>6 DEF RevokeStart
  <2>7. QED
    BY <1>6, <2>1, <2>2, <2>3, <2>4, <2>5, <2>6 DEF Revoke
<1>7. ASSUME NEW p \in Proc, NEW u \in User, handlePasswordGrant(p, u)
      PROVE  SInv'
  <2>1. Others(p) /\ req'[p].pc = "issue" /\ req'[p].sid = NoId
    BY <1>0, <1>7 DEF handlePasswordGrant, Begin, Idle
  <2>2. QED
    BY <1>1, <1>3, <1>7, <2>1 DEF handlePasswordGrant
<1>8. ASSUME NEW p \in Proc, NEW j \in Token, NEW first \in BOOLEAN,
             handleVerifyFactor(p, j, first)
      PROVE  SInv'
  <2>1. /\ Others(p) /\ req'[p].pc = "issue" /\ req'[p].sid = rt[j].sid
        /\ req'[p].user = rt[j].user /\ req'[p].pw = rt[j].pw
    BY <1>0, <1>8 DEF handleVerifyFactor, Begin, Idle
  <2>2. Exists(j) /\ UNCHANGED <<rt, held>>
    BY <1>8 DEF handleVerifyFactor, SInv, HeldExist
  <2>3. Proven(req[p])'
    BY <2>1, <2>2 DEF Proven, Exists
  <2>4. QED
    BY <1>2, <1>3, <2>1, <2>2, <2>3
<1>9. ASSUME NEW p \in Proc, issueSession(p)
      PROVE  SInv'
  <2>1. Others(p)
    BY <1>0, <1>9 DEF issueSession
  <2>2. CASE UNCHANGED <<rt, held>> /\ req'[p].pc = "done"
    BY <1>1, <1>3, <2>1, <2>2
  <2>3. CASE ~(UNCHANGED <<rt, held>> /\ req'[p].pc = "done")
    <3>1. PICK n \in Token :
              /\ Inserts(n) /\ rt'[n].state = "live"
              /\ rt'[n].user = req[p].user /\ rt'[n].pw = req[p].pw
              /\ rt'[n].sid = IF req[p].sid = NoId THEN n ELSE req[p].sid
              /\ held' \subseteq held \cup {n} /\ req'[p].pc \in {"revoke", "done"}
      BY <1>0, <1>9, <2>3, IssueFields
    <3>2. Proven(req[p])'
      BY <3>1 DEF Proven
    <3>3. \/ rt'[n].sid = n
          \/ \E t \in Token : /\ Exists(t) /\ rt'[n].sid = rt[t].sid /\ rt[t].sid # NoId
                              /\ rt'[n].user = rt[t].user /\ rt'[n].pw = rt[t].pw
      <4>1. req[p].pc = "issue" /\ Proven(req[p])
        BY <1>0, <1>9 DEF issueSession
      <4>2. QED
        BY <3>1, <4>1 DEF Proven
    <3>4. /\ \A t \in Token : t # n => (Exists(t)' => Exists(t))
          /\ Exists(n)' /\ \A t \in held' : t \in held \/ t = n
      BY <3>1 DEF Inserts, Exists
    <3>5. QED
      BY <1>0, <2>1, <3>2, <3>3, <3>4, OneProves
  <2>4. QED
    BY <2>2, <2>3
<1>10. ASSUME NEW p \in Proc, NEW t \in Token, handleRefreshGrant(p, t)
       PROVE  SInv'
  <2>1. Others(p) /\ req'[p].pc = "update" /\ req'[p].tok = t
    BY <1>0, <1>10 DEF handleRefreshGrant, Begin, Idle
  <2>2. Exists(t) /\ UNCHANGED <<rt, held>>
    BY <1>10 DEF handleRefreshGrant, SInv, HeldExist
  <2>3. Proven(req[p])'
    BY <2>1, <2>2 DEF Proven, Exists
  <2>4. QED
    BY <1>2, <1>3, <2>1, <2>2, <2>3
<1>11. ASSUME NEW p \in Proc, RotateToken(p)
       PROVE  SInv'
  <2>0. PICK t : t = req[p].tok
    OBVIOUS
  <2>1. Others(p) /\ held' = held
    BY <1>0, <1>11 DEF RotateToken
  <2>2. t \in Token /\ Exists(t)
    BY <1>0, <1>11, <2>0, RotateFields DEF RotateToken, Proven
  <2>3. CASE UNCHANGED rt /\ req'[p].pc = "done"
    BY <1>1, <1>3, <2>1, <2>3
  <2>4. CASE UNCHANGED rt /\ req'[p].pc = "lookup" /\ req'[p].tok = t
    <3>1. Proven(req[p])'
      BY <2>2, <2>4 DEF Proven, Exists
    <3>2. QED
      BY <1>2, <1>3, <2>1, <2>4, <3>1
  <2>5. ASSUME NEW n \in Token,
               Inserts(n), rt'[n].state = "pending",
               rt'[n].user = rt[t].user, rt'[n].pw = rt[t].pw, rt'[n].aal = rt[t].aal,
               rt'[n].sid = IF rt[t].sid = NoId THEN n ELSE rt[t].sid,
               req'[p].pc = "loaduser", req'[p].new = n, req'[p].tok = t
        PROVE  SInv'
    <3>1. t # n /\ rt'[t] = rt[t] /\ Exists(t)' /\ Exists(n)'
      BY <2>2, <2>5 DEF Inserts, Exists
    <3>2. Follows(n, t)'
      BY <2>5, <3>1 DEF Follows, Agree
    <3>3. Proven(req[p])'
      BY <2>5, <3>1, <3>2 DEF Proven, Exists, Follows, Agree
    <3>4. \/ rt'[n].sid = n
          \/ \E u \in Token : /\ Exists(u) /\ rt'[n].sid = rt[u].sid /\ rt[u].sid # NoId
                              /\ rt'[n].user = rt[u].user /\ rt'[n].pw = rt[u].pw
      BY <2>2, <2>5
    <3>5. \A u \in Token : u # n => (Exists(u)' => Exists(u))
      BY <2>5 DEF Inserts, Exists
    <3>6. \A u \in held' : u \in held
      BY <2>1
    <3>7. QED
      BY <1>0, <2>1, <3>3, <3>4, <3>5, <3>6, OneProves
  <2>6. QED
    BY <1>0, <1>11, <2>0, <2>3, <2>4, <2>5, RotateFields
<1>12. ASSUME NEW p \in Proc, LookupParent(p)
       PROVE  SInv'
  <2>0. PICK t : t = req[p].tok
    OBVIOUS
  <2>1. /\ Others(p) /\ UNCHANGED <<rt, held>>
        /\ t \in Token /\ Exists(t)
    BY <1>0, <1>12, <2>0 DEF LookupParent, WellFormed, Proven
  <2>2. CASE rt[req[p].tok].state = "revoked"
    <3>1. /\ req'[p].pc = "child" /\ req'[p].tok = t
          /\ req'[p].sid = rt[t].sid /\ req'[p].aal = rt[t].aal
      BY <1>0, <1>12, <2>0, <2>2 DEF LookupParent, Request
    <3>2. Proven(req[p])'
      BY <2>1, <3>1 DEF Proven, Exists
    <3>3. QED
      BY <1>2, <1>3, <2>1, <3>2
  <2>3. CASE rt[req[p].tok].state # "revoked"
    <3>1. req'[p].pc = "done"
      BY <1>0, <1>12, <2>3, AnswerPc DEF LookupParent
    <3>2. QED
      BY <1>1, <1>3, <2>1, <3>1
  <2>4. QED
    BY <2>2, <2>3
<1>13. ASSUME NEW p \in Proc, FindChild(p)
       PROVE  SInv'
  <2>0. PICK t : t = req[p].tok
    OBVIOUS
  <2>1. /\ Others(p) /\ UNCHANGED <<rt, held>>
        /\ t \in Token /\ Exists(t) /\ req[p].sid = rt[t].sid /\ req[p].aal = rt[t].aal
    BY <1>0, <1>13, <2>0 DEF FindChild, WellFormed, Proven
  <2>2. ASSUME NEW c \in Children(p), req[p].sid # NoId,
               req' = [req EXCEPT ![p] = [@ EXCEPT !.pc = "loaduser", !.new = c]]
        PROVE  SInv'
    <3>1. /\ req'[p].pc = "loaduser" /\ req'[p].new = c /\ req'[p].tok = t
      BY <1>0, <2>0, <2>2 DEF Request
    <3>2. /\ c \in Token /\ Exists(c) /\ rt[c].sid = rt[t].sid /\ rt[c].aal = rt[t].aal
          /\ rt[t].sid # NoId
      BY <2>1, <2>2 DEF Children, Live, Exists
    <3>3. Agree(c, t)
      BY <2>1, <3>2 DEF SInv, SessionsAgree
    <3>4. Proven(req[p])'
      BY <2>1, <3>1, <3>2, <3>3 DEF Proven, Exists, Follows, Agree
    <3>5. QED
      BY <1>2, <1>3, <2>1, <3>4
  <2>3. ASSUME NEW sc, req' = [req EXCEPT ![p] = [@ EXCEPT !.pc = "revoke",
                                                        !.ans = "reuse", !.scope = sc]]
        PROVE  SInv'
    <3>1. req'[p].pc = "revoke"
      BY <1>0, <2>3 DEF Request
    <3>2. QED
      BY <1>1, <1>3, <2>1, <3>1
  <2>4. QED
    BY <1>13, <2>2, <2>3 DEF FindChild
<1>14. ASSUME NEW p \in Proc, Others(p), req'[p].pc \in Quiet, held' = held,
              rt' = IF Rotating(p) THEN Remove(rt, {req[p].new}) ELSE rt
       PROVE  SInv'
  BY <1>1, <1>3, <1>4, <1>14 DEF Rotating
<1>15. ASSUME NEW p \in Proc, LoadUser(p)
       PROVE  SInv'
  <2>0. PICK t, n : t = req[p].tok /\ n = req[p].new
    OBVIOUS
  <2>1. CASE users[req[p].user].exists
    <3>1. /\ Others(p) /\ req'[p].pc = "commit"
          /\ req'[p].new = n /\ req'[p].tok = t /\ UNCHANGED <<rt, held>>
      <4>1. /\ Others(p) /\ req'[p].pc = "commit" /\ req'[p].new = req[p].new
            /\ req'[p].tok = req[p].tok /\ UNCHANGED <<rt, held>>
        <5> DEFINE b == users[req[p].user].banned
                   S == {u \in Token : /\ rt[u].state = "revoked"
                                      /\ rt[u].sid = req[p].sid
                                      /\ rt[u].exp < req[p].now}
                   x == [req[p] EXCEPT !.pc = "commit", !.banned = b, !.targets = S]
        <5>1. req' = [req EXCEPT ![p] = x] /\ UNCHANGED <<rt, held>>
          BY <1>15, <2>1 DEF LoadUser
        <5> HIDE DEF S, b
        <5>2. x.pc = "commit" /\ x.new = req[p].new /\ x.tok = req[p].tok
          BY <1>0 DEF Request
        <5> HIDE DEF x
        <5>3. QED
          BY <1>0, <5>1, <5>2
      <4>2. QED
        BY <2>0, <4>1
    <3>2. Exists(t) /\ Exists(n) /\ Follows(n, t)
      BY <1>0, <1>15, <2>0 DEF LoadUser, Proven, Exists, Follows, Agree
    <3>3. Proven(req[p])'
      BY <3>1, <3>2 DEF Proven, Exists, Follows, Agree
    <3>4. QED
      BY <1>2, <1>3, <3>1, <3>3
  <2>2. CASE ~users[req[p].user].exists
    <3>1. Others(p) /\ req'[p].pc = "done"
      BY <1>0, <1>15, <2>2, AnswerPc DEF LoadUser
    <3>2. QED
      BY <1>14, <1>15, <2>2, <3>1 DEF LoadUser
  <2>3. QED
    BY <2>1, <2>2
<1>16. ASSUME NEW p \in Proc, CommitRefresh(p)
       PROVE  SInv'
  <2>0. PICK n : n = req[p].new
    OBVIOUS
  <2>1. Others(p) /\ req'[p].pc = "done" /\ held' \subseteq held \cup {n}
    BY <1>0, <1>16, <2>0, AnswerPc DEF CommitRefresh, Deliver
  <2>2. n \in Token /\ Exists(n)'
    <3>1. n \in Token /\ Exists(n)
      BY <1>0, <1>16, <2>0 DEF CommitRefresh, Proven, Exists, WellFormed
    <3>2. QED
      BY <1>0, <3>1 DEF Lasts
  <2>3. Proven(req[p])'
    BY <2>1 DEF Proven
  <2>4. NoNewRow
    <3>1. CASE Rotating(p)
      <4>1. Commits(p)
        BY <1>16, <3>1, CommitShape DEF CommitRefresh
      <4>2. Exists(req[p].new) /\ Exists(req[p].tok)
        BY <1>0, <1>16 DEF CommitRefresh, Proven
      <4>3. \A t \in req[p].targets : t \in Token => Exists(t)
        BY <1>16 DEF CommitRefresh, IInv, TargetsOK, Exists
      <4>4. QED
        BY <4>1, <4>2, <4>3 DEF Commits, Exists
    <3>2. CASE ~Rotating(p)
      BY <1>4, <1>16, <3>2 DEF CommitRefresh, Committed, IInv, TargetsOK
    <3>3. QED
      BY <3>1, <3>2
  <2>5. \A t \in held' : t \in held \/ (t \in Token /\ Exists(t)')
    BY <2>1, <2>2
  <2>6. QED
    BY <1>2, <2>1, <2>3, <2>4, <2>5
<1>17. ASSUME NEW p \in Proc, RequestFails(p)
       PROVE  SInv'
  <2>1. Others(p) /\ req'[p].pc \in {"deluser", "done"}
    BY <1>0, <1>17, AnswerPc DEF RequestFails, Request
  <2>2. QED
    BY <1>14, <1>17, <2>1 DEF RequestFails
<1>18. ASSUME NEW p \in Proc, Return(p)
       PROVE  SInv'
  <2>1. Others(p) /\ req'[p].pc = "idle" /\ UNCHANGED <<rt, held>>
    BY <1>0, <1>18 DEF Return, Idle
  <2>2. QED
    BY <1>1, <1>3, <2>1
<1>19. ASSUME NEW u \in User, Unban(u)
       PROVE  SInv'
  <2>1. UNCHANGED <<rt, held>>
    BY <1>19 DEF Unban
  <2>2. ASSUME NEW q \in Proc
        PROVE  Proven(req[q])'
    <3>1. /\ req'[q].pc = req[q].pc /\ req'[q].tok = req[q].tok
          /\ req'[q].new = req[q].new /\ req'[q].sid = req[q].sid
          /\ req'[q].aal = req[q].aal /\ req'[q].user = req[q].user
          /\ req'[q].pw = req[q].pw
      BY <1>0, <1>19 DEF Unban, Request
    <3>2. Proven(req[q])
      BY <1>0
    <3>3. QED
      BY <2>1, <3>1, <3>2 DEF Proven, Exists, Follows, Agree
  <2>3. QED
    BY <1>0, <2>1, <2>2
    DEF SInv, HeldExist, SidsExist, SessionsAgree, Exists, Agree
<1>20. CASE UNCHANGED <<rt, req, held>>
  BY <1>0, <1>20
  DEF SInv, HeldExist, SidsExist, SessionsAgree, Proven, Exists, Follows, Agree
<1>21. QED
  BY <1>6, <1>7, <1>8, <1>9, <1>10, <1>11, <1>12, <1>13, <1>15, <1>16, <1>17, <1>18,
     <1>19, <1>20
  DEF Next, Refresh, Issue, Tick, vars

(* A refresh answers with a token of the user, session, level and proof of *)
(* password of the one presented, its child or another tab's.              *)
THEOREM AnswerKeepsSessionHolds == Spec => []AnswerKeepsSession
<1>1. SInv => AnswerKeepsSession
  BY DEF SInv, Proven, Follows, Agree, AnswerKeepsSession
<1>2. QED
  BY <1>1, InitFork, StepFork, InitProves, StepProves, PTL DEF Spec
-----------------------------------------------------------------------------
(***************************************************************************)
(* Deleted users.  A row not committed yet is a rotation's, and the lock   *)
(* on the parent keeps the cascade waiting for it.                         *)
(***************************************************************************)
PendingRotates ==
  \A t \in Token : rt[t].state = "pending" => \E p \in Proc : Rotating(p) /\ req[p].new = t

DInv == PendingRotates /\ DeletedUserHasNoTokens

(* One request goes on: its rotation, if it had one, ends with its row.    *)
LEMMA OnePending ==
  ASSUME PendingRotates, NEW p \in Proc, \A q \in Proc : q # p => req'[q] = req[q],
         \A t \in Token : rt'[t].state = "pending" =>
           \/ req'[p].pc \in {"loaduser", "commit"} /\ req'[p].new = t
           \/ rt[t].state = "pending" /\ ~(Rotating(p) /\ req[p].new = t)
  PROVE  PendingRotates'
<1> SUFFICES ASSUME NEW t \in Token, rt'[t].state = "pending"
             PROVE  \E q \in Proc : Rotating(q)' /\ req'[q].new = t
  BY DEF PendingRotates
<1>1. CASE req'[p].pc \in {"loaduser", "commit"} /\ req'[p].new = t
  BY <1>1 DEF Rotating
<1>2. CASE rt[t].state = "pending" /\ ~(Rotating(p) /\ req[p].new = t)
  <2>1. PICK q \in Proc : Rotating(q) /\ req[q].new = t
    BY <1>2 DEF PendingRotates
  <2>2. q # p /\ req'[q] = req[q]
    BY <1>2, <2>1
  <2>3. QED
    BY <2>1, <2>2 DEF Rotating
<1>3. QED
  BY <1>1, <1>2

LEMMA StepPending == IInv /\ PendingRotates /\ [Next]_vars => PendingRotates'
<1> SUFFICES ASSUME IInv, PendingRotates, [Next]_vars PROVE PendingRotates'
  OBVIOUS
<1>0. /\ TypeOK /\ req \in [Proc -> Request] /\ rt \in [Token -> Row]
      /\ \A q \in Proc : WellFormed(req[q]) /\ req[q] \in Request
  BY DEF IInv, TypeOK
<1>1. ASSUME NEW p \in Proc, \A q \in Proc : q # p => req'[q] = req[q],
             req[p].pc \notin {"loaduser", "commit"},
             \A t \in Token : rt'[t].state = "pending" => rt[t].state = "pending"
      PROVE  PendingRotates'
  BY <1>1, OnePending DEF Rotating
<1>2. ASSUME NEW S, rt' = Remove(rt, S)
      PROVE  \A t \in Token : rt'[t].state = "pending" => rt[t].state = "pending" /\ t \notin S
  BY <1>0, <1>2 DEF Remove, Row
<1>3. ASSUME NEW p \in Proc, \A q \in Proc : q # p => req'[q] = req[q],
             rt' = IF Rotating(p) THEN Remove(rt, {req[p].new}) ELSE rt
      PROVE  PendingRotates'
  <2>1. \A t \in Token : rt'[t].state = "pending" =>
          rt[t].state = "pending" /\ ~(Rotating(p) /\ req[p].new = t)
    BY <1>2, <1>3
  <2>2. QED
    BY <1>3, <2>1, OnePending
<1>4. ASSUME NEW p \in Proc, NEW r, Begin(p, r), UNCHANGED rt
      PROVE  PendingRotates'
  BY <1>0, <1>1, <1>4 DEF Begin
<1>5. ASSUME NEW p \in Proc, issueSession(p)
      PROVE  PendingRotates'
  <2>1. \A q \in Proc : q # p => req'[q] = req[q]
    BY <1>0, <1>5 DEF issueSession
  <2>2. req[p].pc = "issue"
    BY <1>5 DEF issueSession
  <2>3. \A t \in Token : rt'[t].state = "pending" => rt[t].state = "pending"
    BY <1>0, <1>5, IssueFields DEF Inserts
  <2>4. QED
    BY <1>1, <2>1, <2>2, <2>3
<1>6. ASSUME NEW p \in Proc, RotateToken(p)
      PROVE  PendingRotates'
  <2>1. (\A q \in Proc : q # p => req'[q] = req[q]) /\ req[p].pc = "update"
    BY <1>0, <1>6 DEF RotateToken
  <2>2. CASE UNCHANGED rt
    BY <1>1, <2>1, <2>2
  <2>3. CASE \E n \in Token : Inserts(n) /\ req'[p].pc = "loaduser" /\ req'[p].new = n
    BY <2>1, <2>3, OnePending DEF Inserts, Rotating
  <2>4. QED
    BY <1>0, <1>6, <2>2, <2>3, RotateFields
<1>7. ASSUME NEW p \in Proc, LookupParent(p) \/ FindChild(p) \/ RevokeStart(p) \/ Return(p)
      PROVE  PendingRotates'
  <2>1. /\ \A q \in Proc : q # p => req'[q] = req[q]
        /\ req[p].pc \notin {"loaduser", "commit"} /\ UNCHANGED rt
    BY <1>0, <1>7 DEF LookupParent, FindChild, RevokeStart, Return
  <2>2. QED
    BY <1>1, <2>1
<1>8. ASSUME NEW p \in Proc, LoadUser(p)
      PROVE  PendingRotates'
  <2>1. CASE users[req[p].user].exists
    <3> DEFINE b == users[req[p].user].banned
               S == {u \in Token : /\ rt[u].state = "revoked"
                                  /\ rt[u].sid = req[p].sid
                                  /\ rt[u].exp < req[p].now}
               x == [req[p] EXCEPT !.pc = "commit", !.banned = b, !.targets = S]
    <3>1. req' = [req EXCEPT ![p] = x] /\ UNCHANGED rt
      BY <1>8, <2>1 DEF LoadUser
    <3> HIDE DEF S, b
    <3>2. x.pc = "commit" /\ x.new = req[p].new
      BY <1>0 DEF Request
    <3> HIDE DEF x
    <3>3. /\ req'[p].pc = "commit" /\ req'[p].new = req[p].new
          /\ \A q \in Proc : q # p => req'[q] = req[q]
      BY <1>0, <3>1, <3>2
    <3>4. QED
      BY <3>1, <3>3, OnePending
  <2>2. CASE ~users[req[p].user].exists
    BY <1>0, <1>3, <1>8, <2>2 DEF LoadUser
  <2>3. QED
    BY <2>1, <2>2
<1>9. ASSUME NEW p \in Proc, CommitRefresh(p)
      PROVE  PendingRotates'
  <2>1. (\A q \in Proc : q # p => req'[q] = req[q]) /\ req[p].pc = "commit"
    BY <1>0, <1>9 DEF CommitRefresh
  <2>2. CASE Rotating(p)
    <3>1. Commits(p)
      BY <1>9, <2>1, <2>2, CommitShape DEF CommitRefresh
    <3>2. \A t \in Token : rt'[t].state = "pending" => rt[t].state = "pending" /\ req[p].new # t
      BY <3>1 DEF Commits
    <3>3. QED
      BY <2>1, <3>2, OnePending
  <2>3. CASE ~Rotating(p)
    <3>1. rt' = Remove(rt, req[p].targets)
      BY <1>9, <2>3 DEF CommitRefresh, Committed
    <3>2. QED
      BY <1>2, <2>1, <2>3, <3>1, OnePending
  <2>4. QED
    BY <2>2, <2>3
<1>10. ASSUME NEW p \in Proc, RevokeFinish(p) \/ DeleteUserRow(p)
       PROVE  PendingRotates'
  <2>1. /\ \A q \in Proc : q # p => req'[q] = req[q]
        /\ req[p].pc \in {"deleting", "deluser"}
        /\ rt' = Remove(rt, req[p].targets) \/ rt' = Remove(rt, Cascade(req[p].user))
    BY <1>0, <1>10 DEF RevokeFinish, DeleteUserRow
  <2>2. QED
    BY <1>1, <1>2, <2>1
<1>11. ASSUME NEW p \in Proc, RequestFails(p)
       PROVE  PendingRotates'
  <2>1. \A q \in Proc : q # p => req'[q] = req[q]
    BY <1>0, <1>11 DEF RequestFails
  <2>2. QED
    BY <1>3, <1>11, <2>1 DEF RequestFails
<1>12. ASSUME NEW u \in User, Unban(u)
       PROVE  PendingRotates'
  <2>1. \A q \in Proc : req'[q].pc = req[q].pc /\ req'[q].new = req[q].new
    BY <1>0, <1>12 DEF Unban, Request
  <2>2. QED
    BY <1>12, <2>1 DEF Unban, PendingRotates, Rotating
<1>13. CASE UNCHANGED <<rt, req>>
  BY <1>13 DEF PendingRotates, Rotating
<1>14. QED
  BY <1>4, <1>5, <1>6, <1>7, <1>8, <1>9, <1>10, <1>11, <1>12, <1>13
  DEF Next, Refresh, Issue, Revoke, Tick, vars, handlePasswordGrant, handleVerifyFactor,
      handleRefreshGrant, handleUpdateUser, handleLogout, handleAdminSignOut,
      handleDisableUser, DeleteUser

(* A user row goes only in the last statement of its deletion.             *)
LEMMA UsersLast ==
  ASSUME TypeOK, [Next]_vars
  PROVE  \/ \A u \in User : users[u].exists => users'[u].exists
         \/ \E p \in Proc : DeleteUserRow(p)
<1>0. users \in [User -> [exists : BOOLEAN, banned : BOOLEAN, pw : 0..MaxPw]]
  BY DEF TypeOK
<1>1. CASE UNCHANGED users
  BY <1>1
<1>2. ASSUME NEW p \in Proc, NEW j \in Token, handleUpdateUser(p, j)
      PROVE  \A u \in User : users[u].exists => users'[u].exists
  BY <1>0, <1>2 DEF handleUpdateUser
<1>3. ASSUME NEW p \in Proc, NEW u \in User, handleDisableUser(p, u)
      PROVE  \A v \in User : users[v].exists => users'[v].exists
  BY <1>0, <1>3 DEF handleDisableUser
<1>4. ASSUME NEW p \in Proc, Refresh(p) \/ Issue(p) \/ RequestFails(p) \/ Return(p)
      PROVE  UNCHANGED users
  BY <1>4 DEF Refresh, handleRefreshGrant, RotateToken, LookupParent, FindChild, LoadUser,
              CommitRefresh, Issue, handlePasswordGrant, handleVerifyFactor,
              issueSession, RequestFails, Return
<1>5. ASSUME NEW u \in User, Unban(u)
      PROVE  \A v \in User : users[v].exists => users'[v].exists
  BY <1>0, <1>5 DEF Unban
<1>6. ASSUME NEW p \in Proc, Revoke(p)
      PROVE  \/ \A u \in User : users[u].exists => users'[u].exists
             \/ DeleteUserRow(p)
  BY <1>1, <1>2, <1>3, <1>6
  DEF Revoke, handleLogout, handleAdminSignOut, DeleteUser, RevokeStart, RevokeFinish
<1>7. QED
  BY <1>1, <1>4, <1>5, <1>6 DEF Next, Tick, vars

LEMMA StepDeleted ==
  ASSUME IInv, SInv, DInv, [Next]_vars
  PROVE  DeletedUserHasNoTokens'
<1> DEFINE There(s) == s \in {"pending", "live", "revoked"}
<1>0. /\ TypeOK /\ TypeOK' /\ TableStep
      /\ \A t \in Token : rt[t].user \in User /\ rt'[t].user \in User
      /\ \A t \in Token : There(rt[t].state) => users[rt[t].user].exists
  BY StepType, StepTable DEF IInv, DInv, DeletedUserHasNoTokens, TypeOK, Row
<1>1. CASE \A u \in User : users[u].exists => users'[u].exists
  <2> SUFFICES ASSUME NEW t \in Token, There(rt'[t].state)
               PROVE  users[rt'[t].user].exists
    BY <1>0, <1>1 DEF DeletedUserHasNoTokens
  <2>1. ASSUME NEW S, Deletes(S) PROVE users[rt'[t].user].exists
    BY <1>0, <2>1 DEF Deletes, Removes, Keeps
  <2>2. ASSUME NEW n \in Token, Inserts(n),
               \/ users[rt'[n].user].exists
               \/ \E u \in Token : Live(u) /\ rt'[n].user = rt[u].user
        PROVE  users[rt'[t].user].exists
    BY <1>0, <2>2 DEF Inserts, Live
  <2>3. ASSUME NEW p \in Proc, Commits(p) PROVE users[rt'[t].user].exists
    <3>1. Live(req[p].tok) /\ rt[req[p].new].state = "pending"
      BY <2>3 DEF Commits, Rotating, IInv, RotationsOK
    <3>2. Keeps(t) /\ There(rt[t].state)
      BY <2>3, <3>1 DEF Commits, Live
    <3>3. QED
      BY <1>0, <3>2 DEF Keeps
  <2>4. QED
    BY <1>0, <2>1, <2>2, <2>3 DEF TableStep
<1>2. ASSUME NEW p \in Proc, DeleteUserRow(p)
      PROVE  DeletedUserHasNoTokens'
  <2>0. PICK u : u = req[p].user
    OBVIOUS
  <2>1. \A v \in User : v # u /\ users[v].exists => users'[v].exists
    BY <1>0, <1>2, <2>0 DEF DeleteUserRow, TypeOK
  <2>2. Removes(Cascade(u))
    BY <1>0, <1>2, <2>0, RemoveShape DEF DeleteUserRow, Cascade
  <2> SUFFICES ASSUME NEW t \in Token, There(rt'[t].state)
               PROVE  users'[rt'[t].user].exists
    BY DEF DeletedUserHasNoTokens
  <2>3. There(rt[t].state) /\ rt'[t].user = rt[t].user /\ t \notin Cascade(u)
    BY <2>2 DEF Removes, Keeps
  <2>4. ASSUME rt[t].user = u PROVE FALSE
    <3>1. rt[t].state = "pending"
      BY <2>3, <2>4 DEF Cascade, Stored
    <3>2. PICK q \in Proc : Rotating(q) /\ req[q].new = t
      BY <3>1 DEF DInv, PendingRotates
    <3>3. req[q].tok \in Token /\ Follows(req[q].new, req[q].tok)
      BY <1>0, <3>2 DEF Rotating, SInv, Proven, TypeOK, WellFormed
    <3>4. rt[req[q].tok].user = u /\ Locked(req[q].tok)
      BY <2>4, <3>2, <3>3 DEF Follows, Agree, Locked
    <3>5. QED
      BY <1>2, <2>0, <3>3, <3>4 DEF DeleteUserRow
  <2>5. QED
    BY <1>0, <2>1, <2>3, <2>4
<1>3. QED
  BY <1>0, <1>1, <1>2, UsersLast

LEMMA InitDeleted == Init => DInv
<1> SUFFICES ASSUME Init PROVE DInv
  OBVIOUS
<1>1. \A u \in User : users[u].exists
  BY DEF Init
<1>2. \A t \in Token : rt[t].user \in User
  BY InitType DEF TypeOK, Row
<1>3. \A t \in Token : rt[t].state # "pending"
  BY DEF Init, NewRow
<1>4. QED
  BY <1>1, <1>2, <1>3 DEF DInv, PendingRotates, DeletedUserHasNoTokens

(***************************************************************************)
(* Nothing of a deleted user's sessions stays, whatever was in flight, for *)
(* any number of users and requests: the foreign key refuses the rows that *)
(* come late, and the cascade waits for the rotations of its user.         *)
(***************************************************************************)
THEOREM DeletedUsersAreSignedOut == Spec => []DeletedUserHasNoTokens
<1>1. IInv /\ SInv /\ DInv /\ [Next]_vars => DInv'
  BY StepPending, StepDeleted DEF DInv
<1>2. DInv => DeletedUserHasNoTokens
  BY DEF DInv
<1>3. QED
  BY <1>1, <1>2, InitDeleted, InitFork, StepFork, InitProves, StepProves, PTL DEF Spec
-----------------------------------------------------------------------------
(***************************************************************************)
(* The modes of MCAuthModes.  A step of any of them is a step of Next, so  *)
(* the invariants above hold in each.                                      *)
(***************************************************************************)
CInv == IInv /\ SInv /\ DInv

LEMMA FreshFields ==
  ASSUME Fresh
  PROVE  /\ TypeOK /\ held = {}
         /\ \A u \in User : users[u].exists
         /\ \A p \in Proc : req[p] = Idle
         /\ \A t \in Token : rt[t].state = "none"
<1>1. (CHOOSE u \in User : TRUE) \in User
  BY SessionsAssumption
<1>2. /\ 0 \in 0..MaxPw /\ NoId \in Id /\ "aal1" \in AAL
      /\ 0 \in 0..(MaxClock + Life) /\ 0 \in Time
  BY SessionsAssumption DEF Id, AAL, Time
<1>3. rt \in [Token -> Row] /\ \A t \in Token : rt[t].state = "none"
  <2> DEFINE row(t) == [NewRow(CHOOSE u \in User : TRUE, NoId, "aal1", t, 0, 0)
                          EXCEPT !.state = "none"]
  <2>1. rt = [t \in Token |-> row(t)]
    BY DEF Fresh
  <2>2. \A t \in Token : row(t) \in Row
    BY <1>1, <1>2, NewRowType
  <2>3. \A t \in Token : row(t).state = "none"
    BY DEF NewRow
  <2> HIDE DEF row
  <2>4. QED
    BY <2>1, <2>2, <2>3
<1>4. /\ req \in [Proc -> Request] /\ \A p \in Proc : req[p] = Idle /\ WellFormed(req[p])
  BY IdleType DEF Fresh, WellFormed
<1>5. /\ users \in [User -> [exists: BOOLEAN, banned: BOOLEAN, pw: 0..MaxPw]]
      /\ \A u \in User : users[u].exists
  BY <1>2 DEF Fresh
<1>6. held = {} /\ clock \in Time
  BY <1>2 DEF Fresh
<1>7. QED
  BY <1>3, <1>4, <1>5, <1>6 DEF TypeOK

LEMMA InitModes == MCInit => CInv
<1>1. Fresh => CInv
  <2> SUFFICES ASSUME Fresh PROVE CInv
    OBVIOUS
  <2>1. Idle.pc = "idle" /\ Idle.targets = {}
    BY DEF Idle
  <2>2. /\ TypeOK /\ held = {}
        /\ \A p \in Proc : req[p].pc = "idle" /\ req[p].targets = {}
        /\ \A t \in Token : rt[t].state = "none"
    BY <2>1, FreshFields
  <2>3. IInv
    BY <2>2
    DEF IInv, RotationsOK, RotationsApart, AnswersExist, TargetsOK, RootsExist,
        NoFork, Live, Rotating
  <2>4. SInv
    BY <2>2 DEF SInv, HeldExist, SidsExist, SessionsAgree, Proven, Exists
  <2>5. DInv
    BY <2>2 DEF DInv, PendingRotates, DeletedUserHasNoTokens
  <2>6. QED
    BY <2>3, <2>4, <2>5 DEF CInv
<1>2. QED
  BY <1>1, InitFork, InitProves, InitDeleted DEF MCInit, CInv

LEMMA HonestIsNext == HonestNext => Next
<1> SUFFICES ASSUME HonestNext PROVE Next
  OBVIOUS
<1>1. FALSE \in BOOLEAN
  OBVIOUS
<1>2. QED
  BY <1>1 DEF HonestNext, Next, Refresh, Issue, Revoke

LEMMA StepModes == CInv /\ [MCNext]_<<vars, mode>> => CInv' /\ [Next]_vars
<1>1. [MCNext]_<<vars, mode>> => [Next]_vars
  BY HonestIsNext DEF MCNext
<1>2. CInv /\ [Next]_vars => CInv'
  BY StepFork, StepProves, StepPending, StepDeleted DEF CInv, DInv
<1>3. QED
  BY <1>1, <1>2

-----------------------------------------------------------------------------
(***************************************************************************)
(* One request after the other (mode "alone").  No row appears between the *)
(* snapshot of a DELETE and its end, nor before the answer is returned.    *)
(***************************************************************************)
Active == {p \in Proc : req[p].pc # "idle"}
Alone  == \A p, q \in Active : p = q

(* The rows the DELETE of a request names.                                 *)
Named(r) == {t \in Token : Stored(t) /\ Matches(r, t)}

(* What a request will have revoked when it answers.                       *)
Signs(r) ==
  /\ r.pc \in {"issue", "update", "lookup", "child", "loaduser", "commit"} => r.ans = "none"
  /\ r.pc = "deluser" => r.op = "delete"
  /\ r.ans = "reuse" => r.scope = IF r.sid = NoId THEN "all" ELSE "session"
  /\ r.ans = "ok" /\ r.op = "password" => r.scope = IF r.sid = NoId THEN "all" ELSE "others"
  /\ r.ans = "ok" /\ r.op \in {"logout", "ban"} => r.scope \in {"session", "others", "all"}

Deletions(r) ==
  /\ r.pc = "deleting" => Named(r) \subseteq r.targets
  /\ r.pc = "done" /\ (r.ans = "reuse" \/ (r.ans = "ok" /\ r.op # "delete")) => Named(r) = {}

AInv == \A p \in Proc : Signs(req[p]) /\ Deletions(req[p])

(* Alone, a request that goes on finds the others idle, and leaves them so.*)
LEMMA OneSigns ==
  ASSUME AInv, Alone, Alone', NEW p \in Proc, \A q \in Proc : q # p => req'[q] = req[q],
         req[p].pc # "idle" \/ req'[p].pc # "idle",
         Signs(req[p])', Deletions(req[p])'
  PROVE  AInv'
<1> SUFFICES ASSUME NEW q \in Proc, q # p PROVE Signs(req[q])' /\ Deletions(req[q])'
  BY DEF AInv
<1>1. req'[q] = req[q] /\ req[q].pc = "idle"
  BY DEF Alone, Active
<1>2. QED
  BY <1>1 DEF AInv, Signs, Deletions

(* A record that is not the end of a DELETE claims nothing of the table.   *)
LEMMA PlainSigns ==
  ASSUME AInv, Alone, Alone', NEW p \in Proc, \A q \in Proc : q # p => req'[q] = req[q],
         req[p].pc # "idle" \/ req'[p].pc # "idle",
         Signs(req[p])', req'[p].pc # "deleting",
         req'[p].pc = "done" => \/ req'[p].ans \notin {"reuse", "ok"}
                                \/ req'[p].ans = "ok" /\ req'[p].op = "delete"
  PROVE  AInv'
<1>1. Deletions(req[p])'
  BY DEF Deletions
<1>2. QED
  BY <1>1, OneSigns

LEMMA RevokingFields ==
  ASSUME NEW op, NEW u, NEW sid, NEW sc
  PROVE  LET r == Revoking(op, u, sid, sc)
         IN  /\ r.pc = "revoke" /\ r.ans = "ok" /\ r.op = op /\ r.sid = sid
             /\ r.scope = IF sid = NoId THEN "all" ELSE sc
  BY DEF Revoking, Idle

LEMMA AnswerAll ==
  ASSUME NEW p \in Proc, NEW a
  PROVE  /\ Answer(p, a).pc = "done" /\ Answer(p, a).ans = a
         /\ Answer(p, a).op = req[p].op
  BY DEF Answer, Idle

LEMMA StepSigns ==
  ASSUME TypeOK, TypeOK', AInv, Alone, Alone', [Next]_vars,
         \A p \in Proc : req'[p].op # "mfa"
  PROVE  AInv'
<1>0. /\ req \in [Proc -> Request] /\ rt \in [Token -> Row]
      /\ \A q \in Proc : req[q] \in Request /\ Signs(req[q]) /\ Deletions(req[q])
  BY DEF TypeOK, AInv
<1> DEFINE Others(p) == \A q \in Proc : q # p => req'[q] = req[q]
(* A request begins.                                                       *)
<1>1. ASSUME NEW p \in Proc, NEW r, Begin(p, r), r.pc \in {"issue", "update"},
             r.ans = "none"
      PROVE  AInv'
  <2>1. Others(p) /\ req'[p] = r
    BY <1>0, <1>1 DEF Begin
  <2>2. Signs(req[p])'
    BY <1>1, <2>1 DEF Signs
  <2>3. QED
    BY <1>1, <2>1, <2>2, PlainSigns
<1>2. ASSUME NEW p \in Proc, NEW op, NEW u, NEW sid, NEW sc,
             Begin(p, Revoking(op, u, sid, sc)),
             op = "password" => sc = "others",
             op \in {"logout", "ban"} => sc \in {"session", "others", "all"}
      PROVE  AInv'
  <2>1. PICK r : r = Revoking(op, u, sid, sc)
    OBVIOUS
  <2>2. /\ r.pc = "revoke" /\ r.ans = "ok" /\ r.op = op /\ r.sid = sid
        /\ r.scope = IF sid = NoId THEN "all" ELSE sc
    BY <2>1, RevokingFields
  <2>3. Others(p) /\ req'[p] = r
    BY <1>0, <1>2, <2>1 DEF Begin
  <2>4. Signs(req[p])'
    BY <1>2, <2>2, <2>3 DEF Signs
  <2>5. QED
    BY <2>2, <2>3, <2>4, PlainSigns
(* An answer that claims nothing.                                          *)
<1>3. ASSUME NEW p \in Proc, NEW a, req' = [req EXCEPT ![p] = Answer(p, a)],
             a \in {"none", "session", "error"} \/ (a = "ok" /\ req[p].op = "delete"),
             req[p].pc # "idle"
      PROVE  AInv'
  <2>1. PICK r : r = Answer(p, a)
    OBVIOUS
  <2>2. r.pc = "done" /\ r.ans = a /\ r.op = req[p].op
    BY <2>1, AnswerAll
  <2>3. Others(p) /\ req'[p] = r
    BY <1>0, <1>3, <2>1
  <2>4. Signs(req[p])'
    BY <1>3, <2>2, <2>3 DEF Signs
  <2>5. QED
    BY <1>3, <2>2, <2>3, <2>4, PlainSigns
(* A refresh goes on.                                                      *)
<1>4. ASSUME NEW p \in Proc, Others(p), req[p].pc # "idle", req'[p].ans = "none",
             req'[p].pc \in {"update", "lookup", "child", "loaduser", "commit"}
      PROVE  AInv'
  <2>1. Signs(req[p])'
    BY <1>4 DEF Signs
  <2>2. QED
    BY <1>4, <2>1, PlainSigns
<1>5. ASSUME NEW p \in Proc, issueSession(p)
      PROVE  AInv'
  <2>1. req[p].pc = "issue"
    BY <1>5 DEF issueSession
  <2>2. CASE \E a \in {"session", "error"} : req' = [req EXCEPT ![p] = Answer(p, a)]
    BY <1>3, <2>1, <2>2
  <2>3. CASE req[p].op = "mfa" /\ \E sc : req' = [req EXCEPT ![p] =
                 [@ EXCEPT !.pc = "revoke", !.ans = "session", !.scope = sc]]
    <3>1. req'[p].op = "mfa"
      BY <1>0, <2>3 DEF Request
    <3>2. QED
      BY <3>1
  <2>4. QED
    BY <1>5, <2>2, <2>3 DEF issueSession
<1>6. ASSUME NEW p \in Proc, RotateToken(p)
      PROVE  AInv'
  <2>1. req[p].pc = "update" /\ req[p].ans = "none"
    BY <1>0, <1>6 DEF RotateToken, Signs
  <2>2. CASE req' = [req EXCEPT ![p] = Answer(p, "error")]
    BY <1>3, <2>1, <2>2
  <2>3. CASE req' = [req EXCEPT ![p] = [@ EXCEPT !.pc = "lookup"]]
    <3>1. Others(p) /\ req'[p].pc = "lookup" /\ req'[p].ans = "none"
      BY <1>0, <2>1, <2>3 DEF Request
    <3>2. QED
      BY <1>4, <2>1, <3>1
  <2> DEFINE r == rt[req[p].tok]
  <2>4. CASE \E n \in Token :
               LET s == IF r.sid = NoId THEN n ELSE r.sid
               IN  req' = [req EXCEPT ![p] =
                     [@ EXCEPT !.pc = "loaduser", !.new = n, !.sid = s, !.aal = r.aal]]
    <3>1. Others(p) /\ req'[p].pc = "loaduser" /\ req'[p].ans = "none"
      BY <1>0, <2>1, <2>4 DEF Request
    <3>2. QED
      BY <1>4, <2>1, <3>1
  <2>5. QED
    BY <1>6, <2>2, <2>3, <2>4, Zenon DEF RotateToken
<1>7. ASSUME NEW p \in Proc, LookupParent(p)
      PROVE  AInv'
  <2>1. req[p].pc = "lookup" /\ req[p].ans = "none"
    BY <1>0, <1>7 DEF LookupParent, Signs
  <2>2. CASE req' = [req EXCEPT ![p] = Answer(p, "error")]
    BY <1>3, <2>1, <2>2
  <2>3. CASE \E s, a, g : req' = [req EXCEPT ![p] =
                 [@ EXCEPT !.pc = "child", !.sid = s, !.aal = a, !.inGrace = g]]
    <3>1. Others(p) /\ req'[p].pc = "child" /\ req'[p].ans = "none"
      BY <1>0, <2>1, <2>3 DEF Request
    <3>2. QED
      BY <1>4, <2>1, <3>1
  <2>4. QED
    BY <1>7, <2>2, <2>3 DEF LookupParent
<1>8. ASSUME NEW p \in Proc, FindChild(p)
      PROVE  AInv'
  <2>1. req[p].pc = "child" /\ req[p].ans = "none"
    BY <1>0, <1>8 DEF FindChild, Signs
  <2>2. CASE \E c : req' = [req EXCEPT ![p] = [@ EXCEPT !.pc = "loaduser", !.new = c]]
    <3>1. Others(p) /\ req'[p].pc = "loaduser" /\ req'[p].ans = "none"
      BY <1>0, <2>1, <2>2 DEF Request
    <3>2. QED
      BY <1>4, <2>1, <3>1
  <2>3. CASE req' = [req EXCEPT ![p] =
               [@ EXCEPT !.pc = "revoke", !.ans = "reuse",
                         !.scope = IF req[p].sid = NoId THEN "all" ELSE "session"]]
    <3>1. /\ Others(p) /\ req'[p].pc = "revoke" /\ req'[p].ans = "reuse"
          /\ req'[p].sid = req[p].sid
          /\ req'[p].scope = IF req[p].sid = NoId THEN "all" ELSE "session"
      BY <1>0, <2>3 DEF Request
    <3>2. Signs(req[p])'
      BY <3>1 DEF Signs
    <3>3. QED
      BY <2>1, <3>1, <3>2, PlainSigns
  <2>4. QED
    BY <1>8, <2>2, <2>3, Zenon DEF FindChild
<1>9. ASSUME NEW p \in Proc, LoadUser(p)
      PROVE  AInv'
  <2>1. req[p].pc = "loaduser" /\ req[p].ans = "none"
    BY <1>0, <1>9 DEF LoadUser, Signs
  <2>2. CASE req' = [req EXCEPT ![p] = Answer(p, "error")]
    BY <1>3, <2>1, <2>2
  <2>3. CASE \E b, S : req' = [req EXCEPT ![p] =
                 [@ EXCEPT !.pc = "commit", !.banned = b, !.targets = S]]
    <3>1. Others(p) /\ req'[p].pc = "commit" /\ req'[p].ans = "none"
      BY <1>0, <2>1, <2>3 DEF Request
    <3>2. QED
      BY <1>4, <2>1, <3>1
  <2>4. QED
    BY <1>9, <2>2, <2>3, Zenon DEF LoadUser
<1>10. ASSUME NEW p \in Proc, CommitRefresh(p)
       PROVE  AInv'
  <2>1. req[p].pc = "commit" /\
        \E a \in {"session", "error"} : req' = [req EXCEPT ![p] = Answer(p, a)]
    BY <1>10 DEF CommitRefresh
  <2>2. QED
    BY <1>3, <2>1
(* The DELETE names its rows, and removes them.                            *)
<1>11. ASSUME NEW p \in Proc, RevokeStart(p)
       PROVE  AInv'
  <2> DEFINE S == {t \in Token : Stored(t) /\ Matches(req[p], t)}
  <2>1. /\ Others(p) /\ req[p].pc = "revoke" /\ UNCHANGED rt
        /\ req' = [req EXCEPT ![p] = [@ EXCEPT !.pc = "deleting", !.targets = S]]
    BY <1>0, <1>11 DEF RevokeStart
  <2>2. S = Named(req[p])
    BY DEF Named
  <2> HIDE DEF S
  <2>3. /\ req'[p].pc = "deleting" /\ req'[p].targets = S /\ req'[p].ans = req[p].ans
        /\ req'[p].op = req[p].op /\ req'[p].scope = req[p].scope
        /\ req'[p].sid = req[p].sid /\ req'[p].user = req[p].user
    BY <1>0, <2>1 DEF Request
  <2>4. Signs(req[p])'
    BY <1>0, <2>3 DEF Signs
  <2>5. Named(req[p])' = Named(req[p])
    BY <2>1, <2>3 DEF Named, Stored, Matches
  <2>6. Deletions(req[p])'
    BY <2>2, <2>3, <2>5 DEF Deletions
  <2>7. QED
    BY <2>1, <2>4, <2>6, OneSigns
<1>12. ASSUME NEW p \in Proc, RevokeFinish(p)
       PROVE  AInv'
  <2> DEFINE to == IF req[p].op = "delete" THEN "deluser" ELSE "done"
  <2>1. /\ Others(p) /\ req[p].pc = "deleting" /\ rt' = Remove(rt, req[p].targets)
        /\ req' = [req EXCEPT ![p] = [@ EXCEPT !.pc = to, !.targets = {}]]
    BY <1>0, <1>12 DEF RevokeFinish
  <2>2. /\ req'[p].pc = to /\ req'[p].ans = req[p].ans
        /\ req'[p].op = req[p].op /\ req'[p].scope = req[p].scope
        /\ req'[p].sid = req[p].sid /\ req'[p].user = req[p].user
    <3> HIDE DEF to
    <3> QED BY <1>0, <2>1 DEF Request
  <2>3. Signs(req[p])'
    BY <1>0, <2>2 DEF Signs
  <2>4. Removes(req[p].targets)
    BY <1>0, <2>1, RemoveShape DEF Request
  <2>5. Named(req[p])' = {}
    <3> SUFFICES ASSUME NEW t \in Token, Stored(t)', Matches(req[p], t)' PROVE FALSE
      BY DEF Named
    <3>1. Stored(t) /\ t \notin req[p].targets
      BY <2>4 DEF Removes, Stored
    <3>2. Matches(req[p], t)
      BY <2>2, <2>4 DEF Matches, Removes, Keeps
    <3>3. QED
      BY <1>0, <2>1, <3>1, <3>2 DEF Deletions, Named
  <2>6. Deletions(req[p])'
    BY <2>2, <2>5 DEF Deletions
  <2>7. QED
    BY <2>1, <2>3, <2>6, OneSigns
<1>13. ASSUME NEW p \in Proc, DeleteUserRow(p)
       PROVE  AInv'
  <2>1. /\ req[p].pc = "deluser" /\ req[p].op = "delete"
        /\ req' = [req EXCEPT ![p] = Answer(p, "ok")]
    BY <1>0, <1>13 DEF DeleteUserRow, Signs
  <2>2. QED
    BY <1>3, <2>1
<1>14. ASSUME NEW p \in Proc, RequestFails(p)
       PROVE  AInv'
  <2>1. req[p].pc # "idle"
    BY <1>14 DEF RequestFails
  <2>2. CASE req' = [req EXCEPT ![p] = Answer(p, "error")]
    BY <1>3, <2>1, <2>2
  <2>3. CASE /\ req[p].op = "delete"
             /\ req' = [req EXCEPT ![p] = [@ EXCEPT !.pc = "deluser", !.targets = {}]]
    <3>1. /\ Others(p) /\ req'[p].pc = "deluser" /\ req'[p].ans = req[p].ans
          /\ req'[p].op = "delete" /\ req'[p].scope = req[p].scope
          /\ req'[p].sid = req[p].sid
      BY <1>0, <2>3 DEF Request
    <3>2. Signs(req[p])'
      BY <1>0, <3>1 DEF Signs
    <3>3. QED
      BY <2>1, <3>1, <3>2, PlainSigns
  <2>4. QED
    BY <1>14, <2>2, <2>3 DEF RequestFails
<1>15. ASSUME NEW p \in Proc, Return(p)
       PROVE  AInv'
  <2>1. Others(p) /\ req[p].pc = "done" /\ req'[p] = Idle
    BY <1>0, <1>15 DEF Return
  <2>2. Signs(req[p])' /\ req'[p].pc = "idle"
    BY <2>1 DEF Signs, Idle
  <2>3. QED
    BY <2>1, <2>2, PlainSigns
(* The administrator's and the clock's steps.                              *)
<1>16. ASSUME NEW u \in User, Unban(u)
       PROVE  AInv'
  <2> SUFFICES ASSUME NEW q \in Proc PROVE Signs(req[q])' /\ Deletions(req[q])'
    BY DEF AInv
  <2>1. /\ req'[q].pc = req[q].pc /\ req'[q].ans = req[q].ans
        /\ req'[q].op = req[q].op /\ req'[q].scope = req[q].scope
        /\ req'[q].sid = req[q].sid /\ req'[q].user = req[q].user
        /\ req'[q].targets = req[q].targets
    BY <1>0, <1>16 DEF Unban, Request
  <2>2. Named(req[q])' = Named(req[q])
    BY ZenonT(60), <1>16, <2>1 DEF Unban, Named, Stored, Matches
  <2>3. QED
    BY <1>0, <2>1, <2>2 DEF Signs, Deletions
<1>17. CASE UNCHANGED <<rt, req>>
  <2>1. \A q \in Proc : Named(req[q])' = Named(req[q])
    BY <1>17 DEF Named, Stored, Matches
  <2>2. QED
    BY <1>0, <1>17, <2>1 DEF AInv, Signs, Deletions
<1>18. ASSUME NEW p \in Proc, Refresh(p)
       PROVE  AInv'
  <2>1. ASSUME NEW t \in Token, handleRefreshGrant(p, t) PROVE AInv'
    <3> DEFINE r == [Idle EXCEPT !.pc = "update", !.op = "refresh", !.tok = t,
                                 !.user = rt[t].user, !.now = clock,
                                 !.sticky = users[rt[t].user].banned]
    <3>1. Begin(p, r) /\ r.pc = "update" /\ r.ans = "none"
      BY <2>1 DEF handleRefreshGrant, Idle
    <3>2. QED
      BY <1>1, <3>1
  <2>2. QED
    BY <1>6, <1>7, <1>8, <1>9, <1>10, <1>18, <2>1 DEF Refresh
<1>19. ASSUME NEW p \in Proc, Issue(p)
       PROVE  AInv'
  <2>1. ASSUME NEW u \in User, handlePasswordGrant(p, u) PROVE AInv'
    <3> DEFINE r == [Idle EXCEPT !.pc = "issue", !.op = "grant", !.user = u,
                                 !.pw = users[u].pw, !.banned = users[u].banned,
                                 !.sticky = users[u].banned]
    <3>1. Begin(p, r) /\ r.pc = "issue" /\ r.ans = "none"
      BY <2>1 DEF handlePasswordGrant, Idle
    <3>2. QED
      BY <1>1, <3>1
  <2>2. ASSUME NEW j \in Token, NEW first \in BOOLEAN, handleVerifyFactor(p, j, first)
        PROVE  AInv'
    <3>1. req'[p].op = "mfa"
      BY <1>0, <2>2 DEF handleVerifyFactor, Begin, Idle
    <3>2. QED
      BY <3>1
  <2>3. QED
    BY <1>5, <1>19, <2>1, <2>2 DEF Issue
<1>20. ASSUME NEW p \in Proc, Revoke(p)
       PROVE  AInv'
  <2>1. ASSUME NEW j \in Token, handleUpdateUser(p, j) PROVE AInv'
    BY <1>2, <2>1 DEF handleUpdateUser
  <2>2. ASSUME NEW j \in Token, NEW sc \in {"session", "others", "all"}, handleLogout(p, j, sc)
        PROVE  AInv'
    BY <1>2, <2>2 DEF handleLogout
  <2>3. ASSUME NEW u \in User,
               handleAdminSignOut(p, u) \/ handleDisableUser(p, u) \/ DeleteUser(p, u)
        PROVE  AInv'
    BY <1>2, <2>3 DEF handleAdminSignOut, handleDisableUser, DeleteUser
  <2>4. QED
    BY <1>11, <1>12, <1>13, <1>20, <2>1, <2>2, <2>3 DEF Revoke
<1>21. QED
  BY <1>14, <1>15, <1>16, <1>17, <1>18, <1>19, <1>20 DEF Next, Tick, vars

LEMMA AloneClaims ==
  ASSUME TypeOK, AInv
  PROVE  ReuseRevokesSession /\ PasswordChangeSignsOut /\ SignOutIsComplete
<1>0. ASSUME NEW p \in Proc, req[p].pc = "done",
             req[p].ans = "reuse" \/ (req[p].ans = "ok" /\ req[p].op # "delete"),
             NEW t \in Token, Live(t)
      PROVE  ~Matches(req[p], t)
  BY <1>0 DEF AInv, Deletions, Named, Stored, Live
<1>1. ReuseRevokesSession
  <2> SUFFICES ASSUME NEW p \in Proc, NEW t \in Token, req[p].pc = "done",
                      req[p].ans = "reuse", Live(t), rt[t].user = req[p].user,
                      req[p].sid \in {NoId, rt[t].sid}
               PROVE  FALSE
    BY DEF ReuseRevokesSession
  <2>1. req[p].scope = IF req[p].sid = NoId THEN "all" ELSE "session"
    BY DEF AInv, Signs
  <2>2. Matches(req[p], t)
    BY <2>1 DEF Matches
  <2>3. QED
    BY <1>0, <2>2
<1>2. PasswordChangeSignsOut
  <2> SUFFICES ASSUME NEW p \in Proc, NEW t \in Token, req[p].pc = "done",
                      req[p].op = "password", req[p].ans = "ok",
                      Live(t), rt[t].user = req[p].user, rt[t].sid # req[p].sid
               PROVE  FALSE
    BY DEF PasswordChangeSignsOut
  <2>1. req[p].scope = IF req[p].sid = NoId THEN "all" ELSE "others"
    BY DEF AInv, Signs
  <2>2. Matches(req[p], t)
    BY <2>1 DEF Matches
  <2>3. QED
    BY <1>0, <2>2
<1>3. SignOutIsComplete
  <2> SUFFICES ASSUME NEW p \in Proc, NEW t \in Token, req[p].pc = "done",
                      req[p].op \in {"logout", "ban"}, req[p].ans = "ok",
                      Live(t), rt[t].user = req[p].user
               PROVE  \/ req[p].scope = "others"  /\ rt[t].sid = req[p].sid
                      \/ req[p].scope = "session" /\ rt[t].sid # req[p].sid
    BY DEF SignOutIsComplete
  <2>1. req[p].scope \in {"session", "others", "all"}
    BY DEF AInv, Signs
  <2>2. ~Matches(req[p], t)
    BY <1>0
  <2>3. QED
    BY <2>1, <2>2 DEF Matches
<1>4. QED
  BY <1>1, <1>2, <1>3

(* A step is of one request, or leaves every request where it was.         *)
LEMMA OneGoesOn ==
  ASSUME TypeOK, [Next]_vars
  PROVE  \E p : \A q \in Proc : q # p => req'[q].pc = req[q].pc
<1>0. req \in [Proc -> Request]
  BY DEF TypeOK
<1>1. ASSUME NEW p \in Proc, NEW r, req' = [req EXCEPT ![p] = r]
      PROVE  \A q \in Proc : q # p => req'[q].pc = req[q].pc
  BY <1>0, <1>1
<1>2. ASSUME NEW p \in Proc, Refresh(p)
      PROVE  \A q \in Proc : q # p => req'[q].pc = req[q].pc
  BY <1>0, <1>2 DEF Refresh, handleRefreshGrant, Begin, RotateToken, LookupParent,
                    FindChild, LoadUser, CommitRefresh
<1>3. ASSUME NEW p \in Proc, Issue(p)
      PROVE  \A q \in Proc : q # p => req'[q].pc = req[q].pc
  BY <1>0, <1>3 DEF Issue, handlePasswordGrant, handleVerifyFactor, Begin, issueSession
<1>4. ASSUME NEW p \in Proc, Revoke(p)
      PROVE  \A q \in Proc : q # p => req'[q].pc = req[q].pc
  BY <1>0, <1>4 DEF Revoke, handleUpdateUser, handleLogout, handleAdminSignOut,
                    handleDisableUser, DeleteUser, Begin, RevokeStart, RevokeFinish,
                    DeleteUserRow
<1>5. ASSUME NEW p \in Proc, RequestFails(p) \/ Return(p)
      PROVE  \A q \in Proc : q # p => req'[q].pc = req[q].pc
  BY <1>0, <1>5 DEF RequestFails, Return
<1>6. ASSUME NEW u \in User, Unban(u)
      PROVE  \A q \in Proc : req'[q].pc = req[q].pc
  BY <1>0, <1>6 DEF Unban, Request
<1>7. CASE UNCHANGED req
  BY <1>7
<1>8. QED
  BY <1>2, <1>3, <1>4, <1>5, <1>6, <1>7 DEF Next, Tick, vars

AloneInv == IsFiniteSet(Active) /\ Alone /\ AInv

LEMMA StepAlone ==
  ASSUME TypeOK, TypeOK', AloneInv, [Next]_vars,
         \A p \in Proc : req'[p].op # "mfa", Cardinality(Active') <= 1
  PROVE  AloneInv'
<1>1. IsFiniteSet(Active')
  <2>1. PICK p : \A q \in Proc : q # p => req'[q].pc = req[q].pc
    BY OneGoesOn
  <2>2. Active' \subseteq Active \cup {p}
    BY <2>1 DEF Active
  <2>3. IsFiniteSet(Active \cup {p})
    BY FS_AddElement DEF AloneInv
  <2>4. QED
    BY <2>2, <2>3, FS_Subset
<1>2. Alone'
  <2> SUFFICES ASSUME NEW p \in Active', NEW q \in Active', p # q PROVE FALSE
    BY DEF Alone
  <2>1. IsFiniteSet({p}) /\ Cardinality({p}) = 1
    BY FS_Singleton
  <2>2. Cardinality({p} \cup {q}) = 2
    BY <2>1, FS_AddElement
  <2>3. Cardinality({p} \cup {q}) <= Cardinality(Active')
    BY <1>1, FS_Subset
  <2>4. Cardinality(Active') \in Nat
    BY <1>1, FS_CardinalityType
  <2>5. QED
    BY <2>2, <2>3, <2>4
<1>3. AInv'
  BY <1>2, StepSigns DEF AloneInv
<1>4. QED
  BY <1>1, <1>2, <1>3 DEF AloneInv

AloneHolds == CInv /\ (mode = "alone" => AloneInv)

LEMMA InitAlone == MCInit => AloneHolds
<1> SUFFICES ASSUME MCInit PROVE AloneHolds
  OBVIOUS
<1>1. \A p \in Proc : req[p] = Idle
  BY FreshFields DEF MCInit, Init
<1>0. Idle.pc = "idle" /\ Idle.op = "none" /\ Idle.ans = "none"
  BY DEF Idle
<1>2. Active = {}
  BY <1>0, <1>1 DEF Active
<1>3. Alone /\ IsFiniteSet(Active)
  BY <1>2, FS_EmptySet DEF Alone
<1>4. AInv
  BY <1>0, <1>1 DEF AInv, Signs, Deletions
<1>5. QED
  BY <1>3, <1>4, InitModes DEF AloneHolds, AloneInv

LEMMA NextAlone == AloneHolds /\ [MCNext]_<<vars, mode>> => AloneHolds'
<1> SUFFICES ASSUME AloneHolds, [MCNext]_<<vars, mode>> PROVE AloneHolds'
  OBVIOUS
<1>0. CInv /\ CInv' /\ [Next]_vars
  BY StepModes DEF AloneHolds
<1>1. TypeOK /\ TypeOK'
  BY <1>0 DEF CInv, IInv
<1>2. CASE UNCHANGED <<vars, mode>>
  <2>1. mode' = mode /\ rt' = rt /\ req' = req
    BY <1>2 DEF vars
  <2>2. AloneInv => AloneInv'
    <3>1. Active' = Active
      BY <2>1 DEF Active
    <3>2. Alone => Alone'
      BY <3>1 DEF Alone
    <3>3. \A p \in Proc : Named(req[p])' = Named(req[p])
      BY <2>1 DEF Named, Stored, Matches
    <3>4. AInv => AInv'
      BY <2>1, <3>3 DEF AInv, Signs, Deletions
    <3>5. QED
      BY <3>1, <3>2, <3>4 DEF AloneInv
  <2>3. QED
    BY <1>0, <2>1, <2>2 DEF AloneHolds
<1>3. CASE MCNext
  <2>1. mode' = mode
    BY <1>3 DEF MCNext
  <2>2. CASE mode = "alone"
    <3>1. \A p \in Proc : req'[p].op # "mfa"
      BY <1>3, <2>2 DEF MCNext
    <3>2. Cardinality(Active') <= 1
      <4>1. Busy["alone"] = 1
        BY DEF Busy
      <4>2. QED
        BY <1>3, <2>2, <4>1 DEF MCNext, InBounds, Active
    <3>3. AloneInv'
      BY <1>0, <1>1, <2>2, <3>1, <3>2, StepAlone DEF AloneHolds
    <3>4. QED
      BY <1>0, <3>3 DEF AloneHolds
  <2>3. QED
    BY <1>0, <2>1, <2>2 DEF AloneHolds
<1>4. QED
  BY <1>2, <1>3

THEOREM RevocationsAreCompleteHolds == MCSpec => []RevocationsAreComplete
<1>1. AloneHolds => RevocationsAreComplete
  BY AloneClaims DEF AloneHolds, CInv, IInv, DInv, AloneInv, RevocationsAreComplete
<1>2. QED
  BY <1>1, InitAlone, NextAlone, PTL DEF MCSpec

-----------------------------------------------------------------------------
(***************************************************************************)
(* Clients that refresh on time (mode "honest").  The invariant follows    *)
(* the clock: a rotation is committed within TxMax of its start, so what   *)
(* an on-time client presents is still in its grace when it is looked up,  *)
(* and the token that replaced it has not expired.                         *)
(***************************************************************************)
HonestRows ==
  \A t \in Token : Exists(t) =>
    /\ rt[t].aal = "aal1" /\ rt[t].sid = rt[t].root /\ rt[t].exp <= clock + Life
    /\ \E c \in Token : Live(c) /\ rt[c].root = rt[t].root

(* The current token of a session outlives its spent ones by a lifetime.   *)
Renewed ==
  \A t, c \in Token : rt[t].state = "revoked" /\ Live(c) /\ rt[c].root = rt[t].root
                        => rt[t].rev + Life <= rt[c].exp

Refreshing(r) == r.pc \in {"update", "lookup", "child", "loaduser", "commit"}

Timely(r) ==
  /\ r.op # "mfa" /\ r.pc \notin {"revoke", "deleting", "deluser"}
  /\ r.pc = "issue" => r.aal = "aal1" /\ r.sid = NoId /\ r.op = "grant"
  /\ Refreshing(r) => /\ r.op = "refresh" /\ r.now <= clock /\ clock <= r.now + TxMax
                      /\ rt[r.tok].exp <= r.now + Life
  /\ r.pc \in {"update", "lookup"} /\ rt[r.tok].state = "revoked"
       => InGrace(rt[r.tok].rev, r.now)
  /\ r.pc = "child" =>
       /\ r.inGrace
       /\ \A c \in Token : Live(c) /\ rt[c].root = rt[r.tok].root => rt[c].exp > r.now
  /\ r.pc \in {"loaduser", "commit"} /\ rt[r.new].state = "pending"
       => rt[r.new].exp = r.now + Life

HonestInv == HonestRows /\ Renewed /\ \A p \in Proc : Timely(req[p])

(* What a step leaves of the rows: a row spent since is within its grace,  *)
(* a row live since has not expired.                                       *)
Ages ==
  /\ \A t \in Token : Exists(t) =>
       /\ Exists(t)' /\ rt'[t].root = rt[t].root /\ rt'[t].exp = rt[t].exp
       /\ rt'[t].state = "pending" => rt[t].state = "pending"
       /\ rt'[t].state = "revoked" => \/ rt[t].state = "revoked" /\ rt'[t].rev = rt[t].rev
                                      \/ clock < rt'[t].rev + Grace
  /\ \A c \in Token : Live(c)' => Live(c) \/ clock < rt'[c].exp

LEMMA NumbersAre ==
  ASSUME TypeOK
  PROVE  /\ clock \in Nat
         /\ \A t \in Token : rt[t].exp \in Nat /\ rt[t].rev \in Nat
         /\ \A p \in Proc : req[p].now \in Nat
  BY SessionsAssumption DEF TypeOK, Time, Row, Request

LEMMA TimelyLasts ==
  ASSUME TypeOK, TypeOK', Ages, clock' = clock, NEW r, WellFormed(r), Timely(r),
         Proven(r), r.now \in Nat
  PROVE  Timely(r)'
<1>0. /\ \A t \in Token : rt[t].exp \in Nat /\ rt[t].rev \in Nat
      /\ \A t \in Token : rt'[t].exp \in Nat /\ rt'[t].rev \in Nat
      /\ clock \in Nat /\ Grace \in Nat /\ Life \in Nat /\ TxMax \in Nat
  <2>1. \A t \in Token : rt'[t].exp \in Nat /\ rt'[t].rev \in Nat
    BY SessionsAssumption DEF TypeOK, Time, Row
  <2>2. QED
    BY <2>1, NumbersAre, SessionsAssumption
<1>1. Refreshing(r) => r.tok \in Token /\ Exists(r.tok)
  BY DEF Refreshing, WellFormed, Proven
<1>2. r.pc \in {"loaduser", "commit"} => r.new \in Token /\ Exists(r.new)
  BY DEF WellFormed, Proven
<1>3. Refreshing(r) => /\ r.op = "refresh" /\ r.now <= clock' /\ clock' <= r.now + TxMax
                       /\ rt'[r.tok].exp <= r.now + Life
  BY <1>1 DEF Timely, Ages
<1>4. ASSUME r.pc \in {"update", "lookup"}, rt'[r.tok].state = "revoked"
      PROVE  InGrace(rt'[r.tok].rev, r.now)
  <2>1. r.now <= clock /\ r.tok \in Token /\ Exists(r.tok)
    BY <1>1, <1>4 DEF Timely, Refreshing
  <2>2. CASE rt[r.tok].state = "revoked" /\ rt'[r.tok].rev = rt[r.tok].rev
    BY <1>4, <2>2 DEF Timely
  <2>3. CASE clock < rt'[r.tok].rev + Grace
    BY <1>0, <2>1, <2>3 DEF InGrace
  <2>4. QED
    BY <1>4, <2>1, <2>2, <2>3 DEF Ages
<1>5. ASSUME r.pc = "child", NEW c \in Token, Live(c)', rt'[c].root = rt'[r.tok].root
      PROVE  rt'[c].exp > r.now
  <2>1. r.now <= clock /\ r.tok \in Token /\ Exists(r.tok)
    BY <1>1, <1>5 DEF Timely, Refreshing
  <2>2. CASE Live(c)
    <3>1. Exists(c)
      BY <2>2 DEF Live, Exists
    <3>2. rt[c].root = rt[r.tok].root /\ rt'[c].exp = rt[c].exp
      BY <1>5, <2>1, <3>1 DEF Ages
    <3>3. QED
      BY <1>5, <2>2, <3>2 DEF Timely
  <2>3. CASE clock < rt'[c].exp
    BY <1>0, <2>1, <2>3
  <2>4. QED
    BY <1>5, <2>2, <2>3 DEF Ages
<1>6. ASSUME r.pc \in {"loaduser", "commit"}, rt'[r.new].state = "pending"
      PROVE  rt'[r.new].exp = r.now + Life
  BY <1>2, <1>6 DEF Ages, Timely
<1>7. QED
  BY <1>3, <1>4, <1>5, <1>6 DEF Timely

(* A rotation that ended, or rows a prune names, leave the table.          *)
LEMMA HonestRemove ==
  ASSUME TypeOK, HonestInv, NEW S \in SUBSET Token, rt' = Remove(rt, S),
         \A t \in S : rt[t].state \in {"pending", "revoked", "gone"}, clock' = clock
  PROVE  HonestRows' /\ Renewed' /\ Ages
<1>1. Removes(S)
  BY RemoveShape
<1>2. \A t \in Token : rt'[t].exp = rt[t].exp /\ rt'[t].rev = rt[t].rev
  BY DEF TypeOK, Remove, Row
<1>3. \A t \in Token : Exists(t)' => Exists(t)
  BY <1>1 DEF Removes, Exists
<1>4. \A c \in Token : Live(c)' <=> Live(c)
  BY <1>1 DEF Removes, Live
<1>5. HonestRows'
  BY <1>1, <1>2, <1>3, <1>4 DEF HonestInv, HonestRows, Removes, Keeps
<1>6. Renewed'
  BY <1>1, <1>2, <1>4 DEF HonestInv, Renewed, Removes, Keeps
<1>7. Ages
  BY <1>1, <1>2, <1>4 DEF Ages, Removes, Keeps, Exists
<1>8. QED
  BY <1>5, <1>6, <1>7

LEMMA HonestSame ==
  ASSUME TypeOK, HonestInv, UNCHANGED <<rt, clock>>
  PROVE  HonestRows' /\ Renewed' /\ Ages
<1>1. rt' = Remove(rt, {})
  BY DEF TypeOK, Remove
<1>2. QED
  BY <1>1, HonestRemove

LEMMA HonestIssue ==
  ASSUME TypeOK, RootsExist, HonestInv, Life > 0, clock' = clock,
         NEW n \in Token, rt[n].state = "none", NEW row, rt' = [rt EXCEPT ![n] = row],
         row.state = "live", row.root = n, row.sid = n, row.aal = "aal1",
         row.exp = clock + Life
  PROVE  HonestRows' /\ Renewed' /\ Ages
<1>0. /\ clock \in Nat /\ Life \in Nat /\ \A t \in Token : rt[t].root \in Token
      /\ rt'[n] = row /\ \A t \in Token : t # n => rt'[t] = rt[t]
  BY SessionsAssumption, NumbersAre DEF TypeOK, Row
<1>1. \A t \in Token : Exists(t) => t # n /\ rt[t].root # n
  BY DEF RootsExist, Exists
<1>2. \A c \in Token : c # n => (Live(c)' <=> Live(c)) /\ (Exists(c)' <=> Exists(c))
  BY <1>0 DEF Live, Exists
<1>3. Live(n)'
  BY <1>0 DEF Live
<1>4. HonestRows'
  <2> SUFFICES ASSUME NEW t \in Token, Exists(t)'
               PROVE  /\ rt'[t].aal = "aal1" /\ rt'[t].sid = rt'[t].root
                      /\ rt'[t].exp <= clock + Life
                      /\ \E c \in Token : Live(c)' /\ rt'[c].root = rt'[t].root
    BY DEF HonestRows
  <2>1. CASE t = n
    BY <1>0, <1>3, <2>1
  <2>2. CASE t # n
    <3>1. Exists(t) /\ rt'[t] = rt[t]
      BY <1>0, <1>2, <2>2
    <3>2. PICK c \in Token : Live(c) /\ rt[c].root = rt[t].root
      BY <3>1 DEF HonestInv, HonestRows
    <3>3. c # n
      BY <3>2 DEF Live
    <3>4. QED
      BY <1>0, <1>2, <3>1, <3>2, <3>3 DEF HonestInv, HonestRows
  <2>3. QED
    BY <2>1, <2>2
<1>5. Renewed'
  <2> SUFFICES ASSUME NEW t \in Token, NEW c \in Token, rt'[t].state = "revoked",
                      Live(c)', rt'[c].root = rt'[t].root
               PROVE  rt'[t].rev + Life <= rt'[c].exp
    BY DEF Renewed
  <2>1. t # n /\ rt[t].state = "revoked"
    BY <1>0
  <2>2. rt[t].root # n
    BY <1>1, <2>1 DEF Exists
  <2>3. c # n
    BY <1>0, <2>1, <2>2
  <2>4. QED
    BY <1>0, <1>2, <2>1, <2>3 DEF HonestInv, Renewed
<1>6. Ages
  <2>1. clock < rt'[n].exp
    BY <1>0
  <2>2. QED
    BY <1>0, <1>1, <1>2, <2>1 DEF Ages, Exists
<1>7. QED
  BY <1>4, <1>5, <1>6

LEMMA HonestRotate ==
  ASSUME TypeOK, HonestInv, clock' = clock, NEW t \in Token, Live(t),
         NEW now \in Nat, now <= clock,
         NEW n \in Token, rt[n].state = "none", NEW row, rt' = [rt EXCEPT ![n] = row],
         row.state = "pending", row.root = rt[t].root, row.sid = rt[t].root,
         row.aal = "aal1", row.exp = now + Life
  PROVE  HonestRows' /\ Renewed' /\ Ages
<1>0. /\ clock \in Nat /\ Life \in Nat
      /\ rt'[n] = row /\ \A u \in Token : u # n => rt'[u] = rt[u]
  BY SessionsAssumption, NumbersAre DEF TypeOK
<1>1. \A u \in Token : Exists(u) => u # n
  BY DEF Exists
<1>2. \A c \in Token : /\ Live(c)' <=> Live(c)
                       /\ c # n => (Exists(c)' <=> Exists(c))
                       /\ Live(c) => rt'[c] = rt[c]
  BY <1>0 DEF Live, Exists
<1>3. HonestRows'
  <2> SUFFICES ASSUME NEW u \in Token, Exists(u)'
               PROVE  /\ rt'[u].aal = "aal1" /\ rt'[u].sid = rt'[u].root
                      /\ rt'[u].exp <= clock + Life
                      /\ \E c \in Token : Live(c)' /\ rt'[c].root = rt'[u].root
    BY DEF HonestRows
  <2>1. CASE u = n
    BY <1>0, <1>2, <2>1
  <2>2. CASE u # n
    <3>1. Exists(u) /\ rt'[u] = rt[u]
      BY <1>0, <1>2, <2>2
    <3>2. PICK c \in Token : Live(c) /\ rt[c].root = rt[u].root
      BY <3>1 DEF HonestInv, HonestRows
    <3>3. QED
      BY <1>0, <1>2, <3>1, <3>2 DEF HonestInv, HonestRows
  <2>3. QED
    BY <2>1, <2>2
<1>4. Renewed'
  BY <1>0, <1>2 DEF HonestInv, Renewed
<1>5. Ages
  BY <1>0, <1>1, <1>2 DEF Ages, Exists
<1>6. QED
  BY <1>3, <1>4, <1>5

(* The rows of a commit, with their times.                                 *)
LEMMA CommitTimes ==
  ASSUME TypeOK, NEW p \in Proc, Rotating(p), req[p].tok \in Token,
         req[p].tok # req[p].new, NEW S, rt' = Remove(Committed(p), S), NEW t \in Token
  PROVE  /\ rt'[t].exp = rt[t].exp
         /\ rt'[t].rev = IF t = req[p].tok THEN req[p].now ELSE rt[t].rev
<1>1. rt \in [Token -> Row] /\ req[p].new \in Token
  BY DEF TypeOK, Rotating
<1>2. rt' = Remove(Edited(rt, req[p].tok, req[p].new, req[p].now), S)
  BY DEF Committed, Edited
<1>3. QED
  BY <1>1, <1>2, EditedRows

LEMMA HonestCommit ==
  ASSUME IInv, SInv, HonestInv, clock' = clock, NEW p \in Proc, req[p].pc = "commit",
         Rotating(p), rt' = Remove(Committed(p), req[p].targets),
         TxMax < Grace, Grace <= Life
  PROVE  HonestRows' /\ Renewed' /\ Ages
<1> DEFINE tok == req[p].tok
           new == req[p].new
           S   == req[p].targets
           now == req[p].now
<1>0. /\ TypeOK /\ clock \in Nat /\ Life \in Nat /\ Grace \in Nat /\ TxMax \in Nat
      /\ now \in Nat /\ \A t \in Token : rt[t].exp \in Nat /\ rt[t].rev \in Nat
  BY SessionsAssumption, NumbersAre DEF IInv
<1>1. Commits(p) /\ Timely(req[p])
  BY CommitShape DEF HonestInv
<1>2. /\ tok \in Token /\ new \in Token /\ Live(tok) /\ rt[new].state = "pending"
      /\ rt[new].root = rt[tok].root /\ tok # new
      /\ \A t \in S : rt[t].state \in {"revoked", "gone"}
  BY <1>1 DEF Commits, Rotating, IInv, RotationsOK, TargetsOK, Live
<1>3. \A t \in Token : /\ Keeps(t)
                       /\ rt'[t].state = CASE t = tok -> "revoked"
                                           [] t = new -> "live"
                                           [] t \in S -> "gone"
                                           [] OTHER -> rt[t].state
  BY <1>1 DEF Commits
<1>4. \A t \in Token : /\ rt'[t].exp = rt[t].exp
                       /\ rt'[t].rev = IF t = tok THEN now ELSE rt[t].rev
  BY <1>0, <1>2, CommitTimes
<1>5. /\ now <= clock /\ clock <= now + TxMax /\ rt[tok].exp <= now + Life
      /\ rt[new].exp = now + Life
  BY <1>1, <1>2 DEF Timely, Refreshing
<1>6. /\ rt'[new].state = "live" /\ rt'[tok].state = "revoked"
      /\ \A c \in Token : c # tok /\ c # new => (Live(c)' <=> Live(c))
      /\ \A c \in Token : c # tok /\ rt'[c].state = "revoked" => rt[c].state = "revoked"
      /\ \A c \in Token : Exists(c)' <=> Exists(c)
      /\ \A c \in Token : rt'[c].state = "pending" => rt[c].state = "pending"
  BY <1>2, <1>3 DEF Live, Exists
<1>7. \A c \in Token : rt'[c].root = rt[c].root /\ rt'[c].sid = rt[c].sid /\ rt'[c].aal = rt[c].aal
  BY <1>3 DEF Keeps
<1> HIDE DEF tok, new, S, now
<1>8. HonestRows'
  <2> SUFFICES ASSUME NEW t \in Token, Exists(t)'
               PROVE  /\ rt'[t].aal = "aal1" /\ rt'[t].sid = rt'[t].root
                      /\ rt'[t].exp <= clock + Life
                      /\ \E c \in Token : Live(c)' /\ rt'[c].root = rt'[t].root
    BY DEF HonestRows
  <2>1. PICK c \in Token : Live(c) /\ rt[c].root = rt[t].root
    BY <1>6 DEF HonestInv, HonestRows
  <2>2. \E d \in Token : Live(d)' /\ rt'[d].root = rt'[t].root
    <3>1. CASE c = tok
      BY <1>2, <1>6, <1>7, <2>1, <3>1 DEF Live
    <3>2. CASE c # tok
      <4>1. c # new
        BY <1>2, <2>1 DEF Live
      <4>2. QED
        BY <1>6, <1>7, <2>1, <3>2, <4>1
    <3>3. QED
      BY <3>1, <3>2
  <2>3. rt[t].aal = "aal1" /\ rt[t].sid = rt[t].root /\ rt[t].exp <= clock + Life
    BY <1>6 DEF HonestInv, HonestRows
  <2>4. QED
    BY <1>4, <1>7, <2>2, <2>3
<1>9. Renewed'
  <2> SUFFICES ASSUME NEW t \in Token, NEW c \in Token, rt'[t].state = "revoked",
                      Live(c)', rt'[c].root = rt'[t].root
               PROVE  rt'[t].rev + Life <= rt'[c].exp
    BY DEF Renewed
  <2>1. rt[c].root = rt[t].root /\ c # tok
    BY <1>6, <1>7 DEF Live
  <2>2. CASE c = new
    <3>1. rt'[c].exp = now + Life
      BY <1>4, <1>5, <2>2
    <3>2. CASE t = tok
      BY <1>0, <1>4, <3>1, <3>2
    <3>3. CASE t # tok
      <4>1. rt[t].state = "revoked" /\ rt[tok].root = rt[t].root
        BY <1>2, <1>6, <2>1, <2>2, <3>3
      <4>2. rt[t].rev + Life <= rt[tok].exp
        BY <1>2, <4>1 DEF HonestInv, Renewed
      <4>3. rt'[t].rev = rt[t].rev
        BY <1>4, <3>3
      <4>4. rt[t].rev \in Nat /\ rt[tok].exp \in Nat
        BY <1>0, <1>2
      <4>5. QED
        BY <1>0, <1>5, <3>1, <4>2, <4>3, <4>4
    <3>4. QED
      BY <3>2, <3>3
  <2>3. CASE c # new
    <3>1. Live(c)
      BY <1>6, <2>1, <2>3
    <3>2. t # tok
      BY <1>2, <2>1, <3>1 DEF IInv, NoFork
    <3>3. QED
      BY <1>4, <1>6, <2>1, <3>1, <3>2 DEF HonestInv, Renewed
  <2>4. QED
    BY <2>2, <2>3
<1>10. Ages
  <2>1. clock < rt'[new].exp
    BY <1>0, <1>2, <1>4, <1>5
  <2>2. \A c \in Token : Live(c)' => Live(c) \/ clock < rt'[c].exp
    <3> SUFFICES ASSUME NEW c \in Token, Live(c)'
                 PROVE  Live(c) \/ clock < rt'[c].exp
      OBVIOUS
    <3>1. c # tok
      BY <1>6 DEF Live
    <3>2. QED
      BY <1>6, <2>1, <3>1
  <2>3. clock < rt'[tok].rev + Grace
    BY <1>0, <1>2, <1>4, <1>5
  <2>4. \A t \in Token : rt'[t].state = "revoked" =>
          \/ rt[t].state = "revoked" /\ rt'[t].rev = rt[t].rev
          \/ clock < rt'[t].rev + Grace
    BY <1>4, <1>6, <2>3
  <2>5. QED
    BY <1>4, <1>6, <1>7, <2>2, <2>4 DEF Ages
<1>11. QED
  BY <1>8, <1>9, <1>10

(* One request goes on, on time.                                           *)
LEMMA OneTimely ==
  ASSUME SInv, TypeOK', HonestInv, HonestRows', Renewed', Ages, clock' = clock,
         NEW p \in Proc, \A q \in Proc : q # p => req'[q] = req[q], Timely(req[p])'
  PROVE  HonestInv'
<1>1. ASSUME NEW q \in Proc, q # p PROVE Timely(req[q])'
  <2>1. PICK r : r = req[q]
    OBVIOUS
  <2>2. TypeOK /\ WellFormed(r) /\ r.now \in Nat
    BY <2>1, NumbersAre DEF SInv, TypeOK
  <2>3. Proven(r)
    BY <2>1 DEF SInv, Proven
  <2>4. Timely(r)
    BY <2>1 DEF HonestInv, Timely
  <2>5. Timely(r)'
    BY <2>2, <2>3, <2>4, TimelyLasts
  <2>6. req'[q] = r
    BY <1>1, <2>1
  <2>7. QED
    BY <2>5, <2>6 DEF Timely
<1>2. QED
  BY <1>1 DEF HonestInv

(* A request that has its answer, or is over.                              *)
LEMMA DoneTimely ==
  ASSUME SInv, TypeOK', HonestInv, HonestRows', Renewed', Ages, clock' = clock,
         NEW p \in Proc, \A q \in Proc : q # p => req'[q] = req[q],
         req'[p].pc \in {"idle", "done"}, req'[p].op # "mfa"
  PROVE  HonestInv'
<1>1. Timely(req[p])'
  BY DEF Timely, Refreshing
<1>2. QED
  BY <1>1, OneTimely

LEMMA StepHonest ==
  ASSUME TxMax < Grace, Grace <= Life, IInv, SInv, TypeOK', HonestInv, HonestNext,
         \A p \in Proc : req'[p].op # "mfa"
  PROVE  HonestInv'
<1>0. /\ TypeOK /\ req \in [Proc -> Request] /\ rt \in [Token -> Row]
      /\ \A q \in Proc : WellFormed(req[q]) /\ req[q] \in Request
      /\ \A q \in Proc : Timely(req[q]) /\ Proven(req[q]) /\ req[q].now \in Nat
      /\ clock \in Nat /\ Life \in Nat /\ Grace \in Nat /\ TxMax \in Nat /\ Life > 0
      /\ \A t \in Token : rt[t].exp \in Nat /\ rt[t].rev \in Nat /\ rt[t].root \in Token
  <2>1. /\ TypeOK /\ req \in [Proc -> Request] /\ rt \in [Token -> Row]
        /\ \A q \in Proc : WellFormed(req[q])
    BY DEF SInv, TypeOK
  <2>2. \A q \in Proc : req[q] \in Request
    BY <2>1
  <2>3. \A q \in Proc : Timely(req[q]) /\ Proven(req[q])
    BY DEF HonestInv, SInv
  <2>4. Life \in Nat /\ Grace \in Nat /\ TxMax \in Nat /\ Life > 0
    BY SessionsAssumption
  <2>5. \A t \in Token : rt[t].root \in Token
    BY <2>1 DEF Row
  <2>6. QED
    BY <2>1, <2>2, <2>3, <2>4, <2>5, NumbersAre
<1> DEFINE Others(p) == \A q \in Proc : q # p => req'[q] = req[q]
(* Steps that only read the table.                                         *)
<1>1. ASSUME NEW p \in Proc, UNCHANGED <<rt, clock>>, Others(p), Timely(req[p])'
      PROVE  HonestInv'
  BY <1>0, <1>1, HonestSame, OneTimely
<1>2. ASSUME NEW p \in Proc, UNCHANGED <<rt, clock>>, Others(p),
             req'[p].pc \in {"idle", "done"}
      PROVE  HonestInv'
  BY <1>0, <1>2, HonestSame, DoneTimely
(* A request ends, and its rotation rolls back.                            *)
<1>3. ASSUME NEW p \in Proc, Others(p), req'[p].pc = "done", clock' = clock,
             rt' = IF Rotating(p) THEN Remove(rt, {req[p].new}) ELSE rt
      PROVE  HonestInv'
  <2>1. CASE Rotating(p)
    <3>1. /\ {req[p].new} \in SUBSET Token /\ rt[req[p].new].state = "pending"
          /\ rt' = Remove(rt, {req[p].new})
      BY <1>3, <2>1 DEF Rotating
    <3>2. HonestRows' /\ Renewed' /\ Ages
      BY <1>0, <1>3, <3>1, HonestRemove
    <3>3. QED
      BY <1>3, <3>2, DoneTimely
  <2>2. CASE ~Rotating(p)
    BY <1>2, <1>3, <2>2
  <2>3. QED
    BY <2>1, <2>2
<1>4. ASSUME NEW p \in Proc, NEW a, req' = [req EXCEPT ![p] = Answer(p, a)]
      PROVE  Others(p) /\ req'[p].pc = "done"
  BY <1>0, <1>4, AnswerPc
<1>5. ASSUME NEW p \in Proc, NEW t \in Token, OnTime(t), handleRefreshGrant(p, t)
      PROVE  HonestInv'
  <2>1. PICK r : r = [Idle EXCEPT !.pc = "update", !.op = "refresh", !.tok = t,
                           !.user = rt[t].user, !.now = clock,
                           !.sticky = users[rt[t].user].banned]
    OBVIOUS
  <2>2. r.pc = "update" /\ r.op = "refresh" /\ r.tok = t /\ r.now = clock
    BY <2>1 DEF Idle
  <2>3. Others(p) /\ req'[p] = r /\ UNCHANGED <<rt, clock>>
    BY <1>0, <1>5, <2>1 DEF handleRefreshGrant, Begin
  <2>4. Exists(t)
    BY <1>5 DEF OnTime, Live, Exists
  <2>5. rt[t].exp <= clock + Life
    BY <2>4 DEF HonestInv, HonestRows
  <2>6. rt[t].state = "revoked" => InGrace(rt[t].rev, clock)
    BY <1>0, <1>5 DEF OnTime, Live, InGrace
  <2>7. clock <= clock + TxMax
    BY <1>0
  <2>8. Timely(req[p])'
    BY <1>0, <2>2, <2>3, <2>5, <2>6, <2>7 DEF Timely, Refreshing
  <2>9. QED
    BY <1>1, <2>3, <2>8
<1>6. ASSUME NEW p \in Proc, RotateToken(p)
      PROVE  HonestInv'
  <2> DEFINE t == req[p].tok
             r == rt[t]
  <2>1. /\ req[p].pc = "update" /\ t \in Token /\ clock' = clock
        /\ req[p].now <= clock /\ clock <= req[p].now + TxMax /\ r.exp <= req[p].now + Life
        /\ req[p].op = "refresh"
    BY <1>0, <1>6 DEF RotateToken, WellFormed, Timely, Refreshing
  <2>2. CASE req' = [req EXCEPT ![p] = Answer(p, "error")] /\ UNCHANGED rt
    BY <1>2, <1>4, <2>1, <2>2
  <2>3. CASE req' = [req EXCEPT ![p] = [@ EXCEPT !.pc = "lookup"]] /\ UNCHANGED rt
    <3>1. /\ Others(p) /\ req'[p].pc = "lookup" /\ req'[p].tok = t
          /\ req'[p].now = req[p].now /\ req'[p].op = req[p].op
      BY <1>0, <2>3 DEF Request
    <3>2. rt[t].state = "revoked" => InGrace(rt[t].rev, req[p].now)
      BY <1>0, <2>1 DEF Timely
    <3>3. Timely(req[p])'
      BY <2>1, <2>3, <3>1, <3>2 DEF Timely, Refreshing
    <3>4. QED
      BY <1>1, <2>1, <2>3, <3>1, <3>3
  <2>4. CASE /\ Live(t)
             /\ \E n \in Token :
                  LET s == IF r.sid = NoId THEN n ELSE r.sid
                  IN  /\ IsNextId(n)
                      /\ rt' = [rt EXCEPT ![n] =
                           [NewRow(r.user, s, r.aal, r.root, r.pw,
                                   req[p].now + Life) EXCEPT !.state = "pending"]]
                      /\ req' = [req EXCEPT ![p] =
                           [@ EXCEPT !.pc = "loaduser", !.new = n, !.sid = s,
                                     !.aal = r.aal]]
    <3>1. r.aal = "aal1" /\ r.sid = r.root /\ r.sid # NoId
      <4>1. Exists(t) /\ NoId \notin Token
        BY <2>4 DEF Live, Exists, Token, NoId
      <4>2. QED
        BY <1>0, <2>1, <4>1 DEF HonestInv, HonestRows
    <3>2. PICK n \in Token :
            /\ IsNextId(n)
            /\ rt' = [rt EXCEPT ![n] =
                 [NewRow(r.user, r.sid, r.aal, r.root, r.pw,
                         req[p].now + Life) EXCEPT !.state = "pending"]]
            /\ req' = [req EXCEPT ![p] =
                 [@ EXCEPT !.pc = "loaduser", !.new = n, !.sid = r.sid, !.aal = r.aal]]
      BY <2>4, <3>1
    <3>3. PICK row : row = [NewRow(r.user, r.sid, r.aal, r.root, r.pw, req[p].now + Life)
                              EXCEPT !.state = "pending"]
      OBVIOUS
    <3>4. /\ row.state = "pending" /\ row.root = r.root /\ row.sid = r.root
          /\ row.aal = "aal1" /\ row.exp = req[p].now + Life
      BY <3>1, <3>3 DEF NewRow
    <3>5. rt' = [rt EXCEPT ![n] = row] /\ rt[n].state = "none"
      BY <3>2, <3>3 DEF IsNextId
    <3>6. HonestRows' /\ Renewed' /\ Ages
      BY ZenonT(60), <1>0, <2>1, <2>4, <3>4, <3>5, HonestRotate
    <3>7. /\ Others(p) /\ req'[p].pc = "loaduser" /\ req'[p].tok = t /\ req'[p].new = n
          /\ req'[p].now = req[p].now /\ req'[p].op = req[p].op
      BY <1>0, <3>2 DEF Request
    <3>8. t # n /\ rt'[t] = rt[t] /\ rt'[n].exp = req[p].now + Life
      BY <1>0, <2>1, <2>4, <3>4, <3>5 DEF Live
    <3>9. Timely(req[p])'
      BY <2>1, <3>7, <3>8 DEF Timely, Refreshing
    <3>10. QED
      BY <2>1, <3>6, <3>7, <3>9, OneTimely
  <2>5. QED
    BY <1>6, <2>2, <2>3, <2>4, Zenon DEF RotateToken
<1>7. ASSUME NEW p \in Proc, LookupParent(p)
      PROVE  HonestInv'
  <2> DEFINE t == req[p].tok
             r == rt[t]
             g == InGrace(r.rev, req[p].now)
  <2>1. /\ req[p].pc = "lookup" /\ t \in Token /\ UNCHANGED <<rt, clock>>
        /\ req[p].now <= clock /\ clock <= req[p].now + TxMax /\ r.exp <= req[p].now + Life
        /\ req[p].op = "refresh"
    BY <1>0, <1>7 DEF LookupParent, WellFormed, Timely, Refreshing
  <2>2. CASE req' = [req EXCEPT ![p] = Answer(p, "error")]
    BY <1>2, <1>4, <2>1, <2>2
  <2>3. CASE /\ r.state = "revoked"
             /\ req' = [req EXCEPT ![p] =
                  [@ EXCEPT !.pc = "child", !.sid = r.sid, !.aal = r.aal, !.inGrace = g]]
    <3>1. g
      BY <1>0, <2>1, <2>3 DEF Timely
    <3>2. ASSUME NEW c \in Token, Live(c), rt[c].root = r.root
          PROVE  rt[c].exp > req[p].now
      <4>1. r.rev + Life <= rt[c].exp
        BY <2>1, <2>3, <3>2 DEF HonestInv, Renewed
      <4>2. r.rev + Grace > req[p].now
        BY <3>1 DEF InGrace
      <4>3. r.rev \in Nat /\ rt[c].exp \in Nat /\ req[p].now \in Nat
        BY <1>0, <2>1
      <4>4. QED
        BY <1>0, <4>1, <4>2, <4>3
    <3> HIDE DEF g
    <3>3. /\ Others(p) /\ req'[p].pc = "child" /\ req'[p].tok = t
          /\ req'[p].now = req[p].now /\ req'[p].op = req[p].op /\ req'[p].inGrace = g
      BY <1>0, <2>3 DEF Request
    <3>4. Timely(req[p])'
      <4>1. /\ req'[p].inGrace
            /\ \A c \in Token : Live(c)' /\ rt'[c].root = rt'[req'[p].tok].root
                                  => rt'[c].exp > req'[p].now
        BY <2>1, <3>1, <3>2, <3>3 DEF Live
      <4>2. QED
        BY <2>1, <3>3, <4>1 DEF Timely, Refreshing
    <3>5. QED
      BY <1>1, <2>1, <3>3, <3>4
  <2>4. QED
    BY <1>7, <2>2, <2>3 DEF LookupParent
<1>8. ASSUME NEW p \in Proc, FindChild(p)
      PROVE  HonestInv'
  <2>1. /\ req[p].pc = "child" /\ req[p].tok \in Token /\ UNCHANGED <<rt, clock>>
        /\ req[p].now <= clock /\ clock <= req[p].now + TxMax
        /\ rt[req[p].tok].exp <= req[p].now + Life
        /\ req[p].op = "refresh" /\ req[p].inGrace
        /\ Exists(req[p].tok)
        /\ req[p].sid = rt[req[p].tok].sid /\ req[p].aal = rt[req[p].tok].aal
    BY <1>0, <1>8 DEF FindChild, WellFormed, Timely, Refreshing, Proven
  <2>2. PICK d \in Token : Live(d) /\ rt[d].root = rt[req[p].tok].root
    BY <2>1 DEF HonestInv, HonestRows
  <2>3. d \in Children(p)
    <3>1. Exists(d)
      BY <2>2 DEF Live, Exists
    <3>2. rt[d].sid = req[p].sid /\ rt[d].aal = req[p].aal
      BY <2>1, <2>2, <3>1 DEF HonestInv, HonestRows
    <3>3. rt[d].exp > req[p].now
      BY <1>0, <2>1, <2>2 DEF Timely
    <3>4. QED
      BY <2>2, <3>2, <3>3 DEF Children
  <2>4. req[p].sid # NoId
    <3>1. NoId \notin Token
      BY DEF NoId, Token
    <3>2. req[p].sid \in Token
      BY <1>0, <2>1 DEF HonestInv, HonestRows
    <3>3. QED
      BY <3>1, <3>2
  <2>5. PICK c \in Children(p) :
          req' = [req EXCEPT ![p] = [@ EXCEPT !.pc = "loaduser", !.new = c]]
    BY <1>8, <2>1, <2>3, <2>4 DEF FindChild
  <2>6. /\ Others(p) /\ req'[p].pc = "loaduser" /\ req'[p].tok = req[p].tok
        /\ req'[p].now = req[p].now /\ req'[p].op = req[p].op /\ req'[p].new = c
    BY <1>0, <2>5 DEF Request
  <2>7. rt[c].state = "live"
    BY <2>5 DEF Children, Live
  <2>8. Timely(req[p])'
    BY <2>1, <2>6, <2>7 DEF Timely, Refreshing
  <2>9. QED
    BY <1>1, <2>1, <2>6, <2>8
<1>9. ASSUME NEW p \in Proc, LoadUser(p)
      PROVE  HonestInv'
  <2>1. /\ req[p].pc = "loaduser" /\ clock' = clock
        /\ req[p].now <= clock /\ clock <= req[p].now + TxMax
        /\ rt[req[p].tok].exp <= req[p].now + Life /\ req[p].op = "refresh"
    BY <1>0, <1>9 DEF LoadUser, Timely, Refreshing
  <2>2. CASE users[req[p].user].exists
    <3> DEFINE b == users[req[p].user].banned
               S == {t \in Token : /\ rt[t].state = "revoked"
                                   /\ rt[t].sid = req[p].sid
                                   /\ rt[t].exp < req[p].now}
    <3>1. /\ req' = [req EXCEPT ![p] = [@ EXCEPT !.pc = "commit", !.banned = b, !.targets = S]]
          /\ UNCHANGED rt
      BY <1>9, <2>2 DEF LoadUser
    <3> HIDE DEF b, S
    <3>2. /\ Others(p) /\ req'[p].pc = "commit" /\ req'[p].tok = req[p].tok
          /\ req'[p].now = req[p].now /\ req'[p].op = req[p].op /\ req'[p].new = req[p].new
      BY <1>0, <3>1 DEF Request
    <3>3. rt[req[p].new].state = "pending" => rt[req[p].new].exp = req[p].now + Life
      BY <1>0, <2>1 DEF Timely
    <3>4. Timely(req[p])'
      BY <2>1, <3>1, <3>2, <3>3 DEF Timely, Refreshing
    <3>5. QED
      BY <1>1, <2>1, <3>1, <3>2, <3>4
  <2>3. CASE ~users[req[p].user].exists
    BY <1>3, <1>4, <1>9, <2>1, <2>3 DEF LoadUser
  <2>4. QED
    BY <2>2, <2>3
<1>10. ASSUME NEW p \in Proc, CommitRefresh(p)
       PROVE  HonestInv'
  <2>1. /\ req[p].pc = "commit" /\ clock' = clock
        /\ rt' = Remove(Committed(p), req[p].targets)
        /\ Others(p) /\ req'[p].pc = "done"
    BY <1>0, <1>4, <1>10 DEF CommitRefresh
  <2>2. HonestRows' /\ Renewed' /\ Ages
    <3>1. CASE Rotating(p)
      BY <2>1, <3>1, HonestCommit
    <3>2. CASE ~Rotating(p)
      <4>1. rt' = Remove(rt, req[p].targets) /\ req[p].targets \in SUBSET Token
        BY <1>0, <2>1, <3>2 DEF Committed, Request
      <4>2. \A t \in req[p].targets : rt[t].state \in {"pending", "revoked", "gone"}
        BY <2>1 DEF IInv, TargetsOK
      <4>3. QED
        BY <1>0, <2>1, <4>1, <4>2, HonestRemove
    <3>3. QED
      BY <3>1, <3>2
  <2>3. QED
    BY <2>1, <2>2, DoneTimely
<1>11. ASSUME NEW p \in Proc, NEW u \in User, handlePasswordGrant(p, u)
       PROVE  HonestInv'
  <2>1. PICK r : r = [Idle EXCEPT !.pc = "issue", !.op = "grant", !.user = u,
                           !.pw = users[u].pw, !.banned = users[u].banned,
                           !.sticky = users[u].banned]
    OBVIOUS
  <2>2. r.pc = "issue" /\ r.op = "grant" /\ r.sid = NoId /\ r.aal = "aal1"
    BY <2>1 DEF Idle
  <2>3. Others(p) /\ req'[p] = r /\ UNCHANGED <<rt, clock>>
    BY <1>0, <1>11, <2>1 DEF handlePasswordGrant, Begin
  <2>4. Timely(req[p])'
    BY <2>2, <2>3 DEF Timely, Refreshing
  <2>5. QED
    BY <1>1, <2>3, <2>4
<1>12. ASSUME NEW p \in Proc, issueSession(p)
       PROVE  HonestInv'
  <2>1. /\ req[p].pc = "issue" /\ req[p].aal = "aal1" /\ req[p].sid = NoId
        /\ req[p].op = "grant" /\ clock' = clock
    BY <1>0, <1>12 DEF issueSession, Timely
  <2>2. CASE Refused(p) \/ ~users[req[p].user].exists
    <3>1. req' = [req EXCEPT ![p] = Answer(p, "error")] /\ UNCHANGED rt
      BY <1>12, <2>2 DEF issueSession
    <3>2. QED
      BY <1>2, <1>4, <2>1, <3>1
  <2>3. CASE ~(Refused(p) \/ ~users[req[p].user].exists)
    <3>1. PICK n \in Token :
            /\ IsNextId(n)
            /\ rt' = [rt EXCEPT ![n] = NewRow(req[p].user, n, req[p].aal, n,
                                              req[p].pw, clock + Life)]
            /\ req' = [req EXCEPT ![p] = Answer(p, "session")]
      BY <1>12, <2>1, <2>3 DEF issueSession
    <3>2. PICK row : row = NewRow(req[p].user, n, req[p].aal, n, req[p].pw, clock + Life)
      OBVIOUS
    <3>3. /\ row.state = "live" /\ row.root = n /\ row.sid = n /\ row.aal = "aal1"
          /\ row.exp = clock + Life
      BY <2>1, <3>2 DEF NewRow
    <3>4. rt' = [rt EXCEPT ![n] = row] /\ rt[n].state = "none"
      BY <3>1, <3>2 DEF IsNextId
    <3>5. HonestRows' /\ Renewed' /\ Ages
      BY <1>0, <2>1, <3>3, <3>4, HonestIssue DEF IInv
    <3>6. Others(p) /\ req'[p].pc = "done"
      BY <1>4, <3>1
    <3>7. QED
      BY <2>1, <3>5, <3>6, DoneTimely
  <2>4. QED
    BY <2>2, <2>3
<1>13. ASSUME NEW p \in Proc, RequestFails(p)
       PROVE  HonestInv'
  <2>1. req' = [req EXCEPT ![p] = Answer(p, "error")]
    BY <1>0, <1>13 DEF RequestFails, Timely
  <2>2. QED
    BY <1>3, <1>4, <1>13, <2>1 DEF RequestFails
<1>14. ASSUME NEW p \in Proc, Return(p)
       PROVE  HonestInv'
  <2>1. Others(p) /\ req'[p].pc = "idle" /\ UNCHANGED <<rt, clock>>
    BY <1>0, <1>14 DEF Return, Idle
  <2>2. QED
    BY <1>2, <2>1
(* No on-time client replays what is past its grace: nothing is revoked.   *)
<1>15. ASSUME NEW p \in Proc, RevokeStart(p) \/ RevokeFinish(p)
       PROVE  HonestInv'
  BY <1>0, <1>15 DEF RevokeStart, RevokeFinish, Timely
<1>16. ASSUME NEW p \in Proc, NEW j \in Token, handleVerifyFactor(p, j, FALSE)
       PROVE  HonestInv'
  <2>1. req'[p].op = "mfa"
    BY <1>0, <1>16 DEF handleVerifyFactor, Begin, Idle
  <2>2. QED
    BY <2>1
<1>17. CASE Tick
  <2>1. /\ UNCHANGED <<rt, req>> /\ clock' = clock + 1
        /\ \A p \in Proc : req[p].op = "refresh" /\ req[p].pc \notin {"idle", "done"}
                             => clock + 1 <= req[p].now + TxMax
    BY <1>17 DEF Tick
  <2>2. HonestRows'
    <3>1. \A t \in Token : rt[t].exp <= clock + Life => rt[t].exp <= clock' + Life
      BY <1>0, <2>1
    <3>2. QED
      BY <2>1, <3>1 DEF HonestInv, HonestRows, Exists, Live
  <2>3. Renewed'
    BY <2>1 DEF HonestInv, Renewed, Live
  <2>4. ASSUME NEW p \in Proc PROVE Timely(req[p])'
    <3>1. Refreshing(req[p]) => /\ req[p].now <= clock' /\ clock' <= req[p].now + TxMax
      BY <1>0, <2>1 DEF Timely, Refreshing
    <3>2. QED
      BY <1>0, <2>1, <3>1 DEF Timely, Refreshing, Live
  <2>5. QED
    BY <2>2, <2>3, <2>4 DEF HonestInv
<1>18. QED
  BY <1>5, <1>6, <1>7, <1>8, <1>9, <1>10, <1>11, <1>12, <1>13, <1>14, <1>15, <1>16, <1>17
  DEF HonestNext

OnTimeInv == CInv /\ (mode = "honest" => HonestInv)

LEMMA InitOnTime == MCInit => OnTimeInv
<1> SUFFICES ASSUME MCInit, mode = "honest" PROVE HonestInv
  BY InitModes DEF OnTimeInv
<1>1. /\ \A p \in Proc : req[p] = Idle
      /\ \A t \in Token : rt[t].state = "none"
  BY FreshFields DEF MCInit
<1>2. Idle.pc = "idle" /\ Idle.op = "none"
  BY DEF Idle
<1>3. HonestRows /\ Renewed
  BY <1>1 DEF HonestRows, Renewed, Exists
<1>4. \A p \in Proc : Timely(req[p])
  BY <1>1, <1>2 DEF Timely, Refreshing
<1>5. QED
  BY <1>3, <1>4 DEF HonestInv

LEMMA NextOnTime ==
  ASSUME TxMax < Grace, Grace <= Life, OnTimeInv, [MCNext]_<<vars, mode>>
  PROVE  OnTimeInv'
<1>0. CInv /\ CInv' /\ IInv /\ SInv /\ TypeOK'
  <2>1. CInv /\ CInv'
    BY StepModes DEF OnTimeInv
  <2>2. QED
    BY <2>1 DEF CInv, IInv
<1>1. CASE UNCHANGED <<vars, mode>>
  <2>1. mode' = mode /\ rt' = rt /\ req' = req /\ clock' = clock
    BY <1>1 DEF vars
  <2>2. HonestInv => HonestInv'
    BY <2>1 DEF HonestInv, HonestRows, Renewed, Timely, Refreshing, Exists, Live
  <2>3. QED
    BY <1>0, <2>1, <2>2 DEF OnTimeInv
<1>2. CASE MCNext
  <2>1. mode' = mode
    BY <1>2 DEF MCNext
  <2>2. CASE mode = "honest"
    <3>1. HonestNext /\ \A p \in Proc : req'[p].op # "mfa"
      BY <1>2, <2>2 DEF MCNext
    <3>2. HonestInv
      BY <2>2 DEF OnTimeInv
    <3>3. HonestInv'
      BY <1>0, <3>1, <3>2, StepHonest
    <3>4. QED
      BY <1>0, <3>3 DEF OnTimeInv
  <2>3. QED
    BY <1>0, <2>1, <2>2 DEF OnTimeInv
<1>3. QED
  BY <1>1, <1>2

(***************************************************************************)
(* A client that refreshes on time, from any number of tabs and with any   *)
(* response lost, keeps its session, if a refresh commits within the grace *)
(* period (refreshReuseInterval) and a token lives at least as long.       *)
(***************************************************************************)
THEOREM OnTimeKeepsSessionHolds ==
  ASSUME TxMax < Grace, Grace <= Life
  PROVE  MCSpec => []OnTimeKeepsSession
<1>1. OnTimeInv => OnTimeKeepsSession
  <2> SUFFICES ASSUME HonestInv, NEW t \in Token,
                      rt[t].state \in {"live", "revoked", "gone"}
               PROVE  \E c \in Token : rt[c].sid = rt[t].sid /\ Live(c)
    BY DEF OnTimeInv, OnTimeKeepsSession, HonestClientKeepsSession
  <2>1. Exists(t)
    BY DEF Exists
  <2>2. PICK c \in Token : Live(c) /\ rt[c].root = rt[t].root
    BY <2>1 DEF HonestInv, HonestRows
  <2>3. Exists(c)
    BY <2>2 DEF Live, Exists
  <2>4. QED
    BY <2>1, <2>2, <2>3 DEF HonestInv, HonestRows
<1>2. OnTimeInv /\ [MCNext]_<<vars, mode>> => OnTimeInv'
  BY NextOnTime
<1>3. QED
  BY <1>1, <1>2, InitOnTime, PTL DEF MCSpec
=============================================================================
