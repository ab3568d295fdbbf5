----------------------------- MODULE TokenLocks -----------------------------
(***************************************************************************)
(* The row locks of the refresh token transactions, one row at a time:     *)
(* internal/adapter/auth/service.go.  AuthSessions has what the statements *)
(* do to sessions, users, levels and time; here one user's tokens are      *)
(* enough, and what counts is which transaction holds a row while it waits *)
(* for another.  Locks are kept to the end of a transaction, a statement   *)
(* takes its rows in whatever order the scan finds them, and Postgres's    *)
(* deadlock detector fails one of the statements that wait in a circle.    *)
(***************************************************************************)
EXTENDS Naturals, FiniteSets, Relation

CONSTANTS
  Proc,        \* request goroutines
  MaxToken,    \* bound: ids auth.refresh_tokens hands out (BIGSERIAL)
  MaxLogin,    \* bound: sessions
  MaxExpired,  \* bound: the last token to expire
  Scopes,      \* bound: the scopes of sign-outs, of "session", "others" and "all"
  Faults       \* may a statement fail other than in a deadlock

ASSUME LocksAssumption ==
  /\ MaxToken \in Nat /\ MaxLogin \in Nat /\ MaxExpired \in 0..MaxToken
  /\ Scopes \subseteq {"session", "others", "all"} /\ Faults \in BOOLEAN

VARIABLES
  user,     \* does the row of auth.users exist
  rt,       \* auth.refresh_tokens by id
  expired,  \* the tokens up to this one are past expires_at
  locks,    \* the transactions that hold a lock on each row
  req       \* the state of each request between two steps

vars == <<user, rt, expired, locks, req>>

Token   == 1..MaxToken
NoId    == 0
Id      == Token \cup {NoId}
UserRow == MaxToken + 1
Row     == Token \cup {UserRow}

(* "pending": inserted by a transaction still open.  root names the line   *)
(* of rotations a token belongs to (history).                              *)
TokenRow == [state: {"none", "pending", "live", "revoked", "gone"},
             sid: Id, root: Id]

(* at: the row a statement waits for or takes next, rest: those of its     *)
(* snapshot after it, dels: those it has deleted, old: expired at NOW(),   *)
(* the start of the transaction.  saw is history: what was live when the   *)
(* DELETE of a sign-out began.                                             *)
Request == [pc: {"idle", "begin", "update", "insert", "lookup", "child",
                 "prune", "delete", "rows", "commit", "user", "done"},
            op: {"none", "grant", "refresh", "logout", "delete"},
            tok: Id, new: Id, sid: Id, old: Id, at: Row \cup {NoId},
            scope: Scopes \cup {"session", "all"},
            rest: SUBSET Token, dels: SUBSET Token, saw: SUBSET Token]

Idle == [pc |-> "idle", op |-> "none", tok |-> NoId, new |-> NoId,
         sid |-> NoId, old |-> NoId, at |-> NoId, scope |-> "all",
         rest |-> {}, dels |-> {}, saw |-> {}]

Live(t)   == rt[t].state = "live"
Stored(t) == rt[t].state \in {"live", "revoked"}
-----------------------------------------------------------------------------
(* Locks.                                                                  *)

(* Every lock is exclusive but the FOR KEY SHARE that an INSERT's foreign  *)
(* key takes on the user's row.                                            *)
Shared(p, x) == x = UserRow /\ req[p].op # "delete"

Blockers(p) ==
  IF req[p].at = NoId THEN {}
  ELSE {q \in locks[req[p].at] \ {p} :
          ~(Shared(p, req[p].at) /\ Shared(q, req[p].at))}

Blocked(p) == Blockers(p) # {}

WaitsFor == [p, q \in Proc |-> q \in Blockers(p)]

Deadlocked(p) == TransitiveClosure(WaitsFor, Proc)[p, p]

Take(p, x) == locks' = [locks EXCEPT ![x] = @ \cup {p}]

\* Mutant: without "defer tx.Rollback" a failed transaction stays open.
ReleasedByCommit(p) ==
  IF req[p].pc = "commit" THEN [x \in Row |-> locks[x] \ {p}] ELSE locks

(* A transaction's locks go with its end, commit or rollback alike.        *)
Released(p) == [x \in Row |-> locks[x] \ {p}]

Become(p, r) == req' = [req EXCEPT ![p] = r]

(* The request answers.  What a sign-out saw is kept until its client has  *)
(* the answer.                                                             *)
Done(p) == IF req[p].op = "logout"
           THEN [Idle EXCEPT !.pc = "done", !.op = "logout", !.saw = req[p].saw]
           ELSE Idle

Remove(table, S) ==
  [t \in Token |-> IF t \in S THEN [table[t] EXCEPT !.state = "gone"] ELSE table[t]]

(* The rows of a DELETE's snapshot are taken one after another.            *)
AtNext(r, S) ==
  IF S = {} THEN {[r EXCEPT !.pc = "commit", !.at = NoId, !.rest = {}]}
  ELSE {[r EXCEPT !.pc = "rows", !.at = x, !.rest = S \ {x}] : x \in S}
-----------------------------------------------------------------------------
(* Requests begin.                                                         *)

(* Bound: a request that will insert begins only while an id is left.      *)
IsNextId(n) == rt[n].state = "none" /\ \A m \in 1..(n - 1) : rt[m].state # "none"

Inserting(p) == \/ req[p].pc = "insert"
                \/ req[p].pc \in {"begin", "update"} /\ Live(req[p].tok)

IdLeft == Cardinality({p \in Proc : Inserting(p)})
            < Cardinality({t \in Token : rt[t].state = "none"})

Logins == Cardinality({t \in Token : rt[t].root = t})
            + Cardinality({p \in Proc : req[p].op = "grant" /\ req[p].pc = "insert"})

handlePasswordGrant(p) ==
  /\ req[p].pc = "idle" /\ user /\ IdLeft
  /\ Logins < MaxLogin
  /\ Become(p, [Idle EXCEPT !.pc = "insert", !.op = "grant", !.at = UserRow])
  /\ UNCHANGED <<user, rt, expired, locks>>

handleRefreshGrant(p, t) ==
  /\ req[p].pc = "idle"
  /\ rt[t].state \notin {"none", "pending"}
  /\ Live(t) => IdLeft
  /\ Become(p, [Idle EXCEPT !.pc = "begin", !.op = "refresh", !.tok = t, !.old = expired])
  /\ UNCHANGED <<user, rt, expired, locks>>

handleLogout(p, s, scope) ==
  /\ req[p].pc = "idle"
  /\ Become(p, [Idle EXCEPT !.pc = "delete", !.op = "logout", !.sid = s, !.scope = scope])
  /\ UNCHANGED <<user, rt, expired, locks>>

DeleteUser(p) ==
  /\ req[p].pc = "idle"
  /\ Become(p, [Idle EXCEPT !.pc = "delete", !.op = "delete"])
  /\ UNCHANGED <<user, rt, expired, locks>>
-----------------------------------------------------------------------------
(* ConsumeRefreshToken.                                                    *)

(* UPDATE ... WHERE token = $1 AND revoked_at IS NULL: its snapshot has    *)
(* the row unspent, or not at all.                                         *)
StartUpdate(p) ==
  /\ req[p].pc = "begin"
  /\ Become(p, IF Live(req[p].tok)
               THEN [req[p] EXCEPT !.pc = "update", !.at = req[p].tok]
               ELSE [req[p] EXCEPT !.pc = "lookup"])
  /\ UNCHANGED <<user, rt, expired, locks>>

\* Mutant: SELECT, then an UPDATE that does not repeat the condition.
UnspentBefore(t) == TRUE

Unspent(t) == Live(t)

(* With the row's lock the condition is judged again: a row found spent    *)
(* does not match and stays locked; an expired one ends the transaction.   *)
TakeParent(p) ==
  LET t == req[p].tok
  IN  /\ req[p].pc = "update" /\ ~Blocked(p)
      /\ \/ /\ Unspent(t) /\ t <= req[p].old
            /\ Become(p, Done(p))
            /\ locks' = Released(p)
         \/ /\ Unspent(t) /\ t > req[p].old
            /\ Take(p, t)
            /\ Become(p, [req[p] EXCEPT !.pc = "insert", !.sid = rt[t].sid, !.at = UserRow])
         \/ /\ ~Unspent(t) /\ Stored(t)
            /\ Take(p, t)
            /\ Become(p, [req[p] EXCEPT !.pc = "lookup", !.at = NoId])
         \/ /\ ~Unspent(t) /\ ~Stored(t)
            /\ Become(p, [req[p] EXCEPT !.pc = "lookup", !.at = NoId])
            /\ UNCHANGED locks
      /\ UNCHANGED <<user, rt, expired>>

(* user_id REFERENCES auth.users(id).                                      *)
References == user

(* The INSERT, on its own for a login: its foreign key waits for the user  *)
(* row a deletion holds, and fails when the row is gone.                   *)
insertRefreshToken(p) ==
  /\ req[p].pc = "insert" /\ ~Blocked(p)
  /\ \/ /\ ~References
        /\ Become(p, Done(p))
        /\ locks' = Released(p)
        /\ UNCHANGED rt
     \/ /\ References
        /\ \E n \in Token :
             /\ IsNextId(n)
             /\ IF req[p].op = "grant"
                THEN /\ rt' = [rt EXCEPT ![n] = [state |-> "live", sid |-> n, root |-> n]]
                     /\ Become(p, Done(p))
                     /\ UNCHANGED locks
                ELSE /\ rt' = [rt EXCEPT ![n] =
                          [state |-> "pending", sid |-> req[p].sid,
                           root |-> rt[req[p].tok].root]]
                     /\ Take(p, UserRow)
                     /\ Become(p, [req[p] EXCEPT !.pc = "prune", !.new = n, !.at = NoId])
  /\ UNCHANGED <<user, expired>>

(* In the grace period the child is looked for, after it the session goes. *)
LookupParent(p) ==
  /\ req[p].pc = "lookup"
  /\ IF rt[req[p].tok].state = "revoked"
     THEN /\ \E pc \in {"child", "delete"} :
               Become(p, [req[p] EXCEPT !.pc = pc, !.scope = "session",
                                        !.sid = rt[req[p].tok].sid])
          /\ UNCHANGED locks
     ELSE Become(p, Done(p)) /\ locks' = Released(p)
  /\ UNCHANGED <<user, rt, expired>>

FindChild(p) ==
  LET Children == {c \in Token : Live(c) /\ rt[c].sid = req[p].sid /\ c > req[p].old}
  IN  /\ req[p].pc = "child"
      /\ Become(p, [req[p] EXCEPT !.pc = IF Children = {} THEN "delete" ELSE "prune"])
      /\ UNCHANGED <<user, rt, expired, locks>>

(* The prune of the session's spent and expired rows takes its snapshot.   *)
StartPrune(p) ==
  LET Stale == {t \in Token : /\ rt[t].state = "revoked"
                              /\ rt[t].sid = req[p].sid /\ t <= req[p].old}
  IN  /\ req[p].pc = "prune"
      /\ \E r \in AtNext(req[p], Stale) : Become(p, r)
      /\ UNCHANGED <<user, rt, expired, locks>>

(* The COMMIT of a rotation, of a shared child or of a detected reuse.  The *)
(* user row, read before it, is missing only when there is nothing to      *)
(* commit: a deletion waits for the rows and the user this one holds.      *)
FinishRefresh(p) ==
  /\ req[p].pc = "commit" /\ req[p].op = "refresh"
  /\ rt' = Remove(IF req[p].new = NoId THEN rt
                  ELSE [rt EXCEPT ![req[p].tok].state = "revoked",
                                  ![req[p].new].state = "live"],
                  req[p].dels)
  /\ locks' = Released(p)
  /\ Become(p, Done(p))
  /\ UNCHANGED <<user, expired>>
-----------------------------------------------------------------------------
(* DELETE FROM auth.refresh_tokens.                                        *)

Matches(r, t) ==
  CASE r.scope = "session" -> rt[t].sid = r.sid
    [] r.scope = "others"  -> rt[t].sid # r.sid
    [] r.scope = "all"     -> TRUE

(* The statement takes its snapshot ...                                    *)
StartDelete(p) ==
  LET S   == {t \in Token : Stored(t) /\ Matches(req[p], t)}
      saw == IF req[p].op = "logout" THEN {t \in S : Live(t)} ELSE {}
  IN  /\ req[p].pc = "delete"
      /\ \E r \in AtNext([req[p] EXCEPT !.saw = saw], S) : Become(p, r)
      /\ UNCHANGED <<user, rt, expired, locks>>

(* ... and locks its rows; one deleted meanwhile is passed over.  The      *)
(* prune and the cascade take theirs the same way.                         *)
LockRow(p) ==
  LET t == req[p].at
  IN  /\ req[p].pc = "rows" /\ ~Blocked(p)
      /\ \E r \in AtNext([req[p] EXCEPT !.dels = IF Stored(t) THEN @ \cup {t} ELSE @],
                         req[p].rest) : Become(p, r)
      /\ IF Stored(t) THEN Take(p, t) ELSE UNCHANGED locks
      /\ UNCHANGED <<user, rt, expired>>

(* A sign-out is done; the deletion of a user goes on to the user's row.   *)
FinishDelete(p) ==
  /\ req[p].pc = "commit" /\ req[p].op \in {"logout", "delete"}
  /\ p \notin locks[UserRow]
  /\ rt' = Remove(rt, req[p].dels)
  /\ locks' = Released(p)
  /\ Become(p, IF req[p].op = "logout" THEN Done(p)
               ELSE [Idle EXCEPT !.pc = "user", !.op = "delete", !.at = UserRow])
  /\ UNCHANGED <<user, expired>>

(* DELETE FROM auth.users locks the row, if it is there ...                *)
LockUser(p) ==
  /\ req[p].pc = "user" /\ ~Blocked(p)
  /\ IF user
     THEN /\ Take(p, UserRow)
          /\ Become(p, [req[p] EXCEPT !.pc = "delete", !.at = NoId])
     ELSE Become(p, Done(p)) /\ UNCHANGED locks
  /\ UNCHANGED <<user, rt, expired>>

(* ... and ends with the rows of its ON DELETE CASCADE.                    *)
FinishDeleteUser(p) ==
  /\ req[p].pc = "commit" /\ req[p].op = "delete"
  /\ p \in locks[UserRow]
  /\ user' = FALSE
  /\ rt' = Remove(rt, req[p].dels)
  /\ locks' = Released(p)
  /\ Become(p, Done(p))
  /\ UNCHANGED expired
-----------------------------------------------------------------------------
(* Rollbacks, time and the detector.                                       *)

(* The transaction rolls back and its request answers; the error of a      *)
(* deletion's first DELETE is dropped and the user's row comes next.       *)
Fails(p) ==
  /\ req[p].pc \notin {"idle", "done"}
  /\ rt' = IF req[p].new = NoId THEN rt ELSE Remove(rt, {req[p].new})
  /\ locks' = Released(p)
  /\ Become(p, IF /\ req[p].op = "delete" /\ req[p].pc # "user"
                  /\ p \notin locks[UserRow]
               THEN [Idle EXCEPT !.pc = "user", !.op = "delete", !.at = UserRow]
               ELSE Done(p))
  /\ UNCHANGED <<user, expired>>

StatementFails(p) == Faults /\ Fails(p)

(* Postgres: of the statements that wait for each other one fails.         *)
DeadlockDetected(p) == Deadlocked(p) /\ Fails(p)

Return(p) ==
  /\ req[p].pc = "done"
  /\ Become(p, Idle)
  /\ UNCHANGED <<user, rt, expired, locks>>

(* Tokens expire in the order of their issue.                              *)
Expire ==
  /\ expired < MaxExpired
  /\ rt[expired + 1].state \notin {"none", "pending"}
  /\ expired' = expired + 1
  /\ UNCHANGED <<user, rt, locks, req>>
-----------------------------------------------------------------------------
Init ==
  /\ user = TRUE
  /\ rt = [t \in Token |-> [state |-> "none", sid |-> NoId, root |-> NoId]]
  /\ expired = 0
  /\ locks = [x \in Row |-> {}]
  /\ req = [p \in Proc |-> Idle]

(* What a request does by itself once it has begun.                        *)
Server(p) ==
  \/ StartUpdate(p) \/ TakeParent(p) \/ insertRefreshToken(p) \/ LookupParent(p)
  \/ FindChild(p) \/ StartPrune(p) \/ FinishRefresh(p)
  \/ StartDelete(p) \/ LockRow(p) \/ FinishDelete(p)
  \/ LockUser(p) \/ FinishDeleteUser(p) \/ Return(p)

Client(p) ==
  \/ handlePasswordGrant(p)
  \/ \E t \in Token : handleRefreshGrant(p, t)
  \/ \E s \in Token, scope \in Scopes : rt[s].sid = s /\ handleLogout(p, s, scope)
  \/ DeleteUser(p)

Next == \/ \E p \in Proc : \/ Client(p) \/ Server(p)
                           \/ StatementFails(p) \/ DeadlockDetected(p)
        \/ Expire

(* Postgres queues those who wait for a row, and looks for circles for as  *)
(* long as they wait: a request able to go on again and again, or to be    *)
(* failed by the detector, is.  Nothing makes a client send, time pass or  *)
(* a statement fail.                                                       *)
Fairness == \A p \in Proc : SF_vars(Server(p) \/ DeadlockDetected(p))

Spec == Init /\ [][Next]_vars /\ Fairness
-----------------------------------------------------------------------------
(* Properties.                                                             *)

(* The types, and: no lock outlives the request of its transaction.        *)
TypeOK ==
  /\ user \in BOOLEAN /\ expired \in Id
  /\ rt \in [Token -> TokenRow]
  /\ locks \in [Row -> SUBSET Proc]
  /\ req \in [Proc -> Request]
  /\ \A x \in Row : \A p \in locks[x] : req[p].pc \notin {"idle", "done"}

(* Transactions do wait for each other in circles: a rotation's prune for  *)
(* a row of a sign-out that waits for its parent, the INSERT of a child    *)
(* for the user a deletion holds whose cascade waits for the parent.  Yet  *)
(* every request returns: each circle holds a statement to fail, and a     *)
(* failed transaction lets go (ConsumeRefreshToken's deferred Rollback).   *)
RequestsReturn == \A p \in Proc : req[p].pc # "idle" ~> req[p].pc = "idle"

(* Nothing of a deleted user's sessions stays.                             *)
DeletedUserHasNoTokens ==
  user \/ \A t \in Token : rt[t].state \in {"none", "gone"}

(* Once a sign-out has answered and nothing else is under way, no token is *)
(* live that was when its DELETE began: signOut "invalidates the refresh   *)
(* token server-side" (handleLogout).                                      *)
SignOutInvalidates ==
  \A p \in Proc :
    req[p].pc = "done" /\ (\A q \in Proc \ {p} : req[q].pc \in {"idle", "done"})
      => \A t \in req[p].saw : ~Live(t)

(* The unspent token of a line; a line with two is none that TokenLines    *)
(* allows.                                                                 *)
Current(l) == LET S == {t \in Token : Live(t) /\ rt[t].root = l}
              IN  CASE S = {} -> NoId
                    [] Cardinality(S) = 1 -> CHOOSE t \in S : TRUE
                    [] OTHER -> UserRow

Lines == INSTANCE TokenLines WITH
           cur   <- [l \in Token |-> Current(l)],
           spent <- {t \in Token : rt[t].state \in {"revoked", "gone"}}

(* The order in which rows are locked, and which statement the detector    *)
(* fails, change nothing of what tokens promise: locked row by row the     *)
(* statements of ConsumeRefreshToken and DeleteUser still implement lines  *)
(* of tokens; no lock outlives its request; and nothing of a deleted user  *)
(* stays, though the cascade takes its rows after the user's, between      *)
(* rotations that lock them in the other order (refreshTokensDDL's         *)
(* REFERENCES ... ON DELETE CASCADE).                                      *)
LocksKeepPromises == Lines!Spec /\ [](TypeOK /\ DeletedUserHasNoTokens)
=============================================================================
