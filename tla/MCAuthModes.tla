---------------------------- MODULE MCAuthModes ----------------------------
(* AuthSessions in five modes of use.                                      *)
EXTENDS MCAuthSessions

(* One run asks several questions of the module, each in its own mode:     *)
(*   races    any two requests at an instant, but for password changes     *)
(*            and bans;                                                    *)
(*   bans     logins, refreshes and factors against bans at an instant;    *)
(*   alone    one request after the other, with time passing, password     *)
(*            changes and a legacy token, without factors;                 *)
(*   late     logins and refreshes, two at a time, past the grace period   *)
(*            and the expiry;                                              *)
(*   honest   three tabs that refresh on time, without factors.            *)
VARIABLE mode

(* Bounds of each mode: requests in flight, and the last instant.          *)
Busy    == [races |-> 2, bans |-> 2, alone |-> 1, late |-> 2, honest |-> 3]
Horizon == [races |-> 0, bans |-> 0, alone |-> 2, late |-> 2, honest |-> 2]

Fresh ==
  /\ users = [u \in User |-> [exists |-> TRUE, banned |-> FALSE, pw |-> 0]]
  /\ rt = [t \in Token |->
       [NewRow(CHOOSE u \in User : TRUE, NoId, "aal1", t, 0, 0) EXCEPT !.state = "none"]]
  /\ req = [p \in Proc |-> Idle]
  /\ held = {}
  /\ clock = 0

MCInit == \/ mode = "alone" /\ Init
          \/ mode \in {"races", "bans", "late", "honest"} /\ Fresh

InBounds == /\ Cardinality({p \in Proc : req'[p].pc # "idle"}) <= Busy[mode]
            /\ clock' <= Horizon[mode]

MCNext ==
  /\ UNCHANGED mode
  /\ \/ /\ mode = "races"
        /\ Next
        /\ \A u \in User : users'[u].pw = users[u].pw /\ ~users'[u].banned
     \/ /\ mode = "bans"
        /\ Next
        /\ \A p \in Proc : req'[p].op \in {"none", "grant", "refresh", "mfa", "ban"}
     \/ mode = "alone" /\ Next /\ \A p \in Proc : req'[p].op # "mfa"
     \/ /\ mode = "late"
        /\ Next
        /\ \A p \in Proc : req'[p].op \in {"none", "grant", "refresh"}
     \/ /\ mode = "honest"
        /\ HonestNext
        /\ \A p \in Proc : req'[p].op # "mfa"
  /\ InBounds

MCSpec == MCInit /\ [][MCNext]_<<vars, mode>>

(* A sign-out that raced nothing removed all that it names; and nothing    *)
(* ever stays of a deleted user (see AuthSessions for each part).          *)
RevocationsAreComplete ==
  /\ DeletedUserHasNoTokens
  /\ mode = "alone" => /\ ReuseRevokesSession
                       /\ PasswordChangeSignsOut
                       /\ SignOutIsComplete

(* Clients that refresh on time, factors and administrators left out, keep *)
(* their session.                                                          *)
OnTimeKeepsSession == mode = "honest" => HonestClientKeepsSession
=============================================================================
