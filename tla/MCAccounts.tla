----------------------------- MODULE MCAccounts -----------------------------
(* Two requests over six databases a deployment can be found in; or, with    *)
(* the account operations out of use, two requests for the factors of one    *)
(* user from the first enrolment on.                                         *)
EXTENDS Accounts, Factors
CONSTANTS u1, u2, mail1, mail2, s1, s2

NoUsers == [u \in User |-> None]
NoIdent == [s \in Subject |-> None]
Row(f) == f @@ NewAccount(mail1)
Mailed(i, u, p, code, n, g) ==
  [id |-> i, user |-> u, purpose |-> p, code |-> code, email |-> IF code THEN mail1 ELSE None,
   mailed |-> mail1, attempts |-> n, age |-> g]
State(i, k, u, l, p, t) ==
  [id |-> i, kind |-> k, user |-> u, link |-> l, pkce |-> p, to |-> t, fresh |-> TRUE]
World(us, is, ts, fs) == [users |-> us @@ NoUsers, ident |-> is @@ NoIdent, tokens |-> ts, flows |-> fs]

MCWorlds == {
  World(<<>>, <<>>, {}, {}),
  (* signed up, not yet confirmed *)
  World(u1 :> Row([password |-> TRUE, session |-> TRUE]), <<>>, {Mailed(1, u1, "signup", FALSE, 0, 1)}, {}),
  (* a magic-link code with one attempt left and a recovery link *)
  World(u1 :> Row([verified |-> TRUE]), <<>>,
        {Mailed(1, u1, "magiclink", TRUE, MaxAttempts - 1, 1), Mailed(2, u1, "recovery", FALSE, 0, 1)}, {}),
  (* an account with two identities only, a PKCE code, a state from a wider allowlist *)
  World(u1 :> Row([verified |-> TRUE]), s1 :> u1 @@ s2 :> u1, {},
        {State(1, "pkce", u1, None, TRUE, "own"), State(2, "oauth", None, None, FALSE, "foreign")}),
  (* invited, nobody can sign in yet *)
  World(u1 :> Row(<<>>), <<>>, {Mailed(1, u1, "signup", FALSE, 0, 1)}, {State(2, "oauth", None, None, TRUE, "foreign")}),
  (* banned, with a link in progress *)
  World(u1 :> Row([verified |-> TRUE, password |-> TRUE, banned |-> TRUE]), s1 :> u1, {},
        {State(1, "oauth", None, u1, FALSE, "own")}) }

Setup(ops, signup, verify, urls) ==
  [ops |-> ops, allowSignup |-> signup, allowAnonymous |-> signup, verifyEmail |-> verify, urls |-> urls]
MailOps == {"signup", "anonymous", "password", "otp", "recover", "resend", "reauth", "verifyCode", "verifyToken", "verifyGET"}
AdminOps == {"updateUser", "generateLink", "adminCreate", "adminUpdate", "adminDelete", "invite", "verifyToken", "verifyGET"}
OAuthOps == {"authorize", "callback", "idtoken", "linkStart", "unlink", "pkce", "signup", "updateUser", "adminDelete"}
MCSetups == { Setup(MailOps, TRUE, TRUE, TRUE), Setup(MailOps, FALSE, FALSE, TRUE),
              Setup(AdminOps, FALSE, TRUE, FALSE),
              Setup(OAuthOps, TRUE, FALSE, TRUE), Setup(OAuthOps, FALSE, FALSE, FALSE),
              Setup({}, TRUE, FALSE, TRUE) }

MCInit == Init /\ FInit /\ (conf.ops = {} => users = NoUsers)
MCNext == \/ Next /\ UNCHANGED fvars
          \/ conf.ops = {} /\ FNext /\ UNCHANGED vars
MCSpec == MCInit /\ [][MCNext]_<<vars, fvars>>
Symmetry == Permutations(Factor) \cup Permutations(Challenge) \cup Permutations(Call)

(* Mailed codes open one session and TOTP codes elevate one (OneTimeTokens   *)
(* and CodesAreSpent), with the caps on guesses and challenges.              *)
CodesOpenOnce == OneTimeTokens /\ CodesAreSpent

(* The last way to sign in, the first factor and a verified factor change  *)
(* hands only under their guards (UnlinkKeepsMethod of Accounts,           *)
(* FirstFactorOnly and UnenrollNeedsAAL2 of Factors).                      *)
MethodsAreGuarded == UnlinkKeepsMethod /\ FirstFactorOnly /\ UnenrollNeedsAAL2
=============================================================================
