------------------------------- MODULE Factors -------------------------------
(* TOTP factors and challenges of one user: mfa_handler.go over the MFA      *)
(* statements of auth/service.go.  A request runs one statement per step;    *)
(* its AAL is the one its access token carries, however old the token is.    *)
EXTENDS Naturals, FiniteSets, TLC

CONSTANTS Factor, Challenge, Session, Call,
          MaxMFAAttempts,     \* maxMFAAttempts
          MaxChallenges,      \* maxChallengesPerFactor
          MaxStep,            \* the last 30-second step of the model
          NoRow, Gone         \* an id not used yet, the id of a deleted row (UUIDs do not come back)

VARIABLES
  factor,      \* auth.mfa_factors
  challenge,   \* auth.mfa_challenges
  elevated,    \* the sessions that hold an access token with aal2
  call,        \* the requests in progress
  step,        \* the current TOTP step
  spent        \* ghost: the sessions each code of each factor elevated
fvars == <<factor, challenge, elevated, call, step, spent>>

FactorRow == [verified : BOOLEAN, last : 0..MaxStep + 1]
ChallengeRow == [factor : Factor, attempts : 0..MaxMFAAttempts, used : BOOLEAN, fresh : BOOLEAN]

ASSUME FactorsAssumption ==
  /\ MaxMFAAttempts \in Nat \ {0} /\ MaxChallenges \in Nat \ {0} /\ MaxStep \in Nat
  /\ NoRow # Gone /\ {NoRow, Gone} \cap (FactorRow \cup ChallengeRow) = {}

NoCall == [op |-> "none", pc |-> "idle", sid |-> NoRow, aal |-> 1, f |-> NoRow, c |-> NoRow,
           code |-> 0, first |-> FALSE]

Live(f) == factor[f] \notin {NoRow, Gone}
Open(c) == challenge[c] \notin {NoRow, Gone}
hasVerified == \E f \in Factor : Live(f) /\ factor[f].verified
Is(p, op, pc) == call[p].op = op /\ call[p].pc = pc
Move(p, pc) == call' = [call EXCEPT ![p].pc = pc]
Answer(p) == call' = [call EXCEPT ![p] = NoCall]
(* A deleted factor takes its challenges with it. *)
DropFactorsOnly(F) ==
  factor' = [f \in Factor |-> IF f \in F THEN Gone ELSE factor[f]] /\ UNCHANGED challenge
DropFactors(F) ==
  /\ factor' = [f \in Factor |-> IF f \in F THEN Gone ELSE factor[f]]
  /\ challenge' = [c \in Challenge |-> IF Open(c) /\ challenge[c].factor \in F THEN Gone ELSE challenge[c]]

(* handleEnrollFactor: the statuses are read first, the row inserted later.  *)
Enroll(p) ==
  /\ Is(p, "enroll", "start")
  /\ IF call[p].aal # 2 /\ hasVerified THEN Answer(p) ELSE Move(p, "insert")
  /\ UNCHANGED <<factor, challenge, elevated, step, spent>>
EnrollFactor(p) ==
  /\ Is(p, "enroll", "insert")
  /\ \E f \in Factor : factor[f] = NoRow /\ factor' = [factor EXCEPT ![f] = [verified |-> FALSE, last |-> 0]]
  /\ Answer(p)
  /\ UNCHANGED <<challenge, elevated, step, spent>>

(* CreateChallenge locks the factor, counts its recent challenges, inserts   *)
(* and prunes those outside the window, in one transaction.                  *)
Of(f) == {c \in Challenge : Open(c) /\ challenge[c].factor = f}
Room(f) == Cardinality({c \in Of(f) : challenge[c].fresh}) < MaxChallenges
CreateChallenge(p) ==
  /\ Is(p, "challenge", "start")
  /\ LET f == call[p].f IN
       IF ~Live(f) \/ ~Room(f) THEN UNCHANGED challenge
       ELSE \E c \in Challenge :
              /\ challenge[c] = NoRow
              /\ challenge' = [d \in Challenge |->
                   IF d = c THEN [factor |-> f, attempts |-> 0, used |-> FALSE, fresh |-> TRUE]
                   ELSE IF d \in Of(f) /\ ~challenge[d].fresh THEN Gone ELSE challenge[d]]
  /\ Answer(p)
  /\ UNCHANGED <<factor, elevated, step, spent>>

(* handleVerifyFactor.  An unverified factor must not lift a session past a  *)
(* verified one.                                                             *)
GetFactorForVerify(p) ==
  /\ Is(p, "verify", "start")
  /\ LET f == call[p].f IN
       IF ~Live(f) THEN Answer(p)
       ELSE call' = [call EXCEPT ![p].first = ~factor[f].verified,
                                 ![p].pc = IF ~factor[f].verified /\ call[p].aal # 2 THEN "statuses" ELSE "validate"]
  /\ UNCHANGED <<factor, challenge, elevated, step, spent>>
FactorStatuses(p) ==
  /\ Is(p, "verify", "statuses")
  /\ IF hasVerified THEN Answer(p) ELSE Move(p, "validate")
  /\ UNCHANGED <<factor, challenge, elevated, step, spent>>

(* One UPDATE spends an attempt of a fresh challenge not used yet.           *)
Reservable(ch) == ~ch.used /\ ch.fresh /\ ch.attempts < MaxMFAAttempts
Matches(p) == call[p].code # 0      \* matchTOTPStep: 0 stands for a wrong code
ValidateChallenge(p) ==
  /\ Is(p, "verify", "validate")
  /\ LET c == call[p].c IN
       IF Open(c) /\ challenge[c].factor = call[p].f /\ Reservable(challenge[c])
         THEN /\ challenge' = [challenge EXCEPT ![c].attempts = @ + 1]
              /\ IF Matches(p) THEN Move(p, "consume") ELSE Answer(p)
         ELSE Answer(p) /\ UNCHANGED challenge
  /\ UNCHANGED <<factor, elevated, step, spent>>
FreshStepAgain(row, s) == row.last <= s
FreshStep(row, s) == row.last < s
ConsumeTOTPStep(p) ==
  /\ Is(p, "verify", "consume")
  /\ LET f == call[p].f  s == call[p].code IN
       IF Live(f) /\ FreshStep(factor[f], s)
         THEN /\ factor' = [factor EXCEPT ![f].last = s]
              /\ Move(p, "mark")
         ELSE Answer(p) /\ UNCHANGED factor
  /\ UNCHANGED <<challenge, elevated, step, spent>>
MarkChallengeVerified(p) ==
  /\ Is(p, "verify", "mark")
  /\ LET c == call[p].c IN
       IF Open(c) /\ ~challenge[c].used
         THEN /\ challenge' = [challenge EXCEPT ![c].used = TRUE]
              /\ Move(p, IF call[p].first THEN "promote" ELSE "issue")
         ELSE Answer(p) /\ UNCHANGED challenge
  /\ UNCHANGED <<factor, elevated, step, spent>>

\* Mutant: the other factors stay.
PromotedAlone(f) == {}
(* The first verification deletes the user's other unverified factors in the *)
(* same statement; a factor deleted meanwhile matches no row.                *)
Promoted(f) == {g \in Factor \ {f} : Live(g) /\ ~factor[g].verified}
PromoteFactorToVerified(p) ==
  /\ Is(p, "verify", "promote")
  /\ LET f == call[p].f  gone == Promoted(f) IN
       IF ~Live(f) THEN UNCHANGED <<factor, challenge>>
       ELSE /\ factor' = [g \in Factor |-> IF g = f THEN [factor[f] EXCEPT !.verified = TRUE]
                                          ELSE IF g \in gone THEN Gone ELSE factor[g]]
            /\ challenge' = [c \in Challenge |->
                 IF Open(c) /\ challenge[c].factor \in gone THEN Gone ELSE challenge[c]]
  /\ Move(p, "issue")
  /\ UNCHANGED <<elevated, step, spent>>

(* issueSession at aal2 for the same session id. *)
IssueAAL2(p) ==
  /\ Is(p, "verify", "issue")
  /\ elevated' = elevated \cup {call[p].sid}
  /\ spent' = [spent EXCEPT ![call[p].f][call[p].code] = @ + 1]
  /\ Answer(p)
  /\ UNCHANGED <<factor, challenge, step>>

(* handleUnenrollFactor reads the statuses, then deletes: the DELETE itself  *)
(* spares a verified factor from a session below aal2.                       *)
Unenroll(p) ==
  /\ Is(p, "unenroll", "start")
  /\ LET f == call[p].f IN
       IF Live(f) /\ factor[f].verified /\ call[p].aal # 2 THEN Answer(p) ELSE Move(p, "delete")
  /\ UNCHANGED <<factor, challenge, elevated, step, spent>>
Deletable(f, allowVerified) == Live(f) /\ (~factor[f].verified \/ allowVerified)
DeleteFactorForUser(p) ==
  /\ Is(p, "unenroll", "delete") \/ Is(p, "adminDelete", "start")
  /\ LET f == call[p].f IN
       IF Deletable(f, call[p].aal = 2 \/ call[p].op = "adminDelete")
         THEN DropFactors({f}) ELSE UNCHANGED <<factor, challenge>>
  /\ Answer(p)
  /\ UNCHANGED <<elevated, step, spent>>

(* A request arrives; a code is right for one of the three accepted steps.   *)
Codes == {0} \cup {s \in 1..MaxStep + 1 : s + 1 >= step /\ s <= step + 1}
Arrive(p) ==
  /\ call[p] = NoCall
  /\ \E op \in {"enroll", "challenge", "verify", "unenroll", "adminDelete"}, sid \in Session, aal \in {1, 2} :
       /\ aal = 2 => sid \in elevated
       /\ \E f \in IF op = "enroll" THEN {NoRow} ELSE {g \in Factor : Live(g)},
             c \in IF op = "verify" THEN {d \in Challenge : Open(d)} ELSE {NoRow},
             code \in IF op = "verify" THEN Codes ELSE {0} :
            call' = [call EXCEPT ![p] = [NoCall EXCEPT !.op = op, !.pc = "start", !.sid = sid, !.aal = aal,
                                                       !.f = f, !.c = c, !.code = code]]
  /\ UNCHANGED <<factor, challenge, elevated, step, spent>>

(* Time: the next step, and a challenge that leaves its five minutes.        *)
NextStep == step < MaxStep /\ step' = step + 1 /\ UNCHANGED <<factor, challenge, elevated, call, spent>>
ExpireChallenge == \E c \in Challenge :
  /\ Open(c) /\ challenge[c].fresh
  /\ challenge' = [challenge EXCEPT ![c].fresh = FALSE]
  /\ UNCHANGED <<factor, elevated, call, step, spent>>

FInit ==
  /\ factor = [f \in Factor |-> NoRow] /\ challenge = [c \in Challenge |-> NoRow]
  /\ elevated = {} /\ call = [p \in Call |-> NoCall] /\ step = 1
  /\ spent = [f \in Factor |-> [s \in 1..MaxStep + 1 |-> 0]]
FHandle(p) ==
  \/ Arrive(p) \/ Enroll(p) \/ EnrollFactor(p) \/ CreateChallenge(p)
  \/ GetFactorForVerify(p) \/ FactorStatuses(p) \/ ValidateChallenge(p) \/ ConsumeTOTPStep(p)
  \/ MarkChallengeVerified(p) \/ PromoteFactorToVerified(p) \/ IssueAAL2(p)
  \/ Unenroll(p) \/ DeleteFactorForUser(p)
FNext == (\E p \in Call : FHandle(p)) \/ NextStep \/ ExpireChallenge
FSpec == FInit /\ [][FNext]_fvars

----------------------------------------------------------------------------
(* Types; a challenge belongs to a factor that exists. *)
FactorsTypeOK ==
  /\ \A f \in Factor : Live(f) => factor[f] \in FactorRow
  /\ \A c \in Challenge : Open(c) => challenge[c] \in ChallengeRow /\ Live(challenge[c].factor)
  /\ elevated \subseteq Session

(* A TOTP code elevates one session at most while its factor row lives, in   *)
(* whatever order two verifications with it run, and a factor never has more *)
(* fresh challenges than the cap, so guesses per window stay bounded.        *)
CodesAreSpent ==
  /\ \A f \in Factor, s \in 1..MaxStep + 1 : spent[f][s] <= 1
  /\ \A f \in Factor : Cardinality({c \in Of(f) : challenge[c].fresh}) <= MaxChallenges

(* A request below aal2 turns a factor into a verified one only when it is    *)
(* the user's first, also when two such verifications run at once.           *)
FirstFactorOnly ==
  [][\A p \in Call, f \in Factor :
       (Is(p, "verify", "promote") /\ call'[p].pc = "issue" /\ call[p].aal = 1
          /\ call[p].f = f /\ Live(f) /\ ~factor[f].verified)
       => \A g \in Factor \ {f} : factor'[g] \in {NoRow, Gone}]_fvars

(* A verified factor leaves only by an aal2 request or an administrator,     *)
(* also when it is verified between the check and the DELETE of another.     *)
UnenrollNeedsAAL2 ==
  [][\A f \in Factor : Live(f) /\ factor[f].verified /\ factor'[f] = Gone =>
       \E p \in Call : call[p].f = f /\ call'[p] = NoCall
                       /\ (call[p].op = "adminDelete" \/ (call[p].op = "unenroll" /\ call[p].aal = 2))]_fvars
=============================================================================
