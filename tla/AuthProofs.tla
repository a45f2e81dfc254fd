----------------------------- MODULE AuthProofs -----------------------------
(***************************************************************************)
(* Proofs about Auth, for any accounts, secrets, clients, lifetime, clock  *)
(* resolution and any tokens of other programs, as long as none of them    *)
(* signs in the auth service's name with a secret of the services.         *)
(*                                                                         *)
(* Neither property is inductive as it stands: what a token says is fixed  *)
(* when it is issued and relied on when it is checked, so AuthInv says of  *)
(* every answered login how its token came about (LoginsGenuine) and of    *)
(* every login between its check and its answer what was checked           *)
(* (LoginsChecked).                                                        *)
(***************************************************************************)
EXTENDS Auth, TLAPS

\* The clock is a number and the services run with secrets.
StateOK ==
    /\ clock \in Nat
    /\ secret \in [Service -> Secret]
    /\ DOMAIN req = Client

\* A login for which Authenticate returned is one of an account, with its password.
LoginsChecked ==
    \A c \in Client : req[c].at = "issue" =>
        req[c].sub \in Account /\ req[c].pass = PasswordOf[req[c].sub]

\* What LoginAnswers gives to the account u at the time n, with the secret k.
Login(u, n, k) ==
    [tok |-> [claims |-> [sub |-> u, role |-> RoleOf[u], iss |-> Issuer,
                          exp |-> Unix(n + AccessTTL)],
              key |-> k, hmac |-> TRUE],
     sub |-> u, pass |-> PasswordOf[u], at |-> n, expires_at |-> Unix(n + AccessTTL)]

\* Every login on record is one that LoginAnswers gave in the past.
LoginsGenuine ==
    \A l \in issued : \E u \in Account, n \in Nat, k \in Secret :
        n <= clock /\ l = Login(u, n, k)

AuthInv ==
    /\ StateOK
    /\ LoginsChecked
    /\ LoginsGenuine
    /\ AcceptedFromLogin

-----------------------------------------------------------------------------
\* Whole seconds are at most a second behind the time they stand for.
LEMMA UnixRounds ==
    ASSUME NEW t \in Nat
    PROVE  /\ Unix(t) \in Nat
           /\ Unix(t) * Second <= t
           /\ t < Unix(t) * Second + Second
BY AuthAssumption DEF Unix

\* A token that Verify lets pass is one that a login was given in the lifetime before,
\* signed with the secret it was checked with.
LEMMA VerifiedFromLogin ==
    ASSUME AuthInv, NEW s \in Service, NEW t \in Tokens, Verify(s, t)
    PROVE  \E l \in issued :
              /\ t.claims = l.tok.claims /\ l.tok.key = secret[s]
              /\ t.claims.sub = l.sub /\ t.claims.role = RoleOf[l.sub]
              /\ l.pass = PasswordOf[l.sub]
              /\ l.at <= clock /\ clock < l.at + AccessTTL
<1>0. t.key = secret[s] /\ secret[s] \in Secret
  BY DEF Verify, AuthInv, StateOK
<1>1. t \notin Foreign
  BY <1>0, AuthAssumption DEF Verify
<1>2. PICK l \in issued : t = l.tok
  BY <1>1 DEF Tokens
<1>3. PICK u \in Account, n \in Nat, k \in Secret : n <= clock /\ l = Login(u, n, k)
  BY DEF AuthInv, LoginsGenuine
<1>4. /\ l.tok.claims.sub = u /\ l.tok.claims.role = RoleOf[u]
      /\ l.tok.claims.exp = Unix(n + AccessTTL)
      /\ l.sub = u /\ l.pass = PasswordOf[u] /\ l.at = n
  BY <1>3 DEF Login
<1>5. n + AccessTTL \in Nat
  BY AuthAssumption
<1>6. clock < n + AccessTTL
  <2>1. t.claims.exp \in Nat /\ t.claims.exp * Second <= n + AccessTTL
    BY <1>2, <1>4, <1>5, UnixRounds
  <2>2. clock < t.claims.exp * Second
    BY <2>1, AuthAssumption DEF Verify
  <2>3. t.claims.exp * Second \in Nat
    BY <2>1, AuthAssumption
  <2> QED
    BY <1>5, <2>1, <2>2, <2>3 DEF AuthInv, StateOK
<1> QED
  BY <1>0, <1>2, <1>3, <1>4, <1>6

LEMMA InitAuthInv == Init => AuthInv
BY DEF Init, AuthInv, StateOK, LoginsChecked, LoginsGenuine, AcceptedFromLogin, Idle

\* An accepted request puts the claims of its token and the time of the check on record.
LEMMA AcceptKeeps ==
    ASSUME AuthInv, NEW c \in Client, NEW t \in Tokens, NEW place \in {"me", "peer"},
           Verify(IF place = "me" THEN "auth" ELSE "signal", t),
           req' = [req EXCEPT ![c] = [at |-> place, claims |-> t.claims, checked |-> clock]],
           UNCHANGED <<clock, secret, issued, restarts>>
    PROVE  AuthInv'
<1>1. StateOK' /\ LoginsGenuine'
  BY DEF AuthInv, StateOK, LoginsGenuine
<1>2. LoginsChecked'
  BY DEF AuthInv, StateOK, LoginsChecked
<1>3. AcceptedFromLogin'
  <2> SUFFICES ASSUME NEW d \in Client, req'[d].at \in {"me", "peer"}
               PROVE  \E l \in issued :
                        /\ req'[d].claims = l.tok.claims /\ l.tok.key = secret[AcceptedBy(d)']
                        /\ req'[d].claims.sub = l.sub /\ req'[d].claims.role = RoleOf[l.sub]
                        /\ l.pass = PasswordOf[l.sub]
                        /\ l.at <= req'[d].checked /\ req'[d].checked < l.at + AccessTTL
    BY DEF AcceptedFromLogin
  <2>1. CASE d = c
    <3>1. req'[d].claims = t.claims /\ req'[d].checked = clock /\ req'[d].at = place
      BY <2>1 DEF AuthInv, StateOK
    <3>2. PICK s \in Service : s = (IF place = "me" THEN "auth" ELSE "signal")
      BY DEF Service
    <3>3. AcceptedBy(d)' = s
      BY <3>1, <3>2 DEF AcceptedBy
    <3> QED
      BY <3>1, <3>2, <3>3, VerifiedFromLogin
  <2>2. CASE d # c
    <3>1. req'[d] = req[d]
      BY <2>2 DEF AuthInv, StateOK
    <3> QED
      BY <3>1 DEF AuthInv, AcceptedFromLogin, AcceptedBy
  <2> QED
    BY <2>1, <2>2
<1> QED
  BY <1>1, <1>2, <1>3 DEF AuthInv

\* A login that was checked is answered, and goes on record.
LEMMA LoginAnswersKeeps ==
    ASSUME AuthInv, NEW c \in Client, LoginAnswers(c)
    PROVE  AuthInv'
<1> DEFINE new == Login(req[c].sub, clock, secret["auth"])
<1>1. /\ req[c].sub \in Account /\ req[c].pass = PasswordOf[req[c].sub]
      /\ clock \in Nat /\ secret["auth"] \in Secret
  BY DEF AuthInv, LoginsChecked, StateOK, LoginAnswers, Service
<1>2. issued' = issued \cup {new} /\ req' = [req EXCEPT ![c] = Idle] /\ UNCHANGED <<clock, secret>>
  BY <1>1 DEF LoginAnswers, Login, Issue
<1>3. StateOK'
  BY <1>2 DEF AuthInv, StateOK
<1>4. \A d \in Client : req'[d] = req[d] \/ req'[d].at = "idle"
  BY <1>2 DEF AuthInv, StateOK, Idle
<1>5. LoginsChecked' /\ AcceptedFromLogin'
  BY <1>2, <1>4 DEF AuthInv, LoginsChecked, AcceptedFromLogin, AcceptedBy
<1>6. LoginsGenuine'
  <2> SUFFICES ASSUME NEW l \in issued'
               PROVE  \E u \in Account, n \in Nat, k \in Secret : n <= clock' /\ l = Login(u, n, k)
    BY DEF LoginsGenuine
  <2>1. CASE l \in issued
    BY <1>2, <2>1 DEF AuthInv, LoginsGenuine
  <2>2. CASE l = new
    BY <1>1, <1>2, <2>2
  <2> QED
    BY <1>2, <2>1, <2>2
<1> QED
  BY <1>3, <1>5, <1>6 DEF AuthInv

\* Requests end and services restart: what is left of the requests was there before, and
\* what is accepted was by a service that did not restart.
LEMMA ForgetKeeps ==
    ASSUME AuthInv, secret' \in [Service -> Secret], DOMAIN req' = Client,
           \A c \in Client :
              \/ req'[c] = req[c] /\ (req[c].at \in {"me", "peer"} =>
                                        secret'[AcceptedBy(c)] = secret[AcceptedBy(c)])
              \/ req'[c].at = "idle",
           UNCHANGED <<clock, issued>>
    PROVE  AuthInv'
<1>1. StateOK' /\ LoginsChecked' /\ LoginsGenuine'
  BY DEF AuthInv, StateOK, LoginsChecked, LoginsGenuine
<1>2. AcceptedFromLogin'
  BY DEF AuthInv, AcceptedFromLogin, AcceptedBy
<1> QED
  BY <1>1, <1>2 DEF AuthInv

LEMMA StepAuthInv == AuthInv /\ [Next]_vars => AuthInv'
<1> SUFFICES ASSUME AuthInv, [Next]_vars PROVE AuthInv'
  OBVIOUS
<1>1. ASSUME NEW c \in Client, NEW u \in Username, NEW p \in Password, Authenticate(c, u, p)
      PROVE  AuthInv'
  BY <1>1 DEF Authenticate, AuthInv, StateOK, LoginsChecked, LoginsGenuine, AcceptedFromLogin,
              AcceptedBy
<1>2. ASSUME NEW c \in Client, NEW t \in Tokens, RequireToken(c, t) PROVE AuthInv'
  BY <1>2, AcceptKeeps DEF RequireToken, Service
<1>3. ASSUME NEW c \in Client, NEW t \in Tokens, AcceptHello(c, t) PROVE AuthInv'
  BY <1>3, AcceptKeeps DEF AcceptHello, Service
<1>4. ASSUME NEW c \in Client, Me(c) \/ Disconnect(c) PROVE AuthInv'
  BY <1>4, ForgetKeeps DEF Me, Disconnect, Idle, AuthInv, StateOK
<1>5. CASE Tick
  <2>1. clock' \in Nat /\ \A n \in Nat : n <= clock => n <= clock'
    BY <1>5 DEF Tick, AuthInv, StateOK
  <2> QED
    BY <1>5, <2>1 DEF Tick, AuthInv, StateOK, LoginsChecked, LoginsGenuine, AcceptedFromLogin,
                 AcceptedBy
<1>6. ASSUME NEW s \in Service, NEW k \in Secret, Restart(s, k) PROVE AuthInv'
  BY <1>6, ForgetKeeps DEF Restart, Idle, AuthInv, StateOK, AcceptedBy
<1>7. CASE UNCHANGED vars
  BY <1>7, ForgetKeeps DEF vars, AuthInv, StateOK
<1> QED
  BY <1>1, <1>2, <1>3, <1>4, <1>5, <1>6, <1>7, LoginAnswersKeeps DEF Next, Quiet

-----------------------------------------------------------------------------
\* auth, token and signal together: the inductive invariant holds of every behaviour.
THEOREM AuthInvariance == Spec => []AuthInv
BY InitAuthInv, StepAuthInv, PTL DEF Spec

\* token.go Verify, middleware.go and ws.go acceptHello: whoever is let in, whatever tokens
\* are presented, carries the claims of a login of that account, made with its password,
\* less than the lifetime before the check, at an auth service with the same secret.
THEOREM OnlyLoginsAccepted == Spec => []AcceptedFromLogin
<1>1. AuthInv => AcceptedFromLogin
  BY DEF AuthInv
<1> QED
  BY <1>1, AuthInvariance, PTL

\* http.go Login and token.go: the expires_at of a login is the moment its token stops
\* being accepted, and less than a second short of the lifetime.
THEOREM ExpiryIsReported == Spec => []ExpiresWhenReported
<1>1. AuthInv => ExpiresWhenReported
  <2> SUFFICES ASSUME AuthInv, NEW l \in issued
               PROVE  /\ l.expires_at * Second > l.at + AccessTTL - Second
                      /\ \A s \in Service : Verify(s, l.tok)
                            <=> clock < l.expires_at * Second /\ secret[s] = l.tok.key
    BY DEF ExpiresWhenReported
  <2>1. PICK u \in Account, n \in Nat, k \in Secret : n <= clock /\ l = Login(u, n, k)
    BY DEF AuthInv, LoginsGenuine
  <2>2. /\ l.tok.claims.iss = Issuer /\ l.tok.claims.exp = l.expires_at
        /\ l.tok.hmac /\ l.at = n /\ l.expires_at = Unix(n + AccessTTL)
    BY <2>1 DEF Login
  <2>3. n + AccessTTL \in Nat
    BY AuthAssumption
  <2>4. /\ l.expires_at \in Nat /\ l.expires_at * Second \in Nat
        /\ n + AccessTTL < l.expires_at * Second + Second
    BY <2>2, <2>3, UnixRounds, AuthAssumption
  <2>5. l.expires_at * Second > l.at + AccessTTL - Second
    BY <2>2, <2>3, <2>4, AuthAssumption
  <2>6. l.tok.claims.exp # NoExp
    BY <2>2, <2>4, AuthAssumption
  <2> QED
    BY <2>2, <2>5, <2>6 DEF Verify
<1> QED
  BY <1>1, AuthInvariance, PTL
=============================================================================
