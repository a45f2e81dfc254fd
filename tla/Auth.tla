-------------------------------- MODULE Auth --------------------------------
(***************************************************************************)
(* Accounts, login, tokens and their verification: internal/auth,          *)
(* internal/token, cmd/auth, and the hello of the signaling service, the   *)
(* other holder of a Verifier.  A handler is one step up to its check and  *)
(* one step after it; the clock and restarts come in between.              *)
(*                                                                         *)
(* Time is counted in ticks, Second of them to a second, because Issue     *)
(* computes with times and a token carries whole seconds.  A token is what *)
(* it claims and the key it was signed with.                               *)
(*                                                                         *)
(* Definitions named Bug_* are seeded bugs, see Hub.                       *)
(***************************************************************************)
EXTENDS Naturals, FiniteSets

CONSTANTS
    Client,     \* those who send requests
    Username,   \* the names requests may carry
    Password,   \* the passwords they may carry
    Account,    \* the names SeedDev adds
    PasswordOf, \* Account -> its password
    Role,       \* token.Role
    RoleOf,     \* Account -> its role
    Secret,     \* HMAC secrets a service may be started with
    Key,        \* those, and the keys other programs sign with
    Foreign,    \* tokens that other programs signed
    NoExp,      \* the exp of a token that has none
    Second,     \* ticks in a second
    AccessTTL,  \* -access-ttl, in ticks
    MaxTime,    \* bound: the clock
    MaxLogins,  \* bound: logins
    MaxRestarts \* bound: restarts of either service

Issuer  == "pocketpilot-auth"
Claims  == [sub : Username, role : Role, exp : Nat \cup {NoExp}, iss : {Issuer, "other"}]
Token   == [claims : Claims, key : Key, hmac : BOOLEAN]
Service == {"auth", "signal"}

\* Other programs sign whatever they like, with whatever keys; only cmd/auth, "Only
\* cmd/auth uses this" (token.go:26), signs a token in its own name with a secret of the
\* services.
ASSUME AuthAssumption ==
    /\ Account \subseteq Username
    /\ PasswordOf \in [Account -> Password] /\ RoleOf \in [Account -> Role]
    /\ Secret \subseteq Key /\ Foreign \subseteq Token
    /\ NoExp \notin Nat
    /\ Second \in Nat \ {0} /\ AccessTTL \in Nat /\ AccessTTL >= Second
    /\ MaxTime \in Nat /\ MaxLogins \in Nat /\ MaxRestarts \in Nat
    /\ \A t \in Foreign : t.hmac /\ t.claims.iss = Issuer => t.key \notin Secret

VARIABLES
    clock,      \* the time
    secret,     \* Service -> the secret it runs with
    req,        \* Client -> the request a service is handling for it
    issued,     \* the answered logins: token and expires_at, and who asked and when (history)
    restarts    \* restarts so far, for the bound

vars == <<clock, secret, req, issued, restarts>>

\* The tokens clients may present.
Tokens == Foreign \cup {l.tok : l \in issued}

Idle == [at |-> "idle"]

Init ==
    /\ clock    = 0
    /\ secret   \in [Service -> Secret]
    /\ req      = [c \in Client |-> Idle]
    /\ issued   = {}
    /\ restarts = 0

-----------------------------------------------------------------------------
(***************************************************************************)
(* token.go.                                                               *)
(***************************************************************************)
\* jwt.NewNumericDate and time.Unix: a time in whole seconds, rounded down.
Unix(t) == t \div Second

\* Mint.Issue at the time "now".
Bug_IssueRoundsLifetime(sub, now) ==
    [claims |-> [sub |-> sub, role |-> RoleOf[sub], iss |-> Issuer,
                 exp |-> Unix(now) + Unix(AccessTTL) - 1],
     key |-> secret["auth"], hmac |-> TRUE]
Issue(sub, now) ==
    [claims |-> [sub |-> sub, role |-> RoleOf[sub], iss |-> Issuer,
                 exp |-> Unix(now + AccessTTL)],
     key |-> secret["auth"], hmac |-> TRUE]

\* Verifier.Verify of the service s: signing method and key, issuer, and the expiry
\* when there is one.
Bug_VerifyAnyKey(s, t) ==
    /\ t.hmac
    /\ t.claims.iss = Issuer
    /\ t.claims.exp = NoExp \/ clock < t.claims.exp * Second
Verify(s, t) ==
    /\ t.hmac /\ t.key = secret[s]
    /\ t.claims.iss = Issuer
    /\ t.claims.exp = NoExp \/ clock < t.claims.exp * Second

-----------------------------------------------------------------------------
(***************************************************************************)
(* cmd/auth: POST /v1/auth/login and GET /v1/me.                           *)
(***************************************************************************)
\* Login: Authenticate knows the name and the password is its own.  Other requests, and
\* those that do not decode, are answered at once and change nothing.
Bug_AuthenticateKnown(c, u, p) ==
    /\ req[c] = Idle /\ Cardinality(issued) < MaxLogins
    /\ u \in Account
    /\ req' = [req EXCEPT ![c] = [at |-> "issue", sub |-> u, pass |-> p]]
    /\ UNCHANGED <<clock, secret, issued, restarts>>
Authenticate(c, u, p) ==
    /\ req[c] = Idle /\ Cardinality(issued) < MaxLogins
    /\ u \in Account /\ p = PasswordOf[u]
    /\ req' = [req EXCEPT ![c] = [at |-> "issue", sub |-> u, pass |-> p]]
    /\ UNCHANGED <<clock, secret, issued, restarts>>

\* ... and the token is issued, with the time it is issued at.
LoginAnswers(c) ==
    /\ req[c].at = "issue"
    /\ issued' = issued \cup {[tok |-> Issue(req[c].sub, clock), sub |-> req[c].sub, pass |-> req[c].pass,
                               at |-> clock, expires_at |-> Unix(clock + AccessTTL)]}
    /\ req' = [req EXCEPT ![c] = Idle]
    /\ UNCHANGED <<clock, secret, restarts>>

\* RequireToken lets the request through with the token's claims.  A request without
\* a bearer token, or with one that Verify refuses, is answered at once.
RequireToken(c, t) ==
    /\ req[c] = Idle /\ Verify("auth", t)
    /\ req' = [req EXCEPT ![c] = [at |-> "me", claims |-> t.claims, checked |-> clock]]
    /\ UNCHANGED <<clock, secret, issued, restarts>>

\* Me answers with the claims of the request's context.
Me(c) ==
    /\ req[c].at = "me"
    /\ req' = [req EXCEPT ![c] = Idle]
    /\ UNCHANGED <<clock, secret, issued, restarts>>

(***************************************************************************)
(* cmd/signal: the token is verified at the hello, and never again.        *)
(***************************************************************************)
AcceptHello(c, t) ==
    /\ req[c] = Idle /\ Verify("signal", t)
    /\ req' = [req EXCEPT ![c] = [at |-> "peer", claims |-> t.claims, checked |-> clock]]
    /\ UNCHANGED <<clock, secret, issued, restarts>>

Disconnect(c) ==
    /\ req[c].at = "peer"
    /\ req' = [req EXCEPT ![c] = Idle]
    /\ UNCHANGED <<clock, secret, issued, restarts>>

-----------------------------------------------------------------------------
Tick ==
    /\ clock < MaxTime
    /\ clock' = clock + 1
    /\ UNCHANGED <<secret, req, issued, restarts>>

\* main of either service, started again: the store is seeded again with the same
\* accounts, requests and connections are lost, and the secret may be another.
Restart(s, k) ==
    /\ restarts < MaxRestarts
    /\ restarts' = restarts + 1
    /\ secret' = [secret EXCEPT ![s] = k]
    /\ req' = [c \in Client |->
                 IF req[c].at \in (IF s = "auth" THEN {"issue", "me"} ELSE {"peer"})
                 THEN Idle ELSE req[c]]
    /\ UNCHANGED <<clock, issued>>

\* No request comes any more.
Quiet == (\A c \in Client : req[c] = Idle) /\ UNCHANGED vars

Next ==
    \/ \E c \in Client : \/ \E u \in Username, p \in Password : Authenticate(c, u, p)
                         \/ \E t \in Tokens : RequireToken(c, t) \/ AcceptHello(c, t)
                         \/ LoginAnswers(c) \/ Me(c) \/ Disconnect(c)
    \/ Tick
    \/ \E s \in Service, k \in Secret : Restart(s, k)
    \/ Quiet

Spec == Init /\ [][Next]_vars

-----------------------------------------------------------------------------
\* The service that handles an accepted request.
AcceptedBy(c) == IF req[c].at = "me" THEN "auth" ELSE "signal"

\* token.go Verify, middleware.go, ws.go acceptHello: a request that either service lets
\* in, and a connection for as long as it lasts, carries the claims that a login with
\* that very account's password was given, less than the lifetime before the check and
\* by an auth service with the secret the checking service runs with; so neither a
\* token in the service's name signed with another key, nor one of another program that
\* shares the secret, nor one from before a change of the secret gets in.
AcceptedFromLogin ==
    \A c \in Client : req[c].at \in {"me", "peer"} => \E l \in issued :
        /\ req[c].claims = l.tok.claims /\ l.tok.key = secret[AcceptedBy(c)]
        /\ req[c].claims.sub = l.sub /\ req[c].claims.role = RoleOf[l.sub]
        /\ l.pass = PasswordOf[l.sub]
        /\ l.at <= req[c].checked /\ req[c].checked < l.at + AccessTTL

\* http.go Login against token.go: the expires_at of a login, in whole seconds, is the
\* very moment its token stops being accepted by a service with the secret it was
\* signed with; the rounding costs less than a second, so no token is born expired.
ExpiresWhenReported ==
    \A l \in issued :
        /\ l.expires_at * Second > l.at + AccessTTL - Second
        /\ \A s \in Service :
              Verify(s, l.tok) <=> clock < l.expires_at * Second /\ secret[s] = l.tok.key
=============================================================================
