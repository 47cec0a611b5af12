--------------------------- MODULE DashboardLogin ---------------------------
(* The dashboard's sessions: login with its rate limit, logout, refresh and health
   (dashboard/routes.rs), the middleware that admits a request, and the sweeper
   (dashboard/mod.rs).  All attempts come from one address. *)
EXTENDS Naturals, FiniteSets

CONSTANTS
  Browsers,       \* requests that can be under way at a time
  Tokens,         \* tokens that can be issued
  MaxAttempts,    \* login_max_attempts
  TokenTtl        \* token_ttl_secs, as a countdown

VARIABLES
  login,          \* the login requests under way: "idle" or "checked"
  failures,       \* the address's entry in rate_limits: the counter
  window,         \* ... and the age of its window: 0 young, 1 over, 2 due for the sweeper,
                  \* or NoEntry
  token,          \* the life left of each token in the table; 0 expired, or Absent
  admitted,       \* observation: tokens the middleware let through
  attempts        \* bound: login attempts that may still come

loginVars == <<login, failures, window, token, admitted, attempts>>

ASSUME LoginAssumption ==
  IsFiniteSet(Browsers) /\ MaxAttempts \in Nat \ {0} /\ TokenTtl \in Nat \ {0}

Absent == TokenTtl + 1
NoEntry == 3

LoginInit ==
  /\ login = [b \in Browsers |-> "idle"]
  /\ failures = 0 /\ window = NoEntry
  /\ token = [t \in Tokens |-> Absent]
  /\ admitted = {}

CheckRate_Loose(b) ==
  /\ login[b] = "idle"
  /\ attempts > 0 /\ attempts' = attempts - 1
  /\ failures' = IF window \in {1, 2} THEN 0 ELSE failures
  /\ window' = 0
  /\ login' = [login EXCEPT ![b] = IF failures' > MaxAttempts THEN "idle" ELSE "checked"]
  /\ UNCHANGED <<token, admitted>>

(* login, first lock: a window that is over starts again; too many failures end the
   request. *)
CheckRate(b) ==
  /\ login[b] = "idle"
  /\ attempts > 0 /\ attempts' = attempts - 1
  /\ failures' = IF window \in {1, 2} THEN 0 ELSE failures
  /\ window' = 0
  /\ login' = [login EXCEPT ![b] = IF failures' >= MaxAttempts THEN "idle" ELSE "checked"]
  /\ UNCHANGED <<token, admitted>>

(* Second lock: wrong credentials are counted, in whatever window there is by now. *)
LoginFails(b) ==
  /\ login[b] = "checked"
  /\ login' = [login EXCEPT ![b] = "idle"]
  /\ failures' = failures + 1
  /\ window' = IF window = NoEntry THEN 0 ELSE window
  /\ UNCHANGED <<token, admitted, attempts>>

LoginSucceeds(b, t) ==
  /\ login[b] = "checked"
  /\ token[t] = Absent /\ t \notin admitted
  /\ login' = [login EXCEPT ![b] = "idle"]
  /\ token' = [token EXCEPT ![t] = TokenTtl]
  /\ UNCHANGED <<failures, window, admitted, attempts>>

Logout(t) ==
  /\ token[t] # Absent
  /\ token' = [token EXCEPT ![t] = Absent]
  /\ UNCHANGED <<login, failures, window, admitted, attempts>>

(* refresh_token: one lock; an expired token is removed and refused. *)
Refresh(t, new) ==
  /\ token[t] # Absent /\ token[new] = Absent /\ new \notin admitted
  /\ token' = IF token[t] = 0 THEN [token EXCEPT ![t] = Absent]
              ELSE [token EXCEPT ![t] = Absent, ![new] = TokenTtl]
  /\ UNCHANGED <<login, failures, window, admitted, attempts>>

(* auth_middleware *)
Admit(t) ==
  /\ token[t] \notin {0, Absent}
  /\ admitted' = admitted \cup {t}
  /\ UNCHANGED <<login, failures, window, token, attempts>>

(* The sweeper drops expired tokens and windows of more than five minutes. *)
Sweep ==
  /\ token' = [t \in Tokens |-> IF token[t] = 0 THEN Absent ELSE token[t]]
  /\ IF window = 2 THEN failures' = 0 /\ window' = NoEntry ELSE UNCHANGED <<failures, window>>
  /\ UNCHANGED <<login, admitted, attempts>>

TimeoutsRun ==
  /\ window' = IF window \in {0, 1} THEN window + 1 ELSE window
  /\ token' = [t \in Tokens |-> IF token[t] \in {0, Absent} THEN token[t] ELSE token[t] - 1]
  /\ UNCHANGED <<login, failures, admitted, attempts>>

LoginRestart ==
  /\ login' = [b \in Browsers |-> "idle"]
  /\ failures' = 0 /\ window' = NoEntry
  /\ token' = [t \in Tokens |-> Absent]
  /\ UNCHANGED <<admitted, attempts>>

LoginNext ==
  \/ \E b \in Browsers : CheckRate(b) \/ LoginFails(b) \/ \E t \in Tokens : LoginSucceeds(b, t)
  \/ \E t \in Tokens : Logout(t) \/ Admit(t) \/ \E new \in Tokens : Refresh(t, new)
  \/ Sweep \/ TimeoutsRun

-----------------------------------------------------------------------------
(* The limit on failed logins is checked under one lock and counted under another: as
   many attempts as run at the same time get past it, and no more, also when the window
   is restarted or swept between the two. *)
AttemptsBounded == failures <= MaxAttempts + Cardinality(Browsers) - 1
=============================================================================
