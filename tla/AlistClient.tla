----------------------------- MODULE AlistClient -----------------------------
(***************************************************************************)
(* The client of one server that the modules share: its cache, its token,  *)
(* its rate limiter, and the requests of the goroutines that use it.       *)
(*                                                                         *)
(* A token is what the server thinks of it: good (accepted) or bad (absent *)
(* or no longer accepted).  A request is a loop of attempts; a login is a  *)
(* request of its own, made while its goroutine holds loginMu, so there is *)
(* one at a time.  What the server answers is the environment's choice,    *)
(* but a bad token is not accepted and a good one not answered with 401.   *)
(*                                                                         *)
(* Abstracted: bodies, the length of a back-off and of a limiter's wait.   *)
(* Every failure that ends a request (transport, another status, a body    *)
(* that does not parse, "not found") is the answer "fail".  A limiter is   *)
(* its rate: two limiters of one rate do the same.  ListTasks, which sends *)
(* its request once, around doRequest, is left out.                        *)
(***************************************************************************)
EXTENDS Naturals

CONSTANTS
  Procs, None,
  Rates,          \* the limits a configuration may ask for (0 clears)
  HTTPRetries,    \* retries after a 429 or 5xx (3 in the code)
  APIRetries,     \* retries after an API error (2 in the code)
  TokenGiven,     \* the configuration has a token: it does not expire
  LoginUnauthorized  \* the server may answer a login with status 401

ASSUME ProcAssumption  == None \notin Procs
ASSUME RateAssumption  == Rates \subseteq Nat \ {0}
ASSUME RetryAssumption == HTTPRetries \in Nat /\ APIRetries \in Nat
ASSUME ModeAssumption  == TokenGiven \in BOOLEAN /\ LoginUnauthorized \in BOOLEAN

VARIABLES
  cached,       \* clients[key] holds the client
  clientsMu,    \* who creates the client
  token, exp,   \* the token and its expiry
  loginMu, refreshing,
  stage,        \* where the login in progress is
  loginTry,     \* its attempt
  fresh,        \* the token it was given
  limit,        \* the limiter's rate, 0 without one
  asked,        \* history: the rates asked for since the last clear
  pc,
  req,          \* each goroutine's request: attempt, refreshed401, retry
  header,       \* the token it is about to send
  excuse,       \* history: its token was revoked or its login failed
  want, old     \* SetRateLimit: the rate wanted and the limiter loaded

cacheVars == <<cached, clientsMu>>
tokenVars == <<token, exp, fresh>>
loginVars == <<loginMu, refreshing, stage, loginTry>>
limitVars == <<limit, asked, want, old>>
callVars  == <<pc, req, header, excuse>>
vars == <<cacheVars, tokenVars, loginVars, limitVars, callVars>>

-----------------------------------------------------------------------------
Quality == {"good", "bad"}
Expiry  == {"never", "valid", "expired"}
Ends    == {"ok", "failed", "refused"}
Logging == {"login", "forced", "store", "storeForced"}
Sending == {"wait", "token", "lock", "send", "backoff", "lockForced"} \cup Logging
Setting == {"load", "swap"}

Request == [attempt : Nat, refreshed401 : BOOLEAN, retry : BOOLEAN]
NewRequest(retry) == [attempt |-> 0, refreshed401 |-> FALSE, retry |-> retry]

TypeOK ==
  /\ cached \in BOOLEAN /\ clientsMu \in Procs \cup {None}
  /\ token \in Quality /\ exp \in Expiry /\ fresh \in Quality
  /\ loginMu \in Procs \cup {None} /\ refreshing \in BOOLEAN
  /\ stage \in {"none", "token", "lock", "send", "backoff"} /\ loginTry \in Nat
  /\ limit \in Rates \cup {0} /\ asked \in SUBSET Rates
  /\ pc \in [Procs -> {"idle", "create"} \cup Ends \cup Sending \cup Setting]
  /\ req \in [Procs -> Request]
  /\ header \in [Procs -> Quality] /\ excuse \in [Procs -> BOOLEAN]
  /\ want \in [Procs -> Rates \cup {0}] /\ old \in [Procs -> Rates \cup {0}]
  /\ \A p \in Procs : pc[p] \in Logging => loginMu = p

Init ==
  /\ cached = FALSE /\ clientsMu = None
  /\ token = "bad" /\ exp = "expired" /\ fresh = "bad"
  /\ loginMu = None /\ refreshing = FALSE /\ stage = "none" /\ loginTry = 0
  /\ limit = 0 /\ asked = {}
  /\ pc = [p \in Procs |-> "idle"]
  /\ req = [p \in Procs |-> NewRequest(FALSE)]
  /\ header = [p \in Procs |-> "bad"] /\ excuse = [p \in Procs |-> FALSE]
  /\ want = [p \in Procs |-> 0] /\ old = [p \in Procs |-> 0]

Goto(p, next) == pc' = [pc EXCEPT ![p] = next]

NewClient ==
  /\ token' \in IF TokenGiven THEN Quality ELSE {"bad"}
  /\ exp' = IF TokenGiven THEN "never" ELSE "expired"
  /\ limit' = 0
  /\ UNCHANGED <<fresh, asked, want, old>>

Begin(p, retry) ==
  /\ Goto(p, "wait")
  /\ req' = [req EXCEPT ![p] = NewRequest(retry)]
  /\ excuse' = [excuse EXCEPT ![p] = FALSE]
  /\ UNCHANGED header

-----------------------------------------------------------------------------
(***************************************************************************)
(* GetClient: whoever finds no client creates one, alone, and keeps it     *)
(* only if the server answers /api/me.                                     *)
(***************************************************************************)
GetClient(p) ==
  /\ pc[p] = "idle" /\ ~cached /\ clientsMu = None
  /\ Goto(p, "create")
  /\ UNCHANGED <<cacheVars, tokenVars, loginVars, limitVars, req, header, excuse>>

(* Mutant: no second look at the cache.                                     *)
CreateUnchecked(p) ==
  /\ pc[p] = "create" /\ clientsMu = None
  /\ clientsMu' = p /\ NewClient /\ Begin(p, TRUE)
  /\ UNCHANGED <<cached, loginVars>>

Create(p) ==
  /\ pc[p] = "create" /\ clientsMu = None
  /\ IF cached
     THEN /\ Goto(p, "idle")
          /\ UNCHANGED <<cacheVars, tokenVars, limitVars, req, header, excuse>>
     ELSE /\ clientsMu' = p /\ NewClient /\ Begin(p, TRUE)
          /\ UNCHANGED cached
  /\ UNCHANGED loginVars

(* A request of a caller that has the client.                               *)
Call(p) ==
  /\ pc[p] = "idle" /\ cached
  /\ \E retry \in BOOLEAN : Begin(p, retry)
  /\ UNCHANGED <<cacheVars, tokenVars, loginVars, limitVars>>

(* A request returns to its caller, or to newAlistClient.                   *)
Return(p) ==
  /\ pc[p] \in Ends
  /\ cached' = (cached \/ (clientsMu = p /\ pc[p] = "ok"))
  /\ clientsMu' = IF clientsMu = p THEN None ELSE clientsMu
  /\ Goto(p, "idle")
  /\ req' = [req EXCEPT ![p] = NewRequest(FALSE)]
  /\ excuse' = [excuse EXCEPT ![p] = FALSE]
  /\ UNCHANGED <<tokenVars, loginVars, limitVars, header>>

-----------------------------------------------------------------------------
(***************************************************************************)
(* The attempts of a request.                                              *)
(***************************************************************************)
Wait(p) ==
  /\ pc[p] = "wait" /\ Goto(p, "token")
  /\ UNCHANGED <<cacheVars, tokenVars, loginVars, limitVars, req, header, excuse>>

(* The context ends while the request waits.                                *)
Cancel(p) ==
  /\ pc[p] \in {"wait", "backoff"} /\ Goto(p, "failed")
  /\ UNCHANGED <<cacheVars, tokenVars, loginVars, limitVars, req, header, excuse>>

(* Mutant: the mark is not looked at.                                       *)
MustRefreshAlways == exp = "expired"

MustRefresh == exp = "expired" /\ ~refreshing

ReadToken(p) ==
  /\ pc[p] = "token"
  /\ IF MustRefresh
     THEN Goto(p, "lock") /\ UNCHANGED header
     ELSE Goto(p, "send") /\ header' = [header EXCEPT ![p] = token]
  /\ UNCHANGED <<cacheVars, tokenVars, loginVars, limitVars, req, excuse>>

(* What the server may answer to a request with token t, and to a login     *)
(* (a server may also report a bad token by an API error).                  *)
Answers(t) == {"busy", "api", "fail"} \cup {IF t = "good" THEN "ok" ELSE "unauthorized"}
LoginAnswers == {"ok", "busy", "api", "fail"}
                \cup IF LoginUnauthorized THEN {"unauthorized"} ELSE {}

Repeats(answer, attempt) == \/ answer = "busy" /\ attempt < HTTPRetries
                            \/ answer = "api" /\ attempt < APIRetries

Outcome(answer) == CASE answer = "ok" -> "ok"
                     [] answer = "unauthorized" -> "refused"
                     [] OTHER -> "failed"

Send(p) ==
  /\ pc[p] = "send"
  /\ \E answer \in Answers(header[p]) :
       CASE answer = "unauthorized" /\ ~req[p].refreshed401 ->
              /\ Goto(p, "lockForced")
              /\ req' = [req EXCEPT ![p].refreshed401 = TRUE]
         [] req[p].retry /\ Repeats(answer, req[p].attempt) ->
              Goto(p, "backoff") /\ UNCHANGED req
         [] OTHER -> Goto(p, Outcome(answer)) /\ UNCHANGED req
  /\ header' = [header EXCEPT ![p] = "bad"]
  /\ UNCHANGED <<cacheVars, tokenVars, loginVars, limitVars, excuse>>

Again(p) == Goto(p, "token") /\ req' = [req EXCEPT ![p].attempt = @ + 1]

Backoff(p) ==
  /\ pc[p] = "backoff" /\ Again(p)
  /\ UNCHANGED <<cacheVars, tokenVars, loginVars, limitVars, header, excuse>>

-----------------------------------------------------------------------------
(***************************************************************************)
(* A login, by getToken ("login") or after a 401 ("forced").               *)
(***************************************************************************)
StartLogin(p) ==
  /\ loginMu' = p /\ refreshing' = TRUE /\ stage' = "token" /\ loginTry' = 0

(* getToken has the lock and looks once more.                               *)
LockLogin(p) ==
  /\ pc[p] = "lock" /\ loginMu = None
  /\ IF exp = "expired"
     THEN StartLogin(p) /\ Goto(p, "login") /\ UNCHANGED header
     ELSE /\ Goto(p, "send") /\ header' = [header EXCEPT ![p] = token]
          /\ UNCHANGED loginVars
  /\ UNCHANGED <<cacheVars, tokenVars, limitVars, req, excuse>>

LockForced(p) ==
  /\ pc[p] = "lockForced" /\ loginMu = None
  /\ StartLogin(p) /\ Goto(p, "forced")
  /\ UNCHANGED <<cacheVars, tokenVars, limitVars, req, header, excuse>>

LoginBackoff(p) ==
  /\ pc[p] \in {"login", "forced"} /\ stage = "backoff"
  /\ stage' = "token" /\ loginTry' = loginTry + 1
  /\ UNCHANGED <<cacheVars, tokenVars, limitVars, callVars, loginMu, refreshing>>

(* The login's own getToken.                                                *)
LoginToken(p) ==
  /\ pc[p] \in {"login", "forced"} /\ stage = "token"
  /\ stage' = IF MustRefresh THEN "lock" ELSE "send"
  /\ UNCHANGED <<cacheVars, tokenVars, limitVars, callVars, loginMu, refreshing, loginTry>>

EndLogin == loginMu' = None /\ stage' = "none" /\ loginTry' = 0

(* Mutant: the request is sent again with the headers it had.               *)
ResumeStale(p, t) ==
  /\ Goto(p, "send")
  /\ IF pc[p] \in {"login", "store"}
     THEN header' = [header EXCEPT ![p] = t] /\ UNCHANGED req
     ELSE req' = [req EXCEPT ![p].attempt = @ + 1] /\ UNCHANGED header

(* Back from getToken with a token, or from forceRefresh.                   *)
Resume(p, t) ==
  IF pc[p] \in {"login", "store"}
  THEN Goto(p, "send") /\ header' = [header EXCEPT ![p] = t] /\ UNCHANGED req
  ELSE Again(p) /\ UNCHANGED header

(* Mutant: the mark stays after an error.                                   *)
LoginFailsMarked(p) ==
  /\ EndLogin /\ Resume(p, token) /\ excuse' = [excuse EXCEPT ![p] = TRUE]
  /\ UNCHANGED <<tokenVars, refreshing>>

LoginFails(p) ==
  /\ refreshing' = FALSE /\ EndLogin
  /\ Resume(p, token) /\ excuse' = [excuse EXCEPT ![p] = TRUE]
  /\ UNCHANGED tokenVars

(* Mutant: the lock is released before the token is stored.                 *)
LoginSucceedsUnlocked(p) ==
  /\ refreshing' = FALSE /\ EndLogin /\ fresh' = "good"
  /\ Goto(p, IF pc[p] = "login" THEN "store" ELSE "storeForced")
  /\ UNCHANGED <<token, exp, req, header, excuse>>

LoginSucceeds(p) ==
  /\ refreshing' = FALSE /\ stage' = "none" /\ fresh' = "good"
  /\ Goto(p, IF pc[p] = "login" THEN "store" ELSE "storeForced")
  /\ UNCHANGED <<token, exp, loginMu, loginTry, req, header, excuse>>

(* A login that is itself answered 401 calls forceRefresh, which waits for  *)
(* the lock its own goroutine holds.                                        *)
LoginSend(p) ==
  /\ pc[p] \in {"login", "forced"} /\ stage = "send"
  /\ \E answer \in LoginAnswers :
       \/ answer = "ok" /\ LoginSucceeds(p)
       \/ /\ answer = "unauthorized" \/ Repeats(answer, loginTry)
          /\ stage' = IF answer = "unauthorized" THEN "lock" ELSE "backoff"
          /\ UNCHANGED <<tokenVars, callVars, loginMu, refreshing, loginTry>>
       \/ /\ answer \notin {"ok", "unauthorized"} /\ ~Repeats(answer, loginTry)
          /\ LoginFails(p)
  /\ UNCHANGED <<cacheVars, limitVars>>

Store(p) ==
  /\ pc[p] \in {"store", "storeForced"}
  /\ token' = fresh /\ exp' = "valid" /\ fresh' = "bad"
  /\ EndLogin /\ Resume(p, fresh)
  /\ UNCHANGED <<cacheVars, limitVars, refreshing, excuse>>

-----------------------------------------------------------------------------
(***************************************************************************)
(* SetRateLimit: a compare-and-swap loop in which the stricter rate wins.  *)
(***************************************************************************)
SetRateLimit(p) ==
  /\ pc[p] = "idle" /\ cached
  /\ \E q \in Rates : want' = [want EXCEPT ![p] = q]
  /\ Goto(p, "load")
  /\ UNCHANGED <<cacheVars, tokenVars, loginVars, limit, asked, old, req, header, excuse>>

ClearRateLimit(p) ==
  /\ pc[p] = "idle" /\ cached
  /\ limit' = 0 /\ asked' = {}
  /\ UNCHANGED <<cacheVars, tokenVars, loginVars, callVars, want, old>>

EndSetting(p) ==
  /\ asked' = asked \cup {want[p]}
  /\ want' = [want EXCEPT ![p] = 0] /\ old' = [old EXCEPT ![p] = 0]
  /\ Goto(p, "idle")

LoadLimit(p) ==
  /\ pc[p] = "load"
  /\ IF limit # 0 /\ limit <= want[p]
     THEN EndSetting(p)
     ELSE /\ old' = [old EXCEPT ![p] = limit] /\ Goto(p, "swap")
          /\ UNCHANGED <<asked, want>>
  /\ UNCHANGED <<cacheVars, tokenVars, loginVars, limit, req, header, excuse>>

(* Mutant: the limiter is stored, whatever it has become.                   *)
SwapLimitBlind(p) ==
  /\ pc[p] = "swap" /\ limit' = want[p] /\ EndSetting(p)
  /\ UNCHANGED <<cacheVars, tokenVars, loginVars, req, header, excuse>>

SwapLimit(p) ==
  /\ pc[p] = "swap"
  /\ IF limit = old[p]
     THEN limit' = want[p] /\ EndSetting(p)
     ELSE Goto(p, "load") /\ UNCHANGED <<limit, asked, want, old>>
  /\ UNCHANGED <<cacheVars, tokenVars, loginVars, req, header, excuse>>

-----------------------------------------------------------------------------
(***************************************************************************)
(* Time and the server.                                                    *)
(***************************************************************************)
Expire ==
  /\ exp = "valid" /\ exp' = "expired"
  /\ UNCHANGED <<cacheVars, token, fresh, loginVars, limitVars, callVars>>

(* The server no longer accepts the tokens it gave.                         *)
Revoke ==
  /\ token' = "bad" /\ fresh' = "bad"
  /\ header' = [p \in Procs |-> "bad"]
  /\ excuse' = [p \in Procs |-> excuse[p] \/ pc[p] \in Sending]
  /\ UNCHANGED <<cacheVars, exp, loginVars, limitVars, pc, req>>

Step(p) == \/ Create(p) \/ Return(p) \/ Wait(p) \/ ReadToken(p) \/ Send(p) \/ Backoff(p)
           \/ LockLogin(p) \/ LockForced(p) \/ LoginBackoff(p) \/ LoginToken(p)
           \/ LoginSend(p) \/ Store(p) \/ LoadLimit(p) \/ SwapLimit(p)
User(p) == GetClient(p) \/ Call(p) \/ Cancel(p) \/ SetRateLimit(p) \/ ClearRateLimit(p)

Next == \/ \E p \in Procs : Step(p) \/ User(p)
        \/ Expire \/ Revoke

Spec == Init /\ [][Next]_vars

(* A goroutine that can go on does, a request has a timeout, and a mutex is *)
(* not withheld for ever from one that waits for it (the strong part).      *)
Fairness == \A p \in Procs : SF_vars(Step(p))
FairSpec == Spec /\ Fairness

-----------------------------------------------------------------------------
(***************************************************************************)
(* Properties.                                                             *)
(***************************************************************************)
(* doRequestInternal, forceRefresh: a request is refused (401 to its       *)
(* caller) only if its token was revoked while it ran, or a login of its   *)
(* own failed; the logins of others, which it may race, never cost it its  *)
(* one chance to refresh.                                                  *)
Authorized == \A p \in Procs : pc[p] = "refused" => excuse[p]

(* getToken, forceRefresh, GetClient: a cached client that has a token the *)
(* server accepts keeps one, whatever logins fail or overtake each other,  *)
(* until the server revokes it.                                            *)
KeepsToken == [][cached /\ token = "good" /\ token' = "bad" => Revoke]_vars

(* getToken: a request goes on with an expired token only while a login is *)
(* in progress; the mark refreshing is never left behind by one that ended. *)
StaleOnlyMeanwhile ==
  [][\A p \in Procs : pc[p] = "token" /\ pc'[p] = "send" /\ exp = "expired"
                      => loginMu # None]_vars

(* SetRateLimit, GetClient: since the last clear, the limiter all tasks of *)
(* an account share has the strictest of the rates they asked for, in      *)
(* whatever order their compare-and-swaps come (the comment on             *)
(* SetRateLimit and its test).                                             *)
LimitIsStrictest ==
  IF asked = {} THEN limit = 0 ELSE limit \in asked /\ \A q \in asked : limit <= q

(* What the README and the callers of SetRateLimit say instead: the rate    *)
(* of the task that started last is in force.                              *)
LatestInForce ==
  [][\A p \in Procs : want[p] # 0 /\ want'[p] = 0 => limit' = want[p]]_vars

(* doRequestInternal, GetClient: every call returns, with any number of    *)
(* goroutines behind one login and whatever the server answers but 401 to  *)
(* a login.  (A SetRateLimit may lose its swap to others for ever.)        *)
CallsReturn ==
  \A p \in Procs : pc[p] \in {"create"} \cup Sending ~> pc[p] = "idle"
=============================================================================
