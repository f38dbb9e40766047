-------------------------- MODULE AlistClientProofs --------------------------
(***************************************************************************)
(* Theorems about AlistClient, for any number of goroutines, any rates and *)
(* retries, with and without a given token, and whether or not a login may *)
(* be answered with status 401.                                            *)
(***************************************************************************)
EXTENDS AlistClient, TLAPS

Assumptions == /\ None \notin Procs /\ Rates \subseteq Nat \ {0}
               /\ TokenGiven \in BOOLEAN

LEMMA FromAssumptions == Assumptions
BY ProcAssumption, RateAssumption, ModeAssumption DEF Assumptions

Act(p) == Step(p) \/ User(p)

-----------------------------------------------------------------------------
(***************************************************************************)
(* Types, for one part of the state after the other.                       *)
(***************************************************************************)
Places == {"idle", "create"} \cup Ends \cup Sending \cup Setting

CacheOK == cached \in BOOLEAN /\ clientsMu \in Procs \cup {None}
TokenOK == token \in Quality /\ exp \in Expiry /\ fresh \in Quality
LoginOK == /\ loginMu \in Procs \cup {None} /\ refreshing \in BOOLEAN
           /\ stage \in {"none", "token", "lock", "send", "backoff"} /\ loginTry \in Nat
LimitOK == /\ limit \in Rates \cup {0} /\ asked \in SUBSET Rates
           /\ want \in [Procs -> Rates \cup {0}] /\ old \in [Procs -> Rates \cup {0}]
CallOK  == /\ pc \in [Procs -> Places] /\ req \in [Procs -> Request]
           /\ header \in [Procs -> Quality] /\ excuse \in [Procs -> BOOLEAN]

\* A login is in progress only where the lock is held.
Held == \A p \in Procs : pc[p] \in Logging => loginMu = p
\* Who sets the rate limit has the client and a rate.
Setters == \A p \in Procs : pc[p] \in Setting => cached /\ want[p] # 0

TypeInv == TypeOK /\ Setters

LEMMA TypeParts == TypeOK <=> CacheOK /\ TokenOK /\ LoginOK /\ LimitOK /\ CallOK /\ Held
BY DEF TypeOK, CacheOK, TokenOK, LoginOK, LimitOK, CallOK, Held, Places

LEMMA TypeInit == Init => TypeInv
<1> SUFFICES ASSUME Init PROVE TypeOK /\ Setters
  BY DEF TypeInv
<1>1. req \in [Procs -> Request]
  BY DEF Init, NewRequest, Request
<1>2. \A p \in Procs : pc[p] = "idle"
  BY DEF Init
<1> QED
  BY <1>1, <1>2 DEF Init, TypeOK, Setters, Quality, Expiry, Logging, Setting

\* A step of a goroutine leaves what belongs to the others alone.
LEMMA Others ==
  ASSUME TypeOK, NEW p \in Procs, Act(p), NEW q \in Procs, q # p
  PROVE  /\ pc'[q] = pc[q] /\ req'[q] = req[q] /\ header'[q] = header[q]
         /\ excuse'[q] = excuse[q] /\ want'[q] = want[q] /\ old'[q] = old[q]
<1> USE DEF Goto, cacheVars, tokenVars, loginVars, limitVars, callVars
<1>0. CallOK /\ LimitOK
  BY TypeParts
<1>1. CASE GetClient(p) \/ Create(p) \/ Call(p) \/ Return(p) \/ Wait(p) \/ Cancel(p)
  BY <1>0, <1>1 DEF CallOK, LimitOK, GetClient, Create, NewClient, Begin, Call, Return, Wait, Cancel
<1>2. CASE ReadToken(p) \/ Send(p) \/ Backoff(p)
  BY <1>0, <1>2 DEF CallOK, LimitOK, ReadToken, Send, Backoff, Again
<1>3. CASE LockLogin(p) \/ LockForced(p) \/ LoginBackoff(p) \/ LoginToken(p)
  BY <1>0, <1>3 DEF CallOK, LimitOK, LockLogin, LockForced, LoginBackoff, LoginToken
<1>4. CASE LoginSend(p) \/ Store(p)
  BY <1>0, <1>4
  DEF CallOK, LimitOK, LoginSend, LoginSucceeds, LoginFails, Store, Resume, Again
<1>5. CASE SetRateLimit(p) \/ ClearRateLimit(p) \/ LoadLimit(p) \/ SwapLimit(p)
  BY <1>0, <1>5 DEF CallOK, LimitOK, SetRateLimit, ClearRateLimit, LoadLimit, SwapLimit, EndSetting
<1> QED
  BY <1>1, <1>2, <1>3, <1>4, <1>5 DEF Act, Step, User

\* Which actions change what.
LEMMA CacheFrame ==
  ASSUME NEW p \in Procs, Act(p) PROVE Create(p) \/ Return(p) \/ UNCHANGED cacheVars
BY DEF Act, Step, User, GetClient, Call, Cancel, SetRateLimit, ClearRateLimit, Wait, ReadToken,
       Send, Backoff, LockLogin, LockForced, LoginBackoff, LoginToken, LoginSend, Store,
       LoadLimit, SwapLimit

LEMMA TokenFrame ==
  ASSUME NEW p \in Procs, Act(p)
  PROVE  Create(p) \/ LoginSend(p) \/ Store(p) \/ UNCHANGED tokenVars
BY DEF Act, Step, User, GetClient, Call, Cancel, SetRateLimit, ClearRateLimit, Return, Wait,
       ReadToken, Send, Backoff, LockLogin, LockForced, LoginBackoff, LoginToken, LoadLimit,
       SwapLimit

LEMMA LoginFrame ==
  ASSUME NEW p \in Procs, Act(p)
  PROVE  \/ LockLogin(p) \/ LockForced(p) \/ LoginBackoff(p) \/ LoginToken(p) \/ LoginSend(p)
         \/ Store(p) \/ UNCHANGED loginVars
BY DEF Act, Step, User, GetClient, Create, Call, Cancel, SetRateLimit, ClearRateLimit, Return,
       Wait, ReadToken, Send, Backoff, LoadLimit, SwapLimit

LEMMA LimitFrame ==
  ASSUME NEW p \in Procs, Act(p)
  PROVE  \/ Create(p) \/ SetRateLimit(p) \/ ClearRateLimit(p) \/ LoadLimit(p) \/ SwapLimit(p)
         \/ UNCHANGED limitVars
BY DEF Act, Step, User, GetClient, Call, Cancel, Return, Wait, ReadToken, Send, Backoff,
       LockLogin, LockForced, LoginBackoff, LoginToken, LoginSend, Store

\* What a step does to the pc of its goroutine.
LEMMA Moves ==
  ASSUME TypeOK, NEW p \in Procs, Act(p)
  PROVE  /\ pc'[p] \in Places
         /\ pc'[p] \in Setting \ {pc[p]} => /\ SetRateLimit(p) \/ LoadLimit(p) \/ SwapLimit(p)
         /\ pc'[p] \in Logging \ {pc[p]} => LockLogin(p) \/ LockForced(p) \/ LoginSend(p)
<1> USE DEF Goto, cacheVars, tokenVars, loginVars, limitVars, callVars,
            Places, Ends, Sending, Setting, Logging
<1>0. CallOK
  BY TypeParts
<1>1. CASE GetClient(p) \/ Create(p) \/ Call(p) \/ Return(p) \/ Wait(p) \/ Cancel(p)
  BY <1>0, <1>1 DEF CallOK, GetClient, Create, Begin, Call, Return, Wait, Cancel
<1>2. CASE Send(p)
  <2>1. PICK answer \in Answers(header[p]) :
          pc' = [pc EXCEPT ![p] =
                  CASE answer = "unauthorized" /\ ~req[p].refreshed401 -> "lockForced"
                    [] req[p].retry /\ Repeats(answer, req[p].attempt) -> "backoff"
                    [] OTHER -> Outcome(answer)]
    BY <1>2 DEF Send, Answers, Repeats
  <2>2. Outcome(answer) \in Ends
    BY DEF Outcome
  <2>3. pc'[p] \in {"lockForced", "backoff"} \cup Ends
    BY <1>0, <2>1, <2>2 DEF CallOK
  <2> QED
    BY <2>3
<1>3. CASE ReadToken(p) \/ Backoff(p) \/ LoginBackoff(p) \/ LoginToken(p)
  BY <1>0, <1>3 DEF CallOK, ReadToken, Backoff, Again, LoginBackoff, LoginToken
<1>4. CASE LockLogin(p) \/ LockForced(p) \/ LoginSend(p) \/ Store(p)
  BY <1>0, <1>4
  DEF CallOK, LockLogin, LockForced, LoginSend, LoginSucceeds, LoginFails, Store, Resume, Again
<1>5. CASE SetRateLimit(p) \/ ClearRateLimit(p) \/ LoadLimit(p) \/ SwapLimit(p)
  BY <1>0, <1>5 DEF CallOK, SetRateLimit, ClearRateLimit, LoadLimit, SwapLimit, EndSetting
<1> QED
  BY <1>1, <1>2, <1>3, <1>4, <1>5 DEF Act, Step, User

LEMMA CacheTypes == ASSUME TypeOK, NEW p \in Procs, Act(p) PROVE CacheOK'
<1>1. CASE Create(p)
  BY <1>1, TypeParts DEF CacheOK, Create, cacheVars
<1>2. CASE Return(p)
  BY <1>2, TypeParts DEF CacheOK, Return
<1>3. CASE UNCHANGED cacheVars
  BY <1>3, TypeParts DEF CacheOK, cacheVars
<1> QED
  BY <1>1, <1>2, <1>3, CacheFrame

LEMMA TokenTypes == ASSUME TypeOK, NEW p \in Procs, Act(p) PROVE TokenOK'
<1> USE DEF TokenOK, Quality, Expiry, tokenVars
<1>1. CASE Create(p)
  BY <1>1, TypeParts, FromAssumptions DEF Assumptions, Create, NewClient
<1>2. CASE LoginSend(p)
  BY <1>2, TypeParts DEF LoginSend, LoginSucceeds, LoginFails
<1>3. CASE Store(p)
  BY <1>3, TypeParts DEF Store
<1>4. CASE UNCHANGED tokenVars
  BY <1>4, TypeParts
<1> QED
  BY <1>1, <1>2, <1>3, <1>4, TokenFrame

LEMMA LoginTypes == ASSUME TypeOK, NEW p \in Procs, Act(p) PROVE LoginOK'
<1> USE DEF LoginOK, loginVars, StartLogin, EndLogin
<1>1. CASE LockLogin(p) \/ LockForced(p)
  <2>1. CASE StartLogin(p)
    BY <2>1
  <2>2. CASE UNCHANGED loginVars
    BY <2>2, TypeParts
  <2> QED
    BY <1>1, <2>1, <2>2 DEF LockLogin, LockForced
<1>2. CASE LoginBackoff(p) \/ LoginToken(p)
  BY <1>2, TypeParts DEF LoginBackoff, LoginToken
<1>3. CASE LoginSend(p)
  <2>1. CASE LoginSucceeds(p)
    BY <2>1, TypeParts DEF LoginSucceeds
  <2>2. CASE LoginFails(p)
    BY <2>2, TypeParts DEF LoginFails
  <2>3. CASE stage' \in {"lock", "backoff"} /\ UNCHANGED <<loginMu, refreshing, loginTry>>
    BY <2>3, TypeParts
  <2> QED
    BY <1>3, <2>1, <2>2, <2>3 DEF LoginSend
<1>4. CASE Store(p)
  BY <1>4, TypeParts DEF Store
<1>5. CASE UNCHANGED loginVars
  BY <1>5, TypeParts
<1> QED
  BY <1>1, <1>2, <1>3, <1>4, <1>5, LoginFrame

LEMMA LimitTypes == ASSUME TypeInv, NEW p \in Procs, Act(p) PROVE LimitOK'
<1> USE DEF LimitOK, limitVars
<1>0. LimitOK /\ (pc[p] \in Setting => want[p] \in Rates)
  BY TypeParts DEF TypeInv, Setters
<1>1. CASE Create(p)
  BY <1>0, <1>1 DEF Create, NewClient
<1>2. CASE SetRateLimit(p) \/ ClearRateLimit(p)
  BY <1>0, <1>2 DEF SetRateLimit, ClearRateLimit, callVars
<1>3. CASE LoadLimit(p) \/ SwapLimit(p)
  BY <1>0, <1>3 DEF LoadLimit, SwapLimit, EndSetting, Setting
<1>4. CASE UNCHANGED limitVars
  BY <1>0, <1>4
<1> QED
  BY <1>1, <1>2, <1>3, <1>4, LimitFrame

LEMMA PcTypes == ASSUME TypeOK, NEW p \in Procs, Act(p) PROVE pc' \in [Procs -> Places]
<1> USE DEF Goto, cacheVars, tokenVars, loginVars, limitVars, callVars
<1>0. pc \in [Procs -> Places] /\ pc'[p] \in Places
  BY TypeParts, Moves DEF CallOK
<1>1. ASSUME NEW l, pc' = [pc EXCEPT ![p] = l] PROVE pc' \in [Procs -> Places]
  BY <1>0, <1>1
<1>2. CASE UNCHANGED pc
  BY <1>0, <1>2
<1>3. CASE GetClient(p) \/ Create(p) \/ Call(p) \/ Return(p) \/ Wait(p) \/ Cancel(p)
  BY <1>1, <1>3 DEF GetClient, Create, Begin, Call, Return, Wait, Cancel
<1>4. CASE ReadToken(p) \/ Backoff(p)
  BY <1>1, <1>4 DEF ReadToken, Backoff, Again
<1>5. CASE Send(p)
  BY <1>1, <1>5 DEF Send
<1>6. CASE LoginBackoff(p) \/ LoginToken(p)
  BY <1>2, <1>6 DEF LoginBackoff, LoginToken
<1>7. CASE LockLogin(p) \/ LockForced(p) \/ LoginSend(p) \/ Store(p)
  BY <1>1, <1>2, <1>7
  DEF LockLogin, LockForced, LoginSend, LoginSucceeds, LoginFails, Store, Resume, Again
<1>8. CASE SetRateLimit(p) \/ ClearRateLimit(p) \/ LoadLimit(p) \/ SwapLimit(p)
  BY <1>1, <1>2, <1>8 DEF SetRateLimit, ClearRateLimit, LoadLimit, SwapLimit, EndSetting
<1> QED
  BY <1>3, <1>4, <1>5, <1>6, <1>7, <1>8 DEF Act, Step, User

LEMMA RequestTypes == ASSUME TypeOK, NEW p \in Procs, Act(p) PROVE req' \in [Procs -> Request]
<1> USE DEF Request, cacheVars, tokenVars, loginVars, limitVars, callVars
<1>0. req \in [Procs -> Request]
  BY TypeParts DEF CallOK
<1>1. CASE UNCHANGED req
  BY <1>0, <1>1
<1>2. CASE Again(p)
  BY <1>0, <1>2 DEF Again
<1>3. CASE Create(p) \/ Call(p) \/ Return(p)
  <2>1. \A retry \in BOOLEAN : NewRequest(retry) \in Request
    BY DEF NewRequest
  <2>2. UNCHANGED req \/ \E retry \in BOOLEAN : req' = [req EXCEPT ![p] = NewRequest(retry)]
    BY <1>3 DEF Create, Call, Return, Begin
  <2> QED
    BY <1>0, <1>1, <2>1, <2>2
<1>4. CASE Send(p)
  BY <1>0, <1>4 DEF Send
<1>5. CASE LoginSend(p) \/ Store(p)
  <2>1. Again(p) \/ UNCHANGED req
    BY <1>5 DEF LoginSend, LoginSucceeds, LoginFails, Store, Resume
  <2> QED
    BY <1>1, <1>2, <2>1
<1>6. CASE GetClient(p) \/ Wait(p) \/ Cancel(p) \/ ReadToken(p)
  BY <1>1, <1>6 DEF GetClient, Wait, Cancel, ReadToken
<1>7. CASE LockLogin(p) \/ LockForced(p) \/ LoginBackoff(p) \/ LoginToken(p)
  BY <1>1, <1>7 DEF LockLogin, LockForced, LoginBackoff, LoginToken
<1>8. CASE SetRateLimit(p) \/ ClearRateLimit(p) \/ LoadLimit(p) \/ SwapLimit(p)
  BY <1>1, <1>8 DEF SetRateLimit, ClearRateLimit, LoadLimit, SwapLimit
<1> QED
  BY <1>2, <1>3, <1>4, <1>5, <1>6, <1>7, <1>8 DEF Act, Step, User, Backoff

\* What else a step does for its request.
LEMMA MarkTypes ==
  ASSUME TypeOK, NEW p \in Procs, Act(p)
  PROVE  header' \in [Procs -> Quality] /\ excuse' \in [Procs -> BOOLEAN]
<1> USE DEF Quality, cacheVars, tokenVars, loginVars, limitVars, callVars
<1>0. /\ header \in [Procs -> Quality] /\ excuse \in [Procs -> BOOLEAN]
      /\ token \in Quality /\ fresh \in Quality
  BY TypeParts DEF CallOK, TokenOK
<1>1. CASE UNCHANGED <<header, excuse>>
  BY <1>0, <1>1
<1>2. CASE Create(p) \/ Call(p) \/ Return(p)
  BY <1>0, <1>2 DEF Create, Call, Return, Begin
<1>3. CASE ReadToken(p) \/ Send(p) \/ LockLogin(p)
  BY <1>0, <1>3 DEF ReadToken, Send, LockLogin
<1>4. CASE LoginSend(p) \/ Store(p)
  BY <1>0, <1>4 DEF LoginSend, LoginSucceeds, LoginFails, Store, Resume
<1>5. CASE GetClient(p) \/ Wait(p) \/ Cancel(p) \/ Backoff(p)
  BY <1>1, <1>5 DEF GetClient, Wait, Cancel, Backoff
<1>6. CASE LockForced(p) \/ LoginBackoff(p) \/ LoginToken(p)
  BY <1>1, <1>6 DEF LockForced, LoginBackoff, LoginToken
<1>7. CASE SetRateLimit(p) \/ ClearRateLimit(p) \/ LoadLimit(p) \/ SwapLimit(p)
  BY <1>1, <1>7 DEF SetRateLimit, ClearRateLimit, LoadLimit, SwapLimit
<1> QED
  BY <1>2, <1>3, <1>4, <1>5, <1>6, <1>7 DEF Act, Step, User

\* Logins exclude each other.
LEMMA HeldStep == ASSUME TypeOK, NEW p \in Procs, Act(p) PROVE Held'
<1> SUFFICES ASSUME NEW q \in Procs, pc'[q] \in Logging PROVE loginMu' = q
  BY DEF Held
<1>0. Held /\ CallOK /\ None \notin Procs
  BY TypeParts, FromAssumptions DEF Assumptions
<1>1. CASE q = p
  <2>1. CASE LockLogin(p)
    BY <1>0, <1>1, <2>1 DEF CallOK, LockLogin, StartLogin, Goto, Logging
  <2>2. CASE LockForced(p)
    BY <1>1, <2>2 DEF LockForced, StartLogin
  <2>3. CASE LoginSend(p)
    <3>1. CASE LoginFails(p)
      BY <1>0, <1>1, <3>1 DEF CallOK, LoginFails, Resume, Again, Goto, Logging
    <3>2. CASE ~LoginFails(p)
      BY <1>0, <1>1, <2>3, <3>2 DEF LoginSend, LoginSucceeds, Held, Logging
    <3> QED
      BY <3>1, <3>2
  <2>4. CASE Store(p)
    BY <1>0, <1>1, <2>4 DEF CallOK, Store, Resume, Again, Goto, Logging
  <2>5. CASE LoginBackoff(p) \/ LoginToken(p)
    BY <1>0, <1>1, <2>5 DEF LoginBackoff, LoginToken, callVars, Held
  <2>6. CASE UNCHANGED loginVars /\ ~LockLogin(p) /\ ~LockForced(p) /\ ~LoginSend(p)
    BY <1>0, <1>1, <2>6, Moves DEF Held, loginVars
  <2> QED
    BY <2>1, <2>2, <2>3, <2>4, <2>5, <2>6, LoginFrame
<1>2. CASE q # p
  <2>1. loginMu = q
    BY <1>0, <1>2, Others DEF Held
  <2>2. ~LockForced(p) /\ ~(pc[p] \in Logging)
    BY <1>0, <1>2, <2>1 DEF Held, LockForced
  <2> QED
    BY <1>0, <2>1, <2>2, LoginFrame
    DEF LockLogin, LoginBackoff, LoginToken, LoginSend, Store, Logging, StartLogin, loginVars
<1> QED
  BY <1>1, <1>2

\* The client is never taken from the cache, and who sets a limit has a rate.
LEMMA SettersStep == ASSUME TypeInv, NEW p \in Procs, Act(p) PROVE Setters'
<1> SUFFICES ASSUME NEW q \in Procs, pc'[q] \in Setting PROVE cached' /\ want'[q] # 0
  BY DEF Setters
<1>0. /\ CallOK /\ LimitOK /\ 0 \notin Rates
      /\ pc[q] \in Setting => cached /\ want[q] # 0
  BY TypeParts, FromAssumptions DEF TypeInv, Setters, Assumptions
<1>1. cached => cached'
  BY CacheFrame DEF Create, Return, cacheVars
<1>2. CASE q # p
  BY <1>0, <1>1, <1>2, Others DEF TypeInv
<1>3. CASE q = p
  <2>1. CASE SetRateLimit(p)
    BY <1>0, <1>1, <1>3, <2>1 DEF SetRateLimit, LimitOK
  <2>2. CASE LoadLimit(p) \/ SwapLimit(p)
    BY <1>0, <1>1, <1>3, <2>2
    DEF CallOK, LoadLimit, SwapLimit, EndSetting, Goto, Setting
  <2>3. CASE ~SetRateLimit(p) /\ ~LoadLimit(p) /\ ~SwapLimit(p)
    <3>1. pc[q] \in Setting
      BY <1>3, <2>3, Moves DEF TypeInv
    <3>2. Create(p) \/ ClearRateLimit(p) => UNCHANGED want
      BY DEF Create, ClearRateLimit, NewClient, limitVars
    <3> QED
      BY <1>0, <1>1, <1>3, <2>3, <3>1, <3>2, LimitFrame DEF limitVars
  <2> QED
    BY <2>1, <2>2, <2>3
<1> QED
  BY <1>2, <1>3

\* Time and the server change neither a pc nor the client.
LEMMA ClockTypes == ASSUME TypeInv, Expire \/ Revoke PROVE TypeInv'
<1>0. CacheOK /\ TokenOK /\ LoginOK /\ LimitOK /\ CallOK /\ Held /\ Setters
  BY TypeParts DEF TypeInv
<1>1. UNCHANGED <<cacheVars, loginVars, limitVars, pc, req>>
  BY DEF Expire, Revoke, callVars
<1>2. TokenOK'
  BY <1>0 DEF Expire, Revoke, TokenOK, Quality, Expiry
<1>3. header' \in [Procs -> Quality] /\ excuse' \in [Procs -> BOOLEAN]
  BY <1>0 DEF Expire, Revoke, CallOK, Quality, callVars
<1>4. CacheOK' /\ LoginOK' /\ LimitOK' /\ CallOK'
  BY <1>0, <1>1, <1>3
  DEF CacheOK, LoginOK, LimitOK, CallOK, cacheVars, loginVars, limitVars
<1>5. Held' /\ Setters'
  BY <1>0, <1>1 DEF Held, Setters, cacheVars, loginVars, limitVars
<1>6. TypeOK'
  BY <1>2, <1>4, <1>5
  DEF TypeOK, CacheOK, TokenOK, LoginOK, LimitOK, CallOK, Held, Places
<1> QED
  BY <1>5, <1>6 DEF TypeInv

LEMMA TypeStep == TypeInv /\ [Next]_vars => TypeInv'
<1> SUFFICES ASSUME TypeInv, [Next]_vars PROVE TypeInv'
  OBVIOUS
<1>1. ASSUME NEW p \in Procs, Act(p) PROVE TypeInv'
  <2>1. CacheOK' /\ TokenOK' /\ LoginOK' /\ LimitOK' /\ Held' /\ Setters'
    BY <1>1, CacheTypes, TokenTypes, LoginTypes, LimitTypes, HeldStep, SettersStep DEF TypeInv
  <2>2. CallOK'
    BY <1>1, PcTypes, RequestTypes, MarkTypes DEF TypeInv, CallOK
  <2> QED
    BY <2>1, <2>2
    DEF TypeInv, TypeOK, CacheOK, TokenOK, LoginOK, LimitOK, CallOK, Held, Places
<1>2. CASE UNCHANGED vars
  BY <1>2 DEF TypeInv, TypeOK, Setters, vars, cacheVars, tokenVars, loginVars, limitVars, callVars
<1> QED
  BY <1>1, <1>2, ClockTypes DEF Next, Act

(* The state stays of its type; in particular a login is in progress only  *)
(* in the goroutine that holds loginMu, so that logins exclude each other. *)
THEOREM TypeCorrect == Spec => []TypeOK
<1>1. TypeInv => TypeOK
  BY DEF TypeInv
<1> QED
  BY <1>1, TypeInit, TypeStep, PTL DEF Spec

-----------------------------------------------------------------------------
(***************************************************************************)
(* The rate limit.  A client is created without a limit, so nobody may     *)
(* have asked for one before; a compare-and-swap that succeeds replaces a  *)
(* limiter that was, and therefore still is, absent or less strict.        *)
(***************************************************************************)
NothingAsked == ~cached => asked = {}
Stricter     == \A p \in Procs : pc[p] = "swap" => old[p] = 0 \/ want[p] < old[p]
LimitInv     == TypeInv /\ NothingAsked /\ Stricter /\ LimitIsStrictest

\* One more task asks for q, and the limiter is set to it or was strict enough.
LEMMA AskLimit ==
  ASSUME LimitOK, LimitIsStrictest, NEW q \in Rates, asked' = asked \cup {q},
         \/ limit' = q /\ (limit = 0 \/ q < limit)
         \/ limit' = limit /\ limit # 0 /\ limit <= q
  PROVE  LimitIsStrictest'
<1>1. Rates \subseteq Nat \ {0}
  BY FromAssumptions DEF Assumptions
<1>2. CASE asked = {}
  BY <1>1, <1>2 DEF LimitOK, LimitIsStrictest
<1>3. CASE asked # {}
  <2>1. limit \in asked /\ limit # 0 /\ \A r \in asked : r \in Nat /\ limit <= r
    BY <1>1, <1>3 DEF LimitOK, LimitIsStrictest
  <2>2. CASE limit' = q /\ q < limit
    BY <1>1, <2>1, <2>2 DEF LimitIsStrictest
  <2>3. CASE limit' = limit /\ limit <= q
    BY <1>1, <2>1, <2>3 DEF LimitIsStrictest
  <2> QED
    BY <2>1, <2>2, <2>3
<1> QED
  BY <1>2, <1>3

LEMMA StrictestStep == ASSUME LimitInv, NEW p \in Procs, Act(p) PROVE LimitIsStrictest'
<1> USE DEF LimitInv, TypeInv
<1>0. /\ LimitOK /\ Rates \subseteq Nat \ {0}
      /\ pc[p] \in Setting => cached /\ want[p] \in Rates
  BY TypeParts, FromAssumptions DEF LimitOK, Setters, Assumptions
<1>1. CASE Create(p)
  <2>1. CASE cached
    BY <1>1, <2>1 DEF Create, limitVars, LimitIsStrictest
  <2>2. CASE ~cached
    BY <1>1, <2>2 DEF Create, NewClient, NothingAsked, LimitIsStrictest
  <2> QED
    BY <2>1, <2>2
<1>2. CASE ClearRateLimit(p)
  BY <1>2 DEF ClearRateLimit, LimitIsStrictest
<1>3. CASE LoadLimit(p)
  <2>1. CASE limit # 0 /\ limit <= want[p]
    BY <1>0, <1>3, <2>1, AskLimit DEF LoadLimit, EndSetting, Setting
  <2>2. CASE ~(limit # 0 /\ limit <= want[p])
    BY <1>3, <2>2 DEF LoadLimit, LimitIsStrictest
  <2> QED
    BY <2>1, <2>2
<1>4. CASE SwapLimit(p)
  <2>1. CASE limit = old[p]
    <3>1. limit = 0 \/ want[p] < limit
      BY <1>4, <2>1 DEF SwapLimit, Stricter
    <3> QED
      BY <1>0, <1>4, <2>1, <3>1, AskLimit DEF SwapLimit, EndSetting, Setting
  <2>2. CASE limit # old[p]
    BY <1>4, <2>2 DEF SwapLimit, LimitIsStrictest
  <2> QED
    BY <2>1, <2>2
<1>5. CASE SetRateLimit(p) \/ UNCHANGED limitVars
  BY <1>5 DEF SetRateLimit, limitVars, LimitIsStrictest
<1> QED
  BY <1>1, <1>2, <1>3, <1>4, <1>5, LimitFrame

LEMMA LimitStep == LimitInv /\ [Next]_vars => LimitInv'
<1> SUFFICES ASSUME LimitInv, [Next]_vars PROVE (NothingAsked /\ Stricter /\ LimitIsStrictest)'
  BY TypeStep DEF LimitInv
<1>1. CASE UNCHANGED <<cached, asked, limit, want, old, pc>>
  BY <1>1 DEF LimitInv, NothingAsked, Stricter, LimitIsStrictest
<1>2. ASSUME NEW p \in Procs, Act(p) PROVE (NothingAsked /\ Stricter /\ LimitIsStrictest)'
  <2> USE DEF LimitInv, TypeInv
  <2>0. CallOK /\ LimitOK /\ Rates \subseteq Nat \ {0} /\ (pc[p] \in Setting => cached /\ want[p] # 0)
    BY TypeParts, FromAssumptions DEF Setters, Assumptions
  <2>1. NothingAsked'
    <3>1. cached => cached'
      BY <1>2, CacheFrame DEF Create, Return, cacheVars
    <3>2. asked' = asked \/ asked' = {} \/ cached
      BY <1>2, <2>0, LimitFrame
      DEF Create, NewClient, SetRateLimit, ClearRateLimit, LoadLimit, SwapLimit, limitVars, Setting
    <3> QED
      BY <3>1, <3>2 DEF NothingAsked
  <2>2. Stricter'
    <3> SUFFICES ASSUME NEW q \in Procs, pc'[q] = "swap" PROVE old'[q] = 0 \/ want'[q] < old'[q]
      BY DEF Stricter
    <3>1. CASE q # p
      BY <1>2, <3>1, Others DEF Stricter
    <3>2. CASE LoadLimit(p) /\ q = p
      <4>1. limit \in Nat /\ want[p] \in Nat
        <5>1. Rates \cup {0} \subseteq Nat
          BY FromAssumptions DEF Assumptions
        <5> QED
          BY <2>0, <5>1 DEF LimitOK
      <4>2. /\ old' = [old EXCEPT ![p] = limit] /\ UNCHANGED want
            /\ ~(limit # 0 /\ limit <= want[p])
        BY <2>0, <3>2 DEF LoadLimit, EndSetting, Goto, CallOK
      <4>3. old'[p] = limit
        BY <2>0, <4>2 DEF LimitOK
      <4> QED
        BY <3>2, <4>1, <4>2, <4>3
    <3>3. CASE (SetRateLimit(p) \/ SwapLimit(p)) /\ q = p
      BY <2>0, <3>3 DEF SetRateLimit, SwapLimit, EndSetting, Goto, CallOK
    <3>4. CASE q = p /\ ~LoadLimit(p) /\ ~SetRateLimit(p) /\ ~SwapLimit(p)
      <4>1. pc'[p] \in Setting
        BY <3>4 DEF Setting
      <4>2. pc[p] = "swap"
        BY <1>2, <3>4, <4>1, Moves
      <4>3. UNCHANGED <<want, old>>
        BY <1>2, <3>4, LimitFrame DEF Create, NewClient, ClearRateLimit, limitVars
      <4> QED
        BY <3>4, <4>2, <4>3 DEF Stricter
    <3> QED
      BY <3>1, <3>2, <3>3, <3>4
  <2> QED
    BY <1>2, <2>1, <2>2, StrictestStep
<1>3. CASE Expire \/ Revoke
  BY <1>1, <1>3 DEF Expire, Revoke, cacheVars, limitVars, callVars
<1> QED
  BY <1>1, <1>2, <1>3 DEF Next, Act, vars, cacheVars, limitVars, callVars

(* The limiter that the tasks of an account share is the strictest they    *)
(* asked for since the last clear, however their compare-and-swaps mix.    *)
THEOREM StrictestWins == Spec => []LimitIsStrictest
<1>1. Init => LimitInv
  BY TypeInit DEF Init, LimitInv, NothingAsked, Stricter, LimitIsStrictest
<1>2. LimitInv => LimitIsStrictest
  BY DEF LimitInv
<1> QED
  BY <1>1, <1>2, LimitStep, PTL DEF Spec

-----------------------------------------------------------------------------
(***************************************************************************)
(* The mark of a login.                                                    *)
(***************************************************************************)
Storing == {"store", "storeForced"}
Marked  == /\ refreshing => loginMu # None
           /\ \A p \in Procs : pc[p] \in Storing => ~refreshing
MarkInv == TypeInv /\ Marked

\* What a login does to the lock and the mark.
LEMMA MarkMoves ==
  ASSUME TypeInv, NEW p \in Procs, Act(p)
  PROVE  \/ loginMu' = p /\ refreshing' /\ loginMu = None
         \/ loginMu' = loginMu /\ refreshing' = refreshing /\ pc'[p] \notin Storing \ {pc[p]}
         \/ loginMu' = loginMu /\ ~refreshing' /\ loginMu = p
         \/ loginMu' = None /\ refreshing' = FALSE /\ loginMu = p
         \/ loginMu' = None /\ refreshing' = refreshing /\ pc[p] \in Storing /\ loginMu = p
<1>0. CallOK /\ Held
  BY TypeParts DEF TypeInv
<1>1. CASE LockForced(p)
  BY <1>1 DEF LockForced, StartLogin
<1>2. CASE LockLogin(p)
  BY <1>0, <1>2 DEF CallOK, LockLogin, StartLogin, loginVars, Goto, Storing
<1>3. CASE LoginBackoff(p) \/ LoginToken(p)
  BY <1>3 DEF LoginBackoff, LoginToken, callVars
<1>4. CASE LoginSend(p)
  BY <1>0, <1>4 DEF LoginSend, LoginSucceeds, LoginFails, EndLogin, callVars, Held, Logging
<1>5. CASE Store(p)
  BY <1>0, <1>5 DEF Store, EndLogin, Storing, Held, Logging
<1>6. CASE UNCHANGED loginVars /\ ~LockLogin(p) /\ ~LockForced(p) /\ ~LoginSend(p)
  BY <1>6, Moves DEF TypeInv, loginVars, Storing, Logging
<1> QED
  BY <1>1, <1>2, <1>3, <1>4, <1>5, <1>6, LoginFrame

LEMMA MarkStep == MarkInv /\ [Next]_vars => MarkInv'
<1> SUFFICES ASSUME MarkInv, [Next]_vars PROVE Marked'
  BY TypeStep DEF MarkInv
<1>0. Held /\ LoginOK /\ None \notin Procs
  BY TypeParts, FromAssumptions DEF MarkInv, TypeInv, Assumptions
<1>1. CASE UNCHANGED <<refreshing, loginMu, pc>>
  BY <1>1 DEF MarkInv, Marked
<1>2. ASSUME NEW p \in Procs, Act(p) PROVE Marked'
  <2>1. refreshing' => loginMu' # None
    BY <1>0, <1>2, MarkMoves DEF MarkInv, Marked, LoginOK
  <2>2. ASSUME NEW q \in Procs, q # p, pc'[q] \in Storing PROVE ~refreshing'
    <3>1. pc[q] \in Storing /\ loginMu = q
      BY <1>0, <1>2, <2>2, Others DEF MarkInv, TypeInv, Held, Storing, Logging
    <3> QED
      BY <1>0, <1>2, <2>2, <3>1, MarkMoves DEF MarkInv, Marked
  <2>3. ASSUME pc'[p] \in Storing PROVE ~refreshing'
    <3>1. CASE LockLogin(p) \/ LockForced(p)
      BY <2>3, <3>1, TypeParts
      DEF MarkInv, TypeInv, CallOK, LockLogin, LockForced, Goto, Storing
    <3>2. ~LockLogin(p) /\ ~LockForced(p) => loginMu' # p \/ loginMu # None
      BY <1>0, <1>2, MarkMoves, LoginFrame
      DEF LoginBackoff, LoginToken, LoginSend, LoginSucceeds, LoginFails, Store, EndLogin,
          loginVars, LoginOK
    <3> QED
      BY <1>0, <1>2, <2>3, <3>1, <3>2, MarkMoves DEF MarkInv, Marked
  <2> QED
    BY <2>1, <2>2, <2>3 DEF Marked
<1>3. CASE Expire \/ Revoke
  BY <1>1, <1>3 DEF Expire, Revoke, loginVars, callVars
<1> QED
  BY <1>1, <1>2, <1>3 DEF Next, Act, vars, loginVars, callVars

\* A request goes on with what getToken gives it.
LEMMA GoesOn ==
  ASSUME TypeInv, NEW p \in Procs, Act(p), NEW q \in Procs, pc[q] = "token", pc'[q] = "send"
  PROVE  q = p /\ ReadToken(p) /\ (exp = "expired" => refreshing)
<1>0. CallOK
  BY TypeParts DEF TypeInv
<1>1. q = p
  BY Others DEF TypeInv
<1>2. CASE ReadToken(p)
  BY <1>0, <1>1, <1>2 DEF CallOK, ReadToken, MustRefresh, Goto
<1>3. CASE GetClient(p) \/ Create(p) \/ Call(p) \/ Return(p) \/ Wait(p) \/ Cancel(p)
           \/ Send(p) \/ Backoff(p)
  BY <1>1, <1>3 DEF GetClient, Create, Call, Return, Wait, Cancel, Send, Backoff, Ends
<1>4. CASE \/ LockLogin(p) \/ LockForced(p) \/ LoginBackoff(p) \/ LoginToken(p)
           \/ LoginSend(p) \/ Store(p)
  BY <1>1, <1>4 DEF LockLogin, LockForced, LoginBackoff, LoginToken, LoginSend, Store
<1>5. CASE SetRateLimit(p) \/ ClearRateLimit(p) \/ LoadLimit(p) \/ SwapLimit(p)
  BY <1>1, <1>5 DEF SetRateLimit, ClearRateLimit, LoadLimit, SwapLimit, callVars
<1> QED
  BY <1>1, <1>2, <1>3, <1>4, <1>5 DEF Act, Step, User

(* No request goes on with an expired token once no login is in progress:  *)
(* the mark that lets it do so never outlives its login.                   *)
THEOREM StaleMeanwhile == Spec => StaleOnlyMeanwhile
<1>1. Init => MarkInv
  BY TypeInit DEF Init, MarkInv, Marked, Storing
<1>2. MarkInv /\ [Next]_vars =>
        [\A p \in Procs : pc[p] = "token" /\ pc'[p] = "send" /\ exp = "expired"
                          => loginMu # None]_vars
  <2> SUFFICES ASSUME MarkInv, [Next]_vars, NEW q \in Procs,
                      pc[q] = "token", pc'[q] = "send", exp = "expired"
               PROVE  loginMu # None
    OBVIOUS
  <2>1. pc' # pc
    OBVIOUS
  <2>2. PICK p \in Procs : Act(p)
    BY <2>1 DEF Next, Act, Expire, Revoke, vars, callVars
  <2> QED
    BY <2>2, GoesOn DEF MarkInv, Marked
<1> QED
  BY <1>1, <1>2, MarkStep, PTL DEF Spec, StaleOnlyMeanwhile

-----------------------------------------------------------------------------
(***************************************************************************)
(* The token.  Until a client is cached, only its creator uses it; what a  *)
(* login was given is as good as the token it replaces, unless revoked.    *)
(***************************************************************************)
OneCreator   == \A p \in Procs : pc[p] \notin {"idle", "create"} => cached \/ clientsMu = p
FreshIsGood  == \A p \in Procs : pc[p] \in Storing /\ token = "good" => fresh = "good"
TokenInv     == TypeInv /\ OneCreator /\ FreshIsGood

LEMMA CreatorStep ==
  ASSUME TypeInv, OneCreator, NEW p \in Procs, Act(p) PROVE OneCreator'
<1> SUFFICES ASSUME NEW q \in Procs, pc'[q] \notin {"idle", "create"}
             PROVE  cached' \/ clientsMu' = q
  BY DEF OneCreator
<1>0. CallOK /\ LimitOK /\ Setters /\ None \notin Procs
  BY TypeParts, FromAssumptions DEF TypeInv, Assumptions
<1>1. cached => cached'
  BY CacheFrame DEF Create, Return, cacheVars
<1>2. CASE q # p
  <2>1. pc[q] \notin {"idle", "create"}
    BY <1>2, Others DEF TypeInv
  <2> QED
    <3>1. cached \/ clientsMu = q
      BY <2>1 DEF OneCreator
    <3>2. clientsMu = q => clientsMu' = q \/ cached'
      BY <1>0, <1>2, CacheFrame DEF Create, Return, cacheVars
    <3> QED
      BY <1>1, <3>1, <3>2
<1>3. CASE q = p
  <2>1. CASE Create(p)
    BY <1>0, <1>3, <2>1 DEF CallOK, Create, Goto
  <2>2. CASE Return(p)
    BY <1>0, <1>3, <2>2 DEF CallOK, Return, Goto
  <2>3. CASE GetClient(p)
    BY <1>0, <1>3, <2>3 DEF CallOK, GetClient, Goto
  <2>4. CASE Call(p) \/ SetRateLimit(p)
    BY <1>1, <2>4 DEF Call, SetRateLimit
  <2>5. CASE UNCHANGED cacheVars /\ pc[p] \notin {"idle", "create"}
    BY <1>3, <2>5 DEF OneCreator, cacheVars
  <2>6. CASE ClearRateLimit(p)
    BY <1>3, <2>6 DEF ClearRateLimit, callVars, cacheVars, OneCreator
  <2>7. CASE Wait(p) \/ Cancel(p) \/ ReadToken(p) \/ Send(p) \/ Backoff(p) \/ LoadLimit(p) \/ SwapLimit(p)
    BY <2>5, <2>7 DEF Wait, Cancel, ReadToken, Send, Backoff, LoadLimit, SwapLimit
  <2>8. CASE \/ LockLogin(p) \/ LockForced(p) \/ LoginBackoff(p) \/ LoginToken(p)
             \/ LoginSend(p) \/ Store(p)
    BY <2>5, <2>8 DEF LockLogin, LockForced, LoginBackoff, LoginToken, LoginSend, Store
  <2> QED
    BY <2>1, <2>2, <2>3, <2>4, <2>6, <2>7, <2>8 DEF Act, Step, User
<1> QED
  BY <1>2, <1>3

\* Nobody else uses a client that is being created.
LEMMA CreateAlone ==
  ASSUME OneCreator, NEW p \in Procs, Create(p), ~cached, NEW q \in Procs
  PROVE  pc[q] \in {"idle", "create"}
BY FromAssumptions DEF Assumptions, OneCreator, Create

LEMMA FreshStep == ASSUME TokenInv, NEW p \in Procs, Act(p) PROVE FreshIsGood'
<1> SUFFICES ASSUME NEW q \in Procs, pc'[q] \in Storing, token' = "good" PROVE fresh' = "good"
  BY DEF FreshIsGood
<1>0. CallOK /\ Held /\ TypeOK
  BY TypeParts DEF TokenInv, TypeInv
<1>1. CASE Create(p)
  <2>1. pc'[q] = pc[q] \/ q = p
    BY <1>0, <1>1, Others
  <2>2. cached
    BY <1>0, <1>1, <2>1, CreateAlone
    DEF TokenInv, CallOK, Create, Begin, Goto, Storing
  <2> QED
    BY <1>0, <1>1, <2>1, <2>2 DEF CallOK, Create, Goto, Storing, tokenVars, TokenInv, FreshIsGood
<1>2. CASE LoginSend(p)
  <2>1. CASE LoginSucceeds(p)
    BY <2>1 DEF LoginSucceeds
  <2>2. CASE LoginFails(p)
    <3>1. pc[q] \in Storing
      BY <1>0, <1>2, <2>2, Others DEF CallOK, LoginFails, Resume, Again, Goto, Storing
    <3> QED
      BY <2>2, <3>1 DEF LoginFails, tokenVars, TokenInv, FreshIsGood
  <2>3. CASE UNCHANGED <<tokenVars, callVars>>
    BY <2>3 DEF tokenVars, callVars, TokenInv, FreshIsGood
  <2> QED
    BY <1>2, <2>1, <2>2, <2>3 DEF LoginSend
<1>3. CASE Store(p)
  <2>1. q # p
    BY <1>0, <1>3 DEF CallOK, Store, Resume, Again, Goto, Storing
  <2>2. pc[q] \in Logging /\ pc[p] \in Logging
    BY <1>0, <1>3, <2>1, Others DEF Store, Storing, Logging
  <2> QED
    BY <1>0, <2>1, <2>2 DEF Held
<1>4. CASE UNCHANGED tokenVars /\ ~LoginSend(p)
  <2>1. pc[q] \in Storing
    <3>1. CASE q # p
      BY <1>0, <3>1, Others
    <3>2. CASE q = p /\ (LockLogin(p) \/ LockForced(p))
      BY <1>0, <3>2 DEF CallOK, LockLogin, LockForced, Goto, Storing
    <3>3. CASE q = p /\ ~LockLogin(p) /\ ~LockForced(p)
      BY <1>0, <1>4, <3>3, Moves DEF Storing, Logging
    <3> QED
      BY <3>1, <3>2, <3>3
  <2> QED
    BY <1>4, <2>1 DEF tokenVars, TokenInv, FreshIsGood
<1> QED
  BY <1>1, <1>2, <1>3, <1>4, TokenFrame

LEMMA TokenStep == TokenInv /\ [Next]_vars => TokenInv'
<1> SUFFICES ASSUME TokenInv, [Next]_vars PROVE OneCreator' /\ FreshIsGood'
  BY TypeStep DEF TokenInv
<1>1. CASE UNCHANGED <<cacheVars, pc>> /\ (UNCHANGED <<token, fresh>> \/ token' = "bad")
  BY <1>1 DEF TokenInv, OneCreator, FreshIsGood, cacheVars
<1>2. ASSUME NEW p \in Procs, Act(p) PROVE OneCreator' /\ FreshIsGood'
  BY <1>2, CreatorStep, FreshStep DEF TokenInv
<1>3. CASE Expire \/ Revoke
  BY <1>1, <1>3 DEF Expire, Revoke, callVars
<1> QED
  BY <1>1, <1>2, <1>3 DEF Next, Act, vars, cacheVars, tokenVars, callVars

(* A token the server accepts is replaced by no worse one: logins that     *)
(* fail, race or overtake each other never cost a cached client its token. *)
THEOREM TokenIsKept == Spec => KeepsToken
<1>1. Init => TokenInv
  BY TypeInit DEF Init, TokenInv, OneCreator, FreshIsGood, Storing
<1>2. TokenInv /\ [Next]_vars =>
        [cached /\ token = "good" /\ token' = "bad" => Revoke]_vars
  <2> SUFFICES ASSUME TokenInv, [Next]_vars, cached, token = "good", token' = "bad" PROVE Revoke
    OBVIOUS
  <2>1. ASSUME NEW p \in Procs, Act(p) PROVE FALSE
    <3>1. CASE Create(p)
      BY <3>1 DEF Create, tokenVars
    <3>2. CASE LoginSend(p)
      BY <3>2 DEF LoginSend, LoginSucceeds, LoginFails, tokenVars
    <3>3. CASE Store(p)
      BY <3>3 DEF Store, TokenInv, FreshIsGood, Storing
    <3> QED
      BY <2>1, <3>1, <3>2, <3>3, TokenFrame DEF tokenVars
  <2> QED
    BY <2>1 DEF Next, Act, Expire, vars, tokenVars
<1> QED
  BY <1>1, <1>2, TokenStep, PTL DEF Spec, KeepsToken

-----------------------------------------------------------------------------
(***************************************************************************)
(* The one chance to refresh.  A request that has used it was given a good *)
(* token then, and the token it will read or has read is good ever since,  *)
(* unless it has an excuse.                                                *)
(***************************************************************************)
Waits        == {"wait", "token", "lock", "send", "backoff", "login", "store"}
Refreshed(p) == req[p].refreshed401 /\ pc[p] \in Waits
ChanceKept   == \A p \in Procs : ~excuse[p] =>
                  /\ Refreshed(p) => token = "good" /\ (pc[p] = "send" => header[p] = "good")
                  /\ pc[p] = "storeForced" => fresh = "good"
ChanceInv    == TokenInv /\ ChanceKept /\ Authorized

\* The request of another goroutine.
LEMMA ChanceOfOthers ==
  ASSUME ChanceInv, NEW p \in Procs, Act(p), NEW q \in Procs, q # p, ~excuse'[q]
  PROVE  /\ Refreshed(q)' => token' = "good" /\ (pc'[q] = "send" => header'[q] = "good")
         /\ pc'[q] = "storeForced" => fresh' = "good"
<1> USE DEF ChanceInv, TokenInv, TypeInv
<1>0. Held
  BY TypeParts
<1>1. /\ pc'[q] = pc[q] /\ req'[q] = req[q] /\ header'[q] = header[q] /\ excuse'[q] = excuse[q]
      /\ Refreshed(q)' <=> Refreshed(q)
  BY Others DEF Refreshed
<1>2. CASE Create(p)
  <2>1. CASE cached
    BY <1>1, <1>2, <2>1 DEF Create, tokenVars, ChanceKept
  <2>2. CASE ~cached
    BY <1>1, <1>2, <2>2, CreateAlone DEF Refreshed, Waits
  <2> QED
    BY <2>1, <2>2
<1>3. CASE LoginSend(p)
  BY <1>1, <1>3 DEF LoginSend, LoginSucceeds, LoginFails, tokenVars, ChanceKept
<1>4. CASE Store(p)
  <2>1. pc[q] # "storeForced" /\ token' = fresh /\ (token = "good" => fresh = "good")
    BY <1>0, <1>4 DEF Store, Held, Logging, FreshIsGood, Storing
  <2> QED
    BY <1>1, <2>1 DEF ChanceKept
<1>5. CASE UNCHANGED tokenVars
  BY <1>1, <1>5 DEF tokenVars, ChanceKept
<1> QED
  BY <1>2, <1>3, <1>4, <1>5, TokenFrame

\* The goroutine's own request.
LEMMA ChanceOfOwn ==
  ASSUME ChanceInv, NEW p \in Procs, Act(p), ~excuse'[p]
  PROVE  /\ Refreshed(p)' => token' = "good" /\ (pc'[p] = "send" => header'[p] = "good")
         /\ pc'[p] = "storeForced" => fresh' = "good"
<1> USE DEF ChanceInv, TokenInv, TypeInv, Goto, cacheVars, tokenVars, loginVars, limitVars, callVars
<1>0. CallOK
  BY TypeParts
<1> USE <1>0 DEF CallOK, Refreshed, Waits
<1>1. CASE GetClient(p) \/ Return(p) \/ Cancel(p)
  BY <1>1 DEF GetClient, Return, Cancel, Ends
<1>2. CASE Create(p) \/ Call(p)
  <2>1. pc'[p] = "idle" \/ (pc'[p] = "wait" /\ ~req'[p].refreshed401)
    BY <1>2 DEF Create, Call, Begin, NewRequest, Request
  <2> QED
    BY <2>1
<1>3. CASE Wait(p)
  BY <1>3 DEF Wait, ChanceKept
<1>4. CASE ReadToken(p)
  BY <1>4 DEF ReadToken, ChanceKept
<1>5. CASE Send(p)
  <2>1. \/ pc'[p] \notin Waits \cup {"storeForced"}
        \/ pc'[p] = "backoff" /\ UNCHANGED req
    BY <1>5 DEF Send, Outcome
  <2> QED
    BY <1>5, <2>1 DEF Send, ChanceKept
<1>6. CASE Backoff(p)
  BY <1>6 DEF Backoff, Again, Request, ChanceKept
<1>7. CASE LockLogin(p) \/ LockForced(p)
  BY <1>7 DEF LockLogin, LockForced, ChanceKept
<1>8. CASE LoginBackoff(p) \/ LoginToken(p)
  BY <1>8 DEF LoginBackoff, LoginToken, ChanceKept
<1>9. CASE LoginSend(p)
  <2>1. CASE LoginFails(p)
    BY <2>1 DEF LoginFails
  <2>2. CASE LoginSucceeds(p)
    BY <1>9, <2>2 DEF LoginSend, LoginSucceeds, ChanceKept
  <2>3. CASE UNCHANGED <<tokenVars, callVars>>
    BY <2>3 DEF ChanceKept
  <2> QED
    BY <1>9, <2>1, <2>2, <2>3 DEF LoginSend
<1>10. CASE Store(p)
  <2>1. CASE pc[p] = "store"
    <3>1. Refreshed(p) => fresh = "good"
      BY <1>10, <2>1 DEF Store, ChanceKept, FreshIsGood, Storing
    <3> QED
      BY <1>10, <2>1, <3>1 DEF Store, Resume
  <2>2. CASE pc[p] = "storeForced"
    BY <1>10, <2>2 DEF Store, Resume, Again, ChanceKept
  <2> QED
    BY <1>10, <2>1, <2>2 DEF Store
<1>11. CASE SetRateLimit(p) \/ ClearRateLimit(p) \/ LoadLimit(p) \/ SwapLimit(p)
  BY <1>11 DEF SetRateLimit, ClearRateLimit, LoadLimit, SwapLimit, EndSetting
<1> QED
  BY <1>1, <1>2, <1>3, <1>4, <1>5, <1>6, <1>7, <1>8, <1>9, <1>10, <1>11 DEF Act, Step, User

\* Only an answer to a token that was good and no longer is refuses a request.
LEMMA AuthorizedStep == ASSUME ChanceInv, NEW p \in Procs, Act(p) PROVE Authorized'
<1> USE DEF ChanceInv, TokenInv, TypeInv, Goto, cacheVars, tokenVars, loginVars, limitVars, callVars
<1> SUFFICES ASSUME NEW q \in Procs, pc'[q] = "refused" PROVE excuse'[q]
  BY DEF Authorized
<1>0. CallOK
  BY TypeParts
<1>1. CASE q # p
  BY <1>1, Others DEF Authorized
<1>2. CASE q = p /\ Send(p)
  <2>1. PICK answer \in Answers(header[p]) :
          pc' = [pc EXCEPT ![p] =
                  CASE answer = "unauthorized" /\ ~req[p].refreshed401 -> "lockForced"
                    [] req[p].retry /\ Repeats(answer, req[p].attempt) -> "backoff"
                    [] OTHER -> Outcome(answer)]
    BY <1>2 DEF Send, Answers, Repeats
  <2>2. Outcome(answer) = "refused" => answer = "unauthorized"
    BY DEF Outcome
  <2>3. answer = "unauthorized" /\ req[p].refreshed401
    BY <1>0, <1>2, <2>1, <2>2 DEF CallOK
  <2>4. Refreshed(p) /\ pc[p] = "send" /\ header[p] # "good"
    BY <1>2, <2>3 DEF Send, Refreshed, Waits, Answers
  <2> QED
    BY <1>2, <2>4 DEF ChanceKept, Send
<1>3. CASE q = p /\ (GetClient(p) \/ Create(p) \/ Call(p) \/ Return(p) \/ Wait(p) \/ Cancel(p))
  BY <1>0, <1>3 DEF CallOK, GetClient, Create, Call, Return, Begin, Wait, Cancel
<1>4. CASE q = p /\ (ReadToken(p) \/ Backoff(p) \/ LockLogin(p) \/ LockForced(p))
  BY <1>0, <1>4 DEF CallOK, ReadToken, Backoff, Again, LockLogin, LockForced
<1>5. CASE q = p /\ (LoginBackoff(p) \/ LoginToken(p) \/ LoginSend(p) \/ Store(p))
  BY <1>0, <1>5
  DEF CallOK, LoginBackoff, LoginToken, LoginSend, LoginSucceeds, LoginFails, Store, Resume, Again
<1>6. CASE q = p /\ (SetRateLimit(p) \/ ClearRateLimit(p) \/ LoadLimit(p) \/ SwapLimit(p))
  BY <1>0, <1>6 DEF CallOK, SetRateLimit, ClearRateLimit, LoadLimit, SwapLimit, EndSetting
<1> QED
  BY <1>1, <1>2, <1>3, <1>4, <1>5, <1>6 DEF Act, Step, User

LEMMA ChanceStep == ChanceInv /\ [Next]_vars => ChanceInv'
<1> SUFFICES ASSUME ChanceInv, [Next]_vars PROVE ChanceKept' /\ Authorized'
  BY TokenStep DEF ChanceInv
<1>1. CASE UNCHANGED <<pc, req, header, excuse, token, fresh>>
  BY <1>1 DEF ChanceInv, ChanceKept, Authorized, Refreshed
<1>2. ASSUME NEW p \in Procs, Act(p) PROVE ChanceKept' /\ Authorized'
  <2>1. ChanceKept'
    BY <1>2, ChanceOfOthers, ChanceOfOwn DEF ChanceKept
  <2> QED
    BY <1>2, <2>1, AuthorizedStep
<1>3. CASE Expire
  BY <1>1, <1>3 DEF Expire, callVars
<1>4. CASE Revoke
  <2>1. /\ UNCHANGED <<pc, req>>
        /\ \A p \in Procs : excuse[p] \/ pc[p] \in Sending => excuse'[p]
    BY <1>4 DEF Revoke
  <2>2. Waits \cup {"storeForced"} \subseteq Sending
    BY DEF Waits, Sending, Logging
  <2> QED
    BY <2>1, <2>2 DEF ChanceInv, ChanceKept, Authorized, Refreshed
<1> QED
  BY <1>1, <1>2, <1>3, <1>4 DEF Next, Act, vars, tokenVars, callVars

(* A request is refused only if its token was revoked while it ran or a    *)
(* login of its own failed; the logins of others never use up its chance.  *)
THEOREM RefusedForCause == Spec => []Authorized
<1>1. Init => ChanceInv
  <2>1. Init => \A p \in Procs : pc[p] = "idle" /\ ~Refreshed(p)
    BY DEF Init, Refreshed, Waits
  <2> QED
    BY <2>1, TypeInit
    DEF Init, ChanceInv, TokenInv, OneCreator, FreshIsGood, Storing, ChanceKept, Authorized
<1>2. ChanceInv => Authorized
  BY DEF ChanceInv
<1> QED
  BY <1>1, <1>2, ChanceStep, PTL DEF Spec

-----------------------------------------------------------------------------
(***************************************************************************)
(* Who waits for whom.  The creator of the client may wait for a login,    *)
(* never the other way round, and a login sees the mark it has set.        *)
(***************************************************************************)
\* The goroutine for whose lock p waits.
LoggingIn(p) == pc[p] \in {"login", "forced"}
Waiting(p) ==
  CASE pc[p] = "create" -> clientsMu
    [] pc[p] \in {"lock", "lockForced"} \/ (LoggingIn(p) /\ stage = "lock") -> loginMu
    [] OTHER -> None

\* Whoever holds a lock is at work under it, ...
LoginHeld  == loginMu # None => pc[loginMu] \in Logging
ClientHeld == clientsMu # None => pc[clientsMu] \in Sending \cup Ends
\* ... and a login does not ask for the lock its own goroutine holds.
NoRelock   == stage # "lock" /\ \A p \in Procs : LoggingIn(p) => refreshing
OrderInv   == TypeInv /\ LoginHeld /\ ClientHeld /\ NoRelock

LEMMA LoginHeldStep ==
  ASSUME OrderInv, NEW p \in Procs, Act(p) PROVE LoginHeld'
<1>0. CallOK /\ LoginOK /\ Held /\ TypeOK /\ None \notin Procs
  BY TypeParts, FromAssumptions DEF OrderInv, TypeInv, Assumptions
<1> USE DEF Goto, Logging
<1>1. CASE LockLogin(p) \/ LockForced(p)
  BY <1>0, <1>1, Others DEF LockLogin, LockForced, StartLogin, CallOK, LoginOK, loginVars,
                            OrderInv, LoginHeld
<1>2. CASE LoginBackoff(p) \/ LoginToken(p)
  BY <1>2 DEF LoginBackoff, LoginToken, callVars, OrderInv, LoginHeld
<1>3. CASE LoginSend(p)
  BY <1>0, <1>3 DEF LoginSend, LoginSucceeds, LoginFails, EndLogin, CallOK, callVars, Held,
                    OrderInv, LoginHeld
<1>4. CASE Store(p)
  BY <1>4 DEF Store, EndLogin, LoginHeld
<1>5. CASE UNCHANGED loginVars /\ ~LockLogin(p) /\ ~LockForced(p)
  <2>1. loginMu' = loginMu /\ (loginMu # None => pc[loginMu] \in Logging)
    BY <1>5 DEF loginVars, OrderInv, LoginHeld
  <2>2. CASE pc[p] \notin Logging
    BY <1>0, <2>1, <2>2, Others DEF LoginHeld, LoginOK
  <2>3. CASE pc[p] \in Logging /\ pc'[p] = pc[p]
    BY <1>0, <2>1, <2>3, Others DEF LoginHeld, LoginOK
  <2>4. CASE pc[p] \in Logging /\ (LoginSend(p) \/ Store(p) \/ LoginBackoff(p) \/ LoginToken(p))
    BY <1>0, <1>5, <2>4, <1>2, <1>3, <1>4
  <2> QED
    BY <1>5, <2>2, <2>4
    DEF Act, Step, User, GetClient, Create, Call, Return, Wait, Cancel, ReadToken, Send, Backoff,
        SetRateLimit, ClearRateLimit, LoadLimit, SwapLimit, Ends
<1> QED
  BY <1>1, <1>2, <1>3, <1>4, <1>5, LoginFrame

LEMMA ClientHeldStep ==
  ASSUME OrderInv, NEW p \in Procs, Act(p) PROVE ClientHeld'
<1>0. CallOK /\ CacheOK /\ TypeOK /\ None \notin Procs
  BY TypeParts, FromAssumptions DEF OrderInv, TypeInv, Assumptions
<1> USE DEF Goto, Sending, Ends, Logging
<1>1. CASE Create(p)
  <2>1. CASE cached
    BY <1>1, <2>1 DEF Create, cacheVars, ClientHeld
  <2>2. CASE ~cached
    BY <1>0, <1>1, <2>2 DEF Create, Begin, CallOK, ClientHeld
  <2> QED
    BY <2>1, <2>2
<1>2. CASE Return(p)
  BY <1>0, <1>2, Others DEF Return, CacheOK, OrderInv, ClientHeld
<1>3. CASE UNCHANGED cacheVars /\ clientsMu # p
  BY <1>0, <1>3, Others DEF CacheOK, cacheVars, OrderInv, ClientHeld
<1>4. CASE UNCHANGED cacheVars /\ clientsMu = p
  <2> SUFFICES pc'[p] \in Sending \cup Ends
    BY <1>4 DEF cacheVars, ClientHeld
  <2>0. pc[p] \in Sending \cup Ends
    BY <1>0, <1>4 DEF OrderInv, ClientHeld
  <2>1. CASE Wait(p) \/ Cancel(p) \/ ReadToken(p) \/ Backoff(p)
    BY <1>0, <2>1 DEF Wait, Cancel, ReadToken, Backoff, Again, CallOK
  <2>2. CASE Send(p)
    <3>1. PICK answer \in Answers(header[p]) :
            pc'[p] \in {"lockForced", "backoff", Outcome(answer)}
      BY <1>0, <2>2 DEF Send, CallOK
    <3> QED
      BY <3>1 DEF Outcome
  <2>3. CASE LockLogin(p) \/ LockForced(p) \/ LoginBackoff(p) \/ LoginToken(p)
    BY <1>0, <2>0, <2>3 DEF LockLogin, LockForced, LoginBackoff, LoginToken, CallOK, callVars
  <2>4. CASE LoginSend(p) \/ Store(p)
    BY <1>0, <2>0, <2>4 DEF LoginSend, LoginSucceeds, LoginFails, Store, Resume, Again, CallOK, callVars
  <2> QED
    BY <1>0, <1>2, <1>4, <2>0, <2>1, <2>2, <2>3, <2>4
    DEF Act, Step, User, GetClient, Call, SetRateLimit, ClearRateLimit, LoadLimit, SwapLimit,
        Create, Return, CacheOK, cacheVars, callVars
<1> QED
  BY <1>1, <1>2, <1>3, <1>4, CacheFrame

LEMMA NoRelockStep ==
  ASSUME OrderInv, ~LoginUnauthorized, NEW p \in Procs, Act(p) PROVE NoRelock'
<1>0. CallOK /\ LoginOK /\ Held /\ TypeOK
  BY TypeParts DEF OrderInv, TypeInv
<1> USE DEF Goto, LoggingIn
<1>1. CASE LockLogin(p) \/ LockForced(p)
  <2>1. loginMu = None
    BY <1>1 DEF LockLogin, LockForced
  <2>2. \A q \in Procs : ~LoggingIn(q)
    BY <1>0, <2>1, FromAssumptions DEF Held, Logging, Assumptions
  <2> QED
    BY <1>0, <1>1, <2>2, Others
    DEF LockLogin, LockForced, StartLogin, CallOK, loginVars, OrderInv, NoRelock
<1>2. CASE LoginBackoff(p) \/ LoginToken(p)
  BY <1>2 DEF LoginBackoff, LoginToken, callVars, MustRefresh, OrderInv, NoRelock
<1>3. CASE (LoginSend(p) \/ Store(p)) /\ pc'[p] # pc[p]
  <2>1. stage' = "none" /\ pc[p] \in Logging
    BY <1>3 DEF LoginSend, LoginSucceeds, LoginFails, EndLogin, Store, callVars, Logging
  <2>2. \A q \in Procs : q # p => ~LoggingIn(q)' 
    BY <1>0, <1>3, <2>1, Others DEF Held, Logging
  <2>3. ~LoggingIn(p)'
    BY <1>0, <1>3 DEF LoginSend, LoginSucceeds, LoginFails, Store, Resume, Again, CallOK, callVars
  <2> QED
    BY <2>1, <2>2, <2>3 DEF NoRelock
<1>4. CASE LoginSend(p) /\ pc'[p] = pc[p]
  <2>1. UNCHANGED <<callVars, refreshing>> /\ stage' = "backoff"
    BY <1>0, <1>4, <1>3 DEF LoginSend, LoginSucceeds, LoginFails, Resume, Again, LoginAnswers, CallOK
  <2> QED
    BY <2>1 DEF callVars, OrderInv, NoRelock
<1>5. CASE UNCHANGED loginVars /\ ~LockLogin(p) /\ ~LockForced(p) /\ ~LoginSend(p)
  <2>1. \A q \in Procs : LoggingIn(q)' => LoggingIn(q)
    BY <1>0, <1>5, Others, Moves DEF Logging
  <2> QED
    BY <1>5, <2>1 DEF loginVars, OrderInv, NoRelock
<1>6. CASE Store(p)
  BY <1>0, <1>3, <1>6 DEF Store, Resume, Again, CallOK
<1> QED
  BY <1>1, <1>2, <1>3, <1>4, <1>5, <1>6, LoginFrame

LEMMA OrderStep == ~LoginUnauthorized /\ OrderInv /\ [Next]_vars => OrderInv'
<1> SUFFICES ASSUME ~LoginUnauthorized, OrderInv, [Next]_vars
             PROVE  LoginHeld' /\ ClientHeld' /\ NoRelock'
  BY TypeStep DEF OrderInv
<1>1. CASE UNCHANGED <<clientsMu, loginVars, pc>>
  BY <1>1 DEF OrderInv, LoginHeld, ClientHeld, NoRelock, LoggingIn, loginVars
<1>2. ASSUME NEW p \in Procs, Act(p) PROVE LoginHeld' /\ ClientHeld' /\ NoRelock'
  BY <1>2, LoginHeldStep, ClientHeldStep, NoRelockStep
<1> QED
  BY <1>1, <1>2 DEF Next, Act, Expire, Revoke, vars, cacheVars, callVars

(* GetClient, getToken, forceRefresh: goroutines that wait for one         *)
(* another's locks form no cycle, although a login is a request itself:    *)
(* who waits for the client waits at most for a login, which waits for     *)
(* nobody; provided that no login is answered with status 401.             *)
NoWaitCycle == \A p, q, r \in Procs : Waiting(p) = q /\ Waiting(q) = r => Waiting(r) = None

(* However many goroutines use the client, their waits form no cycle.      *)
THEOREM WaitsEnd == ASSUME ~LoginUnauthorized PROVE Spec => []NoWaitCycle
<1>1. Init => OrderInv
  <2> SUFFICES ASSUME Init PROVE LoginHeld /\ ClientHeld /\ NoRelock
    BY TypeInit DEF OrderInv
  <2> QED
    BY DEF Init, LoginHeld, ClientHeld, NoRelock, LoggingIn
<1>2. OrderInv => NoWaitCycle
  <2> SUFFICES ASSUME OrderInv, NEW p \in Procs, NEW q \in Procs, NEW r \in Procs,
                      Waiting(p) = q, Waiting(q) = r
               PROVE  Waiting(r) = None
    BY DEF NoWaitCycle
  <2>0. None \notin Procs
    BY FromAssumptions DEF Assumptions
  <2>1. pc[q] \in Sending \cup Ends
    BY <2>0 DEF Waiting, OrderInv, LoginHeld, ClientHeld, NoRelock, Sending
  <2>2. r = loginMu
    BY <2>0, <2>1 DEF Waiting, Sending, Ends, Logging
  <2> QED
    BY <2>0, <2>2 DEF Waiting, OrderInv, LoginHeld, NoRelock, LoggingIn, Logging
<1> QED
  BY <1>1, <1>2, OrderStep, PTL DEF Spec
=============================================================================
