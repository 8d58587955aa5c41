------------------------------ MODULE WebLogin ------------------------------
(***************************************************************************)
(* Who gets in at the web inbox: the login throttle, the session tokens    *)
(* and the CSRF check, under one handler thread per request.               *)
(*                                                                         *)
(*   login:  locked_for --> read the form, check the password --> success  *)
(*           or failure recorded                                           *)
(*   post:   session checked --> read the form --> CSRF checked --> acted  *)
(*                                                                         *)
(* Time is counted in ticks, Second of them to the second.  The model      *)
(* keeps how long ago the last failure was and how long a token has left   *)
(* instead of the readings of time.time() that the code subtracts.         *)
(***************************************************************************)
EXTENDS Integers, FiniteSets

CONSTANTS
    Client,       \* addresses that requests come from, one browser each
    Forwarded,    \* what requests may say in X-Forwarded-For
    NoHeader,     \* a request without that header
    Thread,       \* handler threads
    MaxAttempts,  \* MAX_ATTEMPTS
    Lockout,      \* LOCKOUT_SECONDS
    Lifetime,     \* SESSION_LIFETIME, in seconds
    Second,       \* ticks to the second
    (* Bounds for the model checker. *)
    MaxTokens,    \* tokens issued
    StepBack,     \* how far the clock may be set back, in ticks
    MaxFaults     \* how often it is, or the server is restarted

ASSUME ThreadAssumption == IsFiniteSet(Thread) /\ Thread # {}
ASSUME ClientAssumption == Client # {} /\ NoHeader \notin Forwarded
ASSUME AttemptsAssumption == MaxAttempts \in Nat \ {0}
ASSUME TimeAssumption ==
    /\ {Lockout, Lifetime, Second} \subseteq Nat \ {0}
    /\ {StepBack, MaxTokens, MaxFaults} \subseteq Nat

VARIABLES
    attempts,  \* LoginThrottle.attempts, by key: failures and ticks since the last
    step,      \* where each thread is
    req,       \* its request: the browser, the throttle's key for it, the token of
               \* the cookie, the form's page or 0 for a form without a token
    secret,    \* SessionManager.secret
    stable,    \* a session secret is configured
    tokens,    \* issued tokens: the secret that signed them and the ticks left,
               \* or, below zero, since they expired
    cookie,    \* the token in each browser's cookie, 0 for none
    pages,     \* the tokens for which each browser has rendered a page
    (* history *)
    wrong,     \* wrong passwords under a key since its last success or lockout,
               \* or since a restart
    quiet,     \* ticks since the last of them
    late,      \* requests carried out under a token since its session ended
    faults     \* bound

throttle == <<attempts, wrong, quiet>>
sessions == <<secret, stable, tokens>>
browsers == <<cookie, pages>>
vars == <<throttle, step, req, sessions, browsers, late, faults>>

Forgotten == Lockout * Second    \* ages are not told apart from here on
NoFailures == [count |-> 0, age |-> Forgotten]

(* _client: the first entry of X-Forwarded-For, whoever wrote it, and the  *)
(* peer's address where there is none.  A proxy that sets the header makes *)
(* it the browser's address; without one the browser says what it likes.   *)
Keys == Client \cup Forwarded
KeyOf(c, header) == IF header = NoHeader THEN c ELSE header

NoRequest ==
    LET c == CHOOSE c \in Client : TRUE IN [client |-> c, key |-> c, token |-> 0, page |-> 0]
TokenIds == 1..MaxTokens
LongExpired == -(StepBack * MaxFaults)  \* no clock makes such a token valid again
NoToken == [key |-> 0, left |-> LongExpired]
Issued == {i \in TokenIds : tokens[i] # NoToken}

Init ==
    /\ attempts = [k \in Keys |-> NoFailures]
    /\ step = [t \in Thread |-> "free"] /\ req = [t \in Thread |-> NoRequest]
    /\ secret = 1 /\ stable \in BOOLEAN
    /\ tokens = [i \in TokenIds |-> NoToken]
    /\ cookie = [c \in Client |-> 0] /\ pages = [c \in Client |-> {}]
    /\ wrong = [k \in Keys |-> 0] /\ quiet = [k \in Keys |-> Forgotten]
    /\ late = [i \in TokenIds |-> 0] /\ faults = 0

-----------------------------------------------------------------------------
(* The throttle.  int() drops the fraction of a second. *)
OverTheLimit(k) == attempts[k].count > MaxAttempts
AtTheLimit(k) == attempts[k].count >= MaxAttempts
LockedFor(k) ==
    IF AtTheLimit(k) THEN (Forgotten - attempts[k].age) \div Second ELSE 0
Lifted(k) == AtTheLimit(k) /\ LockedFor(k) <= 0
LongQuiet(k) == quiet[k] > Forgotten - Second

Failed(a) == [count |-> a.count + 1, age |-> 0]

Becomes(t, s) == step' = [step EXCEPT ![t] = s]
Done(t) == Becomes(t, "free") /\ req' = [req EXCEPT ![t] = NoRequest]

(* _handle_login up to the password: locked out, or let through, in which  *)
(* case a lockout that has passed is forgotten.                            *)
RefuseAndRenew(t, k) ==
    /\ step[t] = "free" /\ LockedFor(k) > 0
    /\ attempts' = [attempts EXCEPT ![k].age = 0]
    /\ UNCHANGED <<wrong, quiet, step, req, sessions, browsers, late, faults>>
Refuse(t, k) ==
    /\ step[t] = "free" /\ LockedFor(k) > 0
    /\ UNCHANGED vars
Admit(t, c, k) ==
    /\ step[t] = "free" /\ LockedFor(k) <= 0
    /\ attempts' = IF Lifted(k) THEN [attempts EXCEPT ![k] = NoFailures] ELSE attempts
    /\ wrong' = IF LongQuiet(k) THEN [wrong EXCEPT ![k] = 0] ELSE wrong
    /\ Becomes(t, "password")
    /\ req' = [req EXCEPT ![t].client = c, ![t].key = k]
    /\ UNCHANGED <<quiet, sessions, browsers, late, faults>>

WrongPassword(t) ==
    /\ step[t] = "password"
    /\ LET k == req[t].key IN
        /\ attempts' = [attempts EXCEPT ![k] = Failed(@)]
        /\ wrong' = [wrong EXCEPT ![k] = @ + 1]
        /\ quiet' = [quiet EXCEPT ![k] = 0]
    /\ Done(t)
    /\ UNCHANGED <<sessions, browsers, late, faults>>

(* record_success, and issue: the token runs from the whole second. *)
LifespanRoundedUp == (Lifetime * Second)..((Lifetime + 1) * Second - 1)
Lifespan == ((Lifetime - 1) * Second + 1)..(Lifetime * Second)
RightPassword(t) ==
    /\ step[t] = "password"
    /\ LET k == req[t].key IN
        /\ attempts' = [attempts EXCEPT ![k] = NoFailures]
        /\ wrong' = [wrong EXCEPT ![k] = 0]
        /\ quiet' = [quiet EXCEPT ![k] = Forgotten]
    /\ \E i \in TokenIds \ Issued :
        /\ \A j \in TokenIds \ Issued : i <= j
        /\ \E left \in Lifespan :
            tokens' = [tokens EXCEPT ![i] = [key |-> secret, left |-> left]]
        /\ cookie' = [cookie EXCEPT ![req[t].client] = i]
    /\ Done(t)
    /\ UNCHANGED <<secret, stable, pages, late, faults>>

-----------------------------------------------------------------------------
(* The sessions. *)
Valid(i) == i \in Issued /\ tokens[i].key = secret /\ tokens[i].left > 0

(* do_GET: the inbox, whose forms carry the CSRF token of the session. *)
Render(t, c) ==
    /\ step[t] = "free" /\ Valid(cookie[c])
    /\ pages' = [pages EXCEPT ![c] = @ \cup {cookie[c]}]
    /\ UNCHANGED <<throttle, step, req, sessions, cookie, late, faults>>

(* do_POST: the session is checked, and then the form is read. *)
Reading(t, c, page) ==
    /\ Becomes(t, "form")
    /\ req' = [req EXCEPT ![t].client = c, ![t].token = cookie[c], ![t].page = page]
    /\ UNCHANGED <<throttle, sessions, browsers, late, faults>>
PostUntested(t, c, page) ==
    /\ step[t] = "free" /\ cookie[c] \in Issued
    /\ Reading(t, c, page)
Post(t, c, page) ==
    /\ step[t] = "free" /\ Valid(cookie[c])
    /\ Reading(t, c, page)

(* check_csrf: the form's token is derived from the session's. *)
Matches(t) == req[t].page = req[t].token
Forbid(t) ==
    /\ step[t] = "form" /\ ~Matches(t)
    /\ Done(t)
    /\ UNCHANGED <<throttle, sessions, browsers, late, faults>>
Act(t) ==
    /\ step[t] = "form" /\ Matches(t)
    /\ late' = [late EXCEPT ![req[t].token] = IF Valid(req[t].token) THEN 0 ELSE @ + 1]
    /\ Done(t)
    /\ UNCHANGED <<throttle, sessions, browsers, faults>>
(* /logout: the browser forgets the token; the server does not. *)
Logout(t) ==
    /\ step[t] = "form" /\ Matches(t)
    /\ cookie' = [cookie EXCEPT ![req[t].client] = 0]
    /\ Done(t)
    /\ UNCHANGED <<throttle, sessions, pages, late, faults>>

-----------------------------------------------------------------------------
Passes(ticks) ==
    /\ attempts' = [k \in Keys |-> [attempts[k] EXCEPT !.age =
                        IF @ + ticks > Forgotten THEN Forgotten ELSE @ + ticks]]
    /\ tokens' = [i \in TokenIds |-> [tokens[i] EXCEPT !.left =
                        IF @ - ticks < LongExpired THEN LongExpired ELSE @ - ticks]]

Tick ==
    /\ Passes(1)
    /\ quiet' = [k \in Keys |-> IF quiet[k] < Forgotten THEN quiet[k] + 1 ELSE Forgotten]
    /\ UNCHANGED <<wrong, step, req, secret, stable, browsers, late, faults>>

(* The clock is set back: failures look more recent, and tokens live       *)
(* longer, those that have expired included.                               *)
SetBack ==
    /\ StepBack > 0 /\ faults < MaxFaults /\ faults' = faults + 1
    /\ attempts' = [k \in Keys |->
            IF attempts[k].count = 0 THEN attempts[k]
            ELSE [attempts[k] EXCEPT !.age = @ - StepBack]]
    /\ tokens' = [i \in TokenIds |->
            IF i \in Issued THEN [tokens[i] EXCEPT !.left = @ + StepBack] ELSE tokens[i]]
    /\ UNCHANGED <<wrong, quiet, step, req, secret, stable, browsers>>
    /\ late' = [i \in TokenIds |-> IF Valid(i)' THEN 0 ELSE late[i]]

(* A restart: the counters are gone; so are the sessions, unless a secret  *)
(* is configured.                                                          *)
RestartAnew ==
    /\ faults < MaxFaults /\ faults' = faults + 1
    /\ attempts' = [k \in Keys |-> NoFailures]
    /\ step' = [t \in Thread |-> "free"] /\ req' = [t \in Thread |-> NoRequest]
    /\ secret' = secret + 1
    /\ wrong' = [k \in Keys |-> 0] /\ quiet' = [k \in Keys |-> Forgotten]
    /\ UNCHANGED <<stable, tokens, browsers, late>>
Restart ==
    /\ faults < MaxFaults /\ faults' = faults + 1
    /\ attempts' = [k \in Keys |-> NoFailures]
    /\ step' = [t \in Thread |-> "free"] /\ req' = [t \in Thread |-> NoRequest]
    /\ secret' = IF stable THEN secret ELSE secret + 1
    /\ wrong' = [k \in Keys |-> 0] /\ quiet' = [k \in Keys |-> Forgotten]
    /\ UNCHANGED <<stable, tokens, browsers, late>>

Answer(t) ==
    WrongPassword(t) \/ RightPassword(t) \/ Forbid(t) \/ Act(t) \/ Logout(t)

Next ==
    \/ \E t \in Thread : Answer(t)
    \/ \E t \in Thread, c \in Client :
        \/ \E header \in Forwarded \cup {NoHeader} :
            Refuse(t, KeyOf(c, header)) \/ Admit(t, c, KeyOf(c, header))
        \/ Render(t, c)
        \/ \E page \in pages[c] \cup {0} : Post(t, c, page)
    \/ Tick \/ SetBack \/ Restart

Spec == Init /\ [][Next]_vars

(* Time passes. *)
FairSpec == Spec /\ WF_vars(Tick)

-----------------------------------------------------------------------------
(* The shape of the state; no token has longer to live than                *)
(* SESSION_LIFETIME and what the clock was set back.                       *)
TypeOK ==
    /\ attempts \in [Keys -> [count : Nat, age : -(StepBack * MaxFaults)..Forgotten]]
    /\ step \in [Thread -> {"free", "password", "form"}]
    /\ req \in [Thread -> [client : Client, key : Keys, token : Nat, page : Nat]]
    /\ secret \in Nat /\ stable \in BOOLEAN
    /\ tokens \in [TokenIds -> [key : Nat, left : Int]]
    /\ \A i \in TokenIds :
        tokens[i].left \in LongExpired..(Lifetime * Second + StepBack * faults)
    /\ cookie \in [Client -> 0..MaxTokens] /\ pages \in [Client -> SUBSET TokenIds]
    /\ wrong \in [Keys -> Nat] /\ quiet \in [Keys -> 0..Forgotten]
    /\ late \in [TokenIds -> Nat]
    /\ faults \in 0..MaxFaults

(* Under one key, no more than MAX_ATTEMPTS wrong passwords are tried      *)
(* without a success or a pause of a lockout, to the second, in between,   *)
(* however the clock is set back; but for the attempts that were already   *)
(* under way when the last of them failed: at most one for each further    *)
(* handler thread.  This bounds what one address tries only where a proxy  *)
(* sets the header.                                                        *)
GuessesAreBounded ==
    \A k \in Keys : wrong[k] <= MaxAttempts + Cardinality(Thread) - 1

(* The session is tested before the form is read, and what it asks for is  *)
(* done after.  Once a session has ended no more is done under it than the *)
(* requests that had been tested by then, one for each handler thread.     *)
EndedSessionsRunDry == \A i \in TokenIds : late[i] <= Cardinality(Thread)

(* A session ends by its expiry, or by a restart without a configured      *)
(* secret ("a restart invalidates everything only if the secret changes",  *)
(* auth.py:136).  One that expired comes back only if the clock is set     *)
(* back, and one whose secret is gone never does.                          *)
SessionsEndOnce ==
    [][\A i \in TokenIds :
        /\ Valid(i) => Valid(i)' \/ tokens'[i].left < tokens[i].left \/ (faults' > faults /\ ~stable)
        /\ i \in Issued /\ ~Valid(i) /\ Valid(i)' =>
                tokens[i].key = secret /\ tokens'[i].left > tokens[i].left]_vars

(* A lockout ends, even if whoever is locked out keeps trying and even if  *)
(* the clock is set back.                                                  *)
LockoutEnds == \A k \in Keys : LockedFor(k) > 0 ~> LockedFor(k) <= 0
=============================================================================
