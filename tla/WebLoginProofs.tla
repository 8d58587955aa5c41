--------------------------- MODULE WebLoginProofs ---------------------------
(***************************************************************************)
(* Proofs about WebLogin for any number of clients, keys and handler       *)
(* threads, any limits, and a clock that is set back at any moment.                 *)
(*                                                                         *)
(* The bound on guesses is not inductive: a wrong guess is counted when it *)
(* has been tried, so what is under way has to be counted with what has    *)
(* failed.  And a lockout may be forgotten only after a pause that is as   *)
(* long: a failure never looks older than it is.                           *)
(***************************************************************************)
EXTENDS WebLogin, FiniteSetTheorems, TLAPS

UnderWay(k) == {t \in Thread : step[t] = "password" /\ req[t].key = k}

NotFromTheFuture == \A k \in Keys : attempts[k].age >= -(StepBack * faults)
Remembered == \A k \in Keys : wrong[k] <= attempts[k].count
NeverLooksOlder == \A k \in Keys : attempts[k].count > 0 => attempts[k].age <= quiet[k]
CountedWithUnderWay ==
    \A k \in Keys :
        attempts[k].count + Cardinality(UnderWay(k)) <= MaxAttempts + Cardinality(Thread) - 1

TInv == TypeOK /\ NotFromTheFuture
IInv == TInv /\ Remembered /\ NeverLooksOlder /\ CountedWithUnderWay

-----------------------------------------------------------------------------
(* Arithmetic. *)

(* The provers leave products of constants alone: facts about them.        *)
LEMMA Products ==
    /\ Forgotten \in Nat /\ Lifetime * Second \in Nat
    /\ (Lifetime - 1) * Second \in Nat
    /\ \A n \in Nat : StepBack * n \in Nat /\ StepBack * (n + 1) = StepBack * n + StepBack
    /\ \A n \in Nat : n < MaxFaults => StepBack * (n + 1) <= StepBack * MaxFaults
<1>1. Lockout \in Nat /\ Lifetime \in Nat /\ Lifetime - 1 \in Nat /\ Second \in Nat
      /\ StepBack \in Nat /\ MaxFaults \in Nat
  BY TimeAssumption
<1>2. \A a, b \in Nat : a * b \in Nat
  OBVIOUS
<1>3. Forgotten \in Nat /\ Lifetime * Second \in Nat /\ (Lifetime - 1) * Second \in Nat
  BY <1>1, <1>2 DEF Forgotten
<1>4. \A n \in Nat : StepBack * n \in Nat /\ StepBack * (n + 1) = StepBack * n + StepBack
  BY <1>1, <1>2
<1>5. \A b, n, m \in Nat : n < m => b * (n + 1) <= b * m
  OBVIOUS
<1> QED
  BY <1>1, <1>3, <1>4, <1>5

(* The lockout of less than a second that LockedFor leaves out. *)
LEMMA LessThanASecond ==
    ASSUME NEW age \in Int, (Forgotten - age) \div Second <= 0
    PROVE  age > Forgotten - Second
<1>1. Forgotten \in Int /\ Second \in Nat \ {0}
  BY Products, TimeAssumption
<1>2. \A a \in Int, b \in Nat \ {0} : a \div b <= 0 => a < b
  OBVIOUS
<1> QED
  BY <1>1, <1>2

-----------------------------------------------------------------------------
(* Types. *)

(* The type invariant holds at first,                                      *)
LEMMA TypeInitial == Init => TInv
<1> SUFFICES ASSUME Init PROVE TInv
  OBVIOUS
<1>1. NoRequest \in [client : Client, key : Keys, token : Nat, page : Nat]
  BY ClientAssumption DEF NoRequest, Keys
<1>2. StepBack * 0 = 0 /\ 0 \in 0..MaxFaults /\ -(StepBack * MaxFaults) <= 0
  BY Products, TimeAssumption
<1>3. NoFailures \in [count : Nat, age : -(StepBack * MaxFaults)..Forgotten]
  <2>1. StepBack * MaxFaults \in Nat /\ Forgotten \in Nat
    BY Products, TimeAssumption
  <2> QED
    BY <2>1 DEF NoFailures
<1>4. /\ NoToken \in [key : Nat, left : Int]
      /\ NoToken.left \in LongExpired..(Lifetime * Second + StepBack * 0)
  <2>1. LongExpired \in Int /\ LongExpired <= 0
    <3>1. StepBack * MaxFaults \in Nat
      BY Products, TimeAssumption
    <3> QED
      BY <3>1 DEF LongExpired
  <2>2. Lifetime * Second + StepBack * 0 \in Nat
    BY <1>2, Products
  <2> QED
    BY <2>1, <2>2 DEF NoToken
<1>5. NotFromTheFuture
  BY <1>2, Products DEF Init, NotFromTheFuture, NoFailures
<1> QED
  BY <1>1, <1>2, <1>3, <1>4, <1>5, Products, TimeAssumption
     DEF Init, TInv, TypeOK, TokenIds

(* A life that is allowed today is allowed after another fault, and a new  *)
(* token lives no longer than the others may.                              *)
Lives(n) == LongExpired..(Lifetime * Second + StepBack * n)
LEMMA LivesGrow ==
    ASSUME TInv
    PROVE  /\ Lives(faults) \subseteq Lives(faults + 1) /\ Lifespan \subseteq Lives(faults)
           /\ \A l \in Lives(faults) : l + StepBack \in Lives(faults + 1)
           /\ LongExpired \in Int /\ Lives(faults) \subseteq Int
<1>1. /\ StepBack * MaxFaults \in Nat /\ StepBack * faults \in Nat /\ StepBack \in Nat
      /\ StepBack * (faults + 1) = StepBack * faults + StepBack
      /\ Lifetime * Second \in Nat /\ (Lifetime - 1) * Second \in Nat
  BY Products, TimeAssumption DEF TInv, TypeOK
<1>2. LongExpired \in Int /\ LongExpired <= 0
  BY <1>1 DEF LongExpired
<1>3. \A e, h \in Int, b, g, k \in Nat :
        e <= 0 => /\ e..(h + g) \subseteq e..(h + (g + b))
                  /\ (k + 1)..h \subseteq e..(h + g)
                  /\ \A l \in e..(h + g) : l + b \in e..(h + (g + b))
  OBVIOUS
<1> QED
  BY <1>1, <1>2, <1>3 DEF Lives, Lifespan

(* Whatever the header says, the throttle has an entry for it.             *)
LEMMA KeysOfRequests ==
    ASSUME NEW c \in Client, NEW header \in Forwarded \cup {NoHeader}
    PROVE  KeyOf(c, header) \in Keys
  BY DEF KeyOf, Keys

(* What a step may be.  Only some of them are about the sessions. *)
LEMMA StepsAre ==
    ASSUME [Next]_vars
    PROVE  \/ UNCHANGED vars \/ Tick \/ SetBack \/ Restart
           \/ \E t \in Thread : Answer(t) \/ \E c \in Client : Render(t, c)
           \/ \E t \in Thread, c \in Client, k \in Keys : Refuse(t, k) \/ Admit(t, c, k)
           \/ \E t \in Thread, c \in Client : \E page \in pages[c] \cup {0} : Post(t, c, page)
<1>1. ASSUME NEW t \in Thread, NEW c \in Client, NEW header \in Forwarded \cup {NoHeader},
             Refuse(t, KeyOf(c, header)) \/ Admit(t, c, KeyOf(c, header))
      PROVE  \E k \in Keys : Refuse(t, k) \/ Admit(t, c, k)
  BY <1>1, KeysOfRequests
<1> QED
  BY <1>1 DEF Next

LEMMA StepsOfSessions ==
    ASSUME [Next]_vars
    PROVE  \/ UNCHANGED <<secret, tokens>> /\ (UNCHANGED late \/ \E t \in Thread : Act(t))
           \/ Tick \/ SetBack \/ Restart \/ \E t \in Thread : RightPassword(t)
<1> USE DEF sessions
<1>1. ASSUME NEW t \in Thread, NEW c \in Client, NEW k \in Keys,
             Refuse(t, k) \/ Admit(t, c, k) \/ Render(t, c)
      PROVE  UNCHANGED <<secret, tokens, late>>
  BY <1>1 DEF Refuse, Admit, Render, vars
<1>2. ASSUME NEW t \in Thread, NEW c \in Client, NEW page \in pages[c] \cup {0}, Post(t, c, page)
      PROVE  UNCHANGED <<secret, tokens, late>>
  BY <1>2 DEF Post, Reading
<1>3. ASSUME NEW t \in Thread, WrongPassword(t) \/ Forbid(t) \/ Logout(t)
      PROVE  UNCHANGED <<secret, tokens, late>>
  BY <1>3 DEF WrongPassword, Forbid, Logout
<1>4. ASSUME NEW t \in Thread, Act(t) PROVE UNCHANGED <<secret, tokens>>
  BY <1>4 DEF Act
<1>5. UNCHANGED vars => UNCHANGED <<secret, tokens, late>>
  BY DEF vars
<1>6. Keys # {}
  BY ClientAssumption DEF Keys
<1> QED
  BY <1>1, <1>2, <1>3, <1>4, <1>5, <1>6, StepsAre DEF Answer

(* A handler's step keeps the types. *)
LEMMA TypeOfHandlers ==
    ASSUME TInv, NEW t \in Thread, NEW c \in Client, NEW k \in Keys
    PROVE  /\ Refuse(t, k) \/ Admit(t, c, k) \/ Render(t, c) => TInv'
           /\ \A page \in pages[c] \cup {0} : Post(t, c, page) => TInv'
<1> USE DEF TInv, TypeOK, NotFromTheFuture, throttle, sessions, browsers
<1>1. Refuse(t, k) => TInv'
  BY DEF Refuse, vars
<1>2. Admit(t, c, k) => TInv'
  <2> SUFFICES ASSUME Admit(t, c, k) PROVE TInv'
    OBVIOUS
  <2>1. NoFailures \in [count : Nat, age : -(StepBack * MaxFaults)..Forgotten]
    BY Products, TimeAssumption DEF NoFailures
  <2>2. attempts' \in [Keys -> [count : Nat, age : -(StepBack * MaxFaults)..Forgotten]]
    BY <2>1 DEF Admit
  <2>3. req' \in [Thread -> [client : Client, key : Keys, token : Nat, page : Nat]]
    <3>1. req' = [req EXCEPT ![t] = [@ EXCEPT !.client = c, !.key = k]]
      BY DEF Admit
    <3>2. [req[t] EXCEPT !.client = c, !.key = k]
            \in [client : Client, key : Keys, token : Nat, page : Nat]
      OBVIOUS
    <3> QED
      BY <3>1, <3>2
  <2>4. wrong' \in [Keys -> Nat]
    BY DEF Admit
  <2>5. TypeOK'
    BY <2>2, <2>3, <2>4 DEF Admit, Becomes
  <2>6. NotFromTheFuture'
    BY Products, <2>1 DEF Admit, NoFailures
  <2> QED
    BY <2>5, <2>6
<1>3. Render(t, c) => TInv'
  BY DEF Render, Valid, Issued
<1>4. \A page \in pages[c] \cup {0} : Post(t, c, page) => TInv'
  <2> SUFFICES ASSUME NEW page \in pages[c] \cup {0}, Post(t, c, page) PROVE TInv'
    OBVIOUS
  <2>1. page \in Nat /\ cookie[c] \in Nat
    BY TimeAssumption DEF TokenIds
  <2>2. req' \in [Thread -> [client : Client, key : Keys, token : Nat, page : Nat]]
    <3>1. req' = [req EXCEPT ![t] = [@ EXCEPT !.client = c, !.token = cookie[c], !.page = page]]
      BY DEF Post, Reading
    <3>2. req[t] \in [client : Client, key : Keys, token : Nat, page : Nat]
      OBVIOUS
    <3>3. [req[t] EXCEPT !.client = c, !.token = cookie[c], !.page = page]
            \in [client : Client, key : Keys, token : Nat, page : Nat]
      BY <2>1, <3>2
    <3> QED
      BY <3>1, <3>3
  <2>3. TypeOK'
    BY <2>2 DEF Post, Reading, Becomes
  <2>4. NotFromTheFuture'
    BY DEF Post, Reading
  <2> QED
    BY <2>3, <2>4
<1> QED
  BY <1>1, <1>2, <1>3, <1>4

(* An answer keeps them. *)
LEMMA TypeOfAnswers ==
    ASSUME TInv, NEW t \in Thread, Answer(t)
    PROVE  TInv'
<1> USE DEF TInv, TypeOK, NotFromTheFuture, throttle, sessions, browsers, Done, Becomes
<1>0. NoRequest \in [client : Client, key : Keys, token : Nat, page : Nat]
  BY ClientAssumption DEF NoRequest, Keys
<1>1. CASE WrongPassword(t)
  <2>1. StepBack * MaxFaults \in Nat /\ StepBack * faults \in Nat /\ Forgotten \in Nat
    BY Products, TimeAssumption
  <2>2. \A a \in [count : Nat, age : -(StepBack * MaxFaults)..Forgotten] :
            Failed(a) \in [count : Nat, age : -(StepBack * MaxFaults)..Forgotten]
    BY <2>1 DEF Failed
  <2>3. TypeOK'
    BY <1>0, <1>1, <2>1, <2>2 DEF WrongPassword
  <2>4. NotFromTheFuture'
    BY <1>1, <2>1 DEF WrongPassword, Failed
  <2> QED
    BY <2>3, <2>4
<1>2. CASE RightPassword(t)
  <2>1. NoFailures \in [count : Nat, age : -(StepBack * MaxFaults)..Forgotten]
    BY Products, TimeAssumption DEF NoFailures
  <2>2. PICK i \in TokenIds \ Issued, left \in Lifespan :
            /\ tokens' = [tokens EXCEPT ![i] = [key |-> secret, left |-> left]]
            /\ cookie' = [cookie EXCEPT ![req[t].client] = i]
    BY <1>2 DEF RightPassword
  <2>3. left \in Lives(faults) /\ left \in Int /\ faults' = faults
    BY <1>2, <2>2, LivesGrow DEF RightPassword
  <2>4. /\ tokens' \in [TokenIds -> [key : Nat, left : Int]]
        /\ \A j \in TokenIds : tokens'[j].left \in Lives(faults)
        /\ cookie' \in [Client -> 0..MaxTokens]
    <3>1. i \in 0..MaxTokens
      BY TimeAssumption DEF TokenIds
    <3>2. [key |-> secret, left |-> left] \in [key : Nat, left : Int]
      BY <2>3
    <3>3. \A j \in TokenIds : tokens[j].left \in Lives(faults)
      BY DEF Lives
    <3> QED
      BY <2>2, <2>3, <3>1, <3>2, <3>3
  <2>5. attempts' \in [Keys -> [count : Nat, age : -(StepBack * MaxFaults)..Forgotten]]
        /\ wrong' \in [Keys -> Nat] /\ quiet' \in [Keys -> 0..Forgotten]
    BY <1>2, <2>1, Products DEF RightPassword
  <2>6. TypeOK'
    BY <1>0, <1>2, <2>3, <2>4, <2>5 DEF RightPassword, Lives
  <2>7. NotFromTheFuture'
    BY <1>2, <2>1, Products DEF RightPassword, NoFailures
  <2> QED
    BY <2>6, <2>7
<1>3. CASE Forbid(t)
  BY <1>0, <1>3 DEF Forbid
<1>5. CASE Act(t)
  <2>1. late' \in [TokenIds -> Nat]
    <3>1. \A b \in BOOLEAN, n \in Nat : (IF b THEN 0 ELSE n + 1) \in Nat
      OBVIOUS
    <3> QED
      BY <1>5, <3>1 DEF Act
  <2> QED
    BY <1>0, <1>5, <2>1 DEF Act
<1>4. CASE Logout(t)
  BY <1>0, <1>4, TimeAssumption DEF Logout
<1> QED
  BY <1>1, <1>2, <1>3, <1>4, <1>5 DEF Answer

(* Time, the clock and restarts keep them. *)
LEMMA TypeOfTime ==
    ASSUME TInv, Tick \/ SetBack \/ Restart
    PROVE  TInv'
<1> USE DEF TInv, TypeOK, NotFromTheFuture, throttle, sessions, browsers
<1>0. /\ StepBack * MaxFaults \in Nat /\ StepBack * faults \in Nat
      /\ Forgotten \in Nat /\ Lifetime * Second \in Nat
  BY Products, TimeAssumption
<1>1. CASE Tick
  <2> DEFINE Ages == -(StepBack * MaxFaults)..Forgotten
             Older(x) == IF x + 1 > Forgotten THEN Forgotten ELSE x + 1
             Shorter(l) == IF l - 1 < LongExpired THEN LongExpired ELSE l - 1
  <2>1. \A x \in Ages : Older(x) \in Ages /\ Older(x) >= x
    BY <1>0
  <2>2. \A l \in Lives(faults) : Shorter(l) \in Lives(faults) /\ Shorter(l) \in Int
    <3>1. \A e, h \in Int : \A l \in e..h :
            IF l - 1 < e THEN e \in e..h ELSE l - 1 \in e..h
      OBVIOUS
    <3>2. LongExpired \in Int /\ Lifetime * Second + StepBack * faults \in Int
          /\ Lives(faults) \subseteq Int
      BY <1>0, LivesGrow
    <3> QED
      BY <3>1, <3>2 DEF Lives
  <2>3. /\ attempts \in [Keys -> [count : Nat, age : Ages]]
        /\ tokens \in [TokenIds -> [key : Nat, left : Int]]
        /\ \A i \in TokenIds : tokens[i].left \in Lives(faults)
    BY DEF Lives
  <2>4. /\ attempts' = [c \in Keys |-> [attempts[c] EXCEPT !.age = Older(@)]]
        /\ tokens' = [i \in TokenIds |-> [tokens[i] EXCEPT !.left = Shorter(@)]]
    BY <1>1 DEF Tick, Passes
  <2> HIDE DEF Ages, Older, Shorter
  <2>5. \A c \in Keys : /\ attempts'[c] \in [count : Nat, age : Ages]
                          /\ attempts'[c].age = Older(attempts[c].age)
    BY <2>1, <2>3, <2>4
  <2>6. \A i \in TokenIds : tokens'[i] \in [key : Nat, left : Int]
                            /\ tokens'[i].left \in Lives(faults)
    BY <2>2, <2>3, <2>4
  <2>7. /\ attempts' \in [Keys -> [count : Nat, age : Ages]]
        /\ tokens' \in [TokenIds -> [key : Nat, left : Int]]
    BY <2>4, <2>5, <2>6
  <2>8. quiet' \in [Keys -> 0..Forgotten]
    BY <1>0, <1>1 DEF Tick
  <2>9. TypeOK'
    BY <1>1, <2>6, <2>7, <2>8 DEF Tick, Ages, Lives
  <2>10. \A c \in Keys : attempts[c].age \in Ages /\ attempts'[c].age \in Ages
                           /\ attempts'[c].age >= attempts[c].age
    BY <2>1, <2>3, <2>5
  <2>11. \A c \in Keys : attempts'[c].age >= -(StepBack * faults)
    <3>1. \A x, y \in Ages : y >= x /\ x >= -(StepBack * faults) => y >= -(StepBack * faults)
      BY <1>0 DEF Ages
    <3> QED
      BY <2>10, <3>1
  <2>12. NotFromTheFuture'
    BY <1>1, <2>11 DEF Tick
  <2> QED
    BY <2>9, <2>12
<1>2. CASE SetBack
  <2> DEFINE Ages == -(StepBack * MaxFaults)..Forgotten
             Floor(n) == -(StepBack * n)
             Younger(x) == x - StepBack
  <2>1. faults \in Nat /\ faults < MaxFaults /\ faults' = faults + 1 /\ MaxFaults \in Nat
        /\ StepBack \in Nat
    BY <1>2, TimeAssumption DEF SetBack
  <2>2. /\ Floor(faults) \in Int /\ Floor(MaxFaults) \in Int
        /\ Floor(faults + 1) = Floor(faults) - StepBack
        /\ Floor(faults + 1) >= Floor(MaxFaults)
    BY <2>1, Products
  <2>3. \A x \in Ages : x >= Floor(faults) =>
            /\ Younger(x) \in Ages /\ Younger(x) >= Floor(faults + 1)
            /\ x >= Floor(faults + 1)
    <3>1. \A f, g, m, h \in Int, b \in Nat : \A x \in m..h :
            x >= f /\ g = f - b /\ g >= m =>
                x - b \in m..h /\ x - b >= g /\ x >= g
      OBVIOUS
    <3> HIDE DEF Floor
    <3>2. Ages = Floor(MaxFaults)..Forgotten
      BY DEF Floor
    <3> QED
      BY <1>0, <2>1, <2>2, <3>1, <3>2
  <2>4. /\ attempts \in [Keys -> [count : Nat, age : Ages]]
        /\ \A c \in Keys : attempts[c].age >= Floor(faults)
    OBVIOUS
  <2>5. attempts' = [c \in Keys |-> IF attempts[c].count = 0 THEN attempts[c]
                                      ELSE [attempts[c] EXCEPT !.age = Younger(@)]]
    BY <1>2 DEF SetBack
  <2> HIDE DEF Ages, Floor, Younger
  <2>6. \A c \in Keys : /\ attempts'[c] \in [count : Nat, age : Ages]
                          /\ attempts'[c].age >= Floor(faults + 1)
    <3>1. SUFFICES ASSUME NEW c \in Keys
                   PROVE  /\ attempts'[c] \in [count : Nat, age : Ages]
                          /\ attempts'[c].age >= Floor(faults + 1)
      OBVIOUS
    <3>2. CASE attempts[c].count = 0
      BY <2>3, <2>4, <2>5, <3>2
    <3>3. CASE attempts[c].count # 0
      <4>1. attempts'[c] = [attempts[c] EXCEPT !.age = Younger(@)]
        BY <2>5, <3>3
      <4>2. attempts'[c] \in [count : Nat, age : Ages]
            /\ attempts'[c].age = Younger(attempts[c].age)
        <5>1. Younger(attempts[c].age) \in Ages /\ attempts[c] \in [count : Nat, age : Ages]
          BY <2>3, <2>4
        <5> QED
          BY <4>1, <5>1
      <4> QED
        BY <2>3, <2>4, <4>2
    <3> QED
      BY <3>2, <3>3
  <2>7. attempts' \in [Keys -> [count : Nat, age : Ages]]
    BY <2>5, <2>6
  <2>8. TypeOK'
    <3>1. faults' \in 0..MaxFaults
      BY <2>1
    <3>2. /\ tokens' \in [TokenIds -> [key : Nat, left : Int]]
          /\ \A i \in TokenIds : tokens'[i].left \in Lives(faults + 1)
      <4>1. \A i \in TokenIds : tokens[i].left \in Lives(faults)
        BY DEF Lives
      <4>2. tokens' = [i \in TokenIds |->
              IF i \in Issued THEN [tokens[i] EXCEPT !.left = @ + StepBack] ELSE tokens[i]]
        BY <1>2 DEF SetBack
      <4>3. ASSUME NEW i \in TokenIds
            PROVE  tokens'[i] \in [key : Nat, left : Int] /\ tokens'[i].left \in Lives(faults + 1)
        BY <2>1, <4>1, <4>2, LivesGrow
      <4> QED
        BY <4>2, <4>3
    <3>3. \A i \in TokenIds : tokens'[i].left \in
                LongExpired..(Lifetime * Second + StepBack * faults')
      BY <2>1, <3>2 DEF Lives
    <3>4. late' \in [TokenIds -> Nat]
      BY <1>2 DEF SetBack
    <3> QED
      BY <1>2, <2>7, <3>1, <3>2, <3>3, <3>4 DEF SetBack, Ages
  <2>9. NotFromTheFuture'
    BY <2>1, <2>6 DEF Floor
  <2> QED
    BY <2>8, <2>9
<1>3. CASE Restart
  <2>1. NoRequest \in [client : Client, key : Keys, token : Nat, page : Nat]
    BY ClientAssumption DEF NoRequest, Keys
  <2>2. NoFailures \in [count : Nat, age : -(StepBack * MaxFaults)..Forgotten]
    BY <1>0 DEF NoFailures
  <2>3. faults' \in 0..MaxFaults /\ StepBack * faults' \in Nat
    BY <1>3, Products, TimeAssumption DEF Restart
  <2>4. \A i \in TokenIds : tokens'[i].left \in
              LongExpired..(Lifetime * Second + StepBack * faults')
    BY <1>3, LivesGrow DEF Restart, Lives
  <2>6. TypeOK'
    BY <1>0, <1>3, <2>1, <2>2, <2>3, <2>4 DEF Restart
  <2>5. NotFromTheFuture'
    BY <1>0, <1>3, <2>3 DEF Restart, NoFailures
  <2> QED
    BY <2>5, <2>6
<1> QED
  BY <1>1, <1>2, <1>3

(* and every step keeps it.                                                *)
LEMMA TypeStep == TInv /\ [Next]_vars => TInv'
<1> SUFFICES ASSUME TInv, [Next]_vars PROVE TInv'
  OBVIOUS
<1>1. CASE UNCHANGED vars
  BY <1>1 DEF TInv, TypeOK, NotFromTheFuture, vars, throttle, sessions, browsers
<1>2. CASE Next
  BY <1>2, KeysOfRequests, TypeOfHandlers, TypeOfAnswers, TypeOfTime DEF Next
<1> QED
  BY <1>1, <1>2

(* Type correctness: whatever the requests, the ticks and the restarts,    *)
(* the throttle, the tokens and the pages have their types, and no token   *)
(* has longer to live than SESSION_LIFETIME and what the clock was set     *)
(* back (auth.py, issue and validate).                                     *)
THEOREM TypeCorrect == Spec => []TypeOK
<1>1. TInv => TypeOK
  BY DEF TInv
<1> QED
  BY <1>1, TypeInitial, TypeStep, PTL DEF Spec

-----------------------------------------------------------------------------
(* Guesses. *)

(* What is under way under a key is at most every handler thread. *)
LEMMA UnderWaySize ==
    ASSUME NEW S \in SUBSET Thread
    PROVE  IsFiniteSet(S) /\ Cardinality(S) \in 0..Cardinality(Thread)
           /\ Cardinality(Thread) \in Nat \ {0}
<1>1. IsFiniteSet(S) /\ Cardinality(S) <= Cardinality(Thread)
  BY FS_Subset, ThreadAssumption
<1>2. Cardinality(S) \in Nat /\ Cardinality(Thread) \in Nat
  BY <1>1, FS_CardinalityType, ThreadAssumption
<1>3. Cardinality(Thread) # 0
  BY FS_EmptySet, ThreadAssumption
<1> QED
  BY <1>1, <1>2, <1>3

(* The three parts of the invariant that speak of one key. *)
KeyOK(k) ==
    /\ wrong[k] <= attempts[k].count
    /\ attempts[k].count > 0 => attempts[k].age <= quiet[k]
    /\ attempts[k].count + Cardinality(UnderWay(k)) <= MaxAttempts + Cardinality(Thread) - 1

(* The invariant speaks of each key alone.                                 *)
LEMMA KeyByKey == IInv <=> TInv /\ \A k \in Keys : KeyOK(k)
  BY DEF IInv, KeyOK, Remembered, NeverLooksOlder, CountedWithUnderWay

(* A key under which nothing more is counted or under way stays so. *)
LEMMA NothingMore ==
    ASSUME TInv, NEW k \in Keys, KeyOK(k),
           attempts'[k] = attempts[k], wrong'[k] = wrong[k], quiet'[k] = quiet[k],
           UnderWay(k)' \subseteq UnderWay(k)
    PROVE  KeyOK(k)'
<1>1. UnderWay(k) \in SUBSET Thread /\ UnderWay(k)' \in SUBSET Thread
  BY DEF UnderWay
<1>2. Cardinality(UnderWay(k)') <= Cardinality(UnderWay(k))
  BY <1>1, UnderWaySize, FS_Subset
<1>3. Cardinality(UnderWay(k)') \in Nat /\ Cardinality(UnderWay(k)) \in Nat
      /\ Cardinality(Thread) \in Nat
  BY <1>1, UnderWaySize
<1>4. attempts[k].count \in Nat /\ MaxAttempts \in Nat
  BY AttemptsAssumption DEF TInv, TypeOK
<1>5. attempts[k].count + Cardinality(UnderWay(k)') <= MaxAttempts + Cardinality(Thread) - 1
  BY <1>2, <1>3, <1>4 DEF KeyOK
<1> QED
  BY <1>5 DEF KeyOK

(* A key whose failures are below the limit, when their count starts anew  *)
(* or an attempt under it is let through.                                  *)
LEMMA BelowTheLimit ==
    ASSUME NEW k \in Keys, NEW n \in Nat, n < MaxAttempts, attempts'[k].count = n,
           wrong'[k] <= n, n > 0 => attempts'[k].age <= quiet'[k]
    PROVE  KeyOK(k)'
<1>1. UnderWay(k)' \in SUBSET Thread
  BY DEF UnderWay
<1>2. Cardinality(UnderWay(k)') \in 0..Cardinality(Thread) /\ Cardinality(Thread) \in Nat
  BY <1>1, UnderWaySize
<1>3. n + Cardinality(UnderWay(k)') <= MaxAttempts + Cardinality(Thread) - 1
  BY <1>2, AttemptsAssumption
<1> QED
  BY <1>3 DEF KeyOK

(* The invariant of the throttle holds at first.                           *)
LEMMA GuessesInitial == Init => IInv
<1> SUFFICES ASSUME Init PROVE IInv
  OBVIOUS
<1>1. SUFFICES ASSUME NEW k \in Keys PROVE KeyOK(k)
  BY TypeInitial, KeyByKey
<1>2. UnderWay(k) = {} /\ attempts[k].count = 0 /\ wrong[k] = 0
  BY DEF Init, UnderWay, NoFailures
<1>3. Cardinality({}) = 0 /\ Cardinality(Thread) \in Nat \ {0}
  BY FS_EmptySet, UnderWaySize, {} \in SUBSET Thread
<1> QED
  BY <1>2, <1>3, AttemptsAssumption DEF KeyOK

(* An attempt is let through below the limit, or after a pause of a        *)
(* lockout, which is then a pause since the last wrong password.           *)
LEMMA GuessesOfAdmit ==
    ASSUME IInv, NEW t \in Thread, NEW b \in Client, NEW d \in Keys, Admit(t, b, d), NEW k \in Keys
    PROVE  KeyOK(k)'
<1> USE DEF IInv, TInv, TypeOK, Becomes, throttle
<1>0. KeyOK(k)
  BY KeyByKey
<1>1. CASE k # d
  <2>1. UnderWay(k)' \subseteq UnderWay(k)
    BY <1>1 DEF Admit, UnderWay
  <2>2. attempts'[k] = attempts[k] /\ wrong'[k] = wrong[k] /\ quiet'[k] = quiet[k]
    BY <1>1 DEF Admit
  <2> QED
    BY <1>0, <2>1, <2>2, NothingMore
<1>2. CASE k = d /\ Lifted(d)
  <2>1. attempts[k].age \in Int /\ (Forgotten - attempts[k].age) \div Second <= 0
        /\ attempts[k].count >= MaxAttempts
    BY <1>2 DEF Lifted, LockedFor, AtTheLimit
  <2>2. attempts[k].age > Forgotten - Second /\ attempts[k].age <= quiet[k]
    BY <1>0, <2>1, LessThanASecond, AttemptsAssumption DEF KeyOK
  <2>3. LongQuiet(k)
    BY <2>1, <2>2, Products, TimeAssumption DEF LongQuiet
  <2>4. attempts'[k].count = 0 /\ wrong'[k] = 0
    BY <1>2, <2>3 DEF Admit, NoFailures
  <2> HIDE DEF IInv, TInv, TypeOK
  <2>5. 0 \in Nat /\ 0 < MaxAttempts /\ wrong'[k] <= 0
    BY <2>4, AttemptsAssumption
  <2> QED
    BY <2>4, <2>5, BelowTheLimit
<1>3. CASE k = d /\ ~Lifted(d)
  <2>1. ~AtTheLimit(k) /\ attempts' = attempts /\ quiet' = quiet
    BY <1>3 DEF Admit, Lifted
  <2>2. attempts[k].count \in Nat /\ attempts[k].count < MaxAttempts
    BY <2>1, AttemptsAssumption DEF AtTheLimit
  <2>3. wrong'[k] <= attempts[k].count
    BY <1>0, <1>3, <2>2 DEF Admit, KeyOK
  <2> QED
    BY <1>0, <2>1, <2>2, <2>3, BelowTheLimit DEF KeyOK
<1> QED
  BY <1>1, <1>2, <1>3

(* A wrong password moves one attempt from those under way to those that   *)
(* have failed.                                                            *)
LEMMA GuessesOfWrongPassword ==
    ASSUME IInv, NEW t \in Thread, WrongPassword(t), NEW k \in Keys
    PROVE  KeyOK(k)'
<1> USE DEF IInv, TInv, TypeOK, Becomes, Done
<1>0. KeyOK(k)
  BY KeyByKey
<1>1. CASE k # req[t].key
  <2>1. UnderWay(k)' \subseteq UnderWay(k)
    BY <1>1 DEF WrongPassword, UnderWay
  <2>2. attempts'[k] = attempts[k] /\ wrong'[k] = wrong[k] /\ quiet'[k] = quiet[k]
    BY <1>1 DEF WrongPassword
  <2> QED
    BY <1>0, <2>1, <2>2, NothingMore
<1>2. CASE k = req[t].key
  <2>1. UnderWay(k)' = UnderWay(k) \ {t} /\ t \in UnderWay(k)
    BY <1>2 DEF WrongPassword, UnderWay
  <2>2. IsFiniteSet(UnderWay(k)) /\ Cardinality(UnderWay(k)) \in Nat
        /\ Cardinality(Thread) \in Nat
    BY UnderWaySize, UnderWay(k) \in SUBSET Thread DEF UnderWay
  <2>3. Cardinality(UnderWay(k)') = Cardinality(UnderWay(k)) - 1
    BY <2>1, <2>2, FS_RemoveElement
  <2>4. /\ attempts'[k].count = attempts[k].count + 1 /\ attempts'[k].age = 0
        /\ wrong'[k] = wrong[k] + 1 /\ quiet'[k] = 0
    BY <1>2 DEF WrongPassword, Failed
  <2>5. attempts[k].count \in Nat /\ wrong[k] \in Nat /\ MaxAttempts \in Nat
    BY AttemptsAssumption
  <2> QED
    BY <1>0, <2>2, <2>3, <2>4, <2>5 DEF KeyOK
<1> QED
  BY <1>1, <1>2

(* A right password clears the count of its own key only.                  *)
LEMMA GuessesOfRightPassword ==
    ASSUME IInv, NEW t \in Thread, RightPassword(t), NEW k \in Keys
    PROVE  KeyOK(k)'
<1> USE DEF IInv, TInv, TypeOK, Becomes, Done
<1>0. KeyOK(k)
  BY KeyByKey
<1>1. CASE k # req[t].key
  <2>1. UnderWay(k)' \subseteq UnderWay(k)
    BY <1>1 DEF RightPassword, UnderWay
  <2>2. attempts'[k] = attempts[k] /\ wrong'[k] = wrong[k] /\ quiet'[k] = quiet[k]
    BY <1>1 DEF RightPassword
  <2> QED
    BY <1>0, <2>1, <2>2, NothingMore
<1>2. CASE k = req[t].key
  <2>1. attempts'[k].count = 0 /\ wrong'[k] = 0
    BY <1>2 DEF RightPassword, NoFailures
  <2>2. 0 < MaxAttempts /\ 0 \in Nat /\ wrong'[k] <= 0 /\ (0 > 0 => attempts'[k].age <= quiet'[k])
    BY <2>1, AttemptsAssumption
  <2> QED
    BY <2>1, <2>2, BelowTheLimit
<1> QED
  BY <1>1, <1>2

(* Time ages a failure and the quiet since it alike, up to the lockout; a  *)
(* clock that is set back only makes failures look more recent.            *)
LEMMA GuessesOfTime ==
    ASSUME IInv, Tick \/ SetBack \/ Restart, NEW k \in Keys
    PROVE  KeyOK(k)'
<1> USE DEF IInv, TInv, TypeOK
<1>0. /\ KeyOK(k) /\ Forgotten \in Nat /\ StepBack \in Nat
      /\ attempts[k].age \in Int /\ quiet[k] \in Int /\ quiet[k] <= Forgotten
      /\ attempts[k].count \in Nat
  <2>1. KeyOK(k)
    BY KeyByKey
  <2>2. Forgotten \in Nat /\ StepBack \in Nat
    BY Products, TimeAssumption
  <2>3. /\ attempts[k].age \in Int /\ attempts[k].count \in Nat
        /\ quiet[k] \in Int /\ quiet[k] <= Forgotten
    BY <2>2
  <2> QED
    BY <2>1, <2>2, <2>3
<1>1. CASE Tick \/ SetBack
  <2>1. UnderWay(k)' = UnderWay(k) /\ wrong' = wrong
    BY <1>1 DEF Tick, SetBack, UnderWay
  <2>2. attempts'[k].count = attempts[k].count
    BY <1>1 DEF Tick, Passes, SetBack
  <2>3. attempts[k].count > 0 => attempts'[k].age <= quiet'[k]
    <3>1. CASE Tick
      <4> DEFINE Older(x) == IF x + 1 > Forgotten THEN Forgotten ELSE x + 1
      <4>1. attempts'[k].age = Older(attempts[k].age)
        BY <3>1 DEF Tick, Passes
      <4>2. quiet'[k] = IF quiet[k] < Forgotten THEN quiet[k] + 1 ELSE Forgotten
        BY <3>1 DEF Tick
      <4> QED
        BY <1>0, <4>1, <4>2 DEF KeyOK
    <3>2. CASE SetBack
      <4>1. attempts[k].count > 0 => attempts'[k].age = attempts[k].age - StepBack
        BY <3>2 DEF SetBack
      <4>2. quiet' = quiet
        BY <3>2 DEF SetBack
      <4> QED
        BY <1>0, <4>1, <4>2 DEF KeyOK
    <3> QED
      BY <1>1, <3>1, <3>2
  <2> QED
    BY <1>0, <2>1, <2>2, <2>3 DEF KeyOK
<1>2. CASE Restart
  <2>1. attempts'[k].count = 0 /\ wrong'[k] = 0
    BY <1>2 DEF Restart, NoFailures
  <2> QED
    BY <2>1, BelowTheLimit, AttemptsAssumption
<1> QED
  BY <1>1, <1>2

(* The steps that leave the throttle alone, and no attempt under way. *)
LEMMA GuessesOfTheRest ==
    ASSUME IInv, UNCHANGED throttle, NEW k \in Keys,
           UnderWay(k)' \subseteq UnderWay(k)
    PROVE  KeyOK(k)'
  BY KeyByKey, NothingMore DEF throttle, IInv

(* Every step keeps the invariant of the throttle.                         *)
LEMMA GuessesStep == IInv /\ [Next]_vars => IInv'
<1> SUFFICES ASSUME IInv, [Next]_vars PROVE IInv'
  OBVIOUS
<1>0. TInv'
  BY TypeStep DEF IInv
<1>1. SUFFICES ASSUME NEW k \in Keys PROVE KeyOK(k)'
  BY <1>0 DEF IInv, Remembered, NeverLooksOlder, CountedWithUnderWay, KeyOK
<1>2. CASE UNCHANGED vars
  <2>1. UNCHANGED throttle /\ UnderWay(k)' \subseteq UnderWay(k)
    BY <1>2 DEF vars, throttle, UnderWay
  <2> QED
    BY <2>1, GuessesOfTheRest
<1>3. ASSUME NEW t \in Thread, Answer(t) PROVE KeyOK(k)'
  <2>1. CASE WrongPassword(t) \/ RightPassword(t)
    BY <2>1, GuessesOfWrongPassword, GuessesOfRightPassword
  <2>2. CASE Forbid(t) \/ Act(t) \/ Logout(t)
    <3>1. UNCHANGED throttle
      BY <2>2 DEF Forbid, Act, Logout
    <3>2. UnderWay(k)' \subseteq UnderWay(k)
      BY <2>2 DEF Forbid, Act, Logout, Done, Becomes, UnderWay, IInv, TInv, TypeOK
    <3> QED
      BY <3>1, <3>2, GuessesOfTheRest
  <2> QED
    BY <1>3, <2>1, <2>2 DEF Answer
<1>4. ASSUME NEW t \in Thread, NEW b \in Client, NEW d \in Keys,
             \/ Refuse(t, d) \/ Admit(t, b, d) \/ Render(t, b)
             \/ \E page \in pages[b] \cup {0} : Post(t, b, page)
      PROVE  KeyOK(k)'
  <2>1. CASE Admit(t, b, d)
    BY <2>1, GuessesOfAdmit
  <2>2. CASE Refuse(t, d) \/ Render(t, b)
    <3>1. UNCHANGED throttle /\ UnderWay(k)' \subseteq UnderWay(k)
      BY <2>2 DEF Refuse, Render, vars, throttle, UnderWay
    <3> QED
      BY <3>1, GuessesOfTheRest
  <2>3. CASE \E page \in pages[b] \cup {0} : Post(t, b, page)
    <3>1. UNCHANGED throttle
      BY <2>3 DEF Post, Reading
    <3>2. UnderWay(k)' \subseteq UnderWay(k)
      BY <2>3 DEF Post, Reading, Becomes, UnderWay, IInv, TInv, TypeOK
    <3> QED
      BY <3>1, <3>2, GuessesOfTheRest
  <2> QED
    BY <1>4, <2>1, <2>2, <2>3
<1>5. CASE Tick \/ SetBack \/ Restart
  BY <1>5, GuessesOfTime
<1>6. Client \subseteq Keys
  BY DEF Keys
<1> QED
  BY <1>2, <1>3, <1>4, <1>5, <1>6, KeysOfRequests DEF Next

(* For every number of clients, keys, handler threads and permitted        *)
(* attempts: under one key no more wrong passwords are tried without a     *)
(* success or a lockout's pause than MAX_ATTEMPTS and one for each further *)
(* handler thread, though the lockout is tested before the form is read    *)
(* and the failure counted after (_handle_login), and though the clock is  *)
(* set back.  The key is what X-Forwarded-For says (server.py:202): who    *)
(* may say anything there has as many keys as they like, and the theorem   *)
(* bounds each.                                                            *)
THEOREM GuessesAlwaysBounded == Spec => []GuessesAreBounded
<1>1. IInv => GuessesAreBounded
  <2> SUFFICES ASSUME IInv, NEW k \in Keys
               PROVE  wrong[k] <= MaxAttempts + Cardinality(Thread) - 1
    BY DEF GuessesAreBounded
  <2>1. KeyOK(k) /\ UnderWay(k) \in SUBSET Thread
    BY KeyByKey DEF UnderWay
  <2>2. Cardinality(UnderWay(k)) \in Nat /\ Cardinality(Thread) \in Nat
    BY <2>1, UnderWaySize
  <2>3. wrong[k] \in Nat /\ attempts[k].count \in Nat /\ MaxAttempts \in Nat
    BY AttemptsAssumption DEF IInv, TInv, TypeOK
  <2> QED
    BY <2>1, <2>2, <2>3 DEF KeyOK
<1> QED
  BY <1>1, GuessesInitial, GuessesStep, PTL DEF Spec

-----------------------------------------------------------------------------
(* Sessions.  A token is told from one that was never issued by the secret *)
(* that signed it, whatever the clock has done to its life; no secret      *)
(* comes back once it is gone.                                             *)
Signed == \A i \in TokenIds : i \in Issued => tokens[i].key \in 1..secret
PostsOfSessions == \A t \in Thread : step[t] = "form" => req[t].token \in Issued
SInv == secret >= 1 /\ Signed /\ PostsOfSessions

LEMMA NeverIssued ==
    ASSUME NEW i \in TokenIds, tokens[i] \in [key : Nat, left : Int]
    PROVE  /\ i \notin Issued => tokens[i].key = 0 /\ tokens[i].left = LongExpired
           /\ tokens[i].key # 0 => i \in Issued
BY DEF Issued, NoToken

LEMMA SessionsInitial == Init => SInv
<1> SUFFICES ASSUME Init PROVE SInv
  OBVIOUS
<1>1. Issued = {}
  BY DEF Init, Issued
<1> QED
  BY <1>1 DEF Init, SInv, Signed, PostsOfSessions

(* Every token that was issued stays so, with the secret that signed it;   *)
(* a new one is signed with the present secret.                            *)
LEMMA TokensStay ==
    ASSUME TInv, TInv', SInv, [Next]_vars
    PROVE  /\ secret' >= secret /\ Issued \subseteq Issued'
           /\ \A i \in TokenIds : i \in Issued => tokens'[i].key = tokens[i].key
           /\ \A i \in TokenIds : i \in Issued' /\ i \notin Issued => tokens'[i].key = secret'
<1> USE DEF TInv, TypeOK
<1>1. CASE UNCHANGED <<secret, tokens>>
  BY <1>1 DEF Issued
<1>2. CASE \E t \in Thread : RightPassword(t)
  <2>1. PICK i \in TokenIds \ Issued : \E left \in Lifespan :
            tokens' = [tokens EXCEPT ![i] = [key |-> secret, left |-> left]]
    BY <1>2 DEF RightPassword
  <2>2. UNCHANGED secret /\ secret # 0
    BY <1>2 DEF RightPassword, SInv
  <2>3. tokens'[i].key = secret /\ \A j \in TokenIds \ {i} : tokens'[j] = tokens[j]
    BY <2>1
  <2>4. i \in Issued' /\ \A j \in TokenIds \ {i} : j \in Issued' <=> j \in Issued
    BY <2>2, <2>3 DEF Issued, NoToken
  <2>5. Issued' = Issued \cup {i}
    BY <2>4 DEF Issued
  <2>6. secret' >= secret /\ Issued \subseteq Issued'
    BY <2>2, <2>5
  <2>7. \A j \in TokenIds : j \in Issued => tokens'[j].key = tokens[j].key
    BY <2>3
  <2>8. \A j \in TokenIds : j \in Issued' /\ j \notin Issued => tokens'[j].key = secret'
    BY <2>2, <2>3, <2>5
  <2> QED
    BY <2>6, <2>7, <2>8
<1>3. CASE Tick \/ SetBack
  <2>1. UNCHANGED secret
    BY <1>3 DEF Tick, SetBack
  <2>2. \A i \in TokenIds : tokens'[i].key = tokens[i].key
    BY <1>3 DEF Tick, SetBack, Passes
  <2>3. \A i \in TokenIds : i \in Issued => i \in Issued'
    <3> SUFFICES ASSUME NEW i \in TokenIds, i \in Issued PROVE i \in Issued'
      OBVIOUS
    <3>1. tokens[i].key # 0
      BY DEF SInv, Signed
    <3> QED
      BY <2>2, <3>1 DEF Issued, NoToken
  <2>4. \A i \in TokenIds : i \notin Issued => i \notin Issued'
    <3> SUFFICES ASSUME NEW i \in TokenIds, i \notin Issued PROVE tokens'[i] = NoToken
      BY DEF Issued
    <3>1. tokens[i] = NoToken
      BY DEF Issued
    <3>2. LongExpired \in Int /\ LongExpired - 1 < LongExpired
      BY LivesGrow
    <3> QED
      BY <1>3, <3>1, <3>2 DEF Tick, SetBack, Passes, NoToken
  <2> QED
    BY <2>1, <2>2, <2>3, <2>4 DEF Issued
<1>4. CASE Restart
  BY <1>4 DEF Restart, Issued
<1> QED
  BY <1>1, <1>2, <1>3, <1>4, StepsOfSessions

LEMMA SessionsStep == TInv /\ TInv' /\ SInv /\ [Next]_vars => SInv'
<1> SUFFICES ASSUME TInv, TInv', SInv, [Next]_vars PROVE SInv'
  OBVIOUS
<1>1. secret' >= 1
  BY TokensStay DEF SInv, TInv, TypeOK
<1>2. Signed'
  <2> SUFFICES ASSUME NEW i \in TokenIds, i \in Issued' PROVE tokens'[i].key \in 1..secret'
    BY DEF Signed
  <2>1. CASE i \in Issued
    BY <2>1, TokensStay DEF SInv, Signed, TInv, TypeOK
  <2>2. CASE i \notin Issued
    BY <1>1, <2>2, TokensStay DEF TInv, TypeOK
  <2> QED
    BY <2>1, <2>2
<1>3. PostsOfSessions'
  <2> SUFFICES ASSUME NEW t \in Thread, step'[t] = "form" PROVE req'[t].token \in Issued'
    BY DEF PostsOfSessions
  <2>1. CASE step'[t] = step[t] /\ req'[t] = req[t]
    BY <2>1, TokensStay DEF SInv, PostsOfSessions
  <2>2. CASE \E c \in Client : \E page \in pages[c] \cup {0} : Post(t, c, page)
    <3>1. req'[t].token \in Issued
      BY <2>2 DEF Post, Reading, Valid, TInv, TypeOK
    <3> QED
      BY <3>1, TokensStay
  <2> USE DEF TInv, TypeOK, Done, Becomes
  <2>3. ASSUME NEW u \in Thread, NEW c \in Client, NEW k \in Keys,
               Answer(u) \/ Refuse(u, k) \/ Admit(u, c, k) \/ Render(u, c)
        PROVE  step'[t] = step[t] /\ req'[t] = req[t]
    BY <2>3 DEF Answer, WrongPassword, RightPassword, Forbid, Act, Logout, Refuse, Admit, Render, vars
  <2>4. ASSUME NEW u \in Thread, NEW c \in Client, NEW page \in pages[c] \cup {0}, Post(u, c, page)
        PROVE  u = t \/ (step'[t] = step[t] /\ req'[t] = req[t])
    BY <2>4 DEF Post, Reading
  <2>5. Tick \/ SetBack \/ Restart \/ UNCHANGED vars => step'[t] = step[t] /\ req'[t] = req[t]
    BY DEF Tick, SetBack, Restart, vars
  <2>6. Keys # {} /\ Client # {}
    BY ClientAssumption DEF Keys
  <2> QED
    BY <2>1, <2>2, <2>3, <2>4, <2>5, <2>6, StepsAre
<1> QED
  BY <1>1, <1>2, <1>3 DEF SInv

LEMMA SessionsHold == Spec => []SInv
BY SessionsInitial, SessionsStep, TypeInitial, TypeStep, PTL DEF Spec

(* A session ends by its expiry or by a restart without a configured       *)
(* secret; only a clock set back revives it, and nothing does once the     *)
(* secret is gone (auth.py:136).                                           *)
THEOREM SessionsEndForGood == Spec => SessionsEndOnce
<1>1. TInv /\ TInv' /\ SInv /\ [Next]_vars =>
        [\A i \in TokenIds :
            /\ Valid(i) => Valid(i)' \/ tokens'[i].left < tokens[i].left
                                     \/ (faults' > faults /\ ~stable)
            /\ i \in Issued /\ ~Valid(i) /\ Valid(i)' =>
                    tokens[i].key = secret /\ tokens'[i].left > tokens[i].left]_vars
  <2> SUFFICES ASSUME TInv, TInv', SInv, [Next]_vars, NEW i \in TokenIds, i \in Issued
               PROVE  /\ Valid(i) => Valid(i)' \/ tokens'[i].left < tokens[i].left
                                               \/ (faults' > faults /\ ~stable)
                      /\ ~Valid(i) /\ Valid(i)' =>
                              tokens[i].key = secret /\ tokens'[i].left > tokens[i].left
    BY DEF Valid
  <2>1. i \in Issued' /\ tokens'[i].key = tokens[i].key /\ tokens[i].key <= secret
    BY TokensStay DEF SInv, Signed, TInv, TypeOK
  <2> USE <2>1 DEF Valid, TInv, TypeOK
  <2>2. CASE UNCHANGED secret /\ tokens'[i].left = tokens[i].left
    BY <2>2
  <2>3. CASE Tick
    <3>1. UNCHANGED secret /\ LongExpired \in Int /\ LongExpired <= 0
      <4>1. StepBack * MaxFaults \in Nat
        BY Products, TimeAssumption
      <4> QED
        BY <2>3, <4>1 DEF Tick, LongExpired
    <3>2. tokens'[i].left = IF tokens[i].left - 1 < LongExpired THEN LongExpired ELSE tokens[i].left - 1
      BY <2>3 DEF Tick, Passes
    <3> QED
      BY <3>1, <3>2
  <2>4. CASE SetBack
    <3>1. UNCHANGED secret /\ StepBack \in Nat /\ StepBack > 0
      BY <2>4, TimeAssumption DEF SetBack
    <3>2. tokens'[i].left = tokens[i].left + StepBack
      BY <2>4 DEF SetBack
    <3> QED
      BY <3>1, <3>2
  <2>5. CASE Restart
    BY <2>5 DEF Restart
  <2>6. CASE \E t \in Thread : RightPassword(t)
    BY <2>2, <2>6 DEF RightPassword
  <2> QED
    BY <2>2, <2>3, <2>4, <2>5, <2>6, StepsOfSessions
<1> QED
  BY <1>1, SessionsHold, TypeInitial, TypeStep, PTL DEF Spec, SessionsEndOnce

-----------------------------------------------------------------------------
(* What is still done under a session that has ended: the requests that    *)
(* had passed the test are counted with what has been done since.          *)
Tested(i) == {t \in Thread : step[t] = "form" /\ req[t].token = i}
LateOK(i) ==
    /\ Valid(i) \/ i \notin Issued => late[i] = 0
    /\ late[i] + Cardinality(Tested(i)) <= Cardinality(Thread)

LEMMA LateInitial == Init => \A i \in TokenIds : LateOK(i)
<1> SUFFICES ASSUME Init, NEW i \in TokenIds PROVE LateOK(i)
  OBVIOUS
<1>1. Tested(i) = {} /\ late[i] = 0
  BY DEF Init, Tested
<1>2. Cardinality({}) = 0 /\ Cardinality(Thread) \in Nat \ {0}
  BY FS_EmptySet, UnderWaySize, {} \in SUBSET Thread
<1> QED
  BY <1>1, <1>2 DEF LateOK

(* A token does not become valid but by being issued, or by a clock that   *)
(* is set back, which starts the count anew.                               *)
LEMMA LateStarts ==
    ASSUME TInv, TInv', SInv, [Next]_vars, NEW i \in TokenIds, LateOK(i),
           Valid(i)' \/ i \notin Issued'
    PROVE  late'[i] = 0
<1> USE DEF TInv, TypeOK
<1>1. i \notin Issued => late[i] = 0
  BY DEF LateOK
<1>2. i \notin Issued' => i \notin Issued
  BY TokensStay
<1>3. CASE SetBack
  BY <1>1, <1>2, <1>3 DEF SetBack
<1>4. CASE \E t \in Thread : Act(t)
  <2>1. PICK t \in Thread : Act(t)
    BY <1>4
  <2>2. req[t].token \in Issued /\ UNCHANGED <<secret, tokens>>
    BY <2>1 DEF Act, sessions, SInv, PostsOfSessions
  <2>3. Valid(i) <=> Valid(i)'
    BY <2>2 DEF Valid, Issued
  <2> QED
    BY <1>1, <1>2, <2>1, <2>2, <2>3 DEF Act, LateOK
<1>5. CASE UNCHANGED <<secret, tokens, late>>
  BY <1>5 DEF LateOK, Valid, Issued
<1>6. CASE \E t \in Thread : RightPassword(t)
  <2>1. UNCHANGED <<secret, late>>
    BY <1>6 DEF RightPassword
  <2>2. i \in Issued => tokens'[i] = tokens[i]
    BY <1>6 DEF RightPassword
  <2> QED
    BY <1>1, <1>2, <2>1, <2>2 DEF LateOK, Valid
<1>7. CASE Tick
  <2>1. UNCHANGED <<secret, late>>
    BY <1>7 DEF Tick
  <2>2. LongExpired \in Int /\ LongExpired <= 0
    <3>1. StepBack * MaxFaults \in Nat
      BY Products, TimeAssumption
    <3> QED
      BY <3>1 DEF LongExpired
  <2>3. tokens'[i].left = IF tokens[i].left - 1 < LongExpired THEN LongExpired ELSE tokens[i].left - 1
    BY <1>7 DEF Tick, Passes
  <2>4. i \in Issued => tokens'[i].key = tokens[i].key
    BY TokensStay
  <2> QED
    BY <1>1, <1>2, <2>1, <2>2, <2>3, <2>4 DEF LateOK, Valid
<1>8. CASE Restart
  <2>1. UNCHANGED <<tokens, late>> /\ secret' \in {secret, secret + 1}
    BY <1>8 DEF Restart
  <2>2. i \in Issued => tokens[i].key <= secret
    BY DEF SInv, Signed
  <2> QED
    BY <1>1, <1>2, <2>1, <2>2 DEF LateOK, Valid, Issued
<1> QED
  BY <1>3, <1>4, <1>5, <1>6, <1>7, <1>8, StepsOfSessions

LEMMA LateStep ==
    ASSUME TInv, TInv', SInv, [Next]_vars, NEW i \in TokenIds, LateOK(i)
    PROVE  LateOK(i)'
<1> USE DEF TInv, TypeOK, Done, Becomes
<1>0. Tested(i) \in SUBSET Thread /\ Tested(i)' \in SUBSET Thread
  BY DEF Tested
<1>1. /\ Cardinality(Tested(i)) \in Nat /\ Cardinality(Tested(i)') \in Nat
      /\ Cardinality(Thread) \in Nat /\ Cardinality(Tested(i)') <= Cardinality(Thread)
      /\ late[i] \in Nat /\ late'[i] \in Nat
  BY <1>0, UnderWaySize
<1>2. late'[i] + Cardinality(Tested(i)') <= Cardinality(Thread)
  <2>1. CASE late'[i] <= late[i] /\ Tested(i)' \subseteq Tested(i)
    <3>1. Cardinality(Tested(i)') <= Cardinality(Tested(i))
      BY <1>0, <2>1, UnderWaySize, FS_Subset
    <3> QED
      BY <1>1, <2>1, <3>1 DEF LateOK
  <2>2. CASE \E t \in Thread, c \in Client : \E page \in pages[c] \cup {0} : Post(t, c, page)
    <3> PICK t \in Thread, c \in Client : \E page \in pages[c] \cup {0} : Post(t, c, page)
      BY <2>2
    <3>1. PICK page \in pages[c] \cup {0} : Post(t, c, page)
      OBVIOUS
    <3>2. CASE cookie[c] = i
      <4>1. late'[i] = 0
        BY <3>1, <3>2 DEF Post, Reading, LateOK
      <4> QED
        BY <1>1, <4>1
    <3>3. CASE cookie[c] # i
      BY <2>1, <3>1, <3>3, <1>1 DEF Post, Reading, Tested
    <3> QED
      BY <3>2, <3>3
  <2>3. CASE \E t \in Thread : Act(t)
    <3>1. PICK t \in Thread : Act(t)
      BY <2>3
    <3>2. CASE req[t].token = i
      <4>1. t \in Tested(i) /\ Tested(i)' = Tested(i) \ {t}
        BY <3>1, <3>2 DEF Act, Tested
      <4>2. Cardinality(Tested(i)') = Cardinality(Tested(i)) - 1
        BY <1>0, <4>1, UnderWaySize, FS_RemoveElement
      <4>3. late'[i] <= late[i] + 1
        BY <1>1, <3>1, <3>2 DEF Act
      <4> QED
        BY <1>1, <4>2, <4>3 DEF LateOK
    <3>3. CASE req[t].token # i
      BY <2>1, <3>1, <3>3, <1>1 DEF Act, Tested
    <3> QED
      BY <3>2, <3>3
  <2>4. CASE SetBack
    <3>1. late'[i] \in {0, late[i]}
      BY <2>4 DEF SetBack
    <3> QED
      BY <1>1, <2>1, <2>4, <3>1 DEF SetBack, Tested
  <2>5. CASE UNCHANGED late /\ Tested(i)' \subseteq Tested(i)
    BY <1>1, <2>1, <2>5
  <2>6. CASE Tick \/ Restart \/ UNCHANGED vars
    BY <2>5, <2>6 DEF Tick, Restart, vars, Tested
  <2>7. ASSUME NEW t \in Thread,
               \/ WrongPassword(t) \/ RightPassword(t) \/ Forbid(t) \/ Logout(t)
               \/ (\E c \in Client : Render(t, c))
               \/ (\E k \in Keys : Refuse(t, k) \/ \E c \in Client : Admit(t, c, k))
        PROVE  UNCHANGED late /\ Tested(i)' \subseteq Tested(i)
    BY <2>7 DEF WrongPassword, RightPassword, Forbid, Logout, Render, Refuse, Admit, vars, Tested
  <2> QED
    BY <2>2, <2>3, <2>4, <2>5, <2>6, <2>7, KeysOfRequests DEF Next, Answer
<1> QED
  BY <1>2, LateStarts DEF LateOK

(* For any number of browsers and handler threads, and however long a      *)
(* request takes to send its form: once a session has ended, by its expiry *)
(* or with its secret, no more is done under it than what each thread had  *)
(* in hand (do_POST).                                                      *)
THEOREM SessionsRunDry == Spec => []EndedSessionsRunDry
<1> DEFINE LInv == \A i \in TokenIds : LateOK(i)
<1>1. TInv /\ TInv' /\ SInv /\ LInv /\ [Next]_vars => LInv'
  BY LateStep
<1>2. TInv /\ LInv => EndedSessionsRunDry
  <2> SUFFICES ASSUME TInv, NEW i \in TokenIds, LateOK(i) PROVE late[i] <= Cardinality(Thread)
    BY DEF EndedSessionsRunDry
  <2>1. Tested(i) \in SUBSET Thread /\ late[i] \in Nat
    BY DEF Tested, TInv, TypeOK
  <2> QED
    BY <2>1, UnderWaySize DEF LateOK
<1> QED
  BY <1>1, <1>2, LateInitial, SessionsHold, TypeInitial, TypeStep, PTL DEF Spec
=============================================================================
