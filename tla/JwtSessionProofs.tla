-------------------------- MODULE JwtSessionProofs --------------------------
(***************************************************************************)
(* Proofs about the sessions with tokens, for any set of users, any two    *)
(* lifetimes of at least two units, any settings of the cookie, any time   *)
(* and any number of tokens: the type invariant, that a cookie ends with   *)
(* its token, and that a session whose tokens have all expired never       *)
(* begins again.                                                           *)
(*                                                                         *)
(* The type invariant says what a token's expiry is by its kind.  The last *)
(* property needs it: a login in the unit of time in which the session     *)
(* began finds the tokens of that session alive.                           *)
(***************************************************************************)
EXTENDS JwtSession, TLAPS

(* What the types leave to the shape of the records.                       *)
Shapes ==
  /\ jar \in [Users -> [token : SUBSET tokens, until : Nat]]
  /\ \A t \in tokens : t.session.login \in Nat /\ t.exp \in Nat
  /\ cookieMaxAge \in Nat

TypeInv == TypeOK /\ Shapes

LEMMA Lifetimes ==
  Access \in Nat /\ Access >= 2 /\ Refresh \in Nat /\ Refresh >= 2 /\ Ages \subseteq Nat
BY TimesAssumption, AgesAssumption

TokenOK(t, time) ==
  /\ t.session.user \in Users /\ t.session.login \in Nat /\ t.session.login <= t.made
  /\ t.kind \in {"access", "refresh"} /\ t.made \in 0..time /\ t.exp \in Nat
  /\ t.kind = "access" => t.exp = t.made + Access
  /\ t.kind = "refresh" => t.exp \in (t.made + Refresh)..(t.made + 1 + Refresh)

(* The tokens of a pair have the lifetimes of their kinds.                 *)
LEMMA SignedTypes ==
  ASSUME TypeInv, NEW s, s.user \in Users, s.login \in Nat, s.login <= now,
         NEW d \in {0, 1}, NEW t \in Signed(s, d)
  PROVE  /\ TokenOK(t, now + d) /\ t.session = s
         /\ t.made = now /\ t.exp > now
<1>1. now \in Nat
  BY BoundsAssumption DEF TypeInv, TypeOK
<1> QED
  BY <1>1, Lifetimes DEF Signed, Token, TokenOK

(* The time a cookie gets, and what Issue does with it. *)
Left(d) == IF cookieMaxAge = 0 THEN Access - d ELSE cookieMaxAge

CookieOf(s, d) == [token |-> {t \in Signed(s, d) : t.kind = "access"},
                   until |-> now + d + Left(d)]

LEMMA IssueParts ==
  ASSUME TypeInv, NEW s, NEW d \in {0, 1}, Issue(s, d)
  PROVE  /\ now \in Nat /\ now' = now + d /\ now' \in 0..MaxTime
         /\ tokens' = tokens \cup Signed(s, d) /\ UNCHANGED settings
         /\ cookieName' = (cookieName \/ sendCookie)
         /\ cookieMaxAge' = (IF sendCookie THEN Left(d) ELSE cookieMaxAge)
         /\ jar' = IF sendCookie THEN [jar EXCEPT ![s.user] = CookieOf(s, d)] ELSE jar
         /\ Left(d) \in Ages \cup 0..Access /\ Left(d) \in Nat
<1>1. /\ now \in Nat /\ now' = now + d /\ now' \in 0..MaxTime
      /\ tokens' = tokens \cup Signed(s, d) /\ UNCHANGED settings
      /\ cookieName' = (cookieName \/ sendCookie)
  BY BoundsAssumption DEF TypeInv, TypeOK, Issue
<1>2. cookieMaxAge' = (IF sendCookie THEN Left(d) ELSE cookieMaxAge)
  BY DEF Issue, Left
<1>3. jar' = IF sendCookie THEN [jar EXCEPT ![s.user] = CookieOf(s, d)] ELSE jar
  BY DEF Issue, Left, CookieOf
<1>4. Left(d) \in Ages \cup 0..Access /\ Left(d) \in Nat
  BY Lifetimes DEF Left, TypeInv, TypeOK, Shapes
<1> QED
  BY <1>1, <1>2, <1>3, <1>4

LEMMA IssueTypes ==
  ASSUME TypeInv, NEW s, s.user \in Users, s.login \in Nat, s.login <= now,
         NEW d \in {0, 1}, Issue(s, d)
  PROVE  TypeInv'
<1>1. /\ now \in Nat /\ now' = now + d /\ now' \in 0..MaxTime
      /\ tokens' = tokens \cup Signed(s, d)
  BY IssueParts
<1>2. \A t \in tokens : TokenOK(t, now)
  BY DEF TypeInv, TypeOK, Shapes, TokenOK
<1>3. \A t \in tokens' : TokenOK(t, now')
  BY <1>1, <1>2, SignedTypes DEF TokenOK
<1>4. CookieOf(s, d) \in [token : SUBSET tokens', until : Nat]
  <2>1. Left(d) \in Nat
    BY IssueParts
  <2>2. now + d + Left(d) \in Nat
    BY <1>1, <2>1
  <2>3. {t \in Signed(s, d) : t.kind = "access"} \in SUBSET tokens'
    BY <1>1
  <2> QED
    BY <2>2, <2>3 DEF CookieOf
<1>5. jar' \in [Users -> [token : SUBSET tokens', until : Nat]]
  <2>1. jar \in [Users -> [token : SUBSET tokens', until : Nat]]
    BY <1>1 DEF TypeInv, Shapes
  <2> QED
    BY <1>4, <2>1, IssueParts
<1>6. cookieMaxAge' \in Ages \cup 0..Access /\ cookieMaxAge' \in Nat
  BY IssueParts DEF TypeInv, TypeOK, Shapes
<1>7. Shapes'
  BY <1>3, <1>5, <1>6 DEF Shapes, TokenOK
<1>8. UNCHANGED settings /\ cookieName' \in BOOLEAN
  BY IssueParts
<1>9. TypeOK'
  BY <1>1, <1>3, <1>5, <1>6, <1>8, IssueParts DEF settings, TypeInv, TypeOK, TokenOK
<1> QED
  BY <1>7, <1>9 DEF TypeInv

LEMMA TypeStep ==
  ASSUME TypeInv, [Next]_vars
  PROVE  TypeInv'
<1> USE DEF settings
<1>0. now \in Nat /\ MaxTime \in Nat
  BY BoundsAssumption DEF TypeInv, TypeOK
<1>1. CASE Tick
  <2>1. now' \in 0..MaxTime /\ now' = now + 1
    BY <1>0, <1>1 DEF Tick
  <2>2. Shapes' /\ UNCHANGED <<tokens, jar, settings, cookieName, cookieMaxAge>>
    BY <1>1 DEF Tick, TypeInv, Shapes
  <2>3. \A t \in tokens' : t.made \in 0..now'
    BY <1>0, <2>1, <2>2 DEF TypeInv, TypeOK
  <2> QED
    BY <2>1, <2>2, <2>3 DEF TypeInv, TypeOK
<1>2. CASE Restart
  BY <1>2, Lifetimes DEF Restart, TypeInv, TypeOK, Shapes
<1>3. ASSUME NEW u \in Users, LoginHandler(u) PROVE TypeInv'
  <2>1. PICK d \in {0, 1} : Issue(Session(u, now), d)
    BY <1>3 DEF LoginHandler
  <2>2. /\ Session(u, now).user \in Users /\ Session(u, now).login \in Nat
        /\ Session(u, now).login <= now
    BY <1>0 DEF Session
  <2> QED
    BY <2>1, <2>2, IssueTypes
<1>4. ASSUME NEW u \in Users, LogoutHandler(u) PROVE TypeInv'
  BY <1>4 DEF LogoutHandler, NoCookie, TypeInv, TypeOK, Shapes
<1>5. ASSUME NEW u \in Users, RefreshHandler(u) PROVE TypeInv'
  <2>1. PICK t \in tokens, d \in {0, 1} : Issue(t.session, d)
    BY <1>5 DEF RefreshHandler
  <2>2. /\ t.session.user \in Users /\ t.session.login \in Nat /\ t.session.login <= now
    BY <1>0 DEF TypeInv, TypeOK, Shapes
  <2> QED
    BY <2>1, <2>2, IssueTypes
<1>6. CASE UNCHANGED vars
  BY <1>6 DEF vars, TypeInv, TypeOK, Shapes
<1> QED
  BY <1>1, <1>2, <1>3, <1>4, <1>5, <1>6 DEF Next

LEMMA InitType == Init => TypeInv
<1> SUFFICES ASSUME Init PROVE TypeInv
  OBVIOUS
<1>1. now = 0 /\ tokens = {} /\ 0 \in 0..MaxTime
  BY BoundsAssumption DEF Init
<1>2. Shapes
  BY <1>1, Lifetimes DEF Init, Shapes, NoCookie
<1>3. \A u \in Users : jar[u].token \subseteq tokens
  BY <1>1 DEF Init, NoCookie
<1>4. TypeOK
  BY <1>1, <1>3 DEF Init, TypeOK
<1> QED
  BY <1>2, <1>4 DEF TypeInv

(* The variables keep their types, and every token has the lifetime of its *)
(* kind, whatever the settings of the cookie.                              *)
THEOREM TypeCorrect == Spec => []TypeOK
<1>1. TypeInv => TypeOK
  BY DEF TypeInv
<1> QED
  BY <1>1, InitType, TypeStep, PTL DEF Spec

-----------------------------------------------------------------------------
(* CookieMaxAge, when it is no setting, is what was left of some token.    *)
AgeOfToken == age = 0 => cookieMaxAge \in {0, Access - 1, Access}

LEMMA CookieStep ==
  ASSUME TypeInv, AgeOfToken, CookieEndsWithToken, [Next]_vars
  PROVE  AgeOfToken' /\ CookieEndsWithToken'
<1> USE DEF settings
<1>1. ASSUME NEW s, NEW d \in {0, 1}, Issue(s, d)
      PROVE  AgeOfToken' /\ CookieEndsWithToken'
  <2>1. age = 0 => Left(d) \in {Access - 1, Access}
    BY Lifetimes DEF Left, AgeOfToken
  <2>2. AgeOfToken'
    BY <1>1, <2>1, IssueParts DEF AgeOfToken
  <2>3. \A t \in CookieOf(s, d).token : t.exp = now + Access
    BY DEF CookieOf, Signed, Token
  <2>4. age = 0 => \A t \in CookieOf(s, d).token :
                     CookieOf(s, d).until \in (t.exp - 1)..(t.exp + 1)
    <3>1. CookieOf(s, d).until = now + d + Left(d)
      BY DEF CookieOf
    <3>2. now \in Nat
      BY <1>1, IssueParts
    <3> QED
      BY <2>1, <2>3, <3>1, <3>2, Lifetimes
  <2>5. jar \in [Users -> [token : SUBSET tokens, until : Nat]]
    BY DEF TypeInv, Shapes
  <2>6. \A u \in Users : jar'[u] = jar[u] \/ jar'[u] = CookieOf(s, d)
    BY <1>1, <2>5, IssueParts
  <2>7. age' = age
    BY <1>1, IssueParts
  <2> QED
    BY <2>2, <2>4, <2>6, <2>7 DEF CookieEndsWithToken
<1>2. CASE Tick
  BY <1>2 DEF Tick, AgeOfToken, CookieEndsWithToken
<1>3. CASE Restart
  BY <1>3 DEF Restart, AgeOfToken, CookieEndsWithToken
<1>4. ASSUME NEW u \in Users, LogoutHandler(u)
      PROVE  AgeOfToken' /\ CookieEndsWithToken'
  <2>1. \A v \in Users : jar'[v] = jar[v] \/ jar'[v] = NoCookie
    BY <1>4 DEF LogoutHandler, TypeInv, Shapes
  <2>2. NoCookie.token = {}
    BY DEF NoCookie
  <2> QED
    BY <1>4, <2>1, <2>2 DEF LogoutHandler, AgeOfToken, CookieEndsWithToken
<1>5. CASE UNCHANGED vars
  BY <1>5 DEF vars, AgeOfToken, CookieEndsWithToken
<1> QED
  BY <1>1, <1>2, <1>3, <1>4, <1>5 DEF Next, LoginHandler, RefreshHandler

(* Without a setting the age of a cookie, computed once from another       *)
(* user's token perhaps, lets every cookie end with the token in it, but   *)
(* for the time a handler takes.                                           *)
THEOREM CookiesCorrect == Spec => []CookieEndsWithToken
<1>1. Init => AgeOfToken /\ CookieEndsWithToken
  BY DEF Init, AgeOfToken, CookieEndsWithToken, NoCookie
<1> QED
  BY <1>1, InitType, TypeStep, CookieStep, PTL DEF Spec

-----------------------------------------------------------------------------
Live(s) == \E t \in tokens : t.session = s /\ now < t.exp

(* A handler that signs for s leaves every session alive that was, and     *)
(* brings none back but s.                                                 *)
LEMMA IssueLives ==
  ASSUME TypeInv, NEW s, NEW d \in {0, 1}, Issue(s, d),
         NEW t \in tokens', now' < t.exp
  PROVE  Live(t.session) \/ t \in Signed(s, d)
BY BoundsAssumption DEF TypeInv, TypeOK, Shapes, Issue, Live

LEMMA ResumeStep ==
  ASSUME TypeInv, [Next]_vars, NEW s \in {t.session : t \in tokens}, Live(s)'
  PROVE  Live(s)
<1>0. now \in Nat /\ now' \in Nat /\ \A t \in tokens : t.exp \in Nat
  BY BoundsAssumption, TypeStep DEF TypeInv, TypeOK, Shapes
<1>1. ASSUME tokens' = tokens, now <= now' PROVE Live(s)
  BY <1>0, <1>1 DEF Live
<1>2. ASSUME NEW u \in Users, LoginHandler(u) PROVE Live(s)
  <2>1. PICK d \in {0, 1} : Issue(Session(u, now), d)
    BY <1>2 DEF LoginHandler
  <2>2. PICK t \in tokens' : t.session = s /\ now' < t.exp
    BY DEF Live
  <2>3. CASE t \in Signed(Session(u, now), d)
    <3>1. s = Session(u, now)
      BY <2>2, <2>3 DEF Signed, Token
    <3>2. PICK old \in tokens : old.session = s
      OBVIOUS
    <3>3. TokenOK(old, now)
      BY DEF TypeInv, TypeOK, Shapes, TokenOK
    <3>4. old.made = now
      BY <1>0, <3>1, <3>2, <3>3 DEF Session, TokenOK
    <3>5. now < old.exp
      BY <1>0, <3>3, <3>4, Lifetimes DEF TokenOK
    <3> QED
      BY <3>2, <3>5 DEF Live
  <2> QED
    BY <2>1, <2>2, <2>3, IssueLives
<1>3. ASSUME NEW u \in Users, RefreshHandler(u) PROVE Live(s)
  <2>1. PICK old \in tokens, d \in {0, 1} : Valid(old) /\ Issue(old.session, d)
    BY <1>3 DEF RefreshHandler
  <2>2. PICK t \in tokens' : t.session = s /\ now' < t.exp
    BY DEF Live
  <2>3. CASE t \in Signed(old.session, d)
    <3>1. old.session = s
      BY <2>2, <2>3 DEF Signed, Token
    <3> QED
      BY <2>1, <3>1 DEF Valid, Live
  <2> QED
    BY <2>1, <2>2, <2>3, IssueLives
<1> QED
  BY <1>0, <1>1, <1>2, <1>3 DEF Next, Tick, Restart, LogoutHandler, vars

(* A session whose tokens have all expired never begins again: a refresh   *)
(* needs a token of it that is valid, whenever the clock moves within the  *)
(* handler, and a login makes a session of its own.                        *)
THEOREM NoSessionResumed == Spec => NoneResumed
<1>1. ASSUME TypeInv, [Next]_vars
      PROVE  [\A s \in {t.session : t \in tokens} :
                LET Alive == \E t \in tokens : t.session = s /\ now < t.exp
                IN Alive' => Alive]_vars
  BY <1>1, ResumeStep DEF Live
<1> QED
  BY <1>1, InitType, TypeStep, PTL DEF Spec, NoneResumed
=============================================================================
