----------------------------- MODULE JwtSession -----------------------------
(***************************************************************************)
(* The sessions of token/token.go: a JwtHandler that is shared by all      *)
(* requests signs a pair of tokens at a login or a refresh and may send    *)
(* one as a cookie.  The server keeps nothing of a session: what it may    *)
(* answer is in the tokens the clients hold.  AuthInterceptor, which asks  *)
(* for a token of the header that is valid, changes nothing and is left    *)
(* out.                                                                    *)
(*                                                                         *)
(* A token is known by its user, the login it goes back to, its kind, when *)
(* its handler began (made) and when it expires.  The login and the kind   *)
(* are not in the token itself: the code never asks for them.  A handler   *)
(* takes up to one unit of time.  The application gives RefreshHandler the *)
(* token its own client presents.                                          *)
(***************************************************************************)
EXTENDS Naturals, FiniteSets

CONSTANTS Users,
          Access, Refresh,  \* TimeOut, RefreshTimeOut
          Ages,             \* the values of the setting CookieMaxAge, 0 for none
          MaxTime, MaxPairs \* bounds: the time, the pairs of tokens signed

ASSUME TimesAssumption == Access \in Nat \ {0, 1} /\ Refresh \in Nat \ {0, 1}
ASSUME AgesAssumption == Ages \subseteq Nat
ASSUME BoundsAssumption == MaxTime \in Nat /\ MaxPairs \in Nat

VARIABLES
  now,          \* the time
  publicKey,    \* whether j.Alg is RS256, RS384 or RS512
  sendCookie,   \* j.SendCookie
  named, age,   \* whether CookieName is a setting, the setting of CookieMaxAge
  cookieName,   \* whether j.CookieName is set
  cookieMaxAge, \* j.CookieMaxAge
  tokens,       \* every token signed
  jar           \* of each user: the cookie its browser holds, if any

settings == <<publicKey, sendCookie, named, age>>
vars == <<now, publicKey, sendCookie, named, age, cookieName, cookieMaxAge, tokens, jar>>

NoCookie == [token |-> {}, until |-> 0]

Token(s, kind, exp) == [session |-> s, kind |-> kind, made |-> now, exp |-> exp]
Session(u, login) == [user |-> u, login |-> login]
Pairs  == Cardinality({<<t.session, t.made>> : t \in tokens})
Valid(t) == now < t.exp

Init ==
  /\ now = 0 /\ publicKey \in BOOLEAN /\ sendCookie \in BOOLEAN
  /\ named \in BOOLEAN /\ age \in Ages
  /\ cookieName = named /\ cookieMaxAge = age
  /\ tokens = {} /\ jar = [u \in Users |-> NoCookie]

Tick ==
  /\ now < MaxTime /\ now' = now + 1
  /\ UNCHANGED <<settings, cookieName, cookieMaxAge, tokens, jar>>

(* Mutant: the expiry of the refresh token is set before both are signed.  *)
MutSigned(s, d) == {Token(s, "access", now + d + Refresh),
                    Token(s, "refresh", now + d + Refresh)}

(* The access token is signed, then exp is changed in the same claims and  *)
(* the refresh token is signed from them (refreshToken).                   *)
Signed(s, d) == {Token(s, "access", now + Access), Token(s, "refresh", now + d + Refresh)}

(* Mutant: the cookie gets the time of the expiry in the claims, by then   *)
(* that of the refresh token.                                              *)
MutIssue(s, d) ==
  LET left == IF cookieMaxAge = 0 THEN Refresh ELSE cookieMaxAge IN
  /\ Pairs < MaxPairs /\ now + d <= MaxTime
  /\ now' = now + d
  /\ tokens' = tokens \cup Signed(s, d)
  /\ cookieName' = (cookieName \/ sendCookie)
  /\ cookieMaxAge' = IF sendCookie THEN left ELSE cookieMaxAge
  /\ jar' = IF sendCookie
            THEN [jar EXCEPT ![s.user] = [token |-> {t \in Signed(s, d) : t.kind = "access"},
                                          until |-> now + d + left]]
            ELSE jar
  /\ UNCHANGED settings

(* The end of LoginHandler and of RefreshHandler, d after its begin.       *)
(* Unless it is a setting CookieMaxAge is what was left of the first       *)
(* access token sent, for all that follow.                                 *)
Issue(s, d) ==
  LET left == IF cookieMaxAge = 0 THEN Access - d ELSE cookieMaxAge IN
  /\ Pairs < MaxPairs /\ now + d <= MaxTime
  /\ now' = now + d
  /\ tokens' = tokens \cup Signed(s, d)
  /\ cookieName' = (cookieName \/ sendCookie)
  /\ cookieMaxAge' = IF sendCookie THEN left ELSE cookieMaxAge
  /\ jar' = IF sendCookie
            THEN [jar EXCEPT ![s.user] = [token |-> {t \in Signed(s, d) : t.kind = "access"},
                                          until |-> now + d + left]]
            ELSE jar
  /\ UNCHANGED settings

(* The private key is a string, with which RS256 and its kin cannot sign:  *)
(* the handler fails, having changed nothing.                              *)
LoginHandler(u) == ~publicKey /\ \E d \in {0, 1} : Issue(Session(u, now), d)

LogoutHandler(u) ==
  /\ sendCookie /\ cookieName' = TRUE
  /\ jar' = [jar EXCEPT ![u] = NoCookie]
  /\ UNCHANGED <<now, settings, cookieMaxAge, tokens>>

(* Mutant: a token that expired is taken as well.                          *)
MutRefreshHandler(u) ==
  /\ ~publicKey
  /\ \E t \in tokens, d \in {0, 1} : t.session.user = u /\ Issue(t.session, d)

(* The user's token that was presented, of either kind, must be valid.     *)
RefreshHandler(u) ==
  /\ ~publicKey
  /\ \E t \in tokens, d \in {0, 1} : t.session.user = u /\ Valid(t) /\ Issue(t.session, d)

(* The server starts again with its settings; the keys are among them. *)
Restart ==
  /\ cookieName' = named /\ cookieMaxAge' = age
  /\ UNCHANGED <<now, settings, tokens, jar>>

Next == Tick \/ Restart
        \/ \E u \in Users : LoginHandler(u) \/ LogoutHandler(u) \/ RefreshHandler(u)

Spec == Init /\ [][Next]_vars

-----------------------------------------------------------------------------
(* Types, and that a token has the time of its kind: changing the claims   *)
(* it was signed from does not touch the access token.                     *)
TypeOK ==
  /\ now \in 0..MaxTime /\ publicKey \in BOOLEAN /\ sendCookie \in BOOLEAN
  /\ named \in BOOLEAN /\ age \in Ages
  /\ cookieName \in BOOLEAN /\ cookieMaxAge \in Ages \cup 0..Access
  /\ \A t \in tokens :
       /\ t.session.user \in Users /\ t.session.login <= t.made
       /\ t.kind \in {"access", "refresh"} /\ t.made \in 0..now
       /\ t.kind = "access" => t.exp = t.made + Access
       /\ t.kind = "refresh" => t.exp \in (t.made + Refresh)..(t.made + 1 + Refresh)
  /\ \A u \in Users : jar[u].token \subseteq tokens

(* Without a setting CookieMaxAge is computed once, from the first token   *)
(* sent since the start, and kept for the cookies of all users that follow *)
(* (token.go:105, 247).  Still every cookie ends when the token in it      *)
(* does, but for the time a handler may take.                              *)
CookieEndsWithToken ==
  age = 0 => \A u \in Users : \A t \in jar[u].token : jar[u].until \in (t.exp - 1)..(t.exp + 1)

(* A session that ended, all its tokens having expired, does not begin     *)
(* again, whatever was refreshed when and by which token: only a login     *)
(* makes a session (RefreshHandler).                                       *)
NoneResumed ==
  [][\A s \in {t.session : t \in tokens} :
       LET Live == \E t \in tokens : t.session = s /\ now < t.exp IN Live' => Live]_vars
=============================================================================
