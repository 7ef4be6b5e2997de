---------------------------- MODULE SessionProofs ---------------------------
(***************************************************************************)
(* Proofs about Session and the Cookie of Message. For any numbers of      *)
(* browsers, requests, sessions and users, and however requests overlap    *)
(* and commands fail, a session holds nothing that was not put into it,    *)
(* and sessions and sign-ins agree on who a user is. However many plain    *)
(* cookies there are, and in whatever order they are written, what a       *)
(* server reads of them, if their line is not too long, is what was set.   *)
(***************************************************************************)
EXTENDS Session, BodyProofs

(***************************************************************************)
(* What a session holds, be it the stored one or a request's copy of it:   *)
(* its own csrf token, a user whom a sign_in of this session has written   *)
(* (sg) and user-id leads to (ui), and a token that begin_oauth has stored *)
(* in it (bg).  These are only added to, so a copy stays good while others *)
(* change what is stored: that is why the property survives lost updates.  *)
(***************************************************************************)
Known(id, ui) == \E u \in Users : ui[u] # None /\ id \in {ui[u], Misread(ui[u])}

Owned(s, x, sg, bg, ui) == /\ x.csrf = s
                           /\ x.user # None => <<s, x.user>> \in sg /\ Known(x.user, ui)
                           /\ x.oauth # None => <<s, x.oauth>> \in bg

Active == {"begin", "verify", "exchange", "signin", "signout"}

RequestOK(q, sg, bg, ui) ==
  /\ q.pc \in Active => /\ q.sid \in Sids /\ q.copy \in SessionType
                        /\ Owned(q.sid, q.copy, sg, bg, ui)
  /\ q.pc = "begin" \/ (q.pc = "load" /\ q.kind = "begin") => q.token \in Tokens
  /\ q.pc = "signin" \/ (q.pc = "load" /\ q.kind = "callback20") => q.user \in Users
  /\ q.pc = "exchange" => <<q.sid, q.token>> \in bg

StoredOK == \A s \in Sids : session[s] # None => Owned(s, session[s], signed, begun, userId)

RequestsOK == \A r \in Requests : RequestOK(req[r], signed, begun, userId)

\* user-id is written once; what sign_in reads of it later is always the same.
IdsOK == \A u \in Users :
           signIns[u] \subseteq (IF userId[u] = None THEN {} ELSE {Misread(userId[u])})

IInv == TypeOK /\ StoredOK /\ RequestsOK /\ IdsOK

\* What a step adds to.
Grows == /\ signed \subseteq signed' /\ begun \subseteq begun'
         /\ \A u \in Users : userId[u] # None => userId'[u] = userId[u]

LEMMA OwnedGrows ==
  ASSUME NEW s, NEW x, Grows, Owned(s, x, signed, begun, userId)
  PROVE  Owned(s, x, signed', begun', userId')
  BY DEF Grows, Owned, Known

LEMMA RequestGrows ==
  ASSUME NEW q, Grows, RequestOK(q, signed, begun, userId)
  PROVE  RequestOK(q, signed', begun', userId')
  BY OwnedGrows DEF RequestOK, Grows

\* A step that writes no session, or a good one, leaves the stored sessions good.
LEMMA StoredKept ==
  ASSUME TypeOK, StoredOK, Grows, NEW sid \in Sids, NEW x,
         Owned(sid, x, signed', begun', userId'),
         session' = session \/ session' = [session EXCEPT ![sid] = x]
  PROVE  StoredOK'
<1> SUFFICES ASSUME NEW s \in Sids, session'[s] # None
             PROVE  Owned(s, session'[s], signed', begun', userId')
  BY DEF StoredOK
<1>1. CASE session'[s] = session[s]
  BY <1>1, OwnedGrows DEF StoredOK
<1>2. CASE session'[s] # session[s]
  BY <1>2 DEF TypeOK
<1> QED BY <1>1, <1>2

LEMMA StoredUnchanged ==
  ASSUME StoredOK, Grows, session' = session
  PROVE  StoredOK'
  BY OwnedGrows DEF StoredOK

LEMMA RequestsKept ==
  ASSUME TypeOK, RequestsOK, Grows, NEW r \in Requests, NEW q,
         RequestOK(q, signed', begun', userId'), req' = [req EXCEPT ![r] = q]
  PROVE  RequestsOK'
<1> SUFFICES ASSUME NEW o \in Requests
             PROVE  RequestOK(req'[o], signed', begun', userId')
  BY DEF RequestsOK
<1>1. CASE o = r
  BY <1>1 DEF TypeOK
<1>2. CASE o # r
  BY <1>2, RequestGrows DEF TypeOK, RequestsOK
<1> QED BY <1>1, <1>2

\* Where a request goes on, it is what it was, and at its end nothing is asked of it.
LEMMA AfterOK ==
  ASSUME NEW q \in RequestType, NEW pc \in Places, NEW sg, NEW bg, NEW ui,
         pc # "finish" => RequestOK([q EXCEPT !.pc = pc], sg, bg, ui)
  PROVE  After(q, pc) \in RequestType /\ RequestOK(After(q, pc), sg, bg, ui)
<1>1. Idle \in RequestType
  BY SessionAssumption DEF Idle, RequestType, Places, Kinds
<1>2. CASE pc = "finish"
  <2>1. After(q, pc).pc = "finish"
    BY <1>1, <1>2 DEF After, Idle
  <2>2. After(q, pc) \in RequestType
    <3>1. \A b \in Browsers \cup {None}, s \in Sids \cup {None} :
            [Idle EXCEPT !.pc = pc, !.browser = b, !.sid = s] \in RequestType
      BY <1>1 DEF RequestType
    <3>2. q.browser \in Browsers \cup {None} /\ q.sid \in Sids \cup {None}
      BY DEF RequestType
    <3> QED BY <1>2, <3>1, <3>2 DEF After
  <2> QED BY <2>1, <2>2 DEF RequestOK, Active
<1>3. CASE pc # "finish"
  BY <1>3 DEF After, RequestType
<1> QED BY <1>2, <1>3

LEMMA InitIInv == Init => IInv
<1> SUFFICES ASSUME Init PROVE IInv
  OBVIOUS
<1>1. Idle \in RequestType /\ Idle.pc = "idle"
  BY SessionAssumption DEF Idle, RequestType, Places, Kinds
<1>2. TypeOK
  BY <1>1, SessionAssumption DEF Init, TypeOK
<1>3. RequestsOK
  BY <1>1 DEF Init, RequestsOK, RequestOK, Active
<1>4. StoredOK /\ IdsOK
  BY DEF Init, StoredOK, IdsOK
<1> QED BY <1>2, <1>3, <1>4 DEF IInv
-----------------------------------------------------------------------------
(* Every step keeps it *)

LEMMA StartKeeps ==
  ASSUME IInv, NEW r \in Requests, NEW b \in Browsers, NEW k \in Kinds,
         NEW t \in Tokens \cup {None}, NEW u \in Users \cup {None}, Start(r, b, k, t, u)
  PROVE  IInv'
<1> USE DEF IInv
<1> DEFINE q == [pc |-> "load", kind |-> k, browser |-> b, now |-> clock, sid |-> cookie[b],
                 fresh |-> FALSE, copy |-> None, token |-> t, user |-> u]
<1>1. Grows
  BY DEF Start, Grows, db
<1>2. q \in RequestType
  BY DEF TypeOK, RequestType, Places
<1>3. k = "begin" => t \in Tokens
  BY DEF Start, TokenOf
<1>4. k = "callback20" => u \in Users
  BY DEF Start, CodeOf
<1>5. RequestOK(q, signed', begun', userId')
  BY <1>3, <1>4 DEF RequestOK, Active
<1>6. req' = [req EXCEPT ![r] = q]
  BY DEF Start
<1>7. RequestsOK'
  <2> HIDE DEF q
  <2> QED BY <1>1, <1>5, <1>6, RequestsKept
<1>8. StoredOK'
  BY <1>1, StoredUnchanged DEF Start, db
<1>9. IdsOK'
  BY DEF Start, IdsOK, db
<1>10. issued' \subseteq Tokens
  BY DEF Start, TokenOf, TypeOK
<1>11. overlapped' \subseteq Sids /\ started' \in 0 .. MaxRequests
  BY SessionAssumption DEF Start, TypeOK
<1>12. TypeOK'
  <2> HIDE DEF q
  <2> QED BY <1>2, <1>6, <1>10, <1>11 DEF Start, TypeOK, db
<1> QED BY <1>7, <1>8, <1>9, <1>12

\* The copy a request has made of its session, and where the request goes next.
LEMMA CopiedOK ==
  ASSUME NEW q \in RequestType, q.pc = "load", NEW sg, NEW bg, NEW ui, NEW x \in SessionType,
         NEW s \in Sids, NEW f \in BOOLEAN, NEW ok \in BOOLEAN,
         RequestOK(q, sg, bg, ui), Owned(s, x, sg, bg, ui)
  PROVE  LET n == After([q EXCEPT !.sid = s, !.fresh = f, !.copy = x], Outcome(q, ok))
         IN n \in RequestType /\ RequestOK(n, sg, bg, ui)
<1> DEFINE c == [q EXCEPT !.sid = s, !.fresh = f, !.copy = x]
<1>1. c \in RequestType
  BY DEF RequestType
<1>2. Outcome(q, ok) \in {"finish", "begin", "verify", "signin", "signout"}
  BY DEF Outcome, NextPlace, RequestType, Kinds
<1>3. /\ Outcome(q, ok) = "begin" => q.kind = "begin"
      /\ Outcome(q, ok) = "signin" => q.kind = "callback20"
  BY DEF Outcome, NextPlace, RequestType, Kinds
<1>4. ASSUME NEW pc \in {"begin", "verify", "signin", "signout"}, pc = Outcome(q, ok)
      PROVE  RequestOK([c EXCEPT !.pc = pc], sg, bg, ui)
  BY <1>3, <1>4 DEF RequestOK, RequestType, Active
<1> HIDE DEF c
<1> QED BY <1>1, <1>2, <1>4, AfterOK DEF Places, c

LEMMA LoadKeeps ==
  ASSUME IInv, NEW r \in Requests, NEW ok \in BOOLEAN, Load(r, ok)
  PROVE  IInv'
<1> USE DEF IInv
<1> DEFINE q == req[r]
           x == [session[q.sid] EXCEPT !.ts = q.now]
<1>1. Grows
  BY DEF Load, Grows, history
<1>2. q \in RequestType /\ q.pc = "load" /\ RequestOK(q, signed, begun, userId)
  BY DEF Load, TypeOK, RequestsOK
<1>3. q.sid \in Sids /\ session[q.sid] \in SessionType /\ session[q.sid] # None
  BY <1>2 DEF Load, Usable, TypeOK, RequestType
<1>4. x \in SessionType /\ Owned(q.sid, x, signed, begun, userId)
  BY <1>2, <1>3 DEF StoredOK, Owned, SessionType, RequestType
<1> DEFINE n == After([q EXCEPT !.sid = q.sid, !.fresh = q.fresh, !.copy = x], Outcome(q, ok))
<1>5. n \in RequestType /\ RequestOK(n, signed, begun, userId)
  <2> q.fresh \in BOOLEAN
    BY <1>2 DEF RequestType
  <2> HIDE DEF x, q
  <2> QED BY <1>2, <1>3, <1>4, CopiedOK
<1>6. /\ req' = [req EXCEPT ![r] = n]
      /\ session' = [session EXCEPT ![q.sid] = x]
  <2>1. [q EXCEPT !.copy = x] = [q EXCEPT !.sid = q.sid, !.fresh = q.fresh, !.copy = x]
    BY <1>2 DEF RequestType
  <2> QED BY <2>1 DEF Load
<1>7. UNCHANGED <<userId, userInfo, cookie, provider, clock, started, history>>
  BY DEF Load
<1> HIDE DEF q, x, n
<1>8. RequestsOK'
  BY <1>1, <1>5, <1>6, <1>7, RequestsKept DEF history
<1>9. StoredOK'
  BY <1>1, <1>3, <1>4, <1>6, <1>7, StoredKept DEF history
<1>10. IdsOK'
  BY <1>7 DEF IdsOK, history
<1>11. TypeOK'
  BY <1>4, <1>5, <1>6, <1>7 DEF TypeOK, provider, history
<1> QED BY <1>8, <1>9, <1>10, <1>11

LEMMA CreateKeeps ==
  ASSUME IInv, NEW r \in Requests, NEW sid \in Sids, NEW ok \in BOOLEAN, Create(r, sid, ok)
  PROVE  IInv'
<1> USE DEF IInv
<1> DEFINE q == req[r]
           x == NewSession(q, sid)
           n == After([q EXCEPT !.sid = sid, !.fresh = ok, !.copy = x], Outcome(q, ok))
<1>1. Grows
  BY DEF Create, Grows, history
<1>2. q \in RequestType /\ q.pc = "load" /\ RequestOK(q, signed, begun, userId)
  BY DEF Create, TypeOK, RequestsOK
<1>3. x \in SessionType /\ Owned(sid, x, signed, begun, userId)
  BY <1>2 DEF NewSession, Owned, SessionType, RequestType
<1>4. n \in RequestType /\ RequestOK(n, signed, begun, userId)
  <2> HIDE DEF x, q
  <2> QED BY <1>2, <1>3, CopiedOK
<1>5. /\ req' = [req EXCEPT ![r] = n]
      /\ session' = [session EXCEPT ![sid] = x]
      /\ UNCHANGED <<userId, userInfo, cookie, provider, clock, started, history>>
  BY DEF Create
<1> HIDE DEF q, x, n
<1>6. RequestsOK'
  BY <1>1, <1>4, <1>5, RequestsKept DEF history
<1>7. StoredOK'
  BY <1>1, <1>3, <1>5, StoredKept DEF history
<1>8. IdsOK'
  BY <1>5 DEF IdsOK, history
<1>9. TypeOK'
  BY <1>3, <1>4, <1>5 DEF TypeOK, provider, history
<1> QED BY <1>6, <1>7, <1>8, <1>9

\* A request that only ends.
LEMMA EndOK ==
  ASSUME TypeOK, NEW r \in Requests, NEW sg, NEW bg, NEW ui
  PROVE  After(req[r], "finish") \in RequestType /\ RequestOK(After(req[r], "finish"), sg, bg, ui)
<1>1. req[r] \in RequestType
  BY DEF TypeOK
<1> QED BY <1>1, AfterOK DEF Places

LEMMA BeginOauthKeeps ==
  ASSUME IInv, NEW r \in Requests, BeginOauth(r)
  PROVE  IInv'
<1> USE DEF IInv
<1> DEFINE q == req[r]
           x == [q.copy EXCEPT !.oauth = q.token]
<1>1. Grows
  BY DEF BeginOauth, Grows
<1>2. q \in RequestType /\ q.pc = "begin" /\ RequestOK(q, signed, begun, userId)
  BY DEF BeginOauth, TypeOK, RequestsOK
<1>3. q.sid \in Sids /\ q.token \in Tokens /\ q.copy \in SessionType
      /\ Owned(q.sid, q.copy, signed, begun, userId)
  BY <1>2 DEF RequestOK, Active
<1>4. x \in SessionType /\ Owned(q.sid, x, signed', begun', userId')
  BY <1>3 DEF Owned, SessionType, BeginOauth
<1>5. RequestsOK'
  BY <1>1, EndOK, RequestsKept DEF BeginOauth, Goto
<1>6. StoredOK'
  <2> session' = [session EXCEPT ![q.sid] = x]
    BY DEF BeginOauth
  <2> HIDE DEF q, x
  <2> QED BY <1>1, <1>3, <1>4, StoredKept
<1>7. IdsOK'
  BY DEF BeginOauth, IdsOK
<1>8. begun' \subseteq Sids \X Tokens /\ begun \subseteq begun'
  BY <1>3 DEF BeginOauth, TypeOK
<1>9. req' \in [Requests -> RequestType] /\ session' \in [Sids -> SessionType \cup {None}]
  BY <1>4, EndOK DEF BeginOauth, Goto, TypeOK
<1>10. TypeOK'
  BY <1>8, <1>9 DEF BeginOauth, TypeOK, provider
<1> QED BY <1>5, <1>6, <1>7, <1>10

LEMMA VerifyKeeps ==
  ASSUME IInv, NEW r \in Requests, NEW ok \in BOOLEAN, VerifyOauthToken(r, ok)
  PROVE  IInv'
<1> USE DEF IInv
<1> DEFINE q == req[r]
           x == [q.copy EXCEPT !.oauth = None]
           next == IF ok THEN "exchange" ELSE "finish"
           n == After([q EXCEPT !.copy = x], next)
<1>1. Grows
  BY DEF VerifyOauthToken, Grows, history
<1>2. q \in RequestType /\ q.pc = "verify" /\ RequestOK(q, signed, begun, userId)
  BY DEF VerifyOauthToken, TypeOK, RequestsOK
<1>3. q.sid \in Sids /\ q.copy \in SessionType /\ Owned(q.sid, q.copy, signed, begun, userId)
  BY <1>2 DEF RequestOK, Active
<1>4. x \in SessionType /\ Owned(q.sid, x, signed, begun, userId)
  BY <1>3 DEF Owned, SessionType
<1>5. <<q.sid, q.token>> \in begun
  BY <1>3 DEF VerifyOauthToken, TokenMatches, Owned
<1>6. n \in RequestType /\ RequestOK(n, signed, begun, userId)
  <2> DEFINE c == [q EXCEPT !.copy = x]
  <2>1. c \in RequestType
    BY <1>2, <1>4 DEF RequestType
  <2>2. RequestOK([c EXCEPT !.pc = "exchange"], signed, begun, userId)
    BY <1>2, <1>3, <1>4, <1>5 DEF RequestOK, RequestType, Active
  <2> HIDE DEF c
  <2> QED BY <2>1, <2>2, AfterOK DEF Places, c
<1>7. /\ req' = [req EXCEPT ![r] = n]
      /\ session' = [session EXCEPT ![q.sid] = x]
      /\ accepted' = IF ok THEN accepted \cup {<<q.sid, q.token>>} ELSE accepted
      /\ UNCHANGED <<userId, userInfo, cookie, provider, clock, started, overlapped, begun, signed, signIns>>
  BY DEF VerifyOauthToken
<1> HIDE DEF q, x, n
<1>8. RequestsOK'
  BY <1>1, <1>6, <1>7, RequestsKept
<1>9. StoredOK'
  BY <1>1, <1>3, <1>4, <1>7, StoredKept
<1>10. IdsOK'
  BY <1>7 DEF IdsOK
<1>11. accepted' \subseteq begun
  BY <1>5, <1>7 DEF TypeOK
<1>12. TypeOK'
  BY <1>4, <1>6, <1>7, <1>11 DEF TypeOK, provider
<1> QED BY <1>8, <1>9, <1>10, <1>12

LEMMA ExchangeKeeps ==
  ASSUME IInv, NEW r \in Requests, Exchange(r)
  PROVE  IInv'
<1> USE DEF IInv
<1> DEFINE q == req[r]
           n == [q EXCEPT !.user = approved[q.token], !.pc = "signin"]
<1>1. Grows
  BY DEF Exchange, Grows, db, history
<1>2. q \in RequestType /\ q.pc = "exchange" /\ RequestOK(q, signed, begun, userId)
  BY DEF Exchange, TypeOK, RequestsOK
<1>3. approved[q.token] \in Users
  <2>1. q.token \in Tokens
    BY <1>2 DEF RequestOK, TypeOK
  <2> QED BY <2>1 DEF Exchange, TypeOK
<1>4. n \in RequestType
  BY <1>2, <1>3 DEF RequestType, Places
<1>5. RequestOK(n, signed, begun, userId)
  BY <1>2, <1>3 DEF RequestOK, RequestType, Active
<1>6. /\ req' = [req EXCEPT ![r] = n]
      /\ UNCHANGED <<db, cookie, provider, clock, started, history>>
  <2>1. r \in DOMAIN req
    BY DEF TypeOK
  <2> QED BY <2>1 DEF Exchange
<1> HIDE DEF q, n
<1>7. RequestsOK'
  BY <1>1, <1>5, <1>6, RequestsKept DEF db, history
<1>8. StoredOK'
  BY <1>1, <1>6, StoredUnchanged DEF db
<1>9. IdsOK'
  BY <1>6 DEF IdsOK, db, history
<1>10. TypeOK'
  BY <1>4, <1>6 DEF TypeOK, db, provider, history
<1> QED BY <1>7, <1>8, <1>9, <1>10

LEMMA SignInKeeps ==
  ASSUME IInv, NEW r \in Requests, NEW fresh \in Ids, NEW done \in 1 .. 4, SignIn(r, fresh, done)
  PROVE  IInv'
<1> USE DEF IInv
<1> DEFINE q == req[r]
           id == UserId(q.user, fresh)
           x == [q.copy EXCEPT !.user = id]
<1>1. q \in RequestType /\ q.pc = "signin" /\ RequestOK(q, signed, begun, userId)
  BY DEF SignIn, TypeOK, RequestsOK
<1>2. /\ q.sid \in Sids /\ q.user \in Users /\ q.copy \in SessionType
      /\ Owned(q.sid, q.copy, signed, begun, userId)
  BY <1>1 DEF RequestOK, Active
<1>3. id \in AllIds
  BY <1>2 DEF UserId, TypeOK, AllIds
<1>4. userId[q.user] # None => id # fresh
  BY <1>2, SessionAssumption DEF UserId, TypeOK
<1>5. /\ userId' = IF done >= 2 /\ id = fresh THEN [userId EXCEPT ![q.user] = id] ELSE userId
      /\ session' = IF done >= 3 THEN [session EXCEPT ![q.sid] = x] ELSE session
      /\ userInfo' = IF done >= 4 THEN userInfo \cup {id} ELSE userInfo
      /\ signed' = IF done >= 3 THEN signed \cup {<<q.sid, id>>} ELSE signed
      /\ signIns' = IF userId[q.user] # None THEN [signIns EXCEPT ![q.user] = @ \cup {id}] ELSE signIns
      /\ UNCHANGED <<cookie, provider, clock, started, overlapped, begun, accepted>>
      /\ req' = [req EXCEPT ![r] = After(q, "finish")]
  BY DEF SignIn, Goto
<1> HIDE DEF q, x
<1>6. Grows
  BY <1>4, <1>5 DEF Grows, TypeOK
<1>7. done >= 3 => Known(id, userId')
  <2>1. CASE userId[q.user] = None
    <3>1. id = fresh
      BY <2>1 DEF UserId
    <3>2. done >= 3 => done >= 2
      OBVIOUS
    <3> QED BY <1>2, <1>5, <3>1, <3>2, SessionAssumption DEF Known, TypeOK
  <2>2. CASE userId[q.user] # None
    BY <1>2, <1>4, <1>5, <2>2 DEF Known, UserId
  <2> QED BY <2>1, <2>2
<1>8. done >= 3 => Owned(q.sid, x, signed', begun', userId')
  <2>1. Owned(q.sid, q.copy, signed', begun', userId')
    BY <1>2, <1>6, OwnedGrows
  <2> QED BY <1>2, <1>5, <1>7, <2>1 DEF Owned, SessionType, x
<1>9. StoredOK'
  <2>1. CASE done >= 3
    BY <1>2, <1>5, <1>6, <1>8, <2>1, StoredKept
  <2>2. CASE ~(done >= 3)
    BY <1>5, <1>6, <2>2, StoredUnchanged
  <2> QED BY <2>1, <2>2
<1>10. RequestsOK'
  BY <1>5, <1>6, EndOK, RequestsKept DEF q
<1>11. IdsOK'
  <2> SUFFICES ASSUME NEW u \in Users
               PROVE  signIns'[u] \subseteq IF userId'[u] = None THEN {} ELSE {Misread(userId'[u])}
    BY DEF IdsOK
  <2>1. CASE userId[q.user] = None
    <3>1. signIns' = signIns
      BY <1>5, <2>1
    <3>2. CASE u = q.user
      BY <2>1, <3>1, <3>2 DEF IdsOK
    <3>3. CASE u # q.user
      BY <1>5, <3>1, <3>3 DEF IdsOK, TypeOK
    <3> QED BY <3>2, <3>3
  <2>2. CASE userId[q.user] # None
    <3>1. userId' = userId /\ id = Misread(userId[q.user])
      BY <1>4, <1>5, <2>2 DEF UserId
    <3>2. signIns'[u] = IF u = q.user THEN signIns[u] \cup {id} ELSE signIns[u]
      BY <1>5, <2>2 DEF TypeOK
    <3> QED BY <2>2, <3>1, <3>2 DEF IdsOK
  <2> QED BY <2>1, <2>2
<1>12. x \in SessionType
  BY <1>2, <1>3 DEF SessionType, x
<1>13. session' \in [Sids -> SessionType \cup {None}] /\ userId' \in [Users -> Ids \cup {None}]
  BY <1>5, <1>12 DEF TypeOK
<1>14. /\ userInfo' \subseteq AllIds /\ signed' \subseteq Sids \X AllIds
       /\ signIns' \in [Users -> SUBSET AllIds]
  BY <1>2, <1>3, <1>5 DEF TypeOK
<1>15. req' \in [Requests -> RequestType]
  BY <1>5, EndOK DEF TypeOK, q
<1>16. TypeOK'
  BY <1>5, <1>13, <1>14, <1>15 DEF TypeOK, provider
<1> QED BY <1>9, <1>10, <1>11, <1>16

LEMMA SignOutKeeps ==
  ASSUME IInv, NEW r \in Requests, SignOut(r)
  PROVE  IInv'
<1> USE DEF IInv
<1> DEFINE q == req[r]
           x == [q.copy EXCEPT !.user = None]
<1>1. Grows
  BY DEF SignOut, Grows, history
<1>2. q \in RequestType /\ q.pc = "signout" /\ RequestOK(q, signed, begun, userId)
  BY DEF SignOut, TypeOK, RequestsOK
<1>3. q.sid \in Sids /\ q.copy \in SessionType /\ Owned(q.sid, q.copy, signed, begun, userId)
  BY <1>2 DEF RequestOK, Active
<1>4. x \in SessionType /\ Owned(q.sid, x, signed, begun, userId)
  BY <1>3 DEF Owned, SessionType
<1>5. /\ session' = session \/ session' = [session EXCEPT ![q.sid] = x]
      /\ req' = [req EXCEPT ![r] = After(q, "finish")]
      /\ UNCHANGED <<userId, userInfo, cookie, provider, clock, started, history>>
  BY DEF SignOut, Goto
<1> HIDE DEF q, x
<1>6. RequestsOK'
  BY <1>1, <1>5, EndOK, RequestsKept DEF q
<1>7. StoredOK'
  BY <1>1, <1>3, <1>4, <1>5, StoredKept DEF history
<1>8. IdsOK'
  BY <1>5 DEF IdsOK, history
<1>9. After(q, "finish") \in RequestType
  BY EndOK DEF q
<1>10. TypeOK'
  BY <1>4, <1>5, <1>9 DEF TypeOK, provider, history
<1> QED BY <1>6, <1>7, <1>8, <1>10

\* A request that ends without a write, and what the browser makes of the answer.
LEMMA EndingKeeps ==
  ASSUME IInv, NEW r \in Requests,
         VerifyRefused(r) \/ Fail(r) \/ \E delivered \in BOOLEAN : Finish(r, delivered)
  PROVE  IInv'
<1> USE DEF IInv
<1>1. Grows
  BY DEF VerifyRefused, Fail, Finish, Grows, db, history
<1>2. PICK n \in {After(req[r], "finish"), Idle} : req' = [req EXCEPT ![r] = n]
  BY DEF VerifyRefused, Fail, Finish, Goto
<1>3. n \in RequestType /\ RequestOK(n, signed', begun', userId')
  <2>1. Idle \in RequestType /\ Idle.pc = "idle"
    BY SessionAssumption DEF Idle, RequestType, Places, Kinds
  <2>2. RequestOK(Idle, signed', begun', userId')
    BY <2>1 DEF RequestOK, Active
  <2> QED BY <1>2, <2>1, <2>2, EndOK
<1>4. cookie' \in [Browsers -> Sids \cup {None}]
  <2>1. req[r].sid \in Sids \cup {None}
    BY DEF TypeOK, RequestType
  <2> QED BY <2>1 DEF VerifyRefused, Fail, Finish, TypeOK
<1>5. UNCHANGED <<db, provider, clock, started, history>>
  BY DEF VerifyRefused, Fail, Finish
<1>6. RequestsOK'
  BY <1>1, <1>2, <1>3, RequestsKept
<1>7. StoredOK'
  BY <1>1, <1>5, StoredUnchanged DEF db
<1>8. IdsOK'
  BY <1>5 DEF IdsOK, db, history
<1>9. TypeOK'
  BY <1>2, <1>3, <1>4, <1>5 DEF TypeOK, db, provider, history
<1> QED BY <1>6, <1>7, <1>8, <1>9

LEMMA NextIInv == IInv /\ [Next]_vars => IInv'
<1> SUFFICES ASSUME IInv, [Next]_vars PROVE IInv'
  OBVIOUS
<1>1. ASSUME NEW t \in Tokens, NEW u \in Users, Approve(t, u) PROVE IInv'
  BY <1>1 DEF Approve, IInv, TypeOK, StoredOK, RequestsOK, IdsOK, db, history
<1>2. ASSUME Tick PROVE IInv'
  <2>1. clock' \in 0 .. MaxTime
    BY <1>2, SessionAssumption DEF Tick, IInv, TypeOK
  <2> QED BY <1>2, <2>1 DEF Tick, IInv, TypeOK, StoredOK, RequestsOK, IdsOK, db, provider, history
<1>3. ASSUME UNCHANGED vars PROVE IInv'
  BY <1>3 DEF vars, IInv, TypeOK, StoredOK, RequestsOK, IdsOK, db, provider, history
<1> QED
  BY <1>1, <1>2, <1>3, StartKeeps, LoadKeeps, CreateKeeps, BeginOauthKeeps, VerifyKeeps,
     ExchangeKeeps, SignInKeeps, SignOutKeeps, EndingKeeps
  DEF Next

THEOREM Invariance == Spec => []IInv
  BY InitIInv, NextIInv, PTL DEF Spec

-----------------------------------------------------------------------------
(* What follows from it *)

\* Sessions, requests, the provider and the browsers keep their types, for any numbers of them.
THEOREM TypeCorrect == Spec => []TypeOK
  BY Invariance, PTL DEF IInv

\* However requests overlap and sessions expire, a session has its own csrf token, and a user only
\* if a sign_in of this very session put him there (session_manager.hpp:27-62).
THEOREM OwnSession == Spec => []SessionIsOwn
<1>1. IInv => SessionIsOwn
  BY DEF IInv, StoredOK, Owned, SessionIsOwn
<1> QED BY <1>1, Invariance, PTL

\* A callback is let through only with the token begin_oauth stored in its own session, however
\* many browsers and requests there are (session_manager.hpp:88-105).
THEOREM OwnToken == Spec => []TokenBegunHere
<1>1. IInv => TokenBegunHere
  BY DEF IInv, RequestsOK, RequestOK, TokenBegunHere
<1> QED BY <1>1, Invariance, PTL

\* Sessions and sign-ins agree on who a user is, wherever a sign_in was cut short
\* (session_manager.hpp:107-125).
THEOREM Agreement == Spec => []IdsAgree
<1>1. IInv => IdStoredFirst
  BY DEF IInv, StoredOK, Owned, Known, IdStoredFirst
<1>2. IInv => StableId
  <2> SUFFICES ASSUME IInv, NEW u \in Users PROVE Cardinality(signIns[u]) <= 1
    BY DEF StableId
  <2>1. signIns[u] = {} \/ signIns[u] = {Misread(userId[u])}
    BY DEF IInv, IdsOK
  <2>2. Cardinality({}) = 0 /\ Cardinality({Misread(userId[u])}) = 1
    BY FS_EmptySet, FS_Singleton
  <2>3. Cardinality(signIns[u]) \in {0, 1}
    BY <2>1, <2>2, Zenon
  <2> QED BY <2>3
<1>3. IInv => IdsAgree
  BY <1>1, <1>2 DEF IdsAgree
<1> QED BY <1>3, Invariance, PTL
-----------------------------------------------------------------------------
(***************************************************************************)
(* Steps compared with what was stored before: no update is lost and a     *)
(* token is let through once, except where two requests used a session at  *)
(* once.                                                                   *)
(*                                                                         *)
(* A session that is not overlapped has one request at most, whose copy is *)
(* what is stored; so writing the copy back changes only what the request  *)
(* meant to change.  A token that was let through has left the session for *)
(* good, for begin_oauth never stores a token twice.                       *)
(***************************************************************************)
\* Request r is at work on session s.
Uses(r, s) == req[r].pc # "idle" /\ req[r].sid = s

\* A cookie and a request name sessions that are stored.
SessionsExist == /\ \A b \in Browsers : cookie[b] # None => session[cookie[b]] # None
                 /\ \A r \in Requests, s \in Sids : Uses(r, s) => session[s] # None

UsedByOne == \A r, o \in Requests, s \in Sids :
               Uses(r, s) /\ Uses(o, s) /\ s \notin overlapped => r = o

CopiesFresh == \A r \in Requests :
                 req[r].pc \in Active /\ req[r].sid \notin overlapped => req[r].copy = session[req[r].sid]

Alone == SessionsExist /\ UsedByOne /\ CopiesFresh

Begins(r) == req[r].pc = "begin" \/ (req[r].pc = "load" /\ req[r].kind = "begin")

\* The token of a sign-in about to begin is nobody else's.
TokenIsNew == /\ \A s \in Sids, t \in Tokens : <<s, t>> \in begun => t \in issued
              /\ \A r \in Requests : Begins(r) =>
                   /\ req[r].token \in issued /\ \A s \in Sids : <<s, req[r].token>> \notin begun
                   /\ \A o \in Requests : Begins(o) /\ req[o].token = req[r].token => o = r

\* A token that was let through is no longer in the session.
TokenIsGone == \A s \in Sids, t \in Tokens :
  <<s, t>> \in accepted /\ s \notin overlapped => session[s] # None /\ session[s].oauth # t

TokensOK == TokenIsNew /\ TokenIsGone

\* One field of a session is written.
OneChange(x, y) == \E f \in {"ts", "csrf", "oauth", "user"} : Changes(x, y) \subseteq {f}

\* What request r may do to the stored sessions.
Stores(r) == \A s \in Sids : session'[s] # session[s] =>
  /\ session'[s] # None
  /\ session[s] = None => session'[s].oauth = None
  /\ session[s] # None =>
       /\ Uses(r, s)
       /\ s \notin overlapped =>
            /\ OneChange(session[s], session'[s])
            /\ \/ session'[s].oauth \in {session[s].oauth, None}
               \/ Begins(r) /\ session'[s].oauth = req[r].token

\* How request r goes on, as n.
GoesOn(r, n) ==
  /\ req' = [req EXCEPT ![r] = n] /\ req[r].pc # "idle"
  /\ \/ n.pc = "idle" \/ n.sid \in {None, req[r].sid}
     \/ n.sid \in Sids /\ session[n.sid] = None /\ session'[n.sid] # None
  /\ n.pc \in Active /\ n.sid \notin overlapped => n.copy = session'[n.sid]
  /\ n.pc # "load"
  /\ n.pc = "begin" => Begins(r) /\ n.token = req[r].token /\ begun' = begun

\* What it leaves behind.
Leaves(r) ==
  /\ UNCHANGED <<issued, overlapped>>
  /\ \/ begun' = begun
     \/ Begins(r) /\ \E s \in Sids : begun' = begun \cup {<<s, req[r].token>>}
  /\ \/ accepted' = accepted
     \/ \E s \in Sids, t \in Tokens : /\ accepted' = accepted \cup {<<s, t>>}
                                      /\ session'[s] # None /\ session'[s].oauth = None
  /\ \A b \in Browsers : cookie'[b] # None => cookie'[b] = cookie[b] \/ Uses(r, cookie'[b])

LEMMA InitAlone == Init => Alone /\ TokensOK
<1> SUFFICES ASSUME Init PROVE Alone /\ TokensOK
  OBVIOUS
<1>1. \A r \in Requests : req[r].pc = "idle"
  BY DEF Init, Idle
<1>2. Alone
  BY <1>1 DEF Init, Alone, SessionsExist, UsedByOne, CopiesFresh, Uses, Active
<1>3. TokensOK
  BY <1>1 DEF Init, TokensOK, TokenIsNew, TokenIsGone, Begins
<1> QED BY <1>2, <1>3

\* A request that does no more than this leaves all sessions to their requests.
LEMMA StepAlone ==
  ASSUME IInv, Alone, TokensOK, NEW r \in Requests, NEW n, TypeOK',
         GoesOn(r, n), Stores(r), Leaves(r)
  PROVE  Alone' /\ TokensOK'
<1>1. req'[r] = n /\ \A o \in Requests \ {r} : req'[o] = req[o]
  BY DEF GoesOn, IInv, TypeOK
<1>2. \A s \in Sids : session[s] # None => session'[s] # None
  BY DEF Stores
<1>3. None \notin Sids /\ None \notin Tokens
  BY SessionAssumption
<1>4. \A o \in Requests \ {r}, s \in Sids : Uses(o, s)' <=> Uses(o, s)
  BY <1>1 DEF Uses
<1>5. \A s \in Sids : Uses(r, s)' => Uses(r, s) \/ (session[s] = None /\ session'[s] # None)
  BY <1>1, <1>3 DEF Uses, GoesOn
<1>6. SessionsExist'
  <2>1. \A b \in Browsers : cookie'[b] # None => session'[cookie'[b]] # None
    BY <1>2, <1>3 DEF Leaves, Alone, SessionsExist, IInv, TypeOK
  <2>2. \A o \in Requests, s \in Sids : Uses(o, s)' => session'[s] # None
    BY <1>2, <1>4, <1>5 DEF Alone, SessionsExist
  <2> QED BY <2>1, <2>2 DEF SessionsExist
<1>7. UsedByOne'
  BY <1>4, <1>5 DEF Leaves, Alone, SessionsExist, UsedByOne
<1>8. CopiesFresh'
  <2> SUFFICES ASSUME NEW o \in Requests, req'[o].pc \in Active, req'[o].sid \notin overlapped
               PROVE  req'[o].copy = session'[req'[o].sid]
    BY DEF CopiesFresh, Leaves
  <2>1. CASE o = r
    BY <1>1, <2>1 DEF GoesOn
  <2>2. CASE o # r
    <3>1. req[o].sid \in Sids /\ Uses(o, req[o].sid) /\ req'[o] = req[o]
      BY <1>1, <2>2 DEF IInv, RequestsOK, RequestOK, Uses, Active
    <3>2. session[req[o].sid] # None /\ ~Uses(r, req[o].sid)
      BY <2>2, <3>1 DEF Alone, SessionsExist, UsedByOne
    <3>3. session'[req[o].sid] = session[req[o].sid]
      BY <3>1, <3>2 DEF Stores
    <3> QED BY <3>1, <3>3 DEF Alone, CopiesFresh
  <2> QED BY <2>1, <2>2
<1>9. TokenIsNew'
  <2>1. /\ Begins(r)' => Begins(r) /\ req'[r].token = req[r].token /\ begun' = begun
        /\ \A o \in Requests \ {r} : (Begins(o)' <=> Begins(o)) /\ req'[o].token = req[o].token
    BY <1>1 DEF GoesOn, Begins
  <2>2. \A s \in Sids, t \in Tokens : <<s, t>> \in begun' =>
          <<s, t>> \in begun \/ (Begins(r) /\ t = req[r].token)
    BY DEF Leaves
  <2>3. \A o \in Requests : Begins(o) => req[o].token \in Tokens
    BY DEF Begins, IInv, RequestsOK, RequestOK
  <2>4. \A s \in Sids, t \in Tokens : <<s, t>> \in begun' => t \in issued'
    BY <2>2 DEF Leaves, TokensOK, TokenIsNew
  <2>5. ASSUME NEW o \in Requests, Begins(o)'
        PROVE  /\ req'[o].token \in issued' /\ \A s \in Sids : <<s, req'[o].token>> \notin begun'
               /\ \A u \in Requests : Begins(u)' /\ req'[u].token = req'[o].token => u = o
    <3>1. Begins(o) /\ req'[o].token = req[o].token /\ (o = r => begun' = begun)
      BY <2>1, <2>5
    <3>2. \A s \in Sids : <<s, req'[o].token>> \notin begun'
      BY <2>2, <2>3, <3>1 DEF TokensOK, TokenIsNew
    <3>3. \A u \in Requests : Begins(u)' /\ req'[u].token = req'[o].token => u = o
      BY <2>1, <3>1 DEF TokensOK, TokenIsNew
    <3> QED BY <3>1, <3>2, <3>3 DEF Leaves, TokensOK, TokenIsNew
  <2> QED BY <2>4, <2>5 DEF TokenIsNew
<1>10. TokenIsGone'
  <2> SUFFICES ASSUME NEW s \in Sids, NEW t \in Tokens, <<s, t>> \in accepted', s \notin overlapped
               PROVE  session'[s] # None /\ session'[s].oauth # t
    BY DEF TokenIsGone, Leaves
  <2>1. CASE <<s, t>> \notin accepted
    BY <1>3, <2>1 DEF Leaves
  <2>2. CASE <<s, t>> \in accepted
    <3>1. session[s] # None /\ session[s].oauth # t /\ <<s, t>> \in begun
      BY <2>2 DEF TokensOK, TokenIsGone, IInv, TypeOK
    <3>2. Begins(r) => req[r].token # t
      BY <3>1 DEF TokensOK, TokenIsNew
    <3> QED BY <1>3, <3>1, <3>2 DEF Stores
  <2> QED BY <2>1, <2>2
<1> QED BY <1>6, <1>7, <1>8, <1>9, <1>10 DEF Alone, TokensOK

\* Requests that only take such steps.
Behaves(r) == Stores(r) /\ Leaves(r) /\ \E n : GoesOn(r, n)

\* A request that ends, and one that writes its copy back with one field changed.
LEMMA EndGoesOn ==
  ASSUME NEW r \in Requests, req[r].pc # "idle",
         req' = [req EXCEPT ![r] = After(req[r], "finish")]
  PROVE  \E n : GoesOn(r, n)
<1> DEFINE n == After(req[r], "finish")
<1>1. n.pc = "finish" /\ n.sid \in {None, req[r].sid}
  BY DEF After, Idle
<1> HIDE DEF n
<1>2. GoesOn(r, n)
  BY <1>1 DEF GoesOn, Active, n
<1> QED BY <1>2

LEMMA CopyStored ==
  ASSUME IInv, Alone, NEW r \in Requests, req[r].pc \in Active, NEW x \in SessionType,
         NEW f \in {"ts", "csrf", "oauth", "user"}, Changes(req[r].copy, x) \subseteq {f},
         x.oauth \in {req[r].copy.oauth, None} \/ (Begins(r) /\ x.oauth = req[r].token),
         session' = session \/ session' = [session EXCEPT ![req[r].sid] = x]
  PROVE  Stores(r)
<1> SUFFICES ASSUME NEW s \in Sids, session'[s] # session[s]
             PROVE  /\ session'[s] # None /\ session[s] # None /\ Uses(r, s)
                    /\ s \notin overlapped =>
                         /\ OneChange(session[s], session'[s])
                         /\ \/ session'[s].oauth \in {session[s].oauth, None}
                            \/ Begins(r) /\ session'[s].oauth = req[r].token
  BY DEF Stores
<1>1. s = req[r].sid /\ session'[s] = x
  BY DEF IInv, TypeOK
<1>2. Uses(r, s) /\ session[s] # None
  BY <1>1 DEF Uses, Active, Alone, SessionsExist
<1>3. x # None
  BY SessionAssumption
<1>4. s \notin overlapped => session[s] = req[r].copy
  BY <1>1 DEF Alone, CopiesFresh
<1> QED BY <1>1, <1>2, <1>3, <1>4 DEF OneChange

LEMMA LoadBehaves ==
  ASSUME IInv, Alone, NEW r \in Requests, NEW ok \in BOOLEAN, Load(r, ok)
  PROVE  Behaves(r)
<1> DEFINE q == req[r]
           x == [session[q.sid] EXCEPT !.ts = q.now]
           n == After([q EXCEPT !.copy = x], Outcome(q, ok))
<1>1. q \in RequestType /\ q.pc = "load"
  BY DEF Load, IInv, TypeOK
<1>2. q.sid \in Sids /\ session[q.sid] \in SessionType /\ session[q.sid] # None
  BY <1>1 DEF Load, Usable, IInv, TypeOK, RequestType
<1>3. x \in SessionType /\ Changes(session[q.sid], x) \subseteq {"ts"} /\ x.oauth = session[q.sid].oauth
  BY <1>1, <1>2 DEF SessionType, RequestType, Changes
<1>4. /\ session' = [session EXCEPT ![q.sid] = x] /\ req' = [req EXCEPT ![r] = n]
      /\ UNCHANGED <<cookie, issued, overlapped, begun, accepted>>
  BY DEF Load, provider, history
<1>5. Outcome(q, ok) \in {"finish", "begin", "verify", "signin", "signout"}
      /\ (Outcome(q, ok) = "begin" => q.kind = "begin")
  BY <1>1 DEF Outcome, NextPlace, RequestType, Kinds
<1>6. /\ n.pc = Outcome(q, ok) /\ n.sid \in {None, q.sid}
      /\ n.pc \in Active => n.sid = q.sid /\ n.copy = x /\ n.token = q.token
  BY <1>1, <1>5 DEF After, Idle, Active, RequestType
<1> HIDE DEF n, x
<1>7. session'[q.sid] = x
  BY <1>2, <1>4 DEF IInv, TypeOK
<1>8. GoesOn(r, n)
  BY <1>1, <1>4, <1>5, <1>6, <1>7 DEF GoesOn, Begins, Active
<1>9. Stores(r)
  <2>1. x # None
    BY <1>3, SessionAssumption
  <2>2. \A s \in Sids : session'[s] # session[s] => s = q.sid
    BY <1>4 DEF IInv, TypeOK
  <2> QED BY <1>1, <1>2, <1>3, <1>7, <2>1, <2>2 DEF Stores, Uses, OneChange
<1>10. Leaves(r)
  BY <1>4 DEF Leaves
<1> QED BY <1>8, <1>9, <1>10 DEF Behaves

LEMMA CreateBehaves ==
  ASSUME IInv, NEW r \in Requests, NEW sid \in Sids, NEW ok \in BOOLEAN, Create(r, sid, ok)
  PROVE  Behaves(r)
<1> DEFINE q == req[r]
           x == NewSession(q, sid)
           n == After([q EXCEPT !.sid = sid, !.fresh = ok, !.copy = x], Outcome(q, ok))
<1>1. q \in RequestType /\ q.pc = "load" /\ session[sid] = None
  BY DEF Create, IInv, TypeOK
<1>2. x \in SessionType /\ x.oauth = None
  BY <1>1 DEF NewSession, SessionType, RequestType
<1>3. /\ session' = [session EXCEPT ![sid] = x] /\ req' = [req EXCEPT ![r] = n]
      /\ UNCHANGED <<cookie, issued, overlapped, begun, accepted>>
  BY DEF Create, provider, history
<1>4. Outcome(q, ok) \in {"finish", "begin", "verify", "signin", "signout"}
      /\ (Outcome(q, ok) = "begin" => q.kind = "begin")
  BY <1>1 DEF Outcome, NextPlace, RequestType, Kinds
<1>5. /\ n.pc = Outcome(q, ok) /\ n.sid \in {None, sid}
      /\ n.pc \in Active => n.sid = sid /\ n.copy = x /\ n.token = q.token
  BY <1>1, <1>4 DEF After, Idle, Active, RequestType
<1> HIDE DEF n, x
<1>6. session'[sid] = x /\ x # None
  BY <1>2, <1>3, SessionAssumption DEF IInv, TypeOK
<1>7. GoesOn(r, n)
  BY <1>1, <1>3, <1>4, <1>5, <1>6 DEF GoesOn, Begins, Active
<1>8. Stores(r)
  <2>1. \A s \in Sids : session'[s] # session[s] => s = sid
    BY <1>3 DEF IInv, TypeOK
  <2> QED BY <1>1, <1>2, <1>6, <2>1 DEF Stores
<1>9. Leaves(r)
  BY <1>3 DEF Leaves
<1> QED BY <1>7, <1>8, <1>9 DEF Behaves

LEMMA BeginOauthBehaves ==
  ASSUME IInv, Alone, NEW r \in Requests, BeginOauth(r)
  PROVE  Behaves(r)
<1> DEFINE q == req[r]
           x == [q.copy EXCEPT !.oauth = q.token]
<1>1. q.pc = "begin" /\ q.sid \in Sids /\ q.copy \in SessionType /\ q.token \in Tokens
  BY DEF BeginOauth, IInv, RequestsOK, RequestOK, Active
<1>2. x \in SessionType /\ Changes(q.copy, x) \subseteq {"oauth"} /\ x.oauth = q.token
  BY <1>1 DEF SessionType, Changes
<1>3. /\ session' = [session EXCEPT ![q.sid] = x] /\ req' = [req EXCEPT ![r] = After(q, "finish")]
      /\ begun' = begun \cup {<<q.sid, q.token>>}
      /\ UNCHANGED <<cookie, issued, overlapped, accepted>>
  BY DEF BeginOauth, Goto, provider
<1> HIDE DEF x
<1>4. Stores(r)
  BY <1>1, <1>2, <1>3, CopyStored DEF Begins, Active
<1>5. Leaves(r)
  BY <1>1, <1>3 DEF Leaves, Begins
<1> QED BY <1>1, <1>3, <1>4, <1>5, EndGoesOn DEF Behaves

LEMMA VerifyBehaves ==
  ASSUME IInv, Alone, NEW r \in Requests, NEW ok \in BOOLEAN, VerifyOauthToken(r, ok)
  PROVE  Behaves(r)
<1> DEFINE q == req[r]
           x == [q.copy EXCEPT !.oauth = None]
           n == After([q EXCEPT !.copy = x], IF ok THEN "exchange" ELSE "finish")
<1>1. q \in RequestType /\ q.pc = "verify" /\ q.sid \in Sids /\ q.copy \in SessionType
  BY DEF VerifyOauthToken, IInv, TypeOK, RequestsOK, RequestOK, Active
<1>2. x \in SessionType /\ Changes(q.copy, x) \subseteq {"oauth"} /\ x.oauth = None
  BY <1>1 DEF SessionType, Changes
<1>3. /\ session' = [session EXCEPT ![q.sid] = x] /\ req' = [req EXCEPT ![r] = n]
      /\ accepted' = IF ok THEN accepted \cup {<<q.sid, q.token>>} ELSE accepted
      /\ UNCHANGED <<cookie, issued, overlapped, begun>>
  BY DEF VerifyOauthToken, provider
<1>4. /\ n.pc \in {"exchange", "finish"} /\ n.sid \in {None, q.sid}
      /\ n.pc = "exchange" => n.sid = q.sid /\ n.copy = x
  BY <1>1 DEF After, Idle, RequestType
<1>5. q.token \in Tokens
  BY <1>1 DEF VerifyOauthToken, TokenMatches, SessionType
<1> HIDE DEF n, x
<1>6. session'[q.sid] = x /\ x # None
  BY <1>1, <1>2, <1>3, SessionAssumption DEF IInv, TypeOK
<1>7. GoesOn(r, n)
  BY <1>1, <1>3, <1>4, <1>6 DEF GoesOn, Active
<1>8. Stores(r)
  BY <1>1, <1>2, <1>3, CopyStored DEF Active
<1>9. Leaves(r)
  BY <1>1, <1>2, <1>3, <1>5, <1>6 DEF Leaves
<1> QED BY <1>7, <1>8, <1>9 DEF Behaves

LEMMA SignInBehaves ==
  ASSUME IInv, Alone, NEW r \in Requests, NEW fresh \in Ids, NEW done \in 1 .. 4,
         SignIn(r, fresh, done)
  PROVE  Behaves(r)
<1> DEFINE q == req[r]
           x == [q.copy EXCEPT !.user = UserId(q.user, fresh)]
<1>1. q.pc = "signin" /\ q.sid \in Sids /\ q.copy \in SessionType /\ q.user \in Users
  BY DEF SignIn, IInv, RequestsOK, RequestOK, Active
<1>2. UserId(q.user, fresh) \in AllIds
  BY <1>1 DEF UserId, AllIds, IInv, TypeOK
<1>3. x \in SessionType /\ Changes(q.copy, x) \subseteq {"user"} /\ x.oauth = q.copy.oauth
  BY <1>1, <1>2 DEF SessionType, Changes
<1>4. /\ session' = session \/ session' = [session EXCEPT ![q.sid] = x]
      /\ req' = [req EXCEPT ![r] = After(q, "finish")]
      /\ UNCHANGED <<cookie, issued, overlapped, begun, accepted>>
  BY DEF SignIn, Goto, provider
<1> HIDE DEF x
<1>5. Stores(r)
  BY <1>1, <1>3, <1>4, CopyStored DEF Active
<1> QED BY <1>1, <1>4, <1>5, EndGoesOn DEF Behaves, Leaves

LEMMA SignOutBehaves ==
  ASSUME IInv, Alone, NEW r \in Requests, SignOut(r)
  PROVE  Behaves(r)
<1> DEFINE q == req[r]
           x == [q.copy EXCEPT !.user = None]
<1>1. q.pc = "signout" /\ q.sid \in Sids /\ q.copy \in SessionType
  BY DEF SignOut, IInv, RequestsOK, RequestOK, Active
<1>2. x \in SessionType /\ Changes(q.copy, x) \subseteq {"user"} /\ x.oauth = q.copy.oauth
  BY <1>1 DEF SessionType, Changes
<1>3. /\ session' = session \/ session' = [session EXCEPT ![q.sid] = x]
      /\ req' = [req EXCEPT ![r] = After(q, "finish")]
      /\ UNCHANGED <<cookie, issued, overlapped, begun, accepted>>
  BY DEF SignOut, Goto, provider, history
<1> HIDE DEF x
<1>4. Stores(r)
  BY <1>1, <1>2, <1>3, CopyStored DEF Active
<1> QED BY <1>1, <1>3, <1>4, EndGoesOn DEF Behaves, Leaves

LEMMA ExchangeBehaves ==
  ASSUME IInv, Alone, NEW r \in Requests, Exchange(r)
  PROVE  Behaves(r)
<1> DEFINE q == req[r]
           n == [q EXCEPT !.user = approved[q.token], !.pc = "signin"]
<1>1. q \in RequestType /\ q.pc = "exchange"
  BY DEF Exchange, IInv, TypeOK
<1>2. n.pc = "signin" /\ n.sid = q.sid /\ n.copy = q.copy
  BY <1>1 DEF RequestType
<1>3. /\ req' = [req EXCEPT ![r] = n]
      /\ UNCHANGED <<session, cookie, issued, overlapped, begun, accepted>>
  BY DEF Exchange, IInv, TypeOK, db, provider, history
<1> HIDE DEF n
<1>4. GoesOn(r, n)
  BY <1>1, <1>2, <1>3 DEF GoesOn, Active, Alone, CopiesFresh
<1> QED BY <1>3, <1>4 DEF Behaves, Stores, Leaves

LEMMA EndingBehaves ==
  ASSUME IInv, NEW r \in Requests,
         VerifyRefused(r) \/ Fail(r) \/ \E delivered \in BOOLEAN : Finish(r, delivered)
  PROVE  Behaves(r)
<1>1. Stores(r)
  BY DEF VerifyRefused, Fail, Finish, db, Stores
<1>2. CASE VerifyRefused(r) \/ Fail(r)
  BY <1>1, <1>2, EndGoesOn DEF VerifyRefused, Fail, Goto, provider, history, Behaves, Leaves
<1>3. CASE \E delivered \in BOOLEAN : Finish(r, delivered)
  <2>1. req[r].pc = "finish" /\ req' = [req EXCEPT ![r] = Idle] /\ Idle.pc = "idle"
    BY <1>3 DEF Finish, Idle
  <2>2. GoesOn(r, Idle)
    BY <2>1 DEF GoesOn, Active
  <2>3. \A b \in Browsers : cookie'[b] = cookie[b] \/ cookie'[b] = req[r].sid
    BY <1>3 DEF Finish, IInv, TypeOK
  <2>4. Leaves(r)
    BY <1>3, <2>1, <2>3 DEF Finish, provider, history, Leaves, Uses
  <2> QED BY <1>1, <2>2, <2>4 DEF Behaves
<1> QED BY <1>2, <1>3

\* A request that starts uses a stored session; if another one does, it is overlapped from here on.
LEMMA StartAlone ==
  ASSUME IInv, Alone, TokensOK, NEW r \in Requests, NEW b \in Browsers, NEW k \in Kinds,
         NEW t \in Tokens \cup {None}, NEW u \in Users \cup {None}, Start(r, b, k, t, u)
  PROVE  Alone' /\ TokensOK'
<1>1. /\ req[r].pc = "idle" /\ req'[r].pc = "load" /\ req'[r].kind = k
      /\ req'[r].sid = cookie[b] /\ req'[r].token = t
      /\ \A o \in Requests \ {r} : req'[o] = req[o]
      /\ UNCHANGED <<session, cookie, begun, accepted>>
  BY DEF Start, db, IInv, TypeOK
<1>2. overlapped' = overlapped \cup {s \in {cookie[b]} \ {None} :
                      \E o \in Requests : req[o].pc # "idle" /\ req[o].sid = s}
  BY DEF Start
<1>3. None \notin Sids
  BY SessionAssumption
<1>4. \A o \in Requests \ {r}, s \in Sids : Uses(o, s)' <=> Uses(o, s)
  BY <1>1 DEF Uses
<1>5. \A s \in Sids : Uses(r, s)' => s = cookie[b] /\ s # None
  BY <1>1, <1>3 DEF Uses
<1>6. SessionsExist'
  BY <1>1, <1>4, <1>5 DEF Alone, SessionsExist
<1>7. UsedByOne'
  <2>1. \A o \in Requests \ {r}, s \in Sids : Uses(r, s)' /\ Uses(o, s)' => s \in overlapped'
    BY <1>2, <1>4, <1>5 DEF Uses
  <2> QED BY <1>2, <1>4, <2>1 DEF Alone, UsedByOne
<1>8. CopiesFresh'
  BY <1>1, <1>2 DEF Alone, CopiesFresh, Active
<1>9. TokenIsNew'
  <2>1. /\ issued \subseteq issued'
        /\ k = "begin" => t \in issued' /\ t \notin issued
    BY DEF Start, TokenOf
  <2>2. /\ \A o \in Requests \ {r} : (Begins(o)' <=> Begins(o)) /\ req'[o].token = req[o].token
        /\ Begins(r)' => k = "begin"
    BY <1>1 DEF Begins
  <2>3. ASSUME NEW o \in Requests, Begins(o)'
        PROVE  /\ req'[o].token \in issued' /\ \A s \in Sids : <<s, req'[o].token>> \notin begun'
               /\ \A p \in Requests : Begins(p)' /\ req'[p].token = req'[o].token => p = o
    <3>1. CASE o = r
      <4>1. t \in Tokens \ issued /\ t \in issued'
        BY <2>1, <2>2, <2>3, <3>1 DEF Start, TokenOf
      <4> QED BY <1>1, <2>2, <3>1, <4>1 DEF TokensOK, TokenIsNew
    <3>2. CASE o # r
      <4>1. Begins(o) /\ req'[o].token = req[o].token /\ req[o].token \in issued
        BY <2>2, <2>3, <3>2 DEF TokensOK, TokenIsNew
      <4>2. Begins(r)' => req'[r].token # req'[o].token
        BY <1>1, <2>1, <2>2, <4>1
      <4> QED BY <1>1, <2>1, <2>2, <3>2, <4>1, <4>2 DEF TokensOK, TokenIsNew
    <3> QED BY <3>1, <3>2
  <2> QED BY <1>1, <2>1, <2>3 DEF TokensOK, TokenIsNew
<1>10. TokenIsGone'
  BY <1>1, <1>2 DEF TokensOK, TokenIsGone
<1> QED BY <1>6, <1>7, <1>8, <1>9, <1>10 DEF Alone, TokensOK

\* Every step is the start of a request, a step of one that behaves, or none of the sessions.
Elsewhere == UNCHANGED <<session, cookie, req, issued, overlapped, begun, accepted>>

LEMMA StepBehaves ==
  ASSUME IInv, Alone, [Next]_vars
  PROVE  \/ \E r \in Requests, b \in Browsers, k \in Kinds, t \in Tokens \cup {None},
                u \in Users \cup {None} : Start(r, b, k, t, u)
         \/ \E r \in Requests : Behaves(r)
         \/ Elsewhere
<1>1. ASSUME NEW t \in Tokens, NEW u \in Users, Approve(t, u) PROVE Elsewhere
  BY <1>1 DEF Approve, Elsewhere, db, history
<1>2. ASSUME Tick PROVE Elsewhere
  BY <1>2 DEF Tick, Elsewhere, db, provider, history
<1>3. ASSUME UNCHANGED vars PROVE Elsewhere
  BY <1>3 DEF vars, Elsewhere, db, provider, history
<1> QED
  BY <1>1, <1>2, <1>3, LoadBehaves, CreateBehaves, BeginOauthBehaves, VerifyBehaves,
     SignInBehaves, SignOutBehaves, ExchangeBehaves, EndingBehaves
  DEF Next

LEMMA NextAlone == IInv /\ Alone /\ TokensOK /\ [Next]_vars => Alone' /\ TokensOK'
<1> SUFFICES ASSUME IInv, Alone, TokensOK, [Next]_vars PROVE Alone' /\ TokensOK'
  OBVIOUS
<1>1. TypeOK'
  BY NextIInv DEF IInv
<1>2. ASSUME NEW r \in Requests, Behaves(r) PROVE Alone' /\ TokensOK'
  BY <1>1, <1>2, StepAlone DEF Behaves
<1>3. ASSUME Elsewhere PROVE Alone' /\ TokensOK'
  BY <1>3 DEF Elsewhere, Alone, SessionsExist, UsedByOne, CopiesFresh, Uses,
              TokensOK, TokenIsNew, TokenIsGone, Begins
<1> QED BY <1>2, <1>3, StepBehaves, StartAlone

\* Only verify_oauth_token lets a callback through.
LEMMA VerifiedOnly ==
  ASSUME TypeOK, Next, NEW r \in Requests, req[r].pc = "verify", req'[r].pc = "exchange"
  PROVE  TokenMatches(req[r].copy, req[r].token)
<1>1. ASSUME NEW o \in Requests, NEW q, req' = [req EXCEPT ![o] = q]
      PROVE  o = r /\ q.pc = "exchange"
  BY <1>1 DEF TypeOK
<1>2. ASSUME NEW pc PROVE After(req[r], pc).pc = pc
  BY DEF After, Idle, TypeOK, RequestType
<1>3. ASSUME NEW o \in Requests, VerifyRefused(o) \/ Fail(o) PROVE FALSE
  BY <1>1, <1>2, <1>3 DEF VerifyRefused, Fail, Goto
<1>4. ASSUME NEW o \in Requests, NEW fresh, NEW done,
             BeginOauth(o) \/ SignIn(o, fresh, done) \/ SignOut(o)
      PROVE  FALSE
  BY <1>1, <1>4 DEF BeginOauth, SignIn, SignOut, Goto
<1>5. ASSUME NEW o \in Requests, NEW ok, NEW sid, Load(o, ok) \/ Create(o, sid, ok) PROVE FALSE
  BY <1>1, <1>5 DEF Load, Create
<1>6. ASSUME NEW o \in Requests, NEW d, Exchange(o) \/ Finish(o, d) PROVE FALSE
  <2>1. CASE o = r
    BY <1>6, <2>1 DEF Exchange, Finish
  <2>2. CASE o # r
    BY <1>6, <2>2 DEF Exchange, Finish, TypeOK
  <2> QED BY <2>1, <2>2
<1>7. ASSUME NEW o \in Requests, NEW b, NEW k, NEW t, NEW u, Start(o, b, k, t, u) PROVE FALSE
  BY <1>1, <1>7 DEF Start
<1>8. ASSUME NEW o \in Requests, NEW ok, VerifyOauthToken(o, ok)
      PROVE  TokenMatches(req[r].copy, req[r].token)
  BY <1>1, <1>8 DEF VerifyOauthToken
<1>9. ASSUME NEW t, NEW u, Approve(t, u) \/ Tick PROVE FALSE
  BY <1>9 DEF Approve, Tick
<1> QED BY <1>3, <1>4, <1>5, <1>6, <1>7, <1>8, <1>9 DEF Next

THEOREM AloneInvariance == Spec => [](IInv /\ Alone /\ TokensOK)
  BY InitIInv, NextIInv, InitAlone, NextAlone, PTL DEF Spec

\* A step writes a session in one field only, whatever else goes on, unless two requests used that
\* session at once: an update is lost in no other way (session_manager.hpp:64-125).
THEOREM NoUpdateLost == Spec => NoLostUpdate
<1>1. ASSUME IInv, Alone, [Next]_vars, NEW s \in Sids, session[s] # None, s \notin overlapped
      PROVE  Cardinality(Changes(session[s], session'[s])) <= 1
  <2>1. OneChange(session[s], session'[s])
    <3>1. CASE session'[s] = session[s]
      BY <3>1 DEF OneChange, Changes
    <3>2. CASE session'[s] # session[s]
      <4>1. PICK r \in Requests : Behaves(r)
        BY <1>1, <3>2, StepBehaves DEF Start, Elsewhere, db
      <4> QED BY <1>1, <3>2, <4>1 DEF Behaves, Stores
    <3> QED BY <3>1, <3>2
  <2>2. PICK f : Changes(session[s], session'[s]) \subseteq {f}
    BY <2>1 DEF OneChange
  <2>3. Changes(session[s], session'[s]) \in {{}, {f}}
    BY <2>2
  <2>4. Cardinality({}) = 0 /\ Cardinality({f}) = 1
    BY FS_EmptySet, FS_Singleton
  <2>5. Cardinality(Changes(session[s], session'[s])) \in {0, 1}
    BY <2>3, <2>4, Zenon
  <2> QED BY <2>5
<1>2. IInv /\ Alone /\ [Next]_vars =>
        [\A s \in Sids : session[s] # None /\ s \notin overlapped =>
           Cardinality(Changes(session[s], session'[s])) <= 1]_vars
  BY <1>1
<1> QED BY <1>2, AloneInvariance, PTL DEF Spec, NoLostUpdate

\* verify_oauth_token lets a token through once, however often the callback is sent and whatever
\* is done in other sessions, unless two requests used this one at once
\* (session_manager.hpp:88-105).
THEOREM TokenIsOnce == Spec => TokenOnce
<1>1. ASSUME IInv, Alone, TokensOK, Next, NEW r \in Requests, req[r].pc = "verify",
             req'[r].pc = "exchange", req[r].sid \notin overlapped
      PROVE  <<req[r].sid, req[r].token>> \notin accepted
  <2>1. req[r] \in RequestType /\ req[r].sid \in Sids /\ req[r].copy = session[req[r].sid]
    BY <1>1 DEF IInv, TypeOK, RequestsOK, RequestOK, Active, Alone, CopiesFresh
  <2>2. TokenMatches(req[r].copy, req[r].token)
    BY <1>1, <2>1, VerifiedOnly DEF IInv
  <2>3. req[r].copy.oauth = req[r].token /\ req[r].token \in Tokens
    BY <1>1, <2>2 DEF TokenMatches, IInv, RequestsOK, RequestOK, Active, SessionType
  <2> QED BY <1>1, <2>1, <2>3 DEF TokensOK, TokenIsGone
<1>2. IInv /\ Alone /\ TokensOK /\ [Next]_vars =>
        [\A r \in Requests :
           req[r].pc = "verify" /\ req'[r].pc = "exchange" /\ req[r].sid \notin overlapped
             => <<req[r].sid, req[r].token>> \notin accepted]_vars
  BY <1>1
<1> QED BY <1>2, AloneInvariance, PTL DEF Spec, TokenOnce
-----------------------------------------------------------------------------
\* Sequences by their elements.

\* A set of numbers up to n has a greatest one.
LEMMA GreatestNumber ==
  ASSUME NEW n \in Nat, NEW T, T \subseteq 1 .. n, T # {}
  PROVE  \E x \in T : \A y \in T : y <= x
<1> DEFINE S == {n - x : x \in T}
<1>1. S \subseteq Nat
  OBVIOUS
<1>2. PICK x \in S : \A y \in S : x <= y
  <2>1. S # {}
    OBVIOUS
  <2> HIDE DEF S
  <2> QED BY <1>1, <2>1, LeastNumber
<1>3. PICK z \in T : x = n - z
  BY <1>2
<1>4. ASSUME NEW y \in T PROVE y <= z
  <2>1. n - y \in S
    OBVIOUS
  <2>2. n - z <= n - y
    BY <1>2, <1>3, <2>1
  <2> QED BY <2>2
<1> QED BY <1>4

\* Two sequences with the same elements are the same.
LEMMA SameSeq ==
  ASSUME NEW V, NEW s \in Seq(V), NEW t \in Seq(V), Len(s) = Len(t), \A i \in 1 .. Len(t) : s[i] = t[i]
  PROVE  s = t
OBVIOUS

\* What is made of the same beginnings is the same.
LEMMA PartsSame ==
  ASSUME NEW V, NEW q, NEW r, NEW ma, NEW mb, Parts(ma, q, V), Parts(mb, r, V), NEW n \in Nat,
         Len(q) \in Nat, Len(r) \in Nat, n <= Len(q), n <= Len(r), \A i \in 1 .. n : q[i] = r[i]
  PROVE  \A i \in 0 .. n : ma[i] = mb[i]
<1> DEFINE S == {k \in 0 .. n : ma[k] = mb[k]}
<1>1. 0 \in S
  BY DEF Parts
<1>2. ASSUME NEW k \in 0 .. n - 1, k \in S PROVE k + 1 \in S
  <2> DEFINE l == k + 1
  <2>1. l \in 1 .. n /\ l \in 1 .. Len(q) /\ l \in 1 .. Len(r) /\ l - 1 = k /\ l \in 0 .. n
    OBVIOUS
  <2> HIDE DEF l
  <2>2. ma[l] = ma[l - 1] \o q[l] /\ mb[l] = mb[l - 1] \o r[l]
    BY <2>1 DEF Parts
  <2>3. ma[k] = mb[k]
    BY <1>2
  <2>4. ma[l] = mb[l]
    BY <2>1, <2>2, <2>3
  <2> QED BY <2>1, <2>4 DEF l
<1> HIDE DEF S
<1>3. \A k \in 0 .. n : k \in S
  BY <1>1, <1>2, InductUpTo
<1> QED BY <1>3 DEF S

\* What is empty adds nothing.
LEMMA PartsFlat ==
  ASSUME NEW V, NEW q, NEW made, Parts(made, q, V), Len(q) \in Nat, NEW a \in 0 .. Len(q),
         \A i \in a + 1 .. Len(q) : q[i] = <<>>
  PROVE  made[Len(q)] = made[a]
<1> DEFINE n == Len(q) - a
           S == {k \in 0 .. n : made[a + k] = made[a]}
<1>1. n \in Nat
  OBVIOUS
<1>2. 0 \in S
  OBVIOUS
<1>3. ASSUME NEW k \in 0 .. n - 1, k \in S PROVE k + 1 \in S
  <2> DEFINE l == (a + k) + 1
  <2>1. l \in 1 .. Len(q) /\ l - 1 = a + k /\ l \in a + 1 .. Len(q) /\ l - 1 \in 0 .. Len(q) /\ l = a + (k + 1)
    OBVIOUS
  <2> HIDE DEF l
  <2>2. made[l] = made[l - 1] \o q[l] /\ made[l - 1] \in Seq(V) /\ q[l] = <<>>
    BY <2>1 DEF Parts
  <2>3. \A s \in Seq(V) : s \o <<>> = s
    OBVIOUS
  <2>4. made[l - 1] = made[a]
    BY <1>3, <2>1
  <2>5. made[l] = made[a]
    BY <2>2, <2>3, <2>4
  <2>6. k + 1 \in 0 .. n
    BY <1>1
  <2> QED BY <2>1, <2>5, <2>6
<1> HIDE DEF S
<1>4. \A k \in 0 .. n : k \in S
  <2> HIDE DEF n
  <2> QED BY <1>1, <1>2, <1>3, InductUpTo
<1>5. n \in 0 .. n /\ a + n = Len(q)
  OBVIOUS
<1> QED BY <1>4, <1>5 DEF S

-----------------------------------------------------------------------------
\* Cookies: trimming.

CookieChars == {"x", "y", "=", "semi", "sp", "tab", "path", "expires"}
Text == Seq(CookieChars)

LEMMA TextIs ==
  ASSUME NEW t \in Text
  PROVE  /\ Len(t) \in Nat /\ DOMAIN t = 1 .. Len(t) /\ t \in Seq(CookieChars)
         /\ \A i \in 1 .. Len(t) : t[i] \in CookieChars
BY DEF Text

\* What stands between the blanks around it.
LEMMA Stripped ==
  ASSUME NEW t \in Text, NEW a \in 1 .. Len(t), NEW b \in 1 .. Len(t), t[a] # "sp", t[b] # "sp",
         \A i \in 1 .. Len(t) : t[i] # "sp" => a <= i /\ i <= b
  PROVE  Cookies!Trim(t) = SubSeq(t, a, b)
<1> DEFINE ink == {i \in DOMAIN t : t[i] # "sp"}
           first == CHOOSE i \in ink : \A j \in ink : i <= j
           last == CHOOSE i \in ink : \A j \in ink : i >= j
<1>1. DOMAIN t = 1 .. Len(t)
  BY TextIs
<1>0. Len(t) \in Nat
  BY TextIs
<1>2. a \in ink /\ b \in ink /\ (\A j \in ink : a <= j /\ j <= b) /\ a \in Nat /\ b \in Nat
  <2>1. a \in ink /\ b \in ink
    BY <1>1
  <2>2. \A j \in ink : a <= j /\ j <= b
    BY <1>1
  <2> QED BY <1>0, <2>1, <2>2
<1>7. \A j \in ink : j \in Nat
  BY <1>1
<1>3. Cookies!Trim(t) = IF ink = {} THEN <<>> ELSE SubSeq(t, first, last)
  BY DEF Cookies!Trim
<1> HIDE DEF ink
<1>4. first \in ink /\ \A j \in ink : first <= j
  BY <1>2
<1>5. last \in ink /\ \A j \in ink : last >= j
  <2>1. \A j \in ink : b >= j
    BY <1>2, <1>7
  <2> QED BY <1>2, <2>1
<1>6. first = a /\ last = b
  <2> HIDE DEF first, last
  <2>1. first \in Nat /\ last \in Nat
    BY <1>4, <1>5, <1>7
  <2>2. first <= a /\ a <= first /\ last >= b /\ last <= b
    BY <1>2, <1>4, <1>5
  <2> QED BY <1>2, <2>1, <2>2
<1> HIDE DEF first, last
<1> QED BY <1>2, <1>3, <1>6

LEMMA AllBlank ==
  ASSUME NEW t \in Text, \A i \in 1 .. Len(t) : t[i] = "sp"
  PROVE  Cookies!Trim(t) = <<>>
<1>1. {i \in DOMAIN t : t[i] # "sp"} = {}
  <2>1. DOMAIN t = 1 .. Len(t)
    BY TextIs
  <2> QED BY <2>1
<1> QED BY <1>1 DEF Cookies!Trim

\* Nothing but what stands between the blanks comes out, and it is trimmed.
LEMMA TrimIs ==
  ASSUME NEW t \in Text
  PROVE  Cookies!Trim(t) \in Text /\ Cookies!Trimmed(Cookies!Trim(t))
<1> DEFINE ink == {i \in 1 .. Len(t) : t[i] # "sp"}
<1>0. Len(t) \in Nat
  BY TextIs
<1>1. \A i \in 1 .. Len(t) : t[i] \in CookieChars
  BY TextIs
<1>2. CASE ink = {}
  <2>1. Cookies!Trim(t) = <<>>
    BY <1>2, AllBlank
  <2>2. <<>> \in Text
    BY DEF Text
  <2> QED BY <2>1, <2>2 DEF Cookies!Trimmed
<1>3. CASE ink # {}
  <2>1. ink \subseteq 1 .. Len(t)
    OBVIOUS
  <2>8. ink \subseteq Nat
    OBVIOUS
  <2> HIDE DEF ink
  <2>2. PICK a \in ink : \A y \in ink : a <= y
    BY <1>3, <2>8, LeastNumber
  <2>3. PICK b \in ink : \A y \in ink : y <= b
    BY <1>0, <1>3, <2>1, GreatestNumber
  <2>4. a \in 1 .. Len(t) /\ b \in 1 .. Len(t) /\ t[a] # "sp" /\ t[b] # "sp" /\ a <= b
    BY <2>2, <2>3 DEF ink
  <2>5. Cookies!Trim(t) = SubSeq(t, a, b)
    <3>1. \A i \in 1 .. Len(t) : t[i] # "sp" => a <= i /\ i <= b
      BY <2>2, <2>3 DEF ink
    <3> QED BY <2>4, <3>1, Stripped
  <2> DEFINE u == SubSeq(t, a, b)
  <2>6. u \in Text /\ Len(u) = b - a + 1 /\ \A i \in 1 .. b - a + 1 : u[i] = t[a + i - 1]
    <3>1. a \in Int /\ b \in Int /\ a <= b + 1
      BY <1>0, <2>4
    <3>2. \A i \in a .. b : t[i] \in CookieChars
      <4>1. \A i \in a .. b : i \in 1 .. Len(t)
        BY <1>0, <2>4
      <4> QED BY <1>1, <4>1
    <3> QED BY <3>1, <3>2, Taken DEF Text
  <2> HIDE DEF u
  <2>7. u[1] # "sp" /\ u[Len(u)] # "sp"
    <3>1. 1 \in 1 .. b - a + 1 /\ b - a + 1 \in 1 .. b - a + 1 /\ a + 1 - 1 = a /\ a + (b - a + 1) - 1 = b
      BY <1>0, <2>4
    <3>2. u[1] = t[a]
      BY <2>6, <3>1
    <3>3. u[b - a + 1] = t[b]
      BY <2>6, <3>1
    <3> QED BY <2>4, <2>6, <3>2, <3>3
  <2> QED BY <2>5, <2>6, <2>7 DEF u, Cookies!Trimmed, Cookies!Last
<1> QED BY <1>2, <1>3

\* Text that is trimmed is what trimming leaves, with a blank before it or none.
LEMMA TrimKeeps ==
  ASSUME NEW t \in Text, Cookies!Trimmed(t)
  PROVE  Cookies!Trim(t) = t /\ Cookies!Trim(<<"sp">> \o t) = t
<1> DEFINE w == <<"sp">> \o t
           s == <<"sp">>
<1>0. Len(t) \in Nat
  BY TextIs
<1>1. \A i \in 1 .. Len(t) : t[i] \in CookieChars
  BY TextIs
<1>2. w \in Text /\ Len(w) = 1 + Len(t) /\ w[1] = "sp" /\ \A i \in 1 .. Len(t) : w[1 + i] = t[i]
  <2>1. s \in Seq(CookieChars) /\ Len(s) = 1 /\ s[1] = "sp"
    <3>1. "sp" \in CookieChars
      BY DEF CookieChars
    <3> QED BY <3>1
  <2>2. s \in Seq(CookieChars) /\ t \in Seq(CookieChars)
    BY <2>1, TextIs
  <2>6. w = s \o t
    OBVIOUS
  <2> HIDE DEF s, w
  <2>3. w \in Seq(CookieChars) /\ Len(w) = Len(s) + Len(t) /\ \A i \in 1 .. Len(t) : w[Len(s) + i] = t[i]
    BY <2>2, <2>6, Behind
  <2>4. \A i \in 1 .. Len(s) : w[i] = s[i]
    BY <2>2, <2>6, Behind
  <2>5. 1 \in 1 .. Len(s)
    <3>1. Len(s) = 1
      BY <2>1
    <3> QED BY <3>1
  <2>7. Len(s) = 1 /\ s[1] = "sp"
    BY <2>1
  <2> QED BY <2>3, <2>4, <2>5, <2>7 DEF Text
<1> HIDE DEF w
<1>3. CASE t = <<>>
  <2>1. Len(t) = 0
    BY <1>3
  <2>2. \A i \in 1 .. Len(t) : t[i] = "sp"
    BY <2>1
  <2>3. \A i \in 1 .. Len(w) : w[i] = "sp"
    <3>1. Len(w) = 1 /\ w[1] = "sp"
      BY <1>2, <2>1
    <3> QED BY <3>1
  <2> QED BY <1>2, <1>3, <2>2, <2>3, AllBlank DEF w
<1>4. CASE t # <<>>
  <2> DEFINE n == Len(t)
  <2>1. n # 0
    <3>1. t \in Seq(CookieChars) /\ t # <<>>
      BY <1>4, TextIs
    <3>2. Len(t) # 0
      BY <3>1
    <3> QED BY <3>2
  <2>2. t[1] # "sp" /\ t[n] # "sp" /\ n \in Nat
    BY <1>0, <1>4 DEF Cookies!Trimmed, Cookies!Last
  <2>3. Cookies!Trim(t) = t
    <3>1. Cookies!Trim(t) = SubSeq(t, 1, n)
      <4>1. 1 \in 1 .. n /\ n \in 1 .. n /\ \A i \in 1 .. n : 1 <= i /\ i <= n
        <5> HIDE DEF n
        <5> QED BY <2>1, <2>2
      <4> QED BY <2>2, <4>1, Stripped
    <3>2. SubSeq(t, 1, n) = t
      BY SubSeqFull DEF Text
    <3> QED BY <3>1, <3>2
  <2>4. Cookies!Trim(w) = t
    <3> DEFINE b == 1 + n
               u == SubSeq(w, 2, b)
    <3>0. Len(w) = b /\ w \in Text
      BY <1>2
    <3>1. 2 \in 1 .. b /\ b \in 1 .. b /\ b \in Nat /\ b - 2 + 1 = n /\ 2 <= b + 1
      <4> HIDE DEF n
      <4> QED BY <2>1, <2>2
    <3>2. w[2] = t[1] /\ w[b] = t[n]
      <4>1. 1 \in 1 .. n /\ n \in 1 .. n /\ 1 + 1 = 2
        <5> HIDE DEF n
        <5> QED BY <2>1, <2>2
      <4> QED BY <1>2, <4>1
    <3>3. Cookies!Trim(w) = u
      <4>1. \A i \in 1 .. b : w[i] # "sp" => 2 <= i /\ i <= b
        <5>1. w[1] = "sp"
          BY <1>2
        <5> HIDE DEF b
        <5> QED BY <3>1, <5>1
      <4> HIDE DEF b
      <4> QED BY <2>2, <3>0, <3>1, <3>2, <4>1, Stripped
    <3>4. u \in Text /\ Len(u) = n /\ \A i \in 1 .. n : u[i] = w[2 + i - 1]
      <4>1. \A i \in 2 .. b : w[i] \in CookieChars
        <5>1. \A i \in 1 .. b : w[i] \in CookieChars
          BY <3>0, TextIs
        <5> HIDE DEF b
        <5> QED BY <3>1, <5>1
      <4>2. 2 \in Int /\ b \in Int /\ 2 <= b + 1
        <5> HIDE DEF b
        <5> QED BY <3>1
      <4>3. /\ u \in Seq(CookieChars) /\ Len(u) = b - 2 + 1 /\ \A i \in 1 .. b - 2 + 1 : u[i] = w[2 + i - 1]
        <5> HIDE DEF b
        <5> QED BY <4>1, <4>2, Taken
      <4> HIDE DEF u, b
      <4> QED BY <3>1, <4>3 DEF Text
    <3> HIDE DEF u
    <3>5. \A i \in 1 .. n : u[i] = t[i]
      <4>1. \A i \in 1 .. n : 2 + i - 1 = 1 + i
        <5> HIDE DEF n
        <5> QED BY <2>2
      <4> QED BY <1>2, <3>4, <4>1
    <3>6. u = t
      <4> HIDE DEF n
      <4>1. u \in Seq(CookieChars) /\ t \in Seq(CookieChars) /\ Len(u) = Len(t) /\ \A i \in 1 .. Len(t) : u[i] = t[i]
        BY <3>4, <3>5, TextIs DEF Text, n
      <4> QED BY <4>1, SameSeq
    <3> QED BY <3>3, <3>6
  <2> QED BY <2>3, <2>4 DEF w
<1> QED BY <1>3, <1>4

-----------------------------------------------------------------------------
\* Cookies: what read_header_value makes of a line.

HasGap(w, i) == /\ i < Len(w) /\ ~Cookies!Blank(w[i + 1])
                /\ \E j \in 1 .. i : ~Cookies!Blank(w[j])
Squeezed(w) == [i \in DOMAIN w |->
  IF ~Cookies!Blank(w[i]) THEN <<w[i]>> ELSE IF HasGap(w, i) THEN <<"sp">> ELSE <<>>]
SqueezeMade(w) == CHOOSE made : Parts(made, Squeezed(w), CookieChars)
                                /\ Cookies!FlattenSeq(Squeezed(w)) = made[Len(Squeezed(w))]

LEMMA CollapseIs == ASSUME NEW w PROVE Cookies!Collapse(w) = Cookies!FlattenSeq(Squeezed(w))
BY DEF Cookies!Collapse, Squeezed, HasGap

\* The pieces a line is put together of.
LEMMA SqueezeAre ==
  ASSUME NEW w \in Text
  PROVE  /\ Len(w) \in Nat /\ Len(Squeezed(w)) = Len(w)
         /\ \A i \in 1 .. Len(w) : Squeezed(w)[i] = (IF ~Cookies!Blank(w[i]) THEN <<w[i]>>
                                                     ELSE IF HasGap(w, i) THEN <<"sp">> ELSE <<>>)
         /\ Parts(SqueezeMade(w), Squeezed(w), CookieChars)
         /\ Cookies!Collapse(w) = SqueezeMade(w)[Len(w)] /\ Cookies!Collapse(w) \in Text
<1> DEFINE n == Len(w)
           q == Squeezed(w)
<1>1. n \in Nat /\ DOMAIN w = 1 .. n /\ \A i \in 1 .. n : w[i] \in CookieChars
  BY TextIs
<1>2. Len(q) = n /\ \A i \in 1 .. n : q[i] = (IF ~Cookies!Blank(w[i]) THEN <<w[i]>>
                                              ELSE IF HasGap(w, i) THEN <<"sp">> ELSE <<>>)
  BY <1>1 DEF Squeezed
<1>3. Len(q) = 0 => q = <<>>
  BY <1>1, <1>2 DEF Squeezed
<1>4. ASSUME NEW i \in 1 .. n PROVE q[i] \in Seq(CookieChars)
  <2>1. "sp" \in CookieChars /\ w[i] \in CookieChars
    BY <1>1 DEF CookieChars
  <2>2. \A c \in CookieChars : <<c>> \in Seq(CookieChars)
    OBVIOUS
  <2>3. <<>> \in Seq(CookieChars)
    OBVIOUS
  <2> QED BY <1>2, <2>1, <2>2, <2>3
<1>5. Cookies!Collapse(w) = Bodies!FlattenSeq(q)
  BY CollapseIs DEF Cookies!FlattenSeq, Bodies!FlattenSeq
<1>6. Cookies!Collapse(w) = Cookies!FlattenSeq(q)
  BY CollapseIs
<1> HIDE DEF q, n
<1>7. \E made : Parts(made, q, CookieChars) /\ Bodies!FlattenSeq(q) = made[Len(q)]
  BY <1>1, <1>2, <1>3, <1>4, FlattenParts
<1>8. Parts(SqueezeMade(w), q, CookieChars) /\ Cookies!FlattenSeq(q) = SqueezeMade(w)[Len(q)]
  <2>1. \E made : Parts(made, q, CookieChars) /\ Cookies!FlattenSeq(q) = made[Len(q)]
    BY <1>5, <1>6, <1>7
  <2> QED BY <2>1, Zenon DEF SqueezeMade, q
<1>9. SqueezeMade(w)[n] \in Seq(CookieChars)
  <2>1. n \in 0 .. Len(q)
    BY <1>1, <1>2
  <2> QED BY <1>8, <2>1 DEF Parts
<1> QED BY <1>1, <1>2, <1>6, <1>8, <1>9 DEF q, n, Text

\* No blanks but single ones between words, as read_header_value leaves them.
Spaced(w) == \A i \in 1 .. Len(w) : /\ w[i] # "tab"
                                    /\ w[i] = "sp" => i # 1 /\ i # Len(w) /\ w[i + 1] # "sp"

\* A line that is spaced that way is read as it was written.
LEMMA CollapseKeeps ==
  ASSUME NEW w \in Text, Spaced(w)
  PROVE  Cookies!Collapse(w) = w
<1> DEFINE n == Len(w)
           q == Squeezed(w)
           made == SqueezeMade(w)
           S == {k \in 0 .. n : Len(made[k]) = k /\ \A j \in 1 .. k : made[k][j] = w[j]}
<1>1. n \in Nat /\ (\A i \in 1 .. n : w[i] \in CookieChars) /\ w \in Seq(CookieChars)
  BY TextIs
<1>2. /\ Len(q) = n /\ Parts(made, q, CookieChars) /\ Cookies!Collapse(w) = made[n]
      /\ \A i \in 1 .. n : q[i] = (IF ~Cookies!Blank(w[i]) THEN <<w[i]>>
                                  ELSE IF HasGap(w, i) THEN <<"sp">> ELSE <<>>)
  BY SqueezeAre
<1>3. ASSUME NEW i \in 1 .. n PROVE q[i] = <<w[i]>>
  <2>1. CASE w[i] # "sp"
    <3>1. ~Cookies!Blank(w[i])
      BY <2>1 DEF Spaced, Cookies!Blank
    <3> QED BY <1>2, <3>1
  <2>2. CASE w[i] = "sp"
    <3>1. i # 1 /\ i # n /\ w[i + 1] # "sp"
      BY <2>2 DEF Spaced
    <3>2. i < n /\ i + 1 \in 1 .. n /\ 1 \in 1 .. i /\ 1 \in 1 .. n
      BY <1>1, <3>1
    <3>3. w[1] # "sp" /\ w[1] # "tab" /\ w[i + 1] # "tab"
      BY <3>2 DEF Spaced
    <3>4. HasGap(w, i)
      BY <3>1, <3>2, <3>3 DEF HasGap, Cookies!Blank
    <3>5. Cookies!Blank(w[i])
      BY <2>2 DEF Cookies!Blank
    <3> QED BY <1>2, <2>2, <3>4, <3>5
  <2> QED BY <2>1, <2>2
<1> HIDE DEF q, made, n
<1>4. 0 \in S
  <2>1. made[0] = <<>>
    BY <1>2 DEF Parts
  <2>2. Len(made[0]) = 0
    BY <2>1
  <2> QED BY <1>1, <2>2
<1>5. ASSUME NEW k \in 0 .. n - 1, k \in S PROVE k + 1 \in S
  <2> DEFINE l == k + 1
  <2>1. l \in 1 .. Len(q) /\ l \in 1 .. n /\ l - 1 = k /\ k \in 0 .. Len(q) /\ l \in 0 .. n /\ k \in Nat
    BY <1>1, <1>2
  <2>2. \A j \in 1 .. l : j \in 1 .. k \/ j = l
    BY <2>1
  <2>3. l = k + 1
    OBVIOUS
  <2> HIDE DEF l
  <2>4. made[l] = made[k] \o <<w[l]>> /\ made[k] \in Seq(CookieChars) /\ w[l] \in CookieChars
    BY <1>1, <1>2, <1>3, <2>1 DEF Parts
  <2>5. \A x \in Seq(CookieChars) : \A y \in CookieChars : x \o <<y>> = Append(x, y)
    OBVIOUS
  <2>6. made[l] = Append(made[k], w[l])
    BY <2>4, <2>5
  <2>7. Len(made[k]) = k /\ \A j \in 1 .. k : made[k][j] = w[j]
    BY <1>5
  <2>8. Len(made[l]) = k + 1 /\ (\A j \in 1 .. k : made[l][j] = made[k][j]) /\ made[l][k + 1] = w[l]
    <3> DEFINE u == made[k]
               x == made[l]
               c == w[l]
    <3>1. u \in Seq(CookieChars) /\ c \in CookieChars /\ x = Append(u, c) /\ Len(u) = k
      BY <2>4, <2>6, <2>7
    <3> HIDE DEF u, x, c
    <3>2. Len(x) = k + 1 /\ (\A j \in 1 .. k : x[j] = u[j]) /\ x[k + 1] = c
      BY <3>1, AppendProperties
    <3> QED BY <3>2 DEF u, x, c
  <2>9. ASSUME NEW j \in 1 .. l PROVE made[l][j] = w[j]
    <3>1. CASE j \in 1 .. k
      BY <2>7, <2>8, <3>1
    <3>2. CASE j = l
      <4>1. made[l][l] = w[l]
        BY <2>3, <2>8
      <4> QED BY <3>2, <4>1
    <3> QED BY <2>2, <3>1, <3>2
  <2> QED BY <2>1, <2>3, <2>8, <2>9
<1>6. n \in S
  <2> HIDE DEF S
  <2>1. \A k \in 0 .. n : k \in S
    BY <1>1, <1>4, <1>5, InductUpTo
  <2> QED BY <1>1, <2>1
<1>7. made[n] \in Seq(CookieChars)
  <2>1. n \in 0 .. Len(q)
    BY <1>1, <1>2
  <2> QED BY <1>2, <2>1 DEF Parts
<1>8. Len(made[n]) = Len(w) /\ \A j \in 1 .. Len(w) : made[n][j] = w[j]
  BY <1>6 DEF n
<1>9. made[n] = w
  BY <1>1, <1>7, <1>8, SameSeq
<1> QED BY <1>2, <1>9

-----------------------------------------------------------------------------
\* Cookies: what the tokenizer makes of a line.

StartsToken(w, i) == w[i] # "semi" /\ (i = 1 \/ w[i - 1] = "semi")
IsEnd(w, i, j) == (\A k \in i .. j : w[k] # "semi") /\ (j = Len(w) \/ w[j + 1] = "semi")
EndOf(w, i) == CHOOSE j \in i .. Len(w) : /\ \A k \in i .. j : w[k] # "semi"
                                          /\ j = Len(w) \/ w[j + 1] = "semi"
Cuts(w) == [i \in DOMAIN w |-> IF StartsToken(w, i) THEN <<SubSeq(w, i, EndOf(w, i))>> ELSE <<>>]
CutMade(w) == CHOOSE made : Parts(made, Cuts(w), Text) /\ Cookies!FlattenSeq(Cuts(w)) = made[Len(Cuts(w))]

LEMMA KeyValuesCut == ASSUME NEW w PROVE Cookies!KeyValues(w) = Cookies!FlattenSeq(Cuts(w))
BY DEF Cookies!KeyValues, Cuts, EndOf, StartsToken

\* A token has one end.
LEMMA EndIs ==
  ASSUME NEW w, Len(w) \in Nat, NEW i \in 1 .. Len(w), NEW j \in i .. Len(w), IsEnd(w, i, j)
  PROVE  EndOf(w, i) = j
<1> DEFINE e == EndOf(w, i)
<1>1. e \in i .. Len(w) /\ IsEnd(w, i, e)
  BY DEF EndOf, IsEnd
<1> HIDE DEF e
<1>2. ~(e < j)
  <2> SUFFICES ASSUME e < j PROVE FALSE
    OBVIOUS
  <2>1. e + 1 \in i .. j /\ e # Len(w)
    BY <1>1
  <2> QED BY <1>1, <2>1 DEF IsEnd
<1>3. ~(j < e)
  <2> SUFFICES ASSUME j < e PROVE FALSE
    OBVIOUS
  <2>1. j + 1 \in i .. e /\ j # Len(w)
    BY <1>1
  <2> QED BY <1>1, <2>1 DEF IsEnd
<1>4. e = j
  BY <1>1, <1>2, <1>3
<1> QED BY <1>4 DEF e

\* And it has one.
LEMMA EndThere ==
  ASSUME NEW w, Len(w) \in Nat, NEW i \in 1 .. Len(w), w[i] # "semi"
  PROVE  EndOf(w, i) \in i .. Len(w) /\ IsEnd(w, i, EndOf(w, i))
<1> DEFINE T == {j \in i .. Len(w) : j = Len(w) \/ w[j + 1] = "semi"}
<1>1. T \subseteq Nat
  OBVIOUS
<1>2. Len(w) \in T
  OBVIOUS
<1>3. PICK j \in T : \A y \in T : j <= y
  <2>1. T # {}
    BY <1>2
  <2> HIDE DEF T
  <2> QED BY <1>1, <2>1, LeastNumber
<1>4. j \in i .. Len(w) /\ (j = Len(w) \/ w[j + 1] = "semi")
  BY <1>3
<1>5. ASSUME NEW k \in i .. j PROVE w[k] # "semi"
  <2> SUFFICES ASSUME w[k] = "semi" PROVE FALSE
    OBVIOUS
  <2>1. k # i
    OBVIOUS
  <2> DEFINE l == k - 1
  <2>2. l \in i .. Len(w) /\ l + 1 = k /\ ~(j <= l)
    BY <1>4, <2>1
  <2> HIDE DEF l
  <2>3. l \in T
    BY <2>2
  <2> QED BY <1>3, <2>2, <2>3
<1>6. IsEnd(w, i, j)
  BY <1>4, <1>5 DEF IsEnd
<1> QED BY <1>4, <1>6, EndIs

LEMMA CutsAre ==
  ASSUME NEW w \in Text
  PROVE  /\ Len(w) \in Nat /\ Len(Cuts(w)) = Len(w)
         /\ \A i \in 1 .. Len(w) : /\ Cuts(w)[i] = (IF StartsToken(w, i) THEN <<SubSeq(w, i, EndOf(w, i))>> ELSE <<>>)
                                   /\ Cuts(w)[i] \in Seq(Text)
         /\ Parts(CutMade(w), Cuts(w), Text) /\ Cookies!KeyValues(w) = CutMade(w)[Len(w)]
         /\ Cookies!KeyValues(w) \in Seq(Text)
<1> DEFINE n == Len(w)
           q == Cuts(w)
<1>1. n \in Nat /\ DOMAIN w = 1 .. n /\ \A i \in 1 .. n : w[i] \in CookieChars
  BY TextIs
<1>2. Len(q) = n /\ \A i \in 1 .. n : q[i] = (IF StartsToken(w, i) THEN <<SubSeq(w, i, EndOf(w, i))>> ELSE <<>>)
  BY <1>1 DEF Cuts
<1>3. Len(q) = 0 => q = <<>>
  BY <1>1, <1>2 DEF Cuts
<1>4. ASSUME NEW i \in 1 .. n PROVE q[i] \in Seq(Text)
  <2>1. CASE StartsToken(w, i)
    <3> DEFINE e == EndOf(w, i)
               u == SubSeq(w, i, e)
    <3>1. e \in i .. n
      BY <1>1, <2>1, EndThere DEF StartsToken
    <3> HIDE DEF e
    <3>2. u \in Text
      <4>1. i \in Int /\ e \in Int /\ i <= e + 1 /\ \A k \in i .. e : k \in 1 .. n
        <5>1. n \in Nat
          BY <1>1
        <5> HIDE DEF n
        <5> QED BY <3>1, <5>1
      <4>2. \A k \in i .. e : w[k] \in CookieChars
        BY <1>1, <4>1
      <4> QED BY <4>1, <4>2, Taken DEF Text
    <3> HIDE DEF u
    <3>3. <<u>> \in Seq(Text)
      BY <3>2
    <3> QED BY <1>2, <2>1, <3>3 DEF u, e
  <2>2. CASE ~StartsToken(w, i)
    <3>1. <<>> \in Seq(Text)
      OBVIOUS
    <3> QED BY <1>2, <2>2, <3>1
  <2> QED BY <2>1, <2>2
<1>5. Cookies!KeyValues(w) = Bodies!FlattenSeq(q)
  BY KeyValuesCut DEF Cookies!FlattenSeq, Bodies!FlattenSeq
<1>6. Cookies!KeyValues(w) = Cookies!FlattenSeq(q)
  BY KeyValuesCut
<1> HIDE DEF q, n
<1>7. \E made : Parts(made, q, Text) /\ Bodies!FlattenSeq(q) = made[Len(q)]
  BY <1>1, <1>2, <1>3, <1>4, FlattenParts
<1>8. Parts(CutMade(w), q, Text) /\ Cookies!FlattenSeq(q) = CutMade(w)[Len(q)]
  <2>1. \E made : Parts(made, q, Text) /\ Cookies!FlattenSeq(q) = made[Len(q)]
    BY <1>5, <1>6, <1>7
  <2> QED BY <2>1, Zenon DEF CutMade, q
<1>9. CutMade(w)[n] \in Seq(Text)
  <2>1. n \in 0 .. Len(q)
    BY <1>1, <1>2
  <2> QED BY <1>8, <2>1 DEF Parts
<1> QED BY <1>1, <1>2, <1>4, <1>6, <1>8, <1>9 DEF q, n

\* A line without a semicolon is one token.
LEMMA OneToken ==
  ASSUME NEW p \in Text, p # <<>>, \A i \in 1 .. Len(p) : p[i] # "semi"
  PROVE  Cookies!KeyValues(p) = <<p>>
<1> DEFINE n == Len(p)
           q == Cuts(p)
           m == CutMade(p)
<1>1. /\ n \in Nat /\ Len(q) = n /\ Parts(m, q, Text) /\ Cookies!KeyValues(p) = m[n]
      /\ \A i \in 1 .. n : q[i] = (IF StartsToken(p, i) THEN <<SubSeq(p, i, EndOf(p, i))>> ELSE <<>>)
  BY CutsAre
<1>2. n # 0
  <2>1. p \in Seq(CookieChars)
    BY TextIs
  <2> QED BY <2>1
<1>3. q[1] = <<p>>
  <2>1. 1 \in 1 .. n /\ n \in 1 .. n
    <3> HIDE DEF n
    <3> QED BY <1>1, <1>2
  <2>2. IsEnd(p, 1, n)
    BY DEF IsEnd
  <2>3. EndOf(p, 1) = n
    BY <1>1, <2>1, <2>2, EndIs
  <2>4. SubSeq(p, 1, n) = p
    BY SubSeqFull, TextIs
  <2>5. StartsToken(p, 1)
    BY <2>1 DEF StartsToken
  <2> QED BY <1>1, <2>1, <2>3, <2>4, <2>5
<1>4. \A i \in 2 .. n : q[i] = <<>>
  <2> SUFFICES ASSUME NEW i \in 2 .. n PROVE q[i] = <<>>
    OBVIOUS
  <2>1. i \in 1 .. n /\ i - 1 \in 1 .. n /\ i # 1
    <3> HIDE DEF n
    <3> QED BY <1>1
  <2>2. ~StartsToken(p, i)
    BY <2>1 DEF StartsToken
  <2> QED BY <1>1, <2>1, <2>2
<1> HIDE DEF n, q, m
<1>5. m[1] = <<p>>
  <2>1. 1 \in 1 .. Len(q)
    BY <1>1, <1>2
  <2>2. m[0] = <<>> /\ m[1] = m[1 - 1] \o q[1]
    BY <1>1, <2>1 DEF Parts
  <2>4. 1 - 1 = 0
    OBVIOUS
  <2>3. m[1] = <<>> \o <<p>>
    BY <1>3, <2>2, <2>4, Zenon
  <2> QED BY <2>3
<1>6. m[n] = m[1]
  <2>1. 1 \in 0 .. Len(q) /\ Len(q) \in Nat /\ \A i \in 1 + 1 .. Len(q) : q[i] = <<>>
    BY <1>1, <1>2, <1>4
  <2> QED BY <1>1, <2>1, PartsFlat
<1> QED BY <1>1, <1>5, <1>6

\* The same part of two sequences that agree on it.
LEMMA SameTaken ==
  ASSUME NEW V, NEW w, NEW s, NEW i \in Int, NEW e \in Int, i <= e + 1, \A k \in i .. e : w[k] = s[k] /\ s[k] \in V
  PROVE  SubSeq(w, i, e) = SubSeq(s, i, e)
<1> DEFINE u == SubSeq(w, i, e)
           v == SubSeq(s, i, e)
           l == e - i + 1
<1>1. u \in Seq(V) /\ Len(u) = l /\ \A x \in 1 .. l : u[x] = w[i + x - 1]
  BY Taken
<1>2. v \in Seq(V) /\ Len(v) = l /\ \A x \in 1 .. l : v[x] = s[i + x - 1]
  BY Taken
<1> HIDE DEF u, v
<1>3. \A x \in 1 .. l : u[x] = v[x]
  <2>1. \A x \in 1 .. l : i + x - 1 \in i .. e
    OBVIOUS
  <2> HIDE DEF l
  <2> QED BY <1>1, <1>2, <2>1
<1> HIDE DEF l
<1>4. u \in Seq(V) /\ v \in Seq(V) /\ Len(u) = Len(v) /\ \A x \in 1 .. Len(v) : u[x] = v[x]
  BY <1>1, <1>2, <1>3
<1>5. u = v
  BY <1>4, SameSeq
<1> QED BY <1>5 DEF u, v

\* Behind a semicolon and a blank another token begins, and those before it stay as they are.
LEMMA AnotherToken ==
  ASSUME NEW s \in Text, NEW p \in Text, s # <<>>, s[Len(s)] # "semi", \A i \in 1 .. Len(p) : p[i] # "semi"
  PROVE  /\ Cookies!Separated(s, p) \in Text /\ Len(Cookies!Separated(s, p)) = Len(s) + 2 + Len(p)
         /\ \A i \in 1 .. Len(p) : Cookies!Separated(s, p)[Len(s) + 2 + i] = p[i]
         /\ \A i \in 1 .. Len(s) : Cookies!Separated(s, p)[i] = s[i]
         /\ Cookies!Separated(s, p)[Len(s) + 1] = "semi" /\ Cookies!Separated(s, p)[Len(s) + 2] = "sp"
         /\ Cookies!KeyValues(Cookies!Separated(s, p)) = Append(Cookies!KeyValues(s), <<"sp">> \o p)
<1> DEFINE a == Len(s)
           b == Len(p)
           c == <<"semi", "sp">>
           z == s \o c
           w == z \o p
           n == a + 2 + b
<1>0. Cookies!Separated(s, p) = w
  BY DEF Cookies!Separated
<1>1. a \in Nat /\ b \in Nat /\ a # 0
  <2>1. s \in Seq(CookieChars) /\ p \in Seq(CookieChars)
    BY TextIs
  <2> QED BY <2>1
<1>2. c \in Seq(CookieChars) /\ Len(c) = 2 /\ c[1] = "semi" /\ c[2] = "sp"
  <2>1. "semi" \in CookieChars /\ "sp" \in CookieChars
    BY DEF CookieChars
  <2> QED BY <2>1
<1>3. s \in Seq(CookieChars) /\ p \in Seq(CookieChars)
  BY TextIs
<1> HIDE DEF c
<1>4. /\ z \in Seq(CookieChars) /\ Len(z) = a + 2 /\ (\A i \in 1 .. a : z[i] = s[i])
      /\ z[a + 1] = "semi" /\ z[a + 2] = "sp"
  <2>0. s \in Seq(CookieChars) /\ c \in Seq(CookieChars)
    BY <1>2, <1>3
  <2>1. z \in Seq(CookieChars) /\ Len(z) = a + Len(c) /\ \A i \in 1 .. a : z[i] = s[i]
    BY <2>0, Behind
  <2>2. \A i \in 1 .. Len(c) : z[a + i] = c[i]
    BY <2>0, Behind
  <2>3. 1 \in 1 .. Len(c) /\ 2 \in 1 .. Len(c)
    <3>1. Len(c) = 2
      BY <1>2
    <3> QED BY <3>1
  <2>4. z[a + 1] = "semi" /\ z[a + 2] = "sp"
    BY <1>2, <2>2, <2>3
  <2>5. Len(c) = 2
    BY <1>2
  <2> QED BY <2>1, <2>4, <2>5
<1> HIDE DEF z
<1>5. /\ w \in Seq(CookieChars) /\ Len(w) = n /\ (\A i \in 1 .. a + 2 : w[i] = z[i])
      /\ \A i \in 1 .. b : w[a + 2 + i] = p[i]
  <2>0. z \in Seq(CookieChars) /\ p \in Seq(CookieChars)
    BY <1>3, <1>4
  <2>1. w \in Seq(CookieChars) /\ Len(w) = Len(z) + b /\ \A i \in 1 .. Len(z) : w[i] = z[i]
    BY <2>0, Behind
  <2>2. \A i \in 1 .. b : w[Len(z) + i] = p[i]
    BY <2>0, Behind
  <2>3. Len(z) = a + 2
    BY <1>4
  <2> QED BY <2>1, <2>2, <2>3
<1> HIDE DEF w
<1>6. /\ \A i \in 1 .. a : w[i] = s[i]
      /\ w[a + 1] = "semi" /\ w[a + 2] = "sp"
  <2>1. \A i \in 1 .. a : i \in 1 .. a + 2
    BY <1>1
  <2>2. a + 1 \in 1 .. a + 2 /\ a + 2 \in 1 .. a + 2
    BY <1>1
  <2> QED BY <1>4, <1>5, <2>1, <2>2
<1>7. n \in Nat /\ n = a + 2 + b /\ Len(w) = n
  BY <1>1, <1>5
<1> HIDE DEF n, a, b
<1> DEFINE q == Cuts(w)
           r == Cuts(s)
           mw == CutMade(w)
           ms == CutMade(s)
           t == <<"sp">> \o p
<1>8. w \in Text
  BY <1>5 DEF Text
<1>9. /\ Len(q) = n /\ Parts(mw, q, Text) /\ Cookies!KeyValues(w) = mw[n]
      /\ \A i \in 1 .. n : q[i] = (IF StartsToken(w, i) THEN <<SubSeq(w, i, EndOf(w, i))>> ELSE <<>>)
  BY <1>7, <1>8, CutsAre
<1>10. /\ Len(r) = a /\ Parts(ms, r, Text) /\ Cookies!KeyValues(s) = ms[a] /\ ms[a] \in Seq(Text)
       /\ \A i \in 1 .. a : r[i] = (IF StartsToken(s, i) THEN <<SubSeq(s, i, EndOf(s, i))>> ELSE <<>>)
  BY CutsAre DEF a
<1>11. ASSUME NEW i \in 1 .. a PROVE q[i] = r[i]
  <2>1. i \in 1 .. n
    BY <1>1, <1>7
  <2>2. StartsToken(w, i) <=> StartsToken(s, i)
    <3>1. CASE i = 1
      BY <1>6, <3>1 DEF StartsToken
    <3>2. CASE i # 1
      <4>1. i - 1 \in 1 .. a
        BY <1>1, <3>2
      <4> QED BY <1>6, <4>1 DEF StartsToken
    <3> QED BY <3>1, <3>2
  <2>3. CASE StartsToken(s, i)
    <3> DEFINE e == EndOf(s, i)
    <3>1. e \in i .. a /\ IsEnd(s, i, e)
      BY <1>1, <2>3, EndThere DEF StartsToken, a
    <3> HIDE DEF e
    <3>2. IsEnd(w, i, e) /\ e \in i .. Len(w)
      <4>1. \A k \in i .. e : k \in 1 .. a
        BY <1>1, <3>1
      <4>2. \A k \in i .. e : w[k] # "semi"
        BY <1>6, <3>1, <4>1 DEF IsEnd
      <4>3. w[e + 1] = "semi"
        <5>1. CASE e = a
          BY <1>6, <5>1
        <5>2. CASE e # a
          <6>1. e + 1 \in 1 .. a
            BY <1>1, <3>1, <5>2
          <6> QED BY <1>6, <3>1, <5>2, <6>1 DEF IsEnd, a
        <5> QED BY <5>1, <5>2
      <4>4. e \in i .. Len(w)
        BY <1>1, <1>7, <3>1
      <4> QED BY <4>2, <4>3, <4>4 DEF IsEnd
    <3>3. EndOf(w, i) = e
      <4>1. i \in 1 .. Len(w) /\ Len(w) \in Nat
        BY <1>7, <2>1
      <4> QED BY <3>2, <4>1, EndIs
    <3>4. SubSeq(w, i, e) = SubSeq(s, i, e)
      <4>1. i \in Int /\ e \in Int /\ i <= e + 1 /\ \A k \in i .. e : k \in 1 .. a
        BY <1>1, <3>1
      <4>2. \A k \in i .. e : w[k] = s[k] /\ s[k] \in CookieChars
        BY <1>6, <4>1, TextIs DEF a
      <4> QED BY <4>1, <4>2, SameTaken
    <3> QED BY <1>9, <1>10, <2>1, <2>2, <2>3, <3>3, <3>4 DEF e
  <2>4. CASE ~StartsToken(s, i)
    BY <1>9, <1>10, <2>1, <2>2, <2>4
  <2> QED BY <2>3, <2>4
<1>12. q[a + 1] = <<>> /\ a + 1 \in 1 .. n /\ a + 2 \in 1 .. n
  <2>1. a + 1 \in 1 .. n /\ a + 2 \in 1 .. n
    BY <1>1, <1>7
  <2>2. ~StartsToken(w, a + 1)
    BY <1>6 DEF StartsToken
  <2> QED BY <1>9, <2>1, <2>2
<1>13. \A i \in 1 .. b : w[a + 2 + i] = p[i] /\ p[i] # "semi"
  BY <1>5 DEF a, b
<1>14. \A i \in a + 2 .. n : w[i] # "semi"
  <2> SUFFICES ASSUME NEW i \in a + 2 .. n PROVE w[i] # "semi"
    OBVIOUS
  <2>1. CASE i = a + 2
    BY <1>6, <2>1
  <2>2. CASE i # a + 2
    <3> DEFINE k == i - (a + 2)
    <3>1. k \in 1 .. b /\ a + 2 + k = i
      BY <1>1, <1>7, <2>2
    <3> HIDE DEF k
    <3> QED BY <1>13, <3>1
  <2> QED BY <2>1, <2>2
<1>15. t \in Seq(CookieChars) /\ Len(t) = 1 + b /\ t[1] = "sp" /\ \A i \in 1 .. b : t[1 + i] = p[i]
  <2> DEFINE o == <<"sp">>
  <2>1. o \in Seq(CookieChars) /\ Len(o) = 1 /\ o[1] = "sp"
    <3>1. "sp" \in CookieChars
      BY DEF CookieChars
    <3> QED BY <3>1
  <2>2. t = o \o p /\ p \in Seq(CookieChars)
    BY <1>3
  <2> HIDE DEF o, t
  <2>3. o \in Seq(CookieChars) /\ p \in Seq(CookieChars)
    BY <2>1, <2>2
  <2>4. o \o p \in Seq(CookieChars) /\ Len(o \o p) = Len(o) + Len(p) /\ \A i \in 1 .. Len(o) : (o \o p)[i] = o[i]
    BY <2>3, Behind
  <2>5. \A i \in 1 .. Len(p) : (o \o p)[Len(o) + i] = p[i]
    BY <2>3, Behind
  <2>6. 1 \in 1 .. Len(o)
    <3>1. Len(o) = 1
      BY <2>1
    <3> QED BY <3>1
  <2>7. Len(o) = 1 /\ o[1] = "sp" /\ t = o \o p
    BY <2>1, <2>2
  <2> QED BY <2>4, <2>5, <2>6, <2>7 DEF b
<1> HIDE DEF t
<1>16. q[a + 2] = <<t>>
  <2>1. StartsToken(w, a + 2)
    <3>1. (a + 2) - 1 = a + 1
      BY <1>1
    <3> QED BY <1>6, <3>1 DEF StartsToken
  <2>2. EndOf(w, a + 2) = n
    <3>1. IsEnd(w, a + 2, n)
      BY <1>7, <1>14 DEF IsEnd
    <3>2. a + 2 \in 1 .. Len(w) /\ n \in a + 2 .. Len(w) /\ Len(w) \in Nat
      BY <1>1, <1>7
    <3> QED BY <3>1, <3>2, EndIs
  <2>3. SubSeq(w, a + 2, n) = t
    <3> DEFINE u == SubSeq(w, a + 2, n)
    <3>1. a + 2 \in Int /\ n \in Int /\ a + 2 <= n + 1 /\ n - (a + 2) + 1 = 1 + b
      BY <1>1, <1>7
    <3>2. \A i \in a + 2 .. n : w[i] \in CookieChars
      <4>1. \A i \in a + 2 .. n : i \in 1 .. n
        BY <1>1, <1>7
      <4> QED BY <1>7, <1>8, <4>1, TextIs
    <3>3. u \in Seq(CookieChars) /\ Len(u) = n - (a + 2) + 1 /\ \A x \in 1 .. n - (a + 2) + 1 : u[x] = w[a + 2 + x - 1]
      <4> DEFINE l == a + 2
      <4> HIDE DEF l
      <4>1. l \in Int /\ n \in Int /\ l <= n + 1 /\ \A i \in l .. n : w[i] \in CookieChars
        BY <3>1, <3>2 DEF l
      <4>2. /\ SubSeq(w, l, n) \in Seq(CookieChars) /\ Len(SubSeq(w, l, n)) = n - l + 1
            /\ \A x \in 1 .. n - l + 1 : SubSeq(w, l, n)[x] = w[l + x - 1]
        BY <4>1, Taken
      <4> QED BY <4>2 DEF l
    <3> HIDE DEF u
    <3>4. \A x \in 1 .. 1 + b : u[x] = t[x]
      <4> SUFFICES ASSUME NEW x \in 1 .. 1 + b PROVE u[x] = t[x]
        OBVIOUS
      <4>1. u[x] = w[a + 2 + x - 1]
        BY <3>1, <3>3
      <4>2. CASE x = 1
        <5>1. a + 2 + x - 1 = a + 2
          BY <1>1, <4>2
        <5> QED BY <1>6, <1>15, <4>1, <4>2, <5>1
      <4>3. CASE x # 1
        <5> DEFINE k == x - 1
        <5>1. k \in 1 .. b /\ 1 + k = x /\ a + 2 + x - 1 = a + 2 + k
          BY <1>1, <4>3
        <5> HIDE DEF k
        <5> QED BY <1>13, <1>15, <4>1, <5>1
      <4> QED BY <4>2, <4>3
    <3>5. u \in Seq(CookieChars) /\ t \in Seq(CookieChars) /\ Len(u) = Len(t) /\ \A x \in 1 .. Len(t) : u[x] = t[x]
      BY <1>15, <3>1, <3>3, <3>4
    <3>6. u = t
      BY <3>5, SameSeq
    <3> QED BY <3>6 DEF u
  <2> QED BY <1>9, <1>12, <2>1, <2>2, <2>3
<1>17. \A i \in a + 3 .. n : q[i] = <<>>
  <2> SUFFICES ASSUME NEW i \in a + 3 .. n PROVE q[i] = <<>>
    OBVIOUS
  <2>1. i \in 1 .. n /\ i - 1 \in a + 2 .. n /\ i # 1
    BY <1>1, <1>7
  <2>2. ~StartsToken(w, i)
    BY <1>14, <2>1 DEF StartsToken
  <2> QED BY <1>9, <2>1, <2>2
<1> HIDE DEF q, r, mw, ms
<1>18. mw[a] = ms[a]
  <2>1. a <= Len(q) /\ a <= Len(r) /\ Len(q) \in Nat /\ Len(r) \in Nat /\ a \in 0 .. a
    BY <1>1, <1>7, <1>9, <1>10
  <2>2. \A i \in 0 .. a : mw[i] = ms[i]
    BY <1>1, <1>9, <1>10, <1>11, <2>1, PartsSame
  <2> QED BY <2>1, <2>2
<1>19. mw[a + 2] = Append(ms[a], t)
  <2> DEFINE i == a + 1
             j == a + 2
  <2>1. i \in 1 .. n /\ j \in 1 .. n /\ i - 1 = a /\ j - 1 = i
    BY <1>1, <1>12
  <2>2. q[i] = <<>> /\ q[j] = <<t>>
    BY <1>12, <1>16
  <2> HIDE DEF i, j
  <2>3. mw[i] = mw[i - 1] \o q[i] /\ mw[j] = mw[j - 1] \o q[j]
    BY <1>9, <2>1 DEF Parts
  <2>4. ms[a] \in Seq(Text) /\ mw[j] = (ms[a] \o <<>>) \o <<t>> /\ t \in Text
    BY <1>10, <1>15, <1>18, <2>1, <2>2, <2>3 DEF Text
  <2>5. \A x \in Seq(Text) : \A y \in Text : (x \o <<>>) \o <<y>> = Append(x, y)
    OBVIOUS
  <2>6. mw[j] = Append(ms[a], t)
    BY <2>4, <2>5
  <2> QED BY <2>6 DEF j
<1>20. mw[n] = mw[a + 2]
  <2>1. a + 2 \in 0 .. Len(q) /\ Len(q) \in Nat /\ \A i \in (a + 2) + 1 .. Len(q) : q[i] = <<>>
    <3>1. (a + 2) + 1 = a + 3 /\ a + 2 \in 0 .. n
      BY <1>1, <1>7
    <3> QED BY <1>7, <1>9, <1>17, <3>1
  <2> DEFINE l == a + 2
  <2> HIDE DEF l
  <2>2. l \in 0 .. Len(q) /\ Len(q) \in Nat /\ \A i \in l + 1 .. Len(q) : q[i] = <<>>
    BY <2>1 DEF l
  <2>3. mw[Len(q)] = mw[l]
    BY <1>9, <2>2, PartsFlat
  <2> QED BY <1>9, <2>3 DEF l
<1>21. Cookies!KeyValues(w) = Append(Cookies!KeyValues(s), t)
  BY <1>9, <1>10, <1>19, <1>20
<1> QED BY <1>0, <1>5, <1>6, <1>7, <1>8, <1>21 DEF a, b, t

-----------------------------------------------------------------------------
\* Cookies: a pair that is written is read.

\* What SubSeq takes out of w is what stands there.
LEMMA TakenIs ==
  ASSUME NEW V, NEW w \in Seq(V), NEW v \in Seq(V), NEW o \in Nat, o + Len(v) <= Len(w),
         \A x \in 1 .. Len(v) : w[o + x] = v[x]
  PROVE  SubSeq(w, o + 1, o + Len(v)) = v
<1> DEFINE n == Len(v)
           m == Len(w)
           a == o + 1
           b == o + n
           u == SubSeq(w, a, b)
<1>1. n \in Nat /\ m \in Nat /\ \A x \in 1 .. m : w[x] \in V
  OBVIOUS
<1> HIDE DEF n, m
<1>2. a \in Int /\ b \in Int /\ a <= b + 1 /\ b - a + 1 = n /\ \A x \in a .. b : x \in 1 .. m
  BY <1>1 DEF n, m
<1>3. \A x \in 1 .. n : a + x - 1 = o + x
  BY <1>1
<1> HIDE DEF a, b
<1>4. \A x \in a .. b : w[x] \in V
  BY <1>1, <1>2
<1>5. u \in Seq(V) /\ Len(u) = b - a + 1 /\ \A x \in 1 .. b - a + 1 : u[x] = w[a + x - 1]
  BY <1>2, <1>4, Taken
<1> HIDE DEF u
<1>6. \A x \in 1 .. n : u[x] = v[x]
  BY <1>2, <1>3, <1>5 DEF n
<1>7. v \in Seq(V) /\ u \in Seq(V) /\ Len(u) = Len(v) /\ \A x \in 1 .. Len(v) : u[x] = v[x]
  BY <1>2, <1>5, <1>6 DEF n
<1>8. u = v
  BY <1>7, SameSeq
<1> QED BY <1>8 DEF u, a, b, n

CookieType == [name : Text, value : Text]

LEMMA PairIs ==
  ASSUME NEW c \in CookieType
  PROVE  LET a == Len(c.name)
             b == Len(c.value)
             w == Cookies!Pair(c)
         IN /\ a \in Nat /\ b \in Nat /\ w \in Text /\ Len(w) = a + 1 + b /\ w[a + 1] = "="
            /\ \A x \in 1 .. a : w[x] = c.name[x]
            /\ \A x \in 1 .. b : w[a + 1 + x] = c.value[x]
<1> DEFINE name == c.name
           value == c.value
           a == Len(name)
           b == Len(value)
           e == <<"=">>
           p == name \o e
           w == p \o value
<1>1. name \in Seq(CookieChars) /\ value \in Seq(CookieChars)
  BY TextIs DEF CookieType
<1>2. e \in Seq(CookieChars) /\ Len(e) = 1 /\ e[1] = "="
  <2>1. "=" \in CookieChars
    BY DEF CookieChars
  <2> QED BY <2>1
<1>3. Cookies!Pair(c) = w
  BY DEF Cookies!Pair
<1> HIDE DEF e, name, value
<1>4. p \in Seq(CookieChars) /\ a \in Nat /\ Len(p) = a + 1 /\ (\A x \in 1 .. a : p[x] = name[x]) /\ p[a + 1] = "="
  <2>1. name \in Seq(CookieChars) /\ e \in Seq(CookieChars)
    BY <1>1, <1>2
  <2>2. p \in Seq(CookieChars) /\ a \in Nat /\ Len(p) = a + Len(e) /\ \A x \in 1 .. a : p[x] = name[x]
    BY <2>1, Behind
  <2>3. \A x \in 1 .. Len(e) : p[a + x] = e[x]
    BY <2>1, Behind
  <2>4. Len(e) = 1 /\ e[1] = "="
    BY <1>2
  <2>5. 1 \in 1 .. 1
    OBVIOUS
  <2> QED BY <2>2, <2>3, <2>4, <2>5
<1> HIDE DEF p
<1>5. w \in Seq(CookieChars) /\ b \in Nat /\ Len(w) = Len(p) + b /\ \A x \in 1 .. Len(p) : w[x] = p[x]
  <2>1. p \in Seq(CookieChars) /\ value \in Seq(CookieChars)
    BY <1>1, <1>4
  <2> QED BY <2>1, Behind
<1>6. \A x \in 1 .. b : w[Len(p) + x] = value[x]
  <2>1. p \in Seq(CookieChars) /\ value \in Seq(CookieChars)
    BY <1>1, <1>4
  <2> QED BY <2>1, Behind
<1> HIDE DEF w, a, b
<1>7. \A x \in 1 .. a : x \in 1 .. Len(p)
  BY <1>4
<1>8. a + 1 \in 1 .. Len(p) /\ Len(p) = a + 1
  BY <1>4
<1>9. (\A x \in 1 .. a : w[x] = name[x]) /\ w[a + 1] = "="
  BY <1>4, <1>5, <1>7, <1>8
<1> QED BY <1>3, <1>4, <1>5, <1>6, <1>8, <1>9 DEF Text, name, value, w, a, b

\* parse() finds the name and the value of a pair, with a blank before it or none.
LEMMA PairRead ==
  ASSUME NEW c \in CookieType, Cookies!Plain(c), NEW s \in {<<>>, <<"sp">>}
  PROVE  Cookies!Cookie(s \o Cookies!Pair(c)) = c
<1> DEFINE name == c.name
           value == c.value
           p == Cookies!Pair(c)
           t == s \o p
           a == Len(name)
           b == Len(value)
           l == Len(s)
           e == l + a + 1
           equals == {i \in DOMAIN t : t[i] = "="}
           equal == CHOOSE i \in equals : \A j \in equals : i <= j
<1>1. /\ name \in Text /\ value \in Text /\ Cookies!Trimmed(name) /\ Cookies!Trimmed(value)
      /\ \A i \in 1 .. a : name[i] # "="
  <2>1. name \in Text /\ value \in Text
    BY DEF CookieType
  <2>2. DOMAIN name = 1 .. a
    BY <2>1, TextIs
  <2> QED BY <2>1, <2>2 DEF Cookies!Plain
<1>2. /\ a \in Nat /\ b \in Nat /\ p \in Text /\ Len(p) = a + 1 + b /\ p[a + 1] = "="
      /\ (\A x \in 1 .. a : p[x] = name[x]) /\ \A x \in 1 .. b : p[a + 1 + x] = value[x]
  BY PairIs
<1>3. s \in Seq(CookieChars) /\ l \in {0, 1} /\ \A i \in 1 .. l : s[i] # "="
  <2>1. CASE s = <<>>
    BY <2>1
  <2>2. CASE s = <<"sp">>
    <3>1. "sp" \in CookieChars
      BY DEF CookieChars
    <3>2. s \in Seq(CookieChars) /\ l = 1 /\ s[1] = "sp"
      BY <2>2, <3>1
    <3>3. \A i \in 1 .. 1 : i = 1
      OBVIOUS
    <3> QED BY <3>2, <3>3
  <2> QED BY <2>1, <2>2
<1> HIDE DEF p
<1>4. t \in Seq(CookieChars) /\ Len(t) = l + Len(p) /\ \A i \in 1 .. l : t[i] = s[i]
  <2>1. s \in Seq(CookieChars) /\ p \in Seq(CookieChars)
    BY <1>2, <1>3, TextIs
  <2> QED BY <2>1, Behind
<1>5. \A i \in 1 .. Len(p) : t[l + i] = p[i]
  <2>1. s \in Seq(CookieChars) /\ p \in Seq(CookieChars)
    BY <1>2, <1>3, TextIs
  <2> QED BY <2>1, Behind
<1>6. s \o name \in Seq(CookieChars) /\ Len(s \o name) = l + a /\ \A i \in 1 .. l : (s \o name)[i] = s[i]
  <2>1. s \in Seq(CookieChars) /\ name \in Seq(CookieChars)
    BY <1>1, <1>3, TextIs
  <2> QED BY <2>1, Behind
<1>7. \A i \in 1 .. a : (s \o name)[l + i] = name[i]
  <2>1. s \in Seq(CookieChars) /\ name \in Seq(CookieChars)
    BY <1>1, <1>3, TextIs
  <2> QED BY <2>1, Behind
<1> DEFINE r == s \o name
           n == Len(t)
<1>21. n = l + Len(p) /\ DOMAIN t = 1 .. n
  BY <1>4
<1> HIDE DEF t, r, l, a, b, n, name, value
<1>22. a \in Nat /\ b \in Nat /\ Len(p) = a + 1 + b /\ l \in {0, 1}
  BY <1>2, <1>3
<1>8. n = l + a + 1 + b /\ n \in Nat /\ DOMAIN t = 1 .. n
  BY <1>21, <1>22
<1>9. e \in 1 .. n /\ e \in Nat
  BY <1>2, <1>3, <1>8
<1>10. t[e] = "="
  <2>1. a + 1 \in 1 .. Len(p) /\ l + (a + 1) = e
    BY <1>2, <1>3
  <2> QED BY <1>2, <1>5, <2>1
<1>11. \A i \in 1 .. l + a : t[i] = r[i] /\ t[i] # "="
  <2> SUFFICES ASSUME NEW i \in 1 .. l + a PROVE t[i] = r[i] /\ t[i] # "="
    OBVIOUS
  <2>1. CASE i \in 1 .. l
    BY <1>3, <1>4, <1>6, <2>1 DEF r
  <2>2. CASE i \notin 1 .. l
    <3> DEFINE k == i - l
    <3>1. k \in 1 .. a /\ l + k = i /\ k \in 1 .. Len(p)
      BY <1>2, <1>3, <2>2
    <3> HIDE DEF k
    <3> QED BY <1>1, <1>2, <1>5, <1>7, <3>1 DEF r
  <2> QED BY <2>1, <2>2
<1>12. e \in equals /\ \A j \in equals : e <= j
  <2>1. e \in equals
    BY <1>8, <1>9, <1>10
  <2>2. ASSUME NEW j \in equals PROVE e <= j
    <3>1. j \in 1 .. n /\ t[j] = "="
      BY <1>8
    <3>2. j \notin 1 .. l + a
      BY <1>11, <3>1
    <3> QED BY <1>2, <1>3, <1>8, <3>1, <3>2
  <2> QED BY <2>1, <2>2
<1>13. equal = e /\ equals # {}
  <2>1. \A j \in equals : j \in Nat
    BY <1>8
  <2> HIDE DEF equals, e
  <2>2. equal \in equals /\ \A j \in equals : equal <= j
    BY <1>12
  <2>3. equal \in Nat /\ equal <= e /\ e <= equal
    BY <1>12, <2>1, <2>2
  <2>4. equal = e
    <3> HIDE DEF equal
    <3> QED BY <1>9, <2>3
  <2> QED BY <1>12, <2>4
<1>14. Cookies!Cookie(t) = [name |-> Cookies!Trim(SubSeq(t, 1, equal - 1)),
                            value |-> Cookies!Trim(SubSeq(t, equal + 1, Len(t)))]
  BY <1>13 DEF Cookies!Cookie
<1> HIDE DEF equal, equals
<1>15. SubSeq(t, 1, equal - 1) = r
  <2>1. 0 + 1 = 1 /\ 0 + Len(r) = equal - 1 /\ 0 + Len(r) <= Len(t) /\ \A x \in 1 .. Len(r) : 0 + x = x
    BY <1>2, <1>3, <1>6, <1>8, <1>13 DEF r, n
  <2>2. \A x \in 1 .. Len(r) : t[0 + x] = r[x]
    <3>1. Len(r) = l + a
      BY <1>6 DEF r
    <3> QED BY <1>11, <2>1, <3>1
  <2>3. r \in Seq(CookieChars)
    BY <1>6 DEF r
  <2>4. SubSeq(t, 0 + 1, 0 + Len(r)) = r
    BY <1>4, <2>1, <2>2, <2>3, TakenIs
  <2> QED BY <2>1, <2>4
<1>16. SubSeq(t, equal + 1, Len(t)) = value
  <2>1. e + b = n
    BY <1>2, <1>3, <1>8
  <2>2. \A x \in 1 .. b : t[e + x] = value[x]
    <3> SUFFICES ASSUME NEW x \in 1 .. b PROVE t[e + x] = value[x]
      OBVIOUS
    <3>1. a + 1 + x \in 1 .. Len(p) /\ l + (a + 1 + x) = e + x
      BY <1>2, <1>3
    <3> QED BY <1>2, <1>5, <3>1
  <2>3. value \in Seq(CookieChars)
    BY <1>1, TextIs
  <2> HIDE DEF e
  <2>4. e \in Nat /\ e + Len(value) <= Len(t) /\ e + Len(value) = Len(t) /\ \A x \in 1 .. Len(value) : t[e + x] = value[x]
    BY <1>8, <1>9, <2>1, <2>2 DEF b, n
  <2>5. SubSeq(t, e + 1, e + Len(value)) = value
    BY <1>4, <2>3, <2>4, TakenIs
  <2> QED BY <1>13, <2>4, <2>5
<1>17. Cookies!Trim(r) = name
  <2>1. CASE s = <<>>
    <3>1. r = name
      <4>1. name \in Seq(CookieChars)
        BY <1>1, TextIs
      <4>2. <<>> \o name = name
        BY <4>1
      <4> QED BY <2>1, <4>2 DEF r
    <3> QED BY <1>1, <3>1, TrimKeeps
  <2>2. CASE s = <<"sp">>
    BY <1>1, <2>2, TrimKeeps DEF r
  <2> QED BY <2>1, <2>2
<1>18. Cookies!Trim(value) = value
  BY <1>1, TrimKeeps
<1>19. Cookies!Cookie(t) = [name |-> name, value |-> value]
  BY <1>14, <1>15, <1>16, <1>17, <1>18
<1>20. c = [name |-> name, value |-> value]
  BY DEF CookieType, name, value
<1> QED BY <1>19, <1>20 DEF t, p

\* Whatever parse() is given, name and value are trimmed.
LEMMA CookieTrimmed ==
  ASSUME NEW t \in Text
  PROVE  /\ Cookies!Cookie(t) \in CookieType
         /\ Cookies!Trimmed(Cookies!Cookie(t).name) /\ Cookies!Trimmed(Cookies!Cookie(t).value)
<1> DEFINE equals == {i \in DOMAIN t : t[i] = "="}
           equal == CHOOSE i \in equals : \A j \in equals : i <= j
           p == SubSeq(t, 1, equal - 1)
           q == SubSeq(t, equal + 1, Len(t))
<1>1. Len(t) \in Nat /\ DOMAIN t = 1 .. Len(t) /\ \A i \in 1 .. Len(t) : t[i] \in CookieChars
  BY TextIs
<1>2. <<>> \in Text /\ Cookies!Trimmed(<<>>)
  BY DEF Text, Cookies!Trimmed
<1>3. CASE equals = {}
  <2>1. Cookies!Cookie(t) = [name |-> Cookies!Trim(t), value |-> <<>>]
    BY <1>3 DEF Cookies!Cookie
  <2>2. Cookies!Trim(t) \in Text /\ Cookies!Trimmed(Cookies!Trim(t))
    BY TrimIs
  <2> QED BY <1>2, <2>1, <2>2 DEF CookieType
<1>4. CASE equals # {}
  <2>1. Cookies!Cookie(t) = [name |-> Cookies!Trim(p), value |-> Cookies!Trim(q)]
    BY <1>4 DEF Cookies!Cookie
  <2>2. equals \subseteq Nat
    BY <1>1
  <2>3. \A j \in equals : j \in 1 .. Len(t)
    BY <1>1
  <2> HIDE DEF equals
  <2>4. equal \in equals
    BY <1>4, <2>2, LeastNumber
  <2>5. equal \in 1 .. Len(t)
    BY <2>3, <2>4
  <2> HIDE DEF equal
  <2>6. p \in Text
    <3>1. 1 \in Int /\ equal - 1 \in Int /\ 1 <= (equal - 1) + 1 /\ \A i \in 1 .. equal - 1 : i \in 1 .. Len(t)
      BY <1>1, <2>5
    <3>2. \A i \in 1 .. equal - 1 : t[i] \in CookieChars
      BY <1>1, <3>1
    <3> QED BY <3>1, <3>2, Taken DEF Text
  <2>7. q \in Text
    <3>1. equal + 1 \in Int /\ Len(t) \in Int /\ equal + 1 <= Len(t) + 1 /\ \A i \in equal + 1 .. Len(t) : i \in 1 .. Len(t)
      BY <1>1, <2>5
    <3>2. \A i \in equal + 1 .. Len(t) : t[i] \in CookieChars
      BY <1>1, <3>1
    <3> QED BY <3>1, <3>2, Taken DEF Text
  <2> HIDE DEF p, q
  <2> QED BY <2>1, <2>6, <2>7, TrimIs DEF CookieType
<1> QED BY <1>3, <1>4

-----------------------------------------------------------------------------
\* Cookies: what the lines carry and what is read of them.

jar == v1
side == v2
unwritten == v3
lines == v4
parsed == v5
unread == v6
stage == v7

ExpiresAt == [name |-> Cookies!Expires, value |-> <<"x", "sp", "y">>]
AtPath == [name |-> Cookies!Path, value |-> <<"x">>]
Kept(c) == <<c, ExpiresAt, AtPath>>

\* The key values kv are those of the cookies os; a line has those of os, and another may follow.
Holds(kv, os) == Len(kv) = Len(os) /\ \A k \in 1 .. Len(os) : Cookies!Cookie(kv[k]) = os[k]
Carries(w, os) == /\ w \in Text /\ w # <<>> /\ w[Len(w)] # "semi" /\ Spaced(w) /\ os \in Seq(CookieType) /\ os # <<>>
                  /\ Holds(Cookies!KeyValues(w), os)

\* The characters of a pair: no semicolon in it, and more than none.
LEMMA PairChars ==
  ASSUME NEW c \in CookieType, Cookies!Plain(c)
  PROVE  LET p == Cookies!Pair(c) IN
         p \in Text /\ p # <<>> /\ Len(p) \in Nat /\ Len(p) # 0 /\ \A i \in 1 .. Len(p) : p[i] # "semi"
<1> DEFINE a == Len(c.name)
           b == Len(c.value)
           p == Cookies!Pair(c)
<1>1. /\ a \in Nat /\ b \in Nat /\ p \in Text /\ Len(p) = a + 1 + b /\ p[a + 1] = "="
      /\ (\A x \in 1 .. a : p[x] = c.name[x]) /\ \A x \in 1 .. b : p[a + 1 + x] = c.value[x]
  BY PairIs
<1>2. (\A x \in 1 .. a : c.name[x] # "semi") /\ \A x \in 1 .. b : c.value[x] # "semi"
  <2>1. c.name \in Text /\ c.value \in Text
    BY DEF CookieType
  <2>2. DOMAIN c.name = 1 .. a /\ DOMAIN c.value = 1 .. b
    BY <2>1, TextIs
  <2> QED BY <2>2 DEF Cookies!Plain
<1> HIDE DEF a, b, p
<1>3. a \in Nat /\ b \in Nat /\ Len(p) = a + 1 + b
  BY <1>1
<1>4. ASSUME NEW i \in 1 .. Len(p) PROVE p[i] # "semi"
  <2>1. CASE i \in 1 .. a
    BY <1>1, <1>2, <2>1
  <2>2. CASE i = a + 1
    BY <1>1, <2>2
  <2>3. CASE i > a + 1
    <3> DEFINE k == i - (a + 1)
    <3>1. k \in 1 .. b /\ a + 1 + k = i
      BY <1>3, <2>3
    <3> HIDE DEF k
    <3> QED BY <1>1, <1>2, <3>1
  <2> QED BY <1>3, <2>1, <2>2, <2>3
<1>5. Len(p) # 0 /\ Len(p) \in Nat
  BY <1>3
<1>6. p # <<>>
  BY <1>5
<1> QED BY <1>1, <1>4, <1>5, <1>6 DEF p

\* The blanks of a pair are within its name and its value.
LEMMA PairSpaced ==
  ASSUME NEW c \in CookieType, Cookies!Plain(c)
  PROVE  LET p == Cookies!Pair(c) IN Spaced(p) /\ p[1] # "sp"
<1> DEFINE name == c.name
           value == c.value
           a == Len(name)
           b == Len(value)
           p == Cookies!Pair(c)
           n == Len(p)
<1>1. /\ a \in Nat /\ b \in Nat /\ p \in Text /\ n = a + 1 + b /\ p[a + 1] = "="
      /\ (\A x \in 1 .. a : p[x] = name[x]) /\ \A x \in 1 .. b : p[a + 1 + x] = value[x]
  BY PairIs
<1>2. name \in Text /\ value \in Text /\ DOMAIN name = 1 .. a /\ DOMAIN value = 1 .. b
  <2>1. name \in Text /\ value \in Text
    BY DEF CookieType
  <2> QED BY <2>1, TextIs
<1>3. /\ \A x \in 1 .. a : name[x] # "tab" /\ (name[x] = "sp" => name[x + 1] # "sp")
      /\ \A x \in 1 .. b : value[x] # "tab" /\ (value[x] = "sp" => value[x + 1] # "sp")
  BY <1>2 DEF Cookies!Plain, Cookies!SingleSpaced
<1>4. ASSUME NEW t \in Text, Cookies!Trimmed(t), NEW x \in 1 .. Len(t), t[x] = "sp"
      PROVE  x # 1 /\ x # Len(t)
  <2>1. Len(t) \in Nat
    BY TextIs
  <2>2. t # <<>>
    <3>1. Len(<<>>) = 0
      OBVIOUS
    <3> QED BY <2>1, <3>1
  <2> QED BY <1>4, <2>2 DEF Cookies!Trimmed, Cookies!Last
<1>5. Cookies!Trimmed(name) /\ Cookies!Trimmed(value)
  BY DEF Cookies!Plain
<1>6. /\ \A x \in 1 .. a : name[x] = "sp" => x # 1 /\ x # a
      /\ \A x \in 1 .. b : value[x] = "sp" => x # 1 /\ x # b
  BY <1>2, <1>4, <1>5
<1> HIDE DEF p, a, b, n, name, value
<1>7. ASSUME NEW i \in 1 .. n
      PROVE  p[i] # "tab" /\ (p[i] = "sp" => i # 1 /\ i # n /\ p[i + 1] # "sp")
  <2>1. CASE i \in 1 .. a
    <3>1. p[i] = name[i] /\ name[i] # "tab" /\ n # i
      BY <1>1, <1>3, <2>1
    <3>2. ASSUME name[i] = "sp" PROVE i # 1 /\ p[i + 1] # "sp"
      <4>1. i # 1 /\ i # a /\ name[i + 1] # "sp"
        BY <1>3, <1>6, <2>1, <3>2
      <4>2. i + 1 \in 1 .. a
        BY <1>1, <2>1, <4>1
      <4> QED BY <1>1, <4>1, <4>2
    <3> QED BY <3>1, <3>2
  <2>2. CASE i = a + 1
    BY <1>1, <2>2
  <2>3. CASE i > a + 1
    <3> DEFINE k == i - (a + 1)
    <3>1. k \in 1 .. b /\ a + 1 + k = i
      BY <1>1, <2>3
    <3>2. (k # b => i # n) /\ (k # b => k + 1 \in 1 .. b) /\ a + 1 + (k + 1) = i + 1 /\ i # 1
      BY <1>1, <2>3
    <3> HIDE DEF k
    <3>3. p[i] = value[k] /\ value[k] # "tab"
      BY <1>1, <1>3, <3>1
    <3>4. ASSUME value[k] = "sp" PROVE i # n /\ p[i + 1] # "sp"
      <4>1. k # b /\ value[k + 1] # "sp"
        BY <1>3, <1>6, <3>1, <3>4
      <4>2. p[a + 1 + (k + 1)] = value[k + 1]
        BY <1>1, <3>2, <4>1
      <4> QED BY <3>2, <4>1, <4>2
    <3> QED BY <3>2, <3>3, <3>4
  <2> QED BY <1>1, <2>1, <2>2, <2>3
<1>8. Spaced(p)
  BY <1>7 DEF Spaced, n
<1>9. p[1] # "sp"
  <2>1. 1 \in 1 .. n
    BY <1>1
  <2> QED BY <1>7, <2>1
<1> QED BY <1>8, <1>9 DEF p

\* And of two texts with a semicolon and a blank between them, within these and between them.
LEMMA SeparatedSpaced ==
  ASSUME NEW s \in Text, NEW p \in Text, s # <<>>, s[Len(s)] # "semi", \A i \in 1 .. Len(p) : p[i] # "semi",
         p # <<>>, p[1] # "sp", Spaced(s), Spaced(p)
  PROVE  Spaced(Cookies!Separated(s, p))
<1> DEFINE w == Cookies!Separated(s, p)
           a == Len(s)
           b == Len(p)
           n == Len(w)
<1>1. /\ n = a + 2 + b /\ (\A i \in 1 .. b : w[a + 2 + i] = p[i]) /\ (\A i \in 1 .. a : w[i] = s[i])
      /\ w[a + 1] = "semi" /\ w[a + 2] = "sp"
  BY AnotherToken
<1>2. a \in Nat /\ b \in Nat /\ a # 0 /\ b # 0
  <2>1. s \in Seq(CookieChars) /\ p \in Seq(CookieChars)
    BY TextIs
  <2> QED BY <2>1
<1>3. /\ \A x \in 1 .. a : s[x] # "tab" /\ (s[x] = "sp" => x # 1 /\ x # a /\ s[x + 1] # "sp")
      /\ \A x \in 1 .. b : p[x] # "tab" /\ (p[x] = "sp" => x # 1 /\ x # b /\ p[x + 1] # "sp")
  BY DEF Spaced
<1> HIDE DEF w, a, b, n
<1>4. ASSUME NEW i \in 1 .. n
      PROVE  w[i] # "tab" /\ (w[i] = "sp" => i # 1 /\ i # n /\ w[i + 1] # "sp")
  <2>1. CASE i \in 1 .. a
    <3>1. w[i] = s[i] /\ s[i] # "tab" /\ n # i
      BY <1>1, <1>2, <1>3, <2>1
    <3>2. ASSUME s[i] = "sp" PROVE i # 1 /\ w[i + 1] # "sp"
      <4>1. i # 1 /\ i # a /\ s[i + 1] # "sp"
        BY <1>3, <2>1, <3>2
      <4>2. i + 1 \in 1 .. a
        BY <1>2, <2>1, <4>1
      <4> QED BY <1>1, <4>1, <4>2
    <3> QED BY <3>1, <3>2
  <2>2. CASE i = a + 1
    BY <1>1, <2>2
  <2>3. CASE i = a + 2
    <3>1. i # 1 /\ i # n /\ i + 1 = a + 2 + 1 /\ 1 \in 1 .. b
      BY <1>1, <1>2, <2>3
    <3>2. w[a + 2 + 1] = p[1]
      BY <1>1, <3>1
    <3>3. w[i + 1] # "sp"
      BY <3>1, <3>2
    <3> QED BY <1>1, <2>3, <3>1, <3>3
  <2>4. CASE i > a + 2
    <3> DEFINE k == i - (a + 2)
    <3>1. k \in 1 .. b /\ a + 2 + k = i
      BY <1>1, <1>2, <2>4
    <3>2. (k # b => i # n) /\ (k # b => k + 1 \in 1 .. b) /\ a + 2 + (k + 1) = i + 1 /\ i # 1
      BY <1>1, <1>2, <2>4
    <3> HIDE DEF k
    <3>3. w[i] = p[k] /\ p[k] # "tab"
      BY <1>1, <1>3, <3>1
    <3>4. ASSUME p[k] = "sp" PROVE i # n /\ w[i + 1] # "sp"
      <4>1. k # b /\ p[k + 1] # "sp"
        BY <1>3, <3>1, <3>4
      <4>2. w[a + 2 + (k + 1)] = p[k + 1]
        BY <1>1, <3>2, <4>1
      <4> QED BY <3>2, <4>1, <4>2
    <3> QED BY <3>2, <3>3, <3>4
  <2> QED BY <1>1, <1>2, <2>1, <2>2, <2>3, <2>4
<1>5. Spaced(w)
  BY <1>4 DEF Spaced, n
<1> QED BY <1>5 DEF w

LEMMA CarriesOne ==
  ASSUME NEW c \in CookieType, Cookies!Plain(c)
  PROVE  Carries(Cookies!Pair(c), <<c>>)
<1> DEFINE p == Cookies!Pair(c)
<1>1. p \in Text /\ p # <<>> /\ Len(p) \in Nat /\ Len(p) # 0 /\ \A i \in 1 .. Len(p) : p[i] # "semi"
  BY PairChars
<1>2. Cookies!Cookie(<<>> \o p) = c
  BY PairRead
<1>9. Spaced(p)
  BY PairSpaced
<1> HIDE DEF p
<1>3. Cookies!KeyValues(p) = <<p>>
  BY <1>1, OneToken
<1>4. <<>> \o p = p
  <2>1. p \in Seq(CookieChars)
    BY <1>1, TextIs
  <2> QED BY <2>1
<1>5. Holds(<<p>>, <<c>>)
  <2>1. Cookies!Cookie(p) = c
    BY <1>2, <1>4
  <2>2. \A k \in 1 .. 1 : k = 1
    OBVIOUS
  <2> QED BY <2>1, <2>2 DEF Holds
<1>6. Len(p) \in 1 .. Len(p)
  BY <1>1
<1>7. p[Len(p)] # "semi"
  BY <1>1, <1>6
<1>8. <<c>> \in Seq(CookieType) /\ <<c>> # <<>>
  OBVIOUS
<1> QED BY <1>1, <1>3, <1>5, <1>7, <1>8, <1>9 DEF Carries, p

LEMMA CarriesMore ==
  ASSUME NEW w, NEW os, Carries(w, os), NEW c \in CookieType, Cookies!Plain(c)
  PROVE  Carries(Cookies!Separated(w, Cookies!Pair(c)), Append(os, c))
<1> DEFINE p == Cookies!Pair(c)
           s == Cookies!Separated(w, p)
           kv == Cookies!KeyValues(w)
           t == <<"sp">> \o p
           a == Len(w)
           b == Len(p)
<1>1. p \in Text /\ p # <<>> /\ b \in Nat /\ b # 0 /\ \A i \in 1 .. b : p[i] # "semi"
  BY PairChars
<1>2. w \in Text /\ w # <<>> /\ w[a] # "semi" /\ Spaced(w) /\ os \in Seq(CookieType) /\ Holds(kv, os)
  BY DEF Carries
<1>3. Cookies!Cookie(t) = c
  BY PairRead
<1>10. Spaced(s)
  <2>1. Spaced(p) /\ p[1] # "sp"
    BY PairSpaced
  <2> HIDE DEF p
  <2> QED BY <1>1, <1>2, <2>1, SeparatedSpaced
<1>4. kv \in Seq(Text) /\ a \in Nat
  BY <1>2, CutsAre
<1>5. t \in Text
  <2>1. "sp" \in CookieChars
    BY DEF CookieChars
  <2>2. <<"sp">> \in Seq(CookieChars) /\ p \in Seq(CookieChars)
    BY <1>1, <2>1, TextIs
  <2> QED BY <2>2, Behind DEF Text
<1> HIDE DEF p, t
<1>6. /\ s \in Text /\ Len(s) = a + 2 + b /\ Cookies!KeyValues(s) = Append(kv, t)
      /\ \A i \in 1 .. b : s[a + 2 + i] = p[i]
  BY <1>1, <1>2, AnotherToken DEF t
<1> HIDE DEF s, kv, a, b
<1>7. s # <<>> /\ s[Len(s)] # "semi"
  <2>1. Len(s) # 0 /\ b \in 1 .. b /\ a + 2 + b = Len(s)
    BY <1>1, <1>4, <1>6
  <2>2. s[Len(s)] = p[b]
    BY <1>6, <2>1
  <2> QED BY <1>1, <2>1, <2>2
<1>8. Holds(Append(kv, t), Append(os, c))
  <2> DEFINE n == Len(os)
             k2 == Append(kv, t)
             o2 == Append(os, c)
  <2>1. n \in Nat /\ Len(kv) = n /\ \A k \in 1 .. n : Cookies!Cookie(kv[k]) = os[k]
    BY <1>2, LenNat DEF Holds
  <2>2. Len(k2) = n + 1 /\ (\A k \in 1 .. n : k2[k] = kv[k]) /\ k2[n + 1] = t
    BY <1>4, <1>5, <2>1, AppendProperties
  <2>3. Len(o2) = n + 1 /\ (\A k \in 1 .. n : o2[k] = os[k]) /\ o2[n + 1] = c
    BY <1>2, AppendProperties
  <2> HIDE DEF n, k2, o2
  <2>4. \A k \in 1 .. n + 1 : k \in 1 .. n \/ k = n + 1
    BY <2>1
  <2>5. \A k \in 1 .. n + 1 : Cookies!Cookie(k2[k]) = o2[k]
    BY <1>3, <2>1, <2>2, <2>3, <2>4
  <2>6. Holds(k2, o2)
    BY <2>2, <2>3, <2>5 DEF Holds
  <2> QED BY <2>6 DEF k2, o2
<1>9. Append(os, c) \in Seq(CookieType) /\ Append(os, c) # <<>>
  BY <1>2, AppendProperties
<1> QED BY <1>6, <1>7, <1>8, <1>9, <1>10 DEF Carries, s, p

\* The attributes are cookies to parse().
LEMMA AttributesPlain ==
  /\ ExpiresAt \in CookieType /\ Cookies!Plain(ExpiresAt) /\ AtPath \in CookieType /\ Cookies!Plain(AtPath)
  /\ Cookies!Path # Cookies!Expires
<1>1. {"x", "y", "=", "semi", "sp", "tab", "path", "expires"} = CookieChars
  BY DEF CookieChars
<1>2. <<"expires">> \in Text /\ <<"x", "sp", "y">> \in Text /\ <<"path">> \in Text /\ <<"x">> \in Text
  BY <1>1 DEF Text
<1>3. ExpiresAt \in CookieType /\ AtPath \in CookieType
  BY <1>2 DEF ExpiresAt, AtPath, CookieType, Cookies!Expires, Cookies!Path
<1>4. Cookies!Path # Cookies!Expires
  BY DEF Cookies!Expires, Cookies!Path
<1>5. Cookies!Plain(ExpiresAt)
  <2> DEFINE u == <<"expires">>
             v == <<"x", "sp", "y">>
  <2>1. DOMAIN u = 1 .. 1 /\ DOMAIN v = 1 .. 3 /\ Len(u) = 1 /\ Len(v) = 3
    OBVIOUS
  <2>2. u[1] = "expires" /\ v[1] = "x" /\ v[2] = "sp" /\ v[3] = "y"
    OBVIOUS
  <2>3. ExpiresAt.name = u /\ ExpiresAt.value = v
    BY DEF ExpiresAt, Cookies!Expires
  <2> HIDE DEF u, v
  <2>4. (\A i \in 1 .. 1 : i = 1) /\ \A i \in 1 .. 3 : i = 1 \/ i = 2 \/ i = 3
    OBVIOUS
  <2>5. Cookies!SingleSpaced(u) /\ Cookies!SingleSpaced(v)
    <3>1. 2 + 1 = 3
      OBVIOUS
    <3> QED BY <2>1, <2>2, <2>4, <3>1 DEF Cookies!SingleSpaced
  <2> QED BY <2>1, <2>2, <2>3, <2>4, <2>5 DEF Cookies!Plain, Cookies!Trimmed, Cookies!Last
<1>6. Cookies!Plain(AtPath)
  <2> DEFINE u == <<"path">>
             v == <<"x">>
  <2>1. DOMAIN u = 1 .. 1 /\ DOMAIN v = 1 .. 1 /\ Len(u) = 1 /\ Len(v) = 1
    OBVIOUS
  <2>2. u[1] = "path" /\ v[1] = "x"
    OBVIOUS
  <2>3. AtPath.name = u /\ AtPath.value = v
    BY DEF AtPath, Cookies!Path
  <2> HIDE DEF u, v
  <2>4. \A i \in 1 .. 1 : i = 1
    OBVIOUS
  <2>5. Cookies!SingleSpaced(u) /\ Cookies!SingleSpaced(v)
    BY <2>1, <2>2, <2>4 DEF Cookies!SingleSpaced
  <2> QED BY <2>1, <2>2, <2>3, <2>4, <2>5 DEF Cookies!Plain, Cookies!Trimmed, Cookies!Last
<1> QED BY <1>3, <1>4, <1>5, <1>6

\* Three appended one by one.
LEMMA Triple ==
  ASSUME NEW V, NEW x \in V, NEW y \in V, NEW z \in V
  PROVE  Append(<<x>>, y) = <<x, y>> /\ Append(<<x, y>>, z) = <<x, y, z>>
<1> DEFINE p == <<x>>
           q == <<x, y>>
           r == <<x, y, z>>
<1>1. p \in Seq(V) /\ Len(p) = 1 /\ p[1] = x
  OBVIOUS
<1>2. q \in Seq(V) /\ Len(q) = 2 /\ q[1] = x /\ q[2] = y
  OBVIOUS
<1>3. r \in Seq(V) /\ Len(r) = 3 /\ r[1] = x /\ r[2] = y /\ r[3] = z
  OBVIOUS
<1> HIDE DEF p, q, r
<1>4. (\A i \in 1 .. 2 : i = 1 \/ i = 2) /\ \A i \in 1 .. 3 : i = 1 \/ i = 2 \/ i = 3
  OBVIOUS
<1>5. Append(p, y) = q
  <2> DEFINE s == Append(p, y)
  <2>0. Len(s) = Len(p) + 1 /\ s \in Seq(V) /\ (\A i \in 1 .. Len(p) : s[i] = p[i]) /\ s[Len(p) + 1] = y
    BY <1>1, AppendProperties
  <2>1. s \in Seq(V) /\ Len(s) = 2 /\ s[1] = x /\ s[2] = y
    <3>1. 1 \in 1 .. Len(p) /\ Len(p) + 1 = 2
      BY <1>1
    <3> HIDE DEF s
    <3> QED BY <1>1, <2>0, <3>1
  <2> HIDE DEF s
  <2>2. \A i \in 1 .. Len(q) : s[i] = q[i]
    BY <1>2, <1>4, <2>1
  <2>3. s = q
    BY <1>2, <2>1, <2>2, SameSeq
  <2> QED BY <2>3 DEF s
<1>6. Append(q, z) = r
  <2> DEFINE s == Append(q, z)
  <2>0. Len(s) = Len(q) + 1 /\ s \in Seq(V) /\ (\A i \in 1 .. Len(q) : s[i] = q[i]) /\ s[Len(q) + 1] = z
    <3>1. q \in Seq(V)
      BY <1>2
    <3> QED BY <3>1, AppendProperties
  <2>1. s \in Seq(V) /\ Len(s) = 3 /\ s[1] = x /\ s[2] = y /\ s[3] = z
    <3>1. 1 \in 1 .. Len(q) /\ 2 \in 1 .. Len(q) /\ Len(q) + 1 = 3
      BY <1>2
    <3> HIDE DEF s
    <3> QED BY <1>2, <2>0, <3>1
  <2> HIDE DEF s
  <2>2. \A i \in 1 .. Len(r) : s[i] = r[i]
    BY <1>3, <1>4, <2>1
  <2>3. s = r
    BY <1>3, <2>1, <2>2, SameSeq
  <2> QED BY <2>3 DEF s
<1> QED BY <1>5, <1>6 DEF p, q, r

\* A line of a response.
ResponseLine(c) == Cookies!Separated(Cookies!Separated(Cookies!Pair(c), Cookies!Attributes[1]), Cookies!Attributes[2])

LEMMA ResponseCarries ==
  ASSUME NEW c \in CookieType, Cookies!Plain(c)
  PROVE  Carries(ResponseLine(c), Kept(c))
<1> DEFINE p == Cookies!Pair(c)
           q == Cookies!Separated(p, Cookies!Pair(ExpiresAt))
<1>1. Cookies!Attributes[1] = Cookies!Pair(ExpiresAt) /\ Cookies!Attributes[2] = Cookies!Pair(AtPath)
  BY DEF Cookies!Attributes, ExpiresAt, AtPath
<1>2. Carries(p, <<c>>)
  BY CarriesOne
<1> HIDE DEF p
<1>3. Carries(q, Append(<<c>>, ExpiresAt))
  BY <1>2, AttributesPlain, CarriesMore
<1> HIDE DEF q
<1>4. Carries(Cookies!Separated(q, Cookies!Pair(AtPath)), Append(Append(<<c>>, ExpiresAt), AtPath))
  BY <1>3, AttributesPlain, CarriesMore
<1>5. Append(Append(<<c>>, ExpiresAt), AtPath) = Kept(c)
  <2>1. /\ Append(<<c>>, ExpiresAt) = <<c, ExpiresAt>>
        /\ Append(<<c, ExpiresAt>>, AtPath) = <<c, ExpiresAt, AtPath>>
    BY AttributesPlain, Triple
  <2> QED BY <2>1, Zenon DEF Kept
<1> QED BY <1>1, <1>4, <1>5 DEF ResponseLine, p, q

-----------------------------------------------------------------------------
\* Cookies: where writing and parsing are.

\* os holds the cookies of S, each once.
Order(os, S) == /\ os \in Seq(CookieType)
                /\ \A c : c \in S <=> \E k \in 1 .. Len(os) : os[k] = c
                /\ \A k, l \in 1 .. Len(os) : os[k] = os[l] => k = l

\* Of a line with the cookies os, m are in the map p, and the key values u are of the others.
UnderOf(os, m, u, p) == /\ m \in 0 .. Len(os) /\ Len(u) = Len(os) - m
                        /\ \A k \in 1 .. Len(u) : Cookies!Cookie(u[k]) = os[m + k]
                        /\ \A c : c \in p <=> \E k \in 1 .. m : os[k] = c
Under(os, m) == UnderOf(os, m, unread, parsed)

NothingRead == parsed = {} /\ unread = <<>>
Untouched == NothingRead /\ lines = <<>> /\ unwritten = {}
OneEach(map) == \A c, d \in map : c.name = d.name => c = d

CkTypes == /\ jar \subseteq CookieType /\ OneEach(jar) /\ OneEach(parsed)
           /\ \A c \in parsed : Cookies!Trimmed(c.name) /\ Cookies!Trimmed(c.value)
           /\ side \in {"client", "server"} /\ unwritten \subseteq jar
           /\ lines \in Seq(Text) /\ unread \in Seq(Text)
           /\ stage \in {"setting", "writing", "parsing", "done", "refused"}
           /\ stage = "setting" => Untouched

\* What a client has written: no line, or one of the cookies it has come to.
Line(os) == Order(os, jar \ unwritten) /\ lines \in Seq(Text) /\ Len(lines) = 1 /\ Carries(lines[1], os)
ClientWrote == \/ lines = <<>> /\ unwritten = jar
               \/ \E os : Line(os)
\* The line read next is too long.
OverLimit == lines # <<>> /\ Len(lines[1]) > LineLimit
ClientInv ==
  \/ stage = "setting"
  \/ stage = "writing" /\ NothingRead /\ ClientWrote
  \/ stage = "parsing" /\ NothingRead /\ unwritten = {} /\ ClientWrote
  \/ stage = "parsing" /\ lines = <<>> /\ \E os : Order(os, jar) /\ \E m \in 0 .. Len(os) : Under(os, m)
  \/ stage = "done" /\ parsed = jar
  \/ stage = "refused" /\ OverLimit

\* Each line a server writes is of one cookie, and its attributes.
ServerWrote == \A i \in 1 .. Len(lines) : \E c \in jar : Carries(lines[i], Kept(c))
ServerInv ==
  \/ stage = "setting"
  \/ stage = "writing" /\ NothingRead /\ ServerWrote /\ (lines = <<>> => unwritten = jar)
  \/ stage = "parsing" /\ NothingRead /\ ServerWrote /\ (lines = <<>> => jar = {})
  \/ stage = "parsing" /\ ServerWrote /\ \E c \in jar : \E m \in 0 .. 3 : Under(Kept(c), m)
  \/ stage = "done" /\ (jar # {} => \E c \in jar : parsed = {c, ExpiresAt, AtPath})
  \/ stage = "refused" /\ (OverLimit \/ \E c \in jar : Cookies!Attribute(c))

CkInv == CkTypes /\ (Cookies!AllPlain => IF side = "client" THEN ClientInv ELSE ServerInv)

\* What each action does.
SetStep == /\ stage = "setting" /\ UNCHANGED <<side, unwritten, lines, parsed, unread, stage>>
           /\ jar' \subseteq CookieType /\ OneEach(jar') /\ jar \subseteq jar'
WriteStep == stage = "setting" /\ stage' = "writing" /\ unwritten' = jar /\ UNCHANGED <<jar, side, lines, parsed, unread>>
RequestStep(c) ==
  /\ stage = "writing" /\ side = "client" /\ c \in unwritten
  /\ lines' = (IF lines = <<>> THEN <<Cookies!Pair(c)>> ELSE <<Cookies!Separated(lines[1], Cookies!Pair(c))>>)
  /\ unwritten' = unwritten \ {c} /\ UNCHANGED <<jar, side, parsed, unread, stage>>
ResponseStep(c) ==
  /\ stage = "writing" /\ side = "server" /\ c \in unwritten /\ lines' = Append(lines, ResponseLine(c))
  /\ unwritten' = unwritten \ {c} /\ UNCHANGED <<jar, side, parsed, unread, stage>>
SendStep == stage = "writing" /\ unwritten = {} /\ stage' = "parsing" /\ UNCHANGED <<jar, side, unwritten, lines, parsed, unread>>
LineParsed == /\ stage = "parsing" /\ lines # <<>> /\ unread = <<>> /\ parsed' = {}
              /\ unread' = Cookies!KeyValues(Cookies!Collapse(lines[1])) /\ lines' = Tail(lines)
              /\ UNCHANGED <<jar, side, unwritten, stage>>
LineRefused == /\ stage = "parsing" /\ lines # <<>> /\ unread = <<>> /\ Len(Cookies!Collapse(lines[1])) > LineLimit
               /\ stage' = "refused" /\ UNCHANGED <<jar, side, unwritten, lines, parsed, unread>>
Refusal(c) == Cookies!Doubled(c.name) /\ stage' = "refused" /\ parsed' = parsed
Taking(c) == ~Cookies!Doubled(c.name) /\ parsed' = parsed \cup {c} /\ stage' = stage
CookieStep == /\ stage = "parsing" /\ unread # <<>> /\ unread' = Tail(unread) /\ UNCHANGED <<jar, side, unwritten, lines>>
              /\ Refusal(Cookies!Cookie(unread[1])) \/ Taking(Cookies!Cookie(unread[1]))
EndStep == /\ stage = "parsing" /\ lines = <<>> /\ unread = <<>> /\ stage' = "done"
           /\ UNCHANGED <<jar, side, unwritten, lines, parsed, unread>>

LEMMA CookieSteps ==
  ASSUME CkTypes, Cookies!Next, Cookies!CookieAssumption
  PROVE  \/ SetStep \/ WriteStep \/ (\E c : RequestStep(c)) \/ (\E c : ResponseStep(c))
         \/ SendStep \/ LineParsed \/ LineRefused \/ CookieStep \/ EndStep
<1> USE DEF jar, side, unwritten, lines, parsed, unread, stage
<1>1. CASE Cookies!SetCookie
  <2>1. PICK n \in CookieNames, x \in CookieValues :
          /\ stage = "setting" /\ UNCHANGED <<side, unwritten, lines, parsed, unread, stage>>
          /\ jar' = IF n \in Cookies!NamesOf(jar) THEN jar ELSE jar \cup {[name |-> n, value |-> x]}
    BY <1>1 DEF Cookies!SetCookie
  <2>2. n \in Text /\ x \in Text
    <3>1. {"x", "y", "=", "semi", "sp", "tab", "path", "expires"} = CookieChars
      BY DEF CookieChars
    <3> QED BY <3>1 DEF Cookies!CookieAssumption, Text
  <2>3. [name |-> n, value |-> x] \in CookieType
    BY <2>2 DEF CookieType
  <2>4. jar' \subseteq CookieType /\ jar \subseteq jar'
    BY <2>1, <2>3 DEF CkTypes
  <2>5. OneEach(jar')
    <3>1. n \notin Cookies!NamesOf(jar) => \A c \in jar : c.name # n
      BY DEF Cookies!NamesOf
    <3> QED BY <2>1, <3>1 DEF OneEach, CkTypes
  <2> QED BY <2>1, <2>4, <2>5 DEF SetStep
<1>2. CASE Cookies!Write
  BY <1>2 DEF Cookies!Write, WriteStep
<1>3. CASE Cookies!WriteRequest
  BY <1>3 DEF Cookies!WriteRequest, RequestStep
<1>4. CASE Cookies!WriteResponse
  BY <1>4 DEF Cookies!WriteResponse, ResponseStep, ResponseLine
<1>5. CASE Cookies!Send
  BY <1>5 DEF Cookies!Send, SendStep
<1>6. CASE Cookies!ParseLine
  BY <1>6 DEF Cookies!ParseLine, LineParsed
<1>7. CASE Cookies!ParseKeyValue
  BY <1>7 DEF Cookies!ParseKeyValue, CookieStep, Refusal, Taking
<1>8. CASE Cookies!Finish
  BY <1>8 DEF Cookies!Finish, EndStep
<1>9. CASE Cookies!LineTooLong
  BY <1>9 DEF Cookies!LineTooLong, LineRefused
<1> QED BY <1>1, <1>2, <1>3, <1>4, <1>5, <1>6, <1>7, <1>8, <1>9 DEF Cookies!Next

\* A line that is begun, and the next cookie of one.
LEMMA UnderFirst ==
  ASSUME NEW w, NEW os, Carries(w, os)
  PROVE  UnderOf(os, 0, Cookies!KeyValues(w), {})
<1> DEFINE kv == Cookies!KeyValues(w)
<1>1. os \in Seq(CookieType) /\ Len(kv) = Len(os) /\ \A k \in 1 .. Len(os) : Cookies!Cookie(kv[k]) = os[k]
  BY DEF Carries, Holds
<1> HIDE DEF kv
<1>2. Len(os) \in Nat
  BY <1>1, LenNat
<1>3. 0 \in 0 .. Len(os) /\ Len(kv) = Len(os) - 0
  BY <1>1, <1>2
<1>4. \A k \in 1 .. Len(kv) : Cookies!Cookie(kv[k]) = os[0 + k]
  <2>1. \A k \in 1 .. Len(os) : 0 + k = k
    BY <1>2
  <2> QED BY <1>1, <2>1
<1>5. UnderOf(os, 0, kv, {})
  BY <1>3, <1>4 DEF UnderOf
<1> QED BY <1>5 DEF kv

LEMMA UnderNext ==
  ASSUME NEW os, NEW m, NEW u \in Seq(Text), NEW p, UnderOf(os, m, u, p), Len(os) \in Nat, u # <<>>
  PROVE  /\ m + 1 \in 0 .. Len(os) /\ m + 1 \in 1 .. Len(os) /\ Cookies!Cookie(u[1]) = os[m + 1]
         /\ UnderOf(os, m + 1, Tail(u), p \cup {os[m + 1]})
<1> DEFINE t == Tail(u)
           n == Len(os)
           l == m + 1
           p2 == p \cup {os[l]}
<1>1. /\ m \in 0 .. n /\ Len(u) = n - m /\ (\A k \in 1 .. Len(u) : Cookies!Cookie(u[k]) = os[m + k])
      /\ \A c : c \in p <=> \E k \in 1 .. m : os[k] = c
  BY DEF UnderOf
<1>2. Len(u) \in Nat /\ Len(u) # 0 /\ Len(t) = Len(u) - 1 /\ \A k \in 1 .. Len(t) : t[k] = u[k + 1]
  OBVIOUS
<1> HIDE DEF t, n
<1>3. n \in Nat
  BY DEF n
<1>4. l \in 0 .. n /\ l \in 1 .. n /\ Len(t) = n - l /\ 1 \in 1 .. Len(u) /\ l \in 1 .. l
  BY <1>1, <1>2, <1>3
<1>5. Cookies!Cookie(u[1]) = os[l]
  BY <1>1, <1>4
<1>6. ASSUME NEW k \in 1 .. Len(t) PROVE Cookies!Cookie(t[k]) = os[l + k]
  <2>1. k + 1 \in 1 .. Len(u) /\ m + (k + 1) = l + k
    BY <1>1, <1>2, <1>3
  <2> QED BY <1>1, <1>2, <2>1
<1>7. ASSUME NEW c PROVE c \in p2 <=> \E k \in 1 .. l : os[k] = c
  <2>1. \A k : k \in 1 .. l <=> k \in 1 .. m \/ k = l
    BY <1>1, <1>3
  <2>2. c \in p2 <=> c \in p \/ c = os[l]
    OBVIOUS
  <2> HIDE DEF p2, l
  <2> QED BY <1>1, <2>1, <2>2
<1>8. UnderOf(os, l, t, p2)
  <2> HIDE DEF p2, l
  <2> QED BY <1>4, <1>6, <1>7 DEF UnderOf, n
<1> QED BY <1>4, <1>5, <1>8 DEF t, n

\* Another cookie in an order.
LEMMA OrderMore ==
  ASSUME NEW os, NEW S, NEW T, Order(os, S), NEW c \in CookieType, c \notin S, \A x : x \in T <=> x \in S \/ x = c
  PROVE  Order(Append(os, c), T)
<1> DEFINE o2 == Append(os, c)
           n == Len(os)
<1>1. /\ os \in Seq(CookieType) /\ (\A x : x \in S <=> \E k \in 1 .. n : os[k] = x)
      /\ \A k, l \in 1 .. n : os[k] = os[l] => k = l
  BY DEF Order
<1>2. n \in Nat /\ o2 \in Seq(CookieType) /\ Len(o2) = n + 1 /\ (\A k \in 1 .. n : o2[k] = os[k]) /\ o2[n + 1] = c
  BY <1>1, AppendProperties
<1> HIDE DEF o2, n
<1>3. \A k : k \in 1 .. n + 1 <=> k \in 1 .. n \/ k = n + 1
  BY <1>2
<1>4. ASSUME NEW x PROVE x \in T <=> \E k \in 1 .. Len(o2) : o2[k] = x
  BY <1>1, <1>2, <1>3
<1>5. ASSUME NEW k \in 1 .. Len(o2), NEW l \in 1 .. Len(o2), o2[k] = o2[l] PROVE k = l
  <2>1. \A j \in 1 .. n : os[j] # c
    BY <1>1
  <2> QED BY <1>1, <1>2, <1>3, <1>5, <2>1
<1>6. Order(o2, T)
  BY <1>2, <1>4, <1>5 DEF Order
<1> QED BY <1>6 DEF o2

-----------------------------------------------------------------------------
\* Cookies: the steps.

LEMMA SetGoes ==
  ASSUME CkInv, SetStep
  PROVE  CkInv'
<1>1. CkTypes'
  <2>1. unwritten = {} /\ lines = <<>> /\ NothingRead
    BY DEF CkInv, CkTypes, SetStep, Untouched
  <2>2. jar' \subseteq CookieType /\ OneEach(jar') /\ UNCHANGED <<side, unwritten, lines, parsed, unread, stage>>
    BY DEF SetStep
  <2>3. Untouched'
    BY <2>1, <2>2 DEF Untouched, NothingRead
  <2>4. unwritten' \subseteq jar'
    BY <2>1, <2>2
  <2> QED BY <2>2, <2>3, <2>4 DEF CkInv, CkTypes, OneEach
<1>2. ClientInv' /\ ServerInv'
  BY DEF SetStep, ClientInv, ServerInv
<1> QED BY <1>1, <1>2 DEF CkInv

LEMMA WriteGoes ==
  ASSUME CkInv, WriteStep
  PROVE  CkInv'
<1>0. stage = "setting" /\ stage' = "writing" /\ unwritten' = jar /\ UNCHANGED <<jar, side, lines, parsed, unread>>
  BY DEF WriteStep
<1>1. Untouched /\ CkTypes
  BY <1>0 DEF CkInv, CkTypes
<1>2. CkTypes'
  BY <1>0, <1>1 DEF CkTypes, OneEach
<1>3. lines' = <<>> /\ NothingRead' /\ unwritten' = jar'
  BY <1>0, <1>1 DEF Untouched, NothingRead
<1>4. ClientInv'
  BY <1>0, <1>3 DEF ClientInv, ClientWrote
<1>5. ServerInv'
  <2>1. \A i : i \notin 1 .. Len(<<>>)
    OBVIOUS
  <2>2. ServerWrote'
    BY <1>3, <2>1 DEF ServerWrote
  <2> QED BY <1>0, <1>3, <2>2 DEF ServerInv
<1> QED BY <1>2, <1>4, <1>5 DEF CkInv

\* The texts a line is made of.
LEMMA SeparatedIs ==
  ASSUME NEW s \in Text, NEW t \in Text
  PROVE  Cookies!Separated(s, t) \in Text
<1>1. <<"semi", "sp">> \in Seq(CookieChars)
  <2>1. "semi" \in CookieChars /\ "sp" \in CookieChars
    BY DEF CookieChars
  <2> QED BY <2>1
<1>2. \A V : \A a, b, d \in Seq(V) : (a \o b) \o d \in Seq(V)
  OBVIOUS
<1> QED BY <1>1, <1>2 DEF Cookies!Separated, Text

LEMMA ResponseText == ASSUME NEW c \in CookieType PROVE ResponseLine(c) \in Text
<1>1. Cookies!Pair(c) \in Text /\ Cookies!Pair(ExpiresAt) \in Text /\ Cookies!Pair(AtPath) \in Text
  BY PairIs, AttributesPlain
<1>2. Cookies!Attributes[1] = Cookies!Pair(ExpiresAt) /\ Cookies!Attributes[2] = Cookies!Pair(AtPath)
  BY DEF Cookies!Attributes, ExpiresAt, AtPath
<1> QED BY <1>1, <1>2, SeparatedIs DEF ResponseLine

LEMMA RequestGoes ==
  ASSUME CkInv, NEW c, RequestStep(c)
  PROVE  CkInv'
<1>0. /\ stage = "writing" /\ side = "client" /\ c \in unwritten
      /\ lines' = (IF lines = <<>> THEN <<Cookies!Pair(c)>> ELSE <<Cookies!Separated(lines[1], Cookies!Pair(c))>>)
      /\ unwritten' = unwritten \ {c} /\ UNCHANGED <<jar, side, parsed, unread, stage>>
  BY DEF RequestStep
<1>1. CkTypes /\ c \in CookieType /\ c \in jar
  BY <1>0 DEF CkInv, CkTypes
<1> DEFINE q == Cookies!Pair(c)
           s == Cookies!Separated(lines[1], q)
           w == IF lines = <<>> THEN q ELSE s
<1>2. lines' = <<w>> /\ q \in Text
  BY <1>0, <1>1, PairIs
<1>3. w \in Text
  <2>1. lines # <<>> => lines[1] \in Text
    BY <1>1 DEF CkTypes
  <2>2. lines # <<>> => s \in Text
    BY <1>2, <2>1, SeparatedIs
  <2> QED BY <1>2, <2>2
<1>4. <<w>> \in Seq(Text) /\ Len(<<w>>) = 1 /\ <<w>>[1] = w
  <2> HIDE DEF w
  <2> QED BY <1>3
<1>5. lines' \in Seq(Text) /\ Len(lines') = 1 /\ lines'[1] = w
  <2> HIDE DEF w
  <2> QED BY <1>2, <1>4
<1>6. CkTypes'
  <2>1. unwritten' \subseteq jar'
    BY <1>0, <1>1 DEF CkTypes
  <2> QED BY <1>0, <1>1, <1>5, <2>1 DEF CkTypes, OneEach
<1>7. ASSUME Cookies!AllPlain' PROVE ClientInv'
  <2>1. Cookies!AllPlain /\ Cookies!Plain(c)
    BY <1>0, <1>1, <1>7 DEF Cookies!AllPlain, jar
  <2>2. NothingRead /\ ClientWrote
    BY <1>0, <2>1 DEF CkInv, ClientInv
  <2>3. \A x : x \in (jar \ unwritten)' <=> x \in jar \ unwritten \/ x = c
    BY <1>0, <1>1
  <2>4. ASSUME NEW os, Order(os, (jar \ unwritten)'), Carries(w, os) PROVE (\E o : Line(o))'
    <3> HIDE DEF w
    <3> QED BY <1>5, <2>4 DEF Line
  <2>5. ASSUME lines = <<>>, unwritten = jar PROVE (\E o : Line(o))'
    <3>1. Carries(q, <<c>>)
      BY <1>1, <2>1, CarriesOne
    <3>2. Order(<<c>>, (jar \ unwritten)')
      <4>1. <<c>> \in Seq(CookieType) /\ Len(<<c>>) = 1 /\ <<c>>[1] = c
        BY <1>1
      <4>2. \A x : x \in (jar \ unwritten)' <=> x = c
        BY <2>3, <2>5
      <4>3. \A k \in 1 .. 1 : k = 1
        OBVIOUS
      <4>4. 1 \in 1 .. 1
        OBVIOUS
      <4> QED BY <4>1, <4>2, <4>3, <4>4 DEF Order
    <3>3. w = q
      BY <2>5
    <3> HIDE DEF w
    <3> QED BY <2>4, <3>1, <3>2, <3>3
  <2>6. ASSUME NEW os, Line(os) PROVE (\E o : Line(o))'
    <3>1. Order(os, jar \ unwritten) /\ Carries(lines[1], os) /\ Len(lines) = 1
      BY <2>6 DEF Line
    <3>2. lines # <<>>
      BY <3>1
    <3>3. w = s
      BY <3>2
    <3>4. Carries(s, Append(os, c))
      BY <1>1, <2>1, <3>1, CarriesMore
    <3>5. c \notin jar \ unwritten
      BY <1>0
    <3>6. Order(Append(os, c), (jar \ unwritten)')
      BY <1>1, <2>3, <3>1, <3>5, OrderMore
    <3> QED BY <2>4, <3>3, <3>4, <3>6
  <2>7. (\E o : Line(o))'
    BY <2>2, <2>5, <2>6 DEF ClientWrote
  <2>8. NothingRead'
    BY <1>0, <2>2 DEF NothingRead
  <2> QED BY <1>0, <2>7, <2>8 DEF ClientInv, ClientWrote
<1> QED BY <1>0, <1>6, <1>7 DEF CkInv

LEMMA ResponseGoes ==
  ASSUME CkInv, NEW c, ResponseStep(c)
  PROVE  CkInv'
<1>0. /\ stage = "writing" /\ side = "server" /\ c \in unwritten /\ lines' = Append(lines, ResponseLine(c))
      /\ unwritten' = unwritten \ {c} /\ UNCHANGED <<jar, side, parsed, unread, stage>>
  BY DEF ResponseStep
<1>1. CkTypes /\ c \in CookieType /\ c \in jar
  BY <1>0 DEF CkInv, CkTypes
<1> DEFINE r == ResponseLine(c)
           n == Len(lines)
<1>2. r \in Text
  BY <1>1, ResponseText
<1> HIDE DEF r
<1>3. lines \in Seq(Text)
  BY <1>1 DEF CkTypes
<1>4. /\ lines' \in Seq(Text) /\ lines' # <<>> /\ Len(lines') = n + 1 /\ n \in Nat
      /\ (\A i \in 1 .. n : lines'[i] = lines[i]) /\ lines'[n + 1] = r
  <2>1. lines' = Append(lines, r)
    BY <1>0 DEF r
  <2> QED BY <1>2, <1>3, <2>1, AppendProperties
<1>5. CkTypes'
  <2>1. unwritten' \subseteq jar'
    BY <1>0, <1>1 DEF CkTypes
  <2> QED BY <1>0, <1>1, <1>4, <2>1 DEF CkTypes, OneEach
<1>6. ASSUME Cookies!AllPlain' PROVE ServerInv'
  <2>1. Cookies!AllPlain /\ Cookies!Plain(c)
    BY <1>0, <1>1, <1>6 DEF Cookies!AllPlain, jar
  <2>2. NothingRead /\ ServerWrote
    BY <1>0, <2>1 DEF CkInv, ServerInv
  <2>3. Carries(r, Kept(c))
    BY <1>1, <2>1, ResponseCarries DEF r
  <2>4. ASSUME NEW i \in 1 .. Len(lines') PROVE \E d \in jar : Carries(lines'[i], Kept(d))
    <3> HIDE DEF n
    <3>1. i \in 1 .. n \/ i = n + 1
      BY <1>4
    <3>2. \A k \in 1 .. n : \E d \in jar : Carries(lines[k], Kept(d))
      BY <2>2 DEF ServerWrote, n
    <3> QED BY <1>1, <1>4, <2>3, <3>1, <3>2
  <2>5. ServerWrote'
    BY <1>0, <2>4 DEF ServerWrote
  <2>6. NothingRead'
    BY <1>0, <2>2 DEF NothingRead
  <2> QED BY <1>0, <1>4, <2>5, <2>6 DEF ServerInv
<1> QED BY <1>0, <1>5, <1>6 DEF CkInv

LEMMA SendGoes ==
  ASSUME CkInv, SendStep
  PROVE  CkInv'
<1>0. /\ stage = "writing" /\ unwritten = {} /\ stage' = "parsing"
      /\ UNCHANGED <<jar, side, unwritten, lines, parsed, unread>>
  BY DEF SendStep
<1>1. CkTypes'
  BY <1>0 DEF CkInv, CkTypes, OneEach
<1>2. ASSUME ClientInv PROVE ClientInv'
  <2>1. NothingRead /\ ClientWrote
    BY <1>0, <1>2 DEF ClientInv
  <2>2. NothingRead' /\ ClientWrote'
    BY <1>0, <2>1 DEF NothingRead, ClientWrote, Line
  <2> QED BY <1>0, <2>2 DEF ClientInv
<1>3. ASSUME ServerInv PROVE ServerInv'
  <2>1. NothingRead /\ ServerWrote /\ (lines = <<>> => jar = {})
    BY <1>0, <1>3 DEF ServerInv
  <2>2. NothingRead' /\ ServerWrote'
    BY <1>0, <2>1 DEF NothingRead, ServerWrote
  <2> QED BY <1>0, <2>1, <2>2 DEF ServerInv
<1>4. Cookies!AllPlain' = Cookies!AllPlain
  BY <1>0 DEF Cookies!AllPlain, jar
<1> QED BY <1>0, <1>1, <1>2, <1>3, <1>4 DEF CkInv

-----------------------------------------------------------------------------
\* Cookies: the steps of the parser.

\* The rest of the lines.
LEMMA TailIs ==
  ASSUME NEW V, NEW s \in Seq(V), s # <<>>
  PROVE  /\ Tail(s) \in Seq(V) /\ Len(s) \in Nat /\ Len(Tail(s)) = Len(s) - 1 /\ s[1] \in V /\ 1 \in 1 .. Len(s)
         /\ \A i \in 1 .. Len(Tail(s)) : Tail(s)[i] = s[i + 1] /\ i + 1 \in 1 .. Len(s)
OBVIOUS

LEMMA LineGoesOn ==
  ASSUME CkInv, LineParsed
  PROVE  CkInv'
<1>0. /\ stage = "parsing" /\ lines # <<>> /\ unread = <<>> /\ parsed' = {}
      /\ unread' = Cookies!KeyValues(Cookies!Collapse(lines[1])) /\ lines' = Tail(lines)
      /\ UNCHANGED <<jar, side, unwritten, stage>>
  BY DEF LineParsed
<1>1. CkTypes
  BY DEF CkInv
<1>2. lines \in Seq(Text)
  BY <1>1 DEF CkTypes
<1> DEFINE w == lines[1]
           t == Tail(lines)
           n == Len(lines)
<1>3. /\ t \in Seq(Text) /\ n \in Nat /\ Len(t) = n - 1 /\ w \in Text /\ 1 \in 1 .. n
      /\ \A i \in 1 .. Len(t) : t[i] = lines[i + 1] /\ i + 1 \in 1 .. n
  BY <1>0, <1>2, TailIs
<1>4. Cookies!KeyValues(Cookies!Collapse(w)) \in Seq(Text)
  BY <1>3, CutsAre, SqueezeAre
<1>5. CkTypes'
  BY <1>0, <1>1, <1>3, <1>4 DEF CkTypes, OneEach
<1>6. ASSUME NEW os, Carries(w, os) PROVE Under(os, 0)' /\ Len(os) \in Nat
  <2>0. Cookies!Collapse(w) = w
    BY <1>6, CollapseKeeps DEF Carries
  <2>1. UnderOf(os, 0, unread', parsed')
    BY <1>0, <1>6, <2>0, UnderFirst
  <2>2. os \in Seq(CookieType)
    BY <1>6 DEF Carries
  <2> QED BY <2>1, <2>2, LenNat DEF Under
<1>7. ASSUME ClientInv PROVE ClientInv'
  <2>1. unwritten = {} /\ ClientWrote
    BY <1>0, <1>7 DEF ClientInv
  <2>2. PICK os : Line(os)
    BY <1>0, <2>1 DEF ClientWrote
  <2>3. Order(os, jar) /\ Carries(w, os) /\ n = 1
    <3>1. jar \ unwritten = jar
      BY <2>1
    <3> QED BY <2>2, <3>1 DEF Line
  <2>4. t = <<>>
    BY <1>3, <2>3
  <2>5. lines' = <<>>
    BY <1>0, <2>4
  <2>6. 0 \in 0 .. Len(os)
    BY <1>6, <2>3
  <2>7. Under(os, 0)'
    BY <1>6, <2>3
  <2>8. Order(os, jar')
    BY <1>0, <2>3
  <2> QED BY <1>0, <2>5, <2>6, <2>7, <2>8 DEF ClientInv
<1>8. ASSUME ServerInv PROVE ServerInv'
  <2>1. ServerWrote
    BY <1>0, <1>8 DEF ServerInv
  <2>2. PICK c \in jar : Carries(w, Kept(c))
    BY <1>3, <2>1 DEF ServerWrote
  <2>3. ServerWrote'
    <3>1. ASSUME NEW i \in 1 .. Len(t) PROVE \E d \in jar : Carries(t[i], Kept(d))
      <4>1. t[i] = lines[i + 1] /\ i + 1 \in 1 .. n
        BY <1>3
      <4> HIDE DEF t
      <4> QED BY <2>1, <4>1 DEF ServerWrote
    <3>2. lines' = t /\ jar' = jar
      BY <1>0
    <3> HIDE DEF t
    <3> QED BY <3>1, <3>2 DEF ServerWrote
  <2>4. Under(Kept(c), 0)' /\ 0 \in 0 .. 3
    BY <1>6, <2>2
  <2>5. stage' = "parsing" /\ c \in jar'
    BY <1>0
  <2> QED BY <2>3, <2>4, <2>5 DEF ServerInv
<1>9. Cookies!AllPlain' = Cookies!AllPlain
  BY <1>0 DEF Cookies!AllPlain, jar
<1> QED BY <1>0, <1>1, <1>5, <1>7, <1>8, <1>9 DEF CkInv

LEMMA RefusedGoes ==
  ASSUME CkInv, LineRefused
  PROVE  CkInv'
<1>0. /\ stage = "parsing" /\ lines # <<>> /\ unread = <<>> /\ Len(Cookies!Collapse(lines[1])) > LineLimit
      /\ stage' = "refused" /\ UNCHANGED <<jar, side, unwritten, lines, parsed, unread>>
  BY DEF LineRefused
<1>1. CkTypes'
  BY <1>0 DEF CkInv, CkTypes, OneEach
<1>2. ASSUME NEW os, Carries(lines[1], os) PROVE OverLimit'
  <2>1. Cookies!Collapse(lines[1]) = lines[1]
    BY <1>2, CollapseKeeps DEF Carries
  <2> QED BY <1>0, <2>1 DEF OverLimit
<1>3. ASSUME ClientInv PROVE ClientInv'
  <2>1. PICK os : Line(os)
    BY <1>0, <1>3 DEF ClientInv, ClientWrote
  <2> QED BY <1>0, <1>2, <2>1 DEF ClientInv, Line
<1>4. ASSUME ServerInv PROVE ServerInv'
  <2>1. 1 \in 1 .. Len(lines)
    BY <1>0, TailIs DEF CkInv, CkTypes
  <2>2. PICK c \in jar : Carries(lines[1], Kept(c))
    BY <1>0, <1>4, <2>1 DEF ServerInv, ServerWrote
  <2> QED BY <1>0, <1>2, <2>2 DEF ServerInv
<1>5. Cookies!AllPlain' = Cookies!AllPlain
  BY <1>0 DEF Cookies!AllPlain, jar
<1> QED BY <1>0, <1>1, <1>3, <1>4, <1>5 DEF CkInv

LEMMA CookieTypes ==
  ASSUME CkTypes, CookieStep
  PROVE  CkTypes' /\ unread \in Seq(Text)
<1> DEFINE u == unread[1]
           d == Cookies!Cookie(u)
<1>0. /\ stage = "parsing" /\ unread # <<>> /\ unread' = Tail(unread) /\ UNCHANGED <<jar, side, unwritten, lines>>
      /\ Refusal(d) \/ Taking(d)
  BY DEF CookieStep
<1>1. unread \in Seq(Text)
  BY DEF CkTypes
<1>2. Tail(unread) \in Seq(Text) /\ u \in Text
  BY <1>0, <1>1, TailIs
<1>3. d \in CookieType /\ Cookies!Trimmed(d.name) /\ Cookies!Trimmed(d.value)
  BY <1>2, CookieTrimmed
<1> HIDE DEF d
<1>4. stage' \in {"parsing", "refused"} /\ parsed' \subseteq parsed \cup {d}
  BY <1>0 DEF Refusal, Taking
<1>5. \A c \in parsed' : Cookies!Trimmed(c.name) /\ Cookies!Trimmed(c.value)
  BY <1>3, <1>4 DEF CkTypes
<1>6. OneEach(parsed')
  <2>1. CASE Refusal(d)
    BY <2>1 DEF Refusal, CkTypes
  <2>2. CASE Taking(d)
    <3>1. \A c \in parsed : c.name # d.name
      BY <2>2 DEF Taking, Cookies!Doubled, Cookies!NamesOf, parsed
    <3> QED BY <2>2, <3>1 DEF Taking, OneEach, CkTypes
  <2> QED BY <1>0, <2>1, <2>2
<1> QED BY <1>0, <1>1, <1>2, <1>4, <1>5, <1>6 DEF CkTypes, OneEach

LEMMA CookieGoes ==
  ASSUME CkInv, CookieStep
  PROVE  CkInv'
<1> DEFINE u == unread[1]
           d == Cookies!Cookie(u)
<1>0. /\ stage = "parsing" /\ unread # <<>> /\ unread' = Tail(unread) /\ UNCHANGED <<jar, side, unwritten, lines>>
      /\ Refusal(d) \/ Taking(d)
  BY DEF CookieStep
<1>1. CkTypes' /\ unread \in Seq(Text)
  BY CookieTypes DEF CkInv
<1>2. ASSUME NEW os, NEW m, Under(os, m), Len(os) \in Nat
      PROVE  /\ m + 1 \in 0 .. Len(os) /\ m + 1 \in 1 .. Len(os) /\ d = os[m + 1]
             /\ Taking(d) => stage' = "parsing" /\ Under(os, m + 1)'
             /\ Refusal(d) => stage' = "refused" /\ \E k \in 1 .. m : os[k].name = d.name
  <2>1. UnderOf(os, m, unread, parsed)
    BY <1>2 DEF Under
  <2>2. /\ m + 1 \in 0 .. Len(os) /\ m + 1 \in 1 .. Len(os) /\ d = os[m + 1]
        /\ UnderOf(os, m + 1, Tail(unread), parsed \cup {os[m + 1]})
    BY <1>0, <1>1, <1>2, <2>1, UnderNext
  <2> HIDE DEF d
  <2>3. Taking(d) => UnderOf(os, m + 1, unread', parsed')
    BY <1>0, <2>2 DEF Taking
  <2>4. Refusal(d) => \E c \in parsed : c.name = d.name
    BY DEF Refusal, Cookies!Doubled, Cookies!NamesOf, parsed
  <2>5. \A c \in parsed : \E k \in 1 .. m : os[k] = c
    BY <2>1 DEF UnderOf
  <2> QED BY <1>0, <2>2, <2>3, <2>4, <2>5 DEF Under, Refusal, Taking
<1> HIDE DEF d
<1>3. ASSUME ClientInv PROVE ClientInv'
  <2>1. PICK os : lines = <<>> /\ Order(os, jar) /\ \E m \in 0 .. Len(os) : Under(os, m)
    BY <1>0, <1>3 DEF ClientInv, NothingRead
  <2>2. PICK m \in 0 .. Len(os) : Under(os, m)
    BY <2>1
  <2>3. /\ Len(os) \in Nat /\ (\A x : x \in jar <=> \E k \in 1 .. Len(os) : os[k] = x)
        /\ \A k, l \in 1 .. Len(os) : os[k] = os[l] => k = l
    BY <2>1, LenNat DEF Order
  <2>4. /\ m + 1 \in 0 .. Len(os) /\ m + 1 \in 1 .. Len(os) /\ d = os[m + 1]
        /\ Taking(d) => stage' = "parsing" /\ Under(os, m + 1)'
        /\ Refusal(d) => \E k \in 1 .. m : os[k].name = d.name
    BY <1>2, <2>2, <2>3
  <2>5. ~Refusal(d)
    <3> SUFFICES ASSUME NEW k \in 1 .. m, os[k].name = d.name PROVE FALSE
      BY <2>4
    <3>1. k \in 1 .. Len(os) /\ k # m + 1
      BY <2>3
    <3>2. os[k] \in jar /\ d \in jar
      BY <2>3, <2>4, <3>1
    <3>3. os[k] = d
      BY <3>2 DEF CkInv, CkTypes, OneEach
    <3> QED BY <2>3, <2>4, <3>1, <3>3
  <2>6. Order(os, jar') /\ lines' = <<>> /\ m + 1 \in 0 .. Len(os)
    BY <1>0, <2>1, <2>4
  <2> QED BY <1>0, <2>4, <2>5, <2>6 DEF ClientInv
<1>4. ASSUME ServerInv PROVE ServerInv'
  <2>1. ServerWrote /\ \E c \in jar : \E m \in 0 .. 3 : Under(Kept(c), m)
    BY <1>0, <1>4 DEF ServerInv, NothingRead
  <2>2. PICK c \in jar : \E m \in 0 .. 3 : Under(Kept(c), m)
    BY <2>1
  <2>3. PICK m \in 0 .. 3 : Under(Kept(c), m)
    BY <2>2
  <2>4. Len(Kept(c)) = 3 /\ Kept(c)[1] = c /\ Kept(c)[2] = ExpiresAt /\ Kept(c)[3] = AtPath
    BY DEF Kept
  <2> DEFINE os == Kept(c)
  <2> HIDE DEF os
  <2>5. Len(os) = 3 /\ os[1] = c /\ os[2] = ExpiresAt /\ os[3] = AtPath
    BY <2>4 DEF os
  <2>6. Under(os, m)
    BY <2>3 DEF os
  <2>7. /\ m + 1 \in 0 .. 3 /\ m + 1 \in 1 .. 3 /\ d = os[m + 1]
        /\ Taking(d) => stage' = "parsing" /\ Under(os, m + 1)'
        /\ Refusal(d) => stage' = "refused" /\ \E k \in 1 .. m : os[k].name = d.name
    BY <1>2, <2>5, <2>6
  <2>8. CASE Taking(d)
    <3>1. ServerWrote'
      BY <1>0, <2>1 DEF ServerWrote
    <3>2. Under(Kept(c), m + 1)' /\ stage' = "parsing" /\ m + 1 \in 0 .. 3 /\ c \in jar'
      BY <1>0, <2>7, <2>8 DEF os
    <3> QED BY <3>1, <3>2 DEF ServerInv
  <2>9. CASE Refusal(d)
    <3>1. PICK k \in 1 .. m : os[k].name = d.name
      BY <2>7, <2>9
    <3>2. Cookies!Attribute(c)
      <4>1. (k = 1 /\ m + 1 = 2) \/ (k = 1 /\ m + 1 = 3) \/ (k = 2 /\ m + 1 = 3)
        <5>1. m + 1 \in 1 .. 3 /\ m \in 0 .. 3 /\ k \in 1 .. m
          BY <2>3, <2>7, <3>1
        <5> HIDE DEF d
        <5> QED BY <5>1
      <4>2. ExpiresAt.name = Cookies!Expires /\ AtPath.name = Cookies!Path /\ Cookies!Path # Cookies!Expires
        BY AttributesPlain DEF ExpiresAt, AtPath
      <4> QED BY <2>5, <2>7, <3>1, <4>1, <4>2 DEF Cookies!Attribute
    <3> QED BY <1>0, <2>7, <2>9, <3>2 DEF ServerInv
  <2> QED BY <1>0, <2>8, <2>9
<1>5. Cookies!AllPlain' = Cookies!AllPlain
  BY <1>0 DEF Cookies!AllPlain, jar
<1> QED BY <1>0, <1>1, <1>3, <1>4, <1>5 DEF CkInv

LEMMA EndGoes ==
  ASSUME CkInv, EndStep
  PROVE  CkInv'
<1>0. /\ stage = "parsing" /\ lines = <<>> /\ unread = <<>> /\ stage' = "done"
      /\ UNCHANGED <<jar, side, unwritten, lines, parsed, unread>>
  BY DEF EndStep
<1>1. CkTypes'
  BY <1>0 DEF CkInv, CkTypes, OneEach
<1>2. ASSUME NEW os, NEW m, Under(os, m), Len(os) \in Nat
      PROVE  \A c : c \in parsed <=> \E k \in 1 .. Len(os) : os[k] = c
  <2>1. m \in 0 .. Len(os) /\ 0 = Len(os) - m
    BY <1>0, <1>2 DEF Under, UnderOf
  <2>2. m = Len(os)
    BY <1>2, <2>1
  <2> QED BY <1>2, <2>2 DEF Under, UnderOf
<1>3. ASSUME ClientInv PROVE ClientInv'
  <2>1. CASE NothingRead /\ unwritten = {} /\ ClientWrote
    <3>1. unwritten = jar
      BY <1>0, <2>1 DEF ClientWrote, Line
    <3> QED BY <1>0, <2>1, <3>1 DEF ClientInv, NothingRead
  <2>2. CASE \E os : Order(os, jar) /\ \E m \in 0 .. Len(os) : Under(os, m)
    <3>1. PICK os : Order(os, jar) /\ \E m \in 0 .. Len(os) : Under(os, m)
      BY <2>2
    <3>2. Len(os) \in Nat /\ \A x : x \in jar <=> \E k \in 1 .. Len(os) : os[k] = x
      BY <3>1, LenNat DEF Order
    <3>3. parsed = jar
      BY <1>2, <3>1, <3>2
    <3> QED BY <1>0, <3>3 DEF ClientInv
  <2> QED BY <1>0, <1>3, <2>1, <2>2 DEF ClientInv
<1>4. ASSUME ServerInv PROVE ServerInv'
  <2>1. CASE jar = {}
    BY <1>0, <2>1 DEF ServerInv
  <2>2. CASE \E c \in jar : \E m \in 0 .. 3 : Under(Kept(c), m)
    <3>1. PICK c \in jar : \E m \in 0 .. 3 : Under(Kept(c), m)
      BY <2>2
    <3>2. Len(Kept(c)) = 3 /\ Kept(c)[1] = c /\ Kept(c)[2] = ExpiresAt /\ Kept(c)[3] = AtPath
      BY DEF Kept
    <3> DEFINE os == Kept(c)
    <3> HIDE DEF os
    <3>3. Len(os) = 3 /\ os[1] = c /\ os[2] = ExpiresAt /\ os[3] = AtPath
      BY <3>2 DEF os
    <3>4. \A x : x \in parsed <=> \E k \in 1 .. 3 : os[k] = x
      BY <1>2, <3>1, <3>3 DEF os
    <3>5. \A k : k \in 1 .. 3 <=> k = 1 \/ k = 2 \/ k = 3
      OBVIOUS
    <3>6. parsed = {c, ExpiresAt, AtPath}
      BY <3>3, <3>4, <3>5
    <3> QED BY <1>0, <3>6 DEF ServerInv
  <2> QED BY <1>0, <1>4, <2>1, <2>2 DEF ServerInv
<1>5. Cookies!AllPlain' = Cookies!AllPlain
  BY <1>0 DEF Cookies!AllPlain, jar
<1> QED BY <1>0, <1>1, <1>3, <1>4, <1>5 DEF CkInv

\* A step keeps the invariant.
LEMMA CkNext ==
  ASSUME CkInv, Cookies!Next \/ UNCHANGED Cookies!vars, Cookies!CookieAssumption
  PROVE  CkInv'
<1>1. CASE Cookies!Next
  <2>1. CkTypes
    BY DEF CkInv
  <2> QED BY <1>1, <2>1, CookieSteps, SetGoes, WriteGoes, RequestGoes, ResponseGoes, SendGoes, LineGoesOn,
            RefusedGoes, CookieGoes, EndGoes
<1>2. CASE UNCHANGED Cookies!vars
  <2>1. UNCHANGED <<jar, side, unwritten, lines, parsed, unread, stage>>
    BY <1>2 DEF Cookies!vars, jar, side, unwritten, lines, parsed, unread, stage
  <2>2. CkTypes' = CkTypes
    BY <2>1 DEF CkTypes, OneEach, Untouched, NothingRead
  <2>3. ClientInv' = ClientInv
    BY <2>1 DEF ClientInv, NothingRead, ClientWrote, Line, Under, OverLimit
  <2>4. ServerInv' = ServerInv
    BY <2>1 DEF ServerInv, NothingRead, ServerWrote, Under, OverLimit
  <2>5. Cookies!AllPlain' = Cookies!AllPlain
    BY <2>1 DEF Cookies!AllPlain, jar
  <2> QED BY <2>1, <2>2, <2>3, <2>4, <2>5 DEF CkInv
<1> QED BY <1>1, <1>2

LEMMA CkInit == Cookies!Init => CkInv
<1> SUFFICES ASSUME Cookies!Init PROVE CkInv
  OBVIOUS
<1>1. /\ jar = {} /\ side \in {"client", "server"} /\ unwritten = {} /\ lines = <<>>
      /\ parsed = {} /\ unread = <<>> /\ stage = "setting"
  BY DEF Cookies!Init, jar, side, unwritten, lines, parsed, unread, stage
<1>2. <<>> \in Seq(Text)
  OBVIOUS
<1> QED BY <1>1, <1>2 DEF CkInv, CkTypes, OneEach, Untouched, NothingRead, ClientInv, ServerInv

\* What the invariant says of the end.
LEMMA CkMeans ==
  ASSUME CkInv
  PROVE  Cookies!TypeOK /\ Cookies!RequestRoundTrip /\ Cookies!OnlyLastIsKept
<1>1. Cookies!TypeOK
  BY DEF CkInv, CkTypes, OneEach, Cookies!TypeOK, stage, parsed
<1>2. Cookies!RequestRoundTrip
  BY DEF CkInv, ClientInv, OverLimit, Cookies!RequestRoundTrip, Cookies!NextTooLong, side, stage, parsed, jar, lines
<1>3. Cookies!OnlyLastIsKept
  <2> SUFFICES ASSUME side = "server", Cookies!AllPlain
               PROVE  /\ stage = "refused" => OverLimit \/ \E c \in jar : Cookies!Attribute(c)
                      /\ stage = "done" /\ jar # {} =>
                           \E c \in jar : c \in parsed /\ Cookies!NamesOf(parsed) = {c.name, Cookies!Path, Cookies!Expires}
    BY DEF Cookies!OnlyLastIsKept, Cookies!NextTooLong, OverLimit, side, stage, parsed, jar, lines
  <2>1. ServerInv
    BY DEF CkInv
  <2>2. stage = "refused" => OverLimit \/ \E c \in jar : Cookies!Attribute(c)
    BY <2>1 DEF ServerInv
  <2>3. ASSUME stage = "done", jar # {}
        PROVE  \E c \in jar : c \in parsed /\ Cookies!NamesOf(parsed) = {c.name, Cookies!Path, Cookies!Expires}
    <3>1. PICK c \in jar : parsed = {c, ExpiresAt, AtPath}
      BY <2>1, <2>3 DEF ServerInv
    <3>2. ExpiresAt.name = Cookies!Expires /\ AtPath.name = Cookies!Path
      BY DEF ExpiresAt, AtPath
    <3>3. Cookies!NamesOf(parsed) = {c.name, Cookies!Path, Cookies!Expires}
      BY <3>1, <3>2 DEF Cookies!NamesOf
    <3> QED BY <3>1, <3>3
  <2> QED BY <2>2, <2>3
<1> QED BY <1>1, <1>2, <1>3

\* The part that is cookies keeps the invariant.
CookiePart == part = "cookies" => CkInv

LEMMA CookieInvariant == MessageSpec => []CookiePart
<1>1. MessageInit => CookiePart
  BY CkInit DEF MessageInit, CookiePart
<1>2. CookiePart /\ [MessageNext]_messageVars => CookiePart'
  <2> SUFFICES ASSUME CookiePart, [MessageNext]_messageVars, part' = "cookies" PROVE CkInv'
    BY DEF CookiePart
  <2>1. part = "cookies" /\ CkInv
    BY DEF CookiePart, MessageNext, messageVars
  <2>2. Cookies!Next \/ UNCHANGED Cookies!vars
    BY <2>1 DEF MessageNext, messageVars, Cookies!vars
  <2>3. Cookies!CookieAssumption
    BY MessageAssumption
  <2> QED BY <2>1, <2>2, <2>3, CkNext
<1> QED BY <1>1, <1>2, PTL DEF MessageSpec

\* A server reads every cookie a client has or refuses them for the length of their line, and a client that
\* accepts a response keeps its last cookie and the attributes of it, for all names and values that are plain,
\* however many and in whatever order they are written (http_cookie.hpp:62-125, http_context.hpp:102-149).
THEOREM CookiesAreKept == MessageSpec => []CookiesKept
<1>1. CookiePart => CookiesKept
  BY CkMeans DEF CookiePart, CookiesKept
<1> QED BY <1>1, CookieInvariant, PTL
=============================================================================
