------------------------------ MODULE Session ------------------------------
(***************************************************************************)
(* session_manager.hpp and the requests that use it: the csrf token page,  *)
(* the two steps of an OAuth 1.0a sign-in, the callback of OAuth 2.0, and  *)
(* signing out.  Requests run as coroutines over one redis database; a     *)
(* database callback holds RedisDatabase's lock, so it is one action, and  *)
(* between callbacks (and while the provider is asked) others run.         *)
(*                                                                         *)
(* A request keeps its own copy of the session and every write stores the  *)
(* whole copy.  `overlapped` names the sessions two requests used at once: *)
(* the manager has no answer to that, so some properties except them.      *)
(***************************************************************************)
EXTENDS Naturals, FiniteSets

CONSTANTS Browsers, Requests, Sids, Tokens, Users, Ids,
          None,          \* no session, cookie, token, user or browser
          LifeTime,      \* session_life_time
          MaxTime,       \* bound on the clock
          MaxRequests    \* bound on the number of requests

\* user-id is stored as an optional<uuid> and read as a uuid: a flag and a version come first
\* (Archive), so another id is read, always the same one.
Misread(id) == <<"misread", id>>
AllIds == Ids \cup {Misread(id) : id \in Ids}

SessionType == [ts: 0..MaxTime, csrf: Sids, oauth: Tokens \cup {None}, user: AllIds \cup {None}]

\* None is nothing else, and an id is not the wrong reading of another.
ASSUME SessionAssumption == /\ LifeTime \in Nat /\ MaxTime \in Nat /\ MaxRequests \in Nat
                            /\ None \notin Ids \cup Sids \cup Tokens \cup SessionType
                            /\ \A id \in Ids : Misread(id) \notin Ids

VARIABLES
  session,    \* database: session[sid]
  userId,     \* database: the id stored for a user of the site
  userInfo,   \* database: the ids that have a user-info
  cookie,     \* cookie[b]: the SID browser b sends
  req,        \* req[r]: the request coroutine r handles
  issued,     \* provider: request tokens handed out
  approved,   \* provider: the user who approved a token
  clock, started,
  overlapped, \* history: sessions used by two requests at once
  begun,      \* history: <<sid, token>> stored by begin_oauth
  accepted,   \* history: <<sid, token>> that verify_oauth_token let through
  signed,     \* history: <<sid, id>> that sign_in has written
  signIns     \* history: the ids the sign_ins of a user read, all but the first

db == <<session, userId, userInfo>>
provider == <<issued, approved>>
history == <<overlapped, begun, accepted, signed, signIns>>
vars == <<db, cookie, req, provider, clock, started, history>>

Kinds == {"page", "begin", "callback", "callback20", "signout"}
Places == {"idle", "load", "begin", "verify", "exchange", "signin", "signout", "finish"}

RequestType == [pc: Places, kind: Kinds, browser: Browsers \cup {None}, now: 0..MaxTime,
                sid: Sids \cup {None}, fresh: BOOLEAN, copy: SessionType \cup {None},
                token: Tokens \cup {None}, user: Users \cup {None}]

Idle == [pc |-> "idle", kind |-> "page", browser |-> None, now |-> 0,
         sid |-> None, fresh |-> FALSE, copy |-> None, token |-> None, user |-> None]

Init == /\ session = [s \in Sids |-> None]
        /\ userId = [u \in Users |-> None] /\ userInfo = {}
        /\ cookie = [b \in Browsers |-> None]
        /\ req = [r \in Requests |-> Idle]
        /\ issued = {} /\ approved = [t \in Tokens |-> None]
        /\ clock = 0 /\ started = 0
        /\ overlapped = {} /\ begun = {} /\ accepted = {} /\ signed = {} /\ signIns = [u \in Users |-> {}]

(***************************************************************************)
(* The browser sends a request.  A callback carries any token a browser    *)
(* may have been given, or an empty one, and for OAuth 2.0 a code that     *)
(* stands for a user; the first step of OAuth 1.0a gets a new token from   *)
(* the provider before it loads the session.                               *)
(***************************************************************************)
CodeOf(kind, user) == kind = "callback20" <=> user # None

TokenOf(kind, token) ==
  CASE kind = "callback" -> token \in issued \cup {None} /\ issued' = issued
    [] kind = "begin"    -> token \in Tokens \ issued /\ issued' = issued \cup {token}
    [] OTHER             -> token = None /\ issued' = issued

Start(r, b, kind, token, user) ==
  /\ req[r].pc = "idle" /\ started < MaxRequests
  /\ CodeOf(kind, user)
  /\ TokenOf(kind, token)
  /\ started' = started + 1
  /\ req' = [req EXCEPT ![r] = [pc |-> "load", kind |-> kind, browser |-> b, now |-> clock,
                                sid |-> cookie[b], fresh |-> FALSE, copy |-> None, token |-> token, user |-> user]]
  /\ overlapped' = overlapped \cup {s \in {cookie[b]} \ {None} :
                     \E o \in Requests : req[o].pc # "idle" /\ req[o].sid = s}
  /\ UNCHANGED <<db, cookie, approved, clock, begun, accepted, signed, signIns>>

NextPlace(kind) == CASE kind = "page"       -> "finish"
                     [] kind = "begin"      -> "begin"
                     [] kind = "callback"   -> "verify"
                     [] kind = "callback20" -> "signin"
                     [] kind = "signout"    -> "signout"

Outcome(q, ok) == IF ok THEN NextPlace(q.kind) ELSE "finish"

\* The request goes on; at its end only the SID of a session it made is left, for the cookie.
After(q, pc) == IF pc = "finish"
                THEN [Idle EXCEPT !.pc = pc, !.browser = q.browser,
                                  !.sid = IF q.fresh THEN q.sid ELSE None]
                ELSE [q EXCEPT !.pc = pc]

Goto(r, pc) == req' = [req EXCEPT ![r] = After(@, pc)]

\* A stored session that has not expired is the request's.
Usable(q) == q.sid # None /\ session[q.sid] # None /\ session[q.sid].ts + LifeTime >= q.now

(***************************************************************************)
(* The constructor: the session of the cookie with a new timestamp, or a   *)
(* new session.  A command that fails may have been carried out: then the  *)
(* request ends in an exception all the same (ok).                         *)
(***************************************************************************)
Load(r, ok) ==
  LET q == req[r]
      s == [session[q.sid] EXCEPT !.ts = q.now]
  IN /\ q.pc = "load" /\ Usable(q)
     /\ session' = [session EXCEPT ![q.sid] = s]
     /\ req' = [req EXCEPT ![r] = After([q EXCEPT !.copy = s], Outcome(q, ok))]
     /\ UNCHANGED <<userId, userInfo, cookie, provider, clock, started, history>>

\* Mutant of NewSession: the expired session was moved into session_ before the check
NewSessionInherits(q, sid) ==
  IF q.sid # None /\ session[q.sid] # None THEN [session[q.sid] EXCEPT !.ts = q.now]
  ELSE [ts |-> q.now, csrf |-> sid, oauth |-> None, user |-> None]

NewSession(q, sid) == [ts |-> q.now, csrf |-> sid, oauth |-> None, user |-> None]

Create(r, sid, ok) ==
  LET q == req[r] IN
  /\ q.pc = "load" /\ ~Usable(q)
  /\ session[sid] = None
  /\ session' = [session EXCEPT ![sid] = NewSession(q, sid)]
  /\ req' = [req EXCEPT ![r] = After([q EXCEPT !.sid = sid, !.fresh = ok,
                                               !.copy = NewSession(q, sid)], Outcome(q, ok))]
  /\ UNCHANGED <<userId, userInfo, cookie, provider, clock, started, history>>

\* Mutant of BeginOauth: the session is made anew
BeginOauthAsNew(r) ==
  LET q == req[r] IN
  /\ q.pc = "begin"
  /\ session' = [session EXCEPT ![q.sid] = [NewSession(q, q.sid) EXCEPT !.oauth = q.token]]
  /\ begun' = begun \cup {<<q.sid, q.token>>}
  /\ Goto(r, "finish")
  /\ UNCHANGED <<userId, userInfo, cookie, provider, clock, started, overlapped, accepted, signed, signIns>>

BeginOauth(r) ==
  LET q == req[r] IN
  /\ q.pc = "begin"
  /\ session' = [session EXCEPT ![q.sid] = [q.copy EXCEPT !.oauth = q.token]]
  /\ begun' = begun \cup {<<q.sid, q.token>>}
  /\ Goto(r, "finish")
  /\ UNCHANGED <<userId, userInfo, cookie, provider, clock, started, overlapped, accepted, signed, signIns>>

\* oauth_site_name and oauth_token are compared; both are empty when no sign-in has begun,
\* and no site has an empty name.
\* Mutant of TokenMatches: the site is not compared
TokenMatchesAnySite(copy, token) == copy.oauth = token

TokenMatches(copy, token) == copy.oauth # None /\ copy.oauth = token

\* Mutant of VerifyOauthToken: the session is not stored
VerifyForgetsToClear(r, ok) ==
  LET q == req[r] IN
  /\ q.pc = "verify" /\ TokenMatches(q.copy, q.token)
  /\ accepted' = IF ok THEN accepted \cup {<<q.sid, q.token>>} ELSE accepted
  /\ req' = [req EXCEPT ![r] = After([q EXCEPT !.copy.oauth = None],
                                     IF ok THEN "exchange" ELSE "finish")]
  /\ UNCHANGED <<db, cookie, provider, clock, started, overlapped, begun, signed, signIns>>

VerifyOauthToken(r, ok) ==
  LET q == req[r]
      s == [q.copy EXCEPT !.oauth = None]
  IN /\ q.pc = "verify" /\ TokenMatches(q.copy, q.token)
     /\ session' = [session EXCEPT ![q.sid] = s]
     /\ accepted' = IF ok THEN accepted \cup {<<q.sid, q.token>>} ELSE accepted
     /\ req' = [req EXCEPT ![r] = After([q EXCEPT !.copy = s], IF ok THEN "exchange" ELSE "finish")]
     /\ UNCHANGED <<userId, userInfo, cookie, provider, clock, started, overlapped, begun, signed, signIns>>

VerifyRefused(r) ==
  /\ req[r].pc = "verify" /\ ~TokenMatches(req[r].copy, req[r].token)
  /\ Goto(r, "finish")
  /\ UNCHANGED <<db, cookie, provider, clock, started, history>>

\* The access token and the user's data, from the provider.
Exchange(r) ==
  /\ req[r].pc = "exchange" /\ approved[req[r].token] # None
  /\ req' = [req EXCEPT ![r].user = approved[req[r].token], ![r].pc = "signin"]
  /\ UNCHANGED <<db, cookie, provider, clock, started, history>>

(***************************************************************************)
(* sign_in: get user-id; set user-id, if there is none; set session; set   *)
(* user-info.  `done` of the commands were carried out (without a set, the *)
(* first two are the get).                                                 *)
(***************************************************************************)
UserId(u, fresh) == IF userId[u] = None THEN fresh ELSE Misread(userId[u])

Fresh(id) == \A u \in Users : userId[u] # id

\* Mutant of SignIn: user-id is stored last
SignInStoresIdLast(r, fresh, done) ==
  LET q  == req[r]
      id == UserId(q.user, fresh)
      s  == [q.copy EXCEPT !.user = id]
  IN /\ q.pc = "signin" /\ Fresh(fresh)
     /\ userId' = IF done >= 4 /\ id = fresh THEN [userId EXCEPT ![q.user] = id] ELSE userId
     /\ session' = IF done >= 2 THEN [session EXCEPT ![q.sid] = s] ELSE session
     /\ userInfo' = IF done >= 3 THEN userInfo \cup {id} ELSE userInfo
     /\ signed' = IF done >= 2 THEN signed \cup {<<q.sid, id>>} ELSE signed
     /\ signIns' = IF userId[q.user] # None THEN [signIns EXCEPT ![q.user] = @ \cup {id}] ELSE signIns
     /\ Goto(r, "finish")
     /\ UNCHANGED <<cookie, provider, clock, started, overlapped, begun, accepted>>

SignIn(r, fresh, done) ==
  LET q  == req[r]
      id == UserId(q.user, fresh)
      s  == [q.copy EXCEPT !.user = id]
  IN /\ q.pc = "signin" /\ Fresh(fresh)
     /\ userId' = IF done >= 2 /\ id = fresh THEN [userId EXCEPT ![q.user] = id] ELSE userId
     /\ session' = IF done >= 3 THEN [session EXCEPT ![q.sid] = s] ELSE session
     /\ userInfo' = IF done >= 4 THEN userInfo \cup {id} ELSE userInfo
     /\ signed' = IF done >= 3 THEN signed \cup {<<q.sid, id>>} ELSE signed
     /\ signIns' = IF userId[q.user] # None THEN [signIns EXCEPT ![q.user] = @ \cup {id}] ELSE signIns
     /\ Goto(r, "finish")
     /\ UNCHANGED <<cookie, provider, clock, started, overlapped, begun, accepted>>

SignOut(r) ==
  LET q == req[r] IN
  /\ q.pc = "signout"
  /\ session' = IF q.copy.user = None THEN session
                ELSE [session EXCEPT ![q.sid] = [q.copy EXCEPT !.user = None]]
  /\ Goto(r, "finish")
  /\ UNCHANGED <<userId, userInfo, cookie, provider, clock, started, history>>

\* A command or the provider failed, or the coroutine was interrupted: an exception.
Fail(r) == /\ req[r].pc \notin {"idle", "finish"}
           /\ Goto(r, "finish")
           /\ UNCHANGED <<db, cookie, provider, clock, started, history>>

\* The response sets the cookie of a new session, unless it is lost.
Finish(r, delivered) ==
  LET q == req[r] IN
  /\ q.pc = "finish"
  /\ cookie' = IF delivered /\ q.sid # None THEN [cookie EXCEPT ![q.browser] = q.sid] ELSE cookie
  /\ req' = [req EXCEPT ![r] = Idle]
  /\ UNCHANGED <<db, provider, clock, started, history>>

Approve(t, u) == /\ t \in issued /\ approved[t] = None
                 /\ approved' = [approved EXCEPT ![t] = u]
                 /\ UNCHANGED <<db, cookie, req, issued, clock, started, history>>

Tick == /\ clock < MaxTime /\ clock' = clock + 1
        /\ UNCHANGED <<db, cookie, req, provider, started, history>>

Next == \/ \E r \in Requests :
             \/ \E b \in Browsers, k \in Kinds, t \in Tokens \cup {None}, u \in Users \cup {None} :
                  Start(r, b, k, t, u)
             \/ \E ok \in BOOLEAN : \/ Load(r, ok) \/ VerifyOauthToken(r, ok)
                                    \/ \E sid \in Sids : Create(r, sid, ok)
             \/ BeginOauth(r) \/ VerifyRefused(r) \/ Exchange(r)
             \/ \E fresh \in Ids, done \in 1..4 : SignIn(r, fresh, done)
             \/ SignOut(r) \/ Fail(r)
             \/ \E delivered \in BOOLEAN : Finish(r, delivered)
        \/ \E t \in Tokens, u \in Users : Approve(t, u)
        \/ Tick

Spec == Init /\ [][Next]_vars
-----------------------------------------------------------------------------
TypeOK == /\ session \in [Sids -> SessionType \cup {None}]
          /\ userId \in [Users -> Ids \cup {None}] /\ userInfo \subseteq AllIds
          /\ cookie \in [Browsers -> Sids \cup {None}]
          /\ req \in [Requests -> RequestType]
          /\ issued \subseteq Tokens /\ approved \in [Tokens -> Users \cup {None}]
          /\ clock \in 0..MaxTime /\ started \in 0..MaxRequests
          /\ overlapped \subseteq Sids
          /\ begun \subseteq Sids \X Tokens /\ accepted \subseteq begun
          /\ signed \subseteq Sids \X AllIds /\ signIns \in [Users -> SUBSET AllIds]

\* A session has the csrf token it was made with, and a user only if a sign_in of this very
\* session put him there: nothing of an expired session comes back under a new SID.
SessionIsOwn == \A s \in Sids : session[s] # None =>
                  /\ session[s].csrf = s
                  /\ session[s].user # None => <<s, session[s].user>> \in signed

\* A callback is let through only with the token that begin_oauth stored in its own session:
\* neither another browser's token nor the empty one of a session where nothing was begun.
TokenBegunHere == \A r \in Requests :
                    req[r].pc = "exchange" => <<req[r].sid, req[r].token>> \in begun

\* A token is let through once, however often the callback is sent, unless two requests used
\* the session at once.
TokenOnce == [][\A r \in Requests :
                  req[r].pc = "verify" /\ req'[r].pc = "exchange" /\ req[r].sid \notin overlapped
                    => <<req[r].sid, req[r].token>> \notin accepted]_vars

\* Every write stores a whole session, and yet changes one thing only (the time, the sign-in
\* begun or the user) of what is stored, unless two requests used the session at once: no
\* update is lost and none is undone.
Changes(s, t) == {x \in {"ts", "csrf", "oauth", "user"} : s[x] # t[x]}
NoLostUpdate == [][\A s \in Sids : session[s] # None /\ s \notin overlapped =>
                     Cardinality(Changes(session[s], session'[s])) <= 1]_vars

\* The user of a session has an entry in user-id that leads to him, at whichever of its
\* commands a sign_in may have been cut short.
IdStoredFirst == \A s \in Sids : session[s] # None /\ session[s].user # None =>
                   \E u \in Users : userId[u] # None /\ session[s].user \in {userId[u], Misread(userId[u])}

\* From the second sign-in on, a user of the site always gets the same id.
StableId == \A u \in Users : Cardinality(signIns[u]) <= 1

\* Sessions and sign-ins agree on who a user is: both of the above.
IdsAgree == IdStoredFirst /\ StableId
=============================================================================
