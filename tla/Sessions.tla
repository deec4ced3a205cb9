------------------------------ MODULE Sessions ------------------------------
(***************************************************************************)
(* Sessions: the map SessionManager keeps, what a request does to it       *)
(* (cookieUtils and the beginning of httpHandler::processHttpRequest), the *)
(* cleaning at the end of a round of the event loop, and, as the           *)
(* environment, browsers that keep the cookie, change their address, lose  *)
(* responses, and a server that is restarted with an empty map.            *)
(***************************************************************************)
EXTENDS Integers, FiniteSets, SequencesExt

CONSTANTS
  Browsers,
  Users,         \* what a browser may show: its ip and its User-Agent ua,
                 \* "" if it sends none
  MaxAge,        \* a session's max_age and a cookie's Max-Age (3600 s)
  CleanEvery,    \* FIVE_MIN_IN_SECONDS
  MaxTime,       \* BOUND: the last second
  MaxDrawn,      \* BOUND: session ids drawn between two restarts
  MaxRestarts,   \* BOUND
  NoCookie

ASSUME SessionsAssumption ==
  /\ MaxAge \in Nat \ {0} /\ CleanEvery \in Nat
  /\ MaxTime \in Nat /\ MaxDrawn \in Nat /\ MaxRestarts \in Nat
  /\ \A u \in Users : u.ip # ""

VARIABLES
  now,           \* time(NULL)
  inRound,       \* poll() has returned, the end of the round is to come
  seed,          \* srand(time(NULL)) in the constructor
  drawn,         \* how many ids were drawn from rand() since
  sessions,      \* SessionManager::sessions
  last_session_cleanup,
  roundEnd,      \* for checking: when the last round ended
  restarts,
  users,         \* each browser's address and User-Agent
  jar,           \* each browser's cookie WEBSERV_SESSION
  served         \* for checking: the session that made the last response it got

vars == <<now, inRound, seed, drawn, sessions, last_session_cleanup, roundEnd,
          restarts, users, jar, served>>
serverVars == <<seed, drawn, sessions, last_session_cleanup, roundEnd, restarts>>
browserVars == <<users, jar, served>>

Ips == {u.ip : u \in Users}
Agents == {u.ua : u \in Users} \cup {""}

\* "sess_" time "_" rand "_" rand: the seed and the number of draws determine
\* the two numbers, which are taken to differ when those do.
Ids == [at : 0..MaxTime, seed : 0..MaxTime, n : 0..(MaxDrawn + 1)]

\* data: client_ip and user_agent ("" while not set), and, for all the
\* counters, the addresses whose requests they count.  replacement: for
\* checking.
SessionState ==
  [last_accessed : 0..MaxTime, client_ip : Ips \cup {""}, user_agent : Agents,
   counted : SUBSET Ips, replacement : BOOLEAN]

Cookies == [id : Ids, until : Nat]

ASSUME NoCookieAssumption == NoCookie \notin Ids /\ NoCookie \notin Cookies
-----------------------------------------------------------------------------
(* Session and SessionManager. *)

isExpired(s) == now - s.last_accessed > MaxAge

\* Slip: the time alone.
IdOfTime(k) == [at |-> now, seed |-> seed, n |-> 0]

generateSessionId(k) == [at |-> now, seed |-> seed, n |-> k]

NewSession(replacement) ==
  [last_accessed |-> now, client_ip |-> "", user_agent |-> "",
   counted |-> {}, replacement |-> replacement]

\* map::insert: a session that is already there is returned as it is.
createSession(ss, id, replacement) ==
  [x \in DOMAIN ss \cup {id} |->
     IF x \in DOMAIN ss THEN ss[x] ELSE NewSession(replacement)]

destroySession(ss, id) == Restrict(ss, DOMAIN ss \ {id})

cleanExpiredSessions(ss) ==
  Restrict(ss, {id \in DOMAIN ss : ~isExpired(ss[id])})
-----------------------------------------------------------------------------
(* cookieUtils.  A result holds the map, the session's id, the Set-Cookie  *)
(* headers and the number of ids drawn.                                    *)

SetCookie(id) == [name |-> "WEBSERV_SESSION", id |-> id, maxAge |-> MaxAge]
ExpireCookie(name, id) == [name |-> name, id |-> id, maxAge |-> 0]

\* Slip: the expiry is left to the cleaning.
WhateverAge(id) == id \in DOMAIN sessions

usable(id) == id \in DOMAIN sessions /\ ~isExpired(sessions[id])

\* cookie: the id the request names, NoCookie without one.
getOrCreateSession(cookie) ==
  IF usable(cookie)
  THEN [sessions |-> [sessions EXCEPT ![cookie].last_accessed = now],
        id |-> cookie, set |-> <<>>, drawn |-> drawn]
  ELSE LET id == generateSessionId(drawn)
       IN  [sessions |-> createSession(destroySession(sessions, cookie), id, FALSE),
            id |-> id, set |-> <<SetCookie(id)>>, drawn |-> drawn + 1]

\* Slip: the user agent alone is compared.
SameAgent(s, u) == s.client_ip = "" \/ s.user_agent \in {"", u.ua}

sameUser(s, u) ==
  \/ s.client_ip = ""
  \/ s.client_ip = u.ip /\ s.user_agent \in {"", u.ua}

\* Slip: address and agent are swapped.
BoundSwapped(s, u) ==
  IF s.client_ip = "" THEN [s EXCEPT !.client_ip = u.ua, !.user_agent = u.ip]
  ELSE s

\* The first request that is validated binds the session to its user.
bound(s, u) ==
  IF s.client_ip = "" THEN [s EXCEPT !.client_ip = u.ip, !.user_agent = u.ua]
  ELSE s

\* Slip: the right name, in the wrong order.
ExpireLast(old, id) ==
  <<SetCookie(id), ExpireCookie("WEBSERV_SESSION", old)>>

\* The name that is expired is not the one that was set.
replaceCookies(old, id) ==
  <<ExpireCookie("WEBSERVER_SESSION", old), SetCookie(id)>>

\* The session of a request.  One that belongs to somebody else is destroyed
\* and replaced by one that is not bound yet.
sessionOf(cookie, user) ==
  LET got == getOrCreateSession(cookie)
      id == generateSessionId(got.drawn)
  IN  IF sameUser(got.sessions[got.id], user)
      THEN [got EXCEPT !.sessions[got.id] = bound(@, user)]
      ELSE [sessions |-> createSession(destroySession(got.sessions, got.id), id, TRUE),
            id |-> id, set |-> got.set \o replaceCookies(got.id, id),
            drawn |-> got.drawn + 1]
-----------------------------------------------------------------------------
(* The browsers. *)

\* The last Set-Cookie header of the name counts; a Max-Age of 0 removes.
Kept(old, set) ==
  LET k == SelectLastInSeq(set, LAMBDA c : c.name = "WEBSERV_SESSION")
  IN  IF k = 0 THEN old
      ELSE IF set[k].maxAge = 0 THEN NoCookie
      ELSE [id |-> set[k].id, until |-> now + set[k].maxAge]

\* What the browser may send: the cookie; none once its Max-Age is over,
\* unless its clock is late or it is a script that does not care.
Sent(b) ==
  IF jar[b] = NoCookie THEN {NoCookie}
  ELSE {jar[b].id} \cup {c \in {NoCookie} : now > jar[b].until}
-----------------------------------------------------------------------------
(* The actions. *)

Init ==
  /\ now = 0 /\ inRound = FALSE
  /\ seed = 0 /\ drawn = 0 /\ sessions = [id \in {} |-> {}]
  /\ last_session_cleanup = 0 /\ roundEnd = 0 /\ restarts = 0
  /\ users \in [Browsers -> Users]
  /\ jar = [b \in Browsers |-> NoCookie]
  /\ served = [b \in Browsers |-> NoCookie]

\* An event of any kind wakes the loop.
PollReturns ==
  /\ ~inRound /\ inRound' = TRUE
  /\ UNCHANGED <<now, serverVars, browserVars>>

\* processHttpRequest, as far as sessions go.  A GET is always counted, other
\* requests when they succeed.  The response may not arrive.
processHttpRequest(b) ==
  /\ inRound
  /\ \E cookie \in Sent(b) :
       LET r == sessionOf(cookie, users[b]) IN
         /\ r.drawn # drawn => drawn < MaxDrawn
         /\ drawn' = r.drawn
         /\ \/ sessions' = r.sessions
            \/ sessions' = [r.sessions EXCEPT ![r.id].counted = @ \cup {users[b].ip}]
         /\ \/ /\ jar' = [jar EXCEPT ![b] = Kept(@, r.set)]
               /\ served' = [served EXCEPT ![b] = r.id]
            \/ UNCHANGED <<jar, served>>
  /\ UNCHANGED <<now, inRound, seed, last_session_cleanup, roundEnd, restarts, users>>

cleanupIsDue == now - last_session_cleanup > CleanEvery

\* Slip: every round counts as a cleaning.
RoundTime == now

cleanupTime == IF cleanupIsDue THEN now ELSE last_session_cleanup

EndOfRound ==
  /\ inRound /\ inRound' = FALSE
  /\ sessions' = IF cleanupIsDue THEN cleanExpiredSessions(sessions) ELSE sessions
  /\ last_session_cleanup' = cleanupTime
  /\ roundEnd' = now
  /\ UNCHANGED <<now, seed, drawn, restarts, browserVars>>

Tick ==
  /\ now < MaxTime /\ now' = now + 1
  /\ UNCHANGED <<inRound, serverVars, browserVars>>

\* The browser moves to another network, or is updated.
Change(b) ==
  /\ \E u \in Users : users' = [users EXCEPT ![b] = u]
  /\ UNCHANGED <<now, inRound, serverVars, jar, served>>

\* Another process: the map was in memory only.
Restart ==
  /\ restarts < MaxRestarts /\ restarts' = restarts + 1
  /\ inRound' = FALSE
  /\ seed' = now /\ drawn' = 0 /\ sessions' = [id \in {} |-> {}]
  /\ last_session_cleanup' = now /\ roundEnd' = now
  /\ UNCHANGED <<now, browserVars>>

Next ==
  \/ PollReturns \/ EndOfRound \/ Tick \/ Restart
  \/ \E b \in Browsers : processHttpRequest(b) \/ Change(b)

Spec == Init /\ [][Next]_vars
-----------------------------------------------------------------------------
(* Properties. *)

\* Type correctness.
TypeOK ==
  /\ now \in 0..MaxTime /\ inRound \in BOOLEAN
  /\ seed \in 0..now /\ drawn \in 0..(MaxDrawn + 1)
  /\ DOMAIN sessions \subseteq Ids
  /\ sessions \in [DOMAIN sessions -> SessionState]
  /\ last_session_cleanup \in seed..now /\ roundEnd \in seed..now
  /\ restarts \in 0..MaxRestarts
  /\ users \in [Browsers -> Users]
  /\ jar \in [Browsers -> Cookies \cup {NoCookie}]
  /\ served \in [Browsers -> Ids \cup {NoCookie}]

\* A browser that got a response keeps, whatever was lost before or since,
\* the cookie of the session its request was counted in.
KeepsItsCookie ==
  \A b \in Browsers : served[b] # NoCookie =>
    jar[b] # NoCookie /\ jar[b].id = served[b]

\* A session counts the requests of one address only; the replacement of a
\* session that was refused counts those of two at most, since it is bound
\* by the second request.
CountsOneUser ==
  \A id \in DOMAIN sessions :
    LET s == sessions[id]
    IN  /\ s.counted \subseteq {s.client_ip} \/ s.replacement
        /\ Cardinality(s.counted) <= 2

\* Two browsers hold the same id only when the server was restarted within
\* the second it had started in: the seed is the time in seconds.
IdsAreApart ==
  \A b, d \in Browsers :
    b # d /\ jar[b] # NoCookie /\ jar[d] # NoCookie /\ jar[b].id = jar[d].id
      => jar[b].id.at = jar[b].id.seed /\ restarts > 0

\* Cleaning happens at the end of a round only, and not of every round: then
\* no session is left that has been idle for MaxAge and a whole interval.
CleanedInTime ==
  \A id \in DOMAIN sessions :
    roundEnd - sessions[id].last_accessed <= MaxAge + CleanEvery

Refused(id) ==
  \E b \in Browsers : id \in Sent(b) /\ ~sameUser(sessions[id], users[b])
StepOfSessions ==
  restarts' = restarts =>
    \A id \in DOMAIN sessions :
      /\ id \notin DOMAIN sessions' => isExpired(sessions[id]) \/ Refused(id)
      /\ id \in DOMAIN sessions' /\ isExpired(sessions[id]) =>
           sessions'[id] = sessions[id]

\* A session ends only when it has expired or somebody else came with its
\* cookie; and one that has expired is never used again, cleaned or not.
EndsForAReason == [][StepOfSessions]_vars
=============================================================================
