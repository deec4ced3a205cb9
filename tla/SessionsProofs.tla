--------------------------- MODULE SessionsProofs ---------------------------
(***************************************************************************)
(* Type correctness of Sessions, how long an idle session stays, why one   *)
(* ends, whose requests it counts and who holds its cookie, for any        *)
(* browsers, users, life times and intervals.                              *)
(***************************************************************************)
EXTENDS Sessions, SequenceTheorems, FiniteSetTheorems, TLAPS

\* A map of sessions whose ids and fields are well typed.
IsMap(ss) == DOMAIN ss \subseteq Ids /\ ss \in [DOMAIN ss -> SessionState]

\* The last cleaning kept nothing older than MaxAge, and the last round was
\* over before the next cleaning was due.
CleaningOK ==
  /\ roundEnd - last_session_cleanup <= CleanEvery
  /\ \A id \in DOMAIN sessions :
       last_session_cleanup - sessions[id].last_accessed <= MaxAge

\* The inductive invariant.
SInv == TypeOK /\ CleaningOK
-----------------------------------------------------------------------------
(* Helpers. *)

\* The constants that are numbers.
LEMMA Constants ==
  MaxAge \in Nat /\ CleanEvery \in Nat /\ MaxTime \in Nat /\ MaxDrawn \in Nat
  /\ MaxRestarts \in Nat
BY SessionsAssumption

\* The clock, the ids drawn and the map, as far as a request needs them.
LEMMA TypeFacts ==
  ASSUME TypeOK
  PROVE  /\ now \in 0..MaxTime /\ seed \in 0..MaxTime
         /\ drawn \in 0..(MaxDrawn + 1)
         /\ IsMap(sessions)
<1>1. now \in 0..MaxTime /\ seed \in 0..now /\ drawn \in 0..(MaxDrawn + 1)
  BY Zenon DEF TypeOK
<1>2. IsMap(sessions)
  BY Zenon DEF TypeOK, IsMap
<1> QED  BY <1>1, <1>2, Constants

\* A session that is not replaced by one used now is as it was.
OldOrNow(ss) ==
  \A id \in DOMAIN ss :
    \/ id \in DOMAIN sessions /\ ss[id].last_accessed = sessions[id].last_accessed
    \/ ss[id].last_accessed = now

\* A new session is well typed and used now.
LEMMA NewSessionType ==
  ASSUME TypeOK, NEW replacement \in BOOLEAN
  PROVE  NewSession(replacement) \in SessionState
         /\ NewSession(replacement).last_accessed = now
BY DEF TypeOK, NewSession, SessionState, Ips, Agents

\* createSession keeps the map a map and touches no other session.
LEMMA CreateLemma ==
  ASSUME TypeOK, NEW ss, IsMap(ss), OldOrNow(ss), NEW id \in Ids,
         NEW replacement \in BOOLEAN
  PROVE  LET new == createSession(ss, id, replacement)
         IN  IsMap(new) /\ OldOrNow(new) /\ id \in DOMAIN new
BY NewSessionType DEF createSession, IsMap, OldOrNow

\* So does destroySession.
LEMMA DestroyLemma ==
  ASSUME NEW ss, IsMap(ss), OldOrNow(ss), NEW id
  PROVE  LET new == destroySession(ss, id) IN IsMap(new) /\ OldOrNow(new)
BY DEF destroySession, Restrict, IsMap, OldOrNow

\* So does an update of one session that leaves it a session.
LEMMA UpdateLemma ==
  ASSUME NEW ss, IsMap(ss), OldOrNow(ss), NEW id \in DOMAIN ss,
         NEW s \in SessionState,
         s.last_accessed \in {ss[id].last_accessed, now}
  PROVE  LET new == [ss EXCEPT ![id] = s]
         IN  IsMap(new) /\ OldOrNow(new) /\ DOMAIN new = DOMAIN ss
BY DEF IsMap, OldOrNow
-----------------------------------------------------------------------------
(* One request. *)

Headers ==
  [name : {"WEBSERV_SESSION", "WEBSERVER_SESSION"}, id : Ids, maxAge : Nat]

\* What a request may do to the map, the ids and the cookies: it draws at
\* most n ids and sends at most m headers.
IsResult(r, n, m) ==
  /\ IsMap(r.sessions) /\ OldOrNow(r.sessions)
  /\ r.id \in DOMAIN r.sessions
  /\ r.drawn \in drawn..(drawn + n)
  /\ r.set \in Seq(Headers) /\ Len(r.set) <= m

\* The ids that are drawn are ids.
LEMMA IdType ==
  ASSUME TypeOK, NEW k \in 0..(MaxDrawn + 1)
  PROVE  generateSessionId(k) \in Ids
BY TypeFacts DEF generateSessionId, Ids

\* The two headers are headers.
LEMMA HeaderTypes ==
  ASSUME NEW id \in Ids
  PROVE  SetCookie(id) \in Headers /\ ExpireCookie("WEBSERVER_SESSION", id) \in Headers
BY Constants DEF SetCookie, ExpireCookie, Headers

\* A list of one and a list of two.
LEMMA ConcatLemma ==
  ASSUME NEW T, NEW x \in Seq(T), NEW y \in Seq(T), Len(x) <= 1, Len(y) = 2
  PROVE  x \o y \in Seq(T) /\ Len(x \o y) <= 3
<1>1. x \o y \in Seq(T) /\ Len(x \o y) = Len(x) + Len(y)
  BY ConcatProperties
<1> QED  BY <1>1

\* getOrCreateSession returns a session of the map it leaves.
LEMMA GetOrCreateLemma ==
  ASSUME TypeOK, NEW cookie
  PROVE  IsResult(getOrCreateSession(cookie), 1, 1)
<1> DEFINE r == getOrCreateSession(cookie)
<1>0. drawn \in Nat /\ drawn \in 0..(MaxDrawn + 1) /\ IsMap(sessions)
      /\ OldOrNow(sessions) /\ now \in 0..MaxTime
  BY TypeFacts, Constants DEF OldOrNow
<1>1. CASE usable(cookie)
  <2>1. cookie \in DOMAIN sessions /\ sessions[cookie] \in SessionState
    BY <1>1, <1>0 DEF usable, IsMap
  <2>2. [sessions[cookie] EXCEPT !.last_accessed = now] \in SessionState
        /\ [sessions[cookie] EXCEPT !.last_accessed = now].last_accessed = now
    BY <2>1, <1>0 DEF SessionState
  <2> DEFINE new == [sessions EXCEPT ![cookie] =
                       [sessions[cookie] EXCEPT !.last_accessed = now]]
  <2>3. IsMap(new) /\ OldOrNow(new) /\ DOMAIN new = DOMAIN sessions
    BY <2>1, <2>2, <1>0, UpdateLemma
  <2>4. r = [sessions |-> new, id |-> cookie, set |-> <<>>, drawn |-> drawn]
    BY <1>1 DEF getOrCreateSession
  <2>5. <<>> \in Seq(Headers) /\ Len(<<>>) = 0
    OBVIOUS
  <2> HIDE DEF new
  <2> QED  BY <1>0, <2>1, <2>3, <2>4, <2>5 DEF IsResult
<1>2. CASE ~usable(cookie)
  <2> DEFINE id == generateSessionId(drawn)
             kept == destroySession(sessions, cookie)
             new == createSession(kept, id, FALSE)
  <2>1. id \in Ids
    BY <1>0, IdType
  <2>2. IsMap(kept) /\ OldOrNow(kept)
    BY <1>0, DestroyLemma
  <2> HIDE DEF kept
  <2>3. IsMap(new) /\ OldOrNow(new) /\ id \in DOMAIN new
    BY <2>1, <2>2, CreateLemma
  <2>4. r = [sessions |-> new, id |-> id, set |-> <<SetCookie(id)>>,
             drawn |-> drawn + 1]
    BY <1>2 DEF getOrCreateSession, kept
  <2> HIDE DEF new, id
  <2>5. <<SetCookie(id)>> \in Seq(Headers) /\ Len(<<SetCookie(id)>>) = 1
    BY <2>1, HeaderTypes
  <2> QED  BY <1>0, <2>3, <2>4, <2>5 DEF IsResult
<1> QED  BY <1>1, <1>2

\* So does sessionOf, which may draw one id more.
LEMMA SessionOfLemma ==
  ASSUME TypeOK, NEW cookie, NEW user \in Users,
         sessionOf(cookie, user).drawn # drawn => drawn < MaxDrawn
  PROVE  IsResult(sessionOf(cookie, user), 2, 3)
<1> DEFINE got == getOrCreateSession(cookie)
           r == sessionOf(cookie, user)
<1>0. IsResult(got, 1, 1) /\ drawn \in Nat /\ MaxDrawn \in Nat
  BY GetOrCreateLemma, TypeFacts, Constants
<1>1. got \in [sessions : {got.sessions}, id : {got.id}, set : {got.set},
               drawn : {got.drawn}]
  BY DEF getOrCreateSession
<1> HIDE DEF got
<1>2. CASE sameUser(got.sessions[got.id], user)
  <2> DEFINE s == got.sessions[got.id]
             b == bound(s, user)
             new == [got.sessions EXCEPT ![got.id] = b]
  <2>1. s \in SessionState
    BY <1>0 DEF IsResult, IsMap
  <2>2. b \in SessionState /\ b.last_accessed = s.last_accessed
    <3>1. user.ip \in Ips /\ user.ua \in Agents
      BY DEF Ips, Agents
    <3> QED  BY <2>1, <3>1 DEF bound, SessionState
  <2> HIDE DEF b
  <2>3. IsMap(new) /\ OldOrNow(new) /\ DOMAIN new = DOMAIN got.sessions
    BY <1>0, <2>2, UpdateLemma DEF IsResult
  <2>4. r = [got EXCEPT !.sessions = new]
    BY <1>2 DEF sessionOf, got, b
  <2> HIDE DEF new
  <2>5. r.sessions = new /\ r.id = got.id /\ r.set = got.set /\ r.drawn = got.drawn
    BY <1>1, <2>4
  <2> QED  BY <1>0, <2>3, <2>5 DEF IsResult
<1>3. CASE ~sameUser(got.sessions[got.id], user)
  <2> DEFINE id == generateSessionId(got.drawn)
             kept == destroySession(got.sessions, got.id)
             new == createSession(kept, id, TRUE)
             set == got.set \o replaceCookies(got.id, id)
  <2>1. id \in Ids /\ got.id \in Ids
    <3>1. r.drawn = got.drawn + 1
      BY <1>3 DEF sessionOf, got
    <3>2. got.drawn \in drawn..(drawn + 1)
      BY <1>0 DEF IsResult
    <3>3. drawn < MaxDrawn
      BY <3>1, <3>2, <1>0
    <3>4. got.drawn \in 0..(MaxDrawn + 1)
      BY <3>2, <3>3, <1>0
    <3> QED  BY <3>4, <1>0, IdType DEF IsResult, IsMap
  <2>2. IsMap(kept) /\ OldOrNow(kept)
    BY <1>0, DestroyLemma DEF IsResult
  <2> HIDE DEF kept
  <2>3. IsMap(new) /\ OldOrNow(new) /\ id \in DOMAIN new
    BY <2>1, <2>2, CreateLemma
  <2>4. r = [sessions |-> new, id |-> id, set |-> set, drawn |-> got.drawn + 1]
    BY <1>3 DEF sessionOf, got, kept
  <2>5. set \in Seq(Headers) /\ Len(set) <= 3
    <3>1. replaceCookies(got.id, id) \in Seq(Headers)
          /\ Len(replaceCookies(got.id, id)) = 2
      BY <2>1, HeaderTypes DEF replaceCookies
    <3>2. got.set \in Seq(Headers) /\ Len(got.set) <= 1
      BY <1>0 DEF IsResult
    <3> QED  BY <3>1, <3>2, ConcatLemma
  <2> HIDE DEF new, id, set
  <2>6. got.drawn + 1 \in drawn..(drawn + 2)
    BY <1>0 DEF IsResult
  <2> QED  BY <2>3, <2>4, <2>5, <2>6 DEF IsResult
<1> QED  BY <1>2, <1>3

\* A browser keeps its cookie, or none, or one that was set.
LEMMA KeptType ==
  ASSUME now \in Nat, NEW old \in Cookies \cup {NoCookie},
         NEW set \in Seq(Headers), Len(set) <= 3
  PROVE  Kept(old, set) \in Cookies \cup {NoCookie}
<1> DEFINE I == {i \in 1..Len(set) : set[i].name = "WEBSERV_SESSION"}
           k == SelectLastInSeq(set, LAMBDA c : c.name = "WEBSERV_SESSION")
<1>1. k = IF I # {} THEN Max(I) ELSE 0
  BY DEF SelectLastInSeq
<1>2. ASSUME I # {}  PROVE Max(I) \in 1..Len(set)
  <2>1. I \subseteq 1..3
    OBVIOUS
  <2>2. \E m \in I : \A j \in I : m >= j
    <3>1. 1 \in I \/ 2 \in I \/ 3 \in I
      BY <1>2, <2>1
    <3> HIDE DEF I
    <3> QED  BY <3>1, <2>1
  <2>3. Max(I) \in I
    BY <2>2 DEF Max
  <2> QED  BY <2>3
<1>3. CASE I = {}
  BY <1>1, <1>3 DEF Kept
<1>4. CASE I # {}
  <2>1. k \in 1..Len(set) /\ k # 0
    BY <1>1, <1>2, <1>4
  <2>2. set[k] \in Headers
    BY <2>1
  <2> HIDE DEF k
  <2>3. [id |-> set[k].id, until |-> now + set[k].maxAge] \in Cookies
    BY <2>2 DEF Headers, Cookies
  <2>4. Kept(old, set) = IF set[k].maxAge = 0 THEN NoCookie
                         ELSE [id |-> set[k].id, until |-> now + set[k].maxAge]
    BY <2>1 DEF Kept, k
  <2> QED  BY <2>3, <2>4
<1> QED  BY <1>3, <1>4
-----------------------------------------------------------------------------
(* The invariant. *)

\* What TypeOK says of the browsers.
BrowsersOK ==
  /\ users \in [Browsers -> Users]
  /\ jar \in [Browsers -> Cookies \cup {NoCookie}]
  /\ served \in [Browsers -> Ids \cup {NoCookie}]

\* ... and of the clock and the loop.
NumbersOK ==
  /\ now \in 0..MaxTime
  /\ seed \in 0..now /\ drawn \in 0..(MaxDrawn + 1)
  /\ last_session_cleanup \in seed..now /\ roundEnd \in seed..now
  /\ restarts \in 0..MaxRestarts
ClockOK == inRound \in BOOLEAN /\ NumbersOK

\* The parts are the whole.
LEMMA TypeParts == TypeOK <=> ClockOK /\ IsMap(sessions) /\ BrowsersOK
BY Zenon DEF TypeOK, ClockOK, NumbersOK, IsMap, BrowsersOK

\* The invariant holds after a step that keeps its parts.
LEMMA SInvAfter ==
  ASSUME ClockOK', IsMap(sessions)', BrowsersOK', CleaningOK'  PROVE SInv'
BY Zenon DEF SInv, TypeOK, ClockOK, NumbersOK, IsMap, BrowsersOK

\* The numbers of the clock are numbers, for every session too.
LEMMA Numbers ==
  ASSUME ClockOK, IsMap(sessions)
  PROVE  /\ now \in Int /\ last_session_cleanup \in Int /\ roundEnd \in Int
         /\ now \in 0..MaxTime /\ seed \in 0..now
         /\ last_session_cleanup \in seed..now /\ roundEnd \in seed..now
         /\ \A id \in DOMAIN sessions : sessions[id].last_accessed \in Int
<1>1. /\ now \in 0..MaxTime /\ seed \in 0..now
      /\ last_session_cleanup \in seed..now /\ roundEnd \in seed..now
  BY Zenon DEF ClockOK, NumbersOK
<1>2. ASSUME NEW id \in DOMAIN sessions
      PROVE  sessions[id].last_accessed \in 0..MaxTime
  BY <1>2 DEF IsMap, SessionState
<1> QED  BY <1>1, <1>2, Constants

\* Initially.
LEMMA InitSInv == Init => SInv
<1> SUFFICES ASSUME Init PROVE SInv
  OBVIOUS
<1>1. ClockOK
  <2>1. NumbersOK
    BY Constants DEF Init, NumbersOK
  <2> QED  BY Zenon, <2>1 DEF Init, ClockOK
<1>2. IsMap(sessions)
  BY DEF Init, IsMap
<1>3. BrowsersOK
  BY DEF Init, BrowsersOK
<1>4. CleaningOK
  BY Constants DEF Init, CleaningOK
<1> QED  BY <1>1, <1>2, <1>3, <1>4, TypeParts DEF SInv

\* The map and the cleaning are as they were when no variable of theirs is
\* touched.
LEMMA SameCleaning ==
  ASSUME CleaningOK,
         UNCHANGED <<sessions, last_session_cleanup, roundEnd>>
  PROVE  CleaningOK'
BY DEF CleaningOK

LEMMA SameMap ==
  ASSUME IsMap(sessions), UNCHANGED sessions  PROVE IsMap(sessions)'
BY DEF IsMap

\* A request uses sessions now, at or after the last cleaning.
LEMMA RequestStep ==
  ASSUME SInv, NEW b \in Browsers, processHttpRequest(b)  PROVE SInv'
<1>0. TypeOK /\ ClockOK /\ BrowsersOK /\ IsMap(sessions) /\ CleaningOK
  BY Zenon, TypeParts DEF SInv
<1>1. PICK cookie \in Sent(b) :
        LET r == sessionOf(cookie, users[b]) IN
          /\ r.drawn # drawn => drawn < MaxDrawn
          /\ drawn' = r.drawn
          /\ \/ sessions' = r.sessions
             \/ sessions' = [r.sessions EXCEPT ![r.id].counted = @ \cup {users[b].ip}]
          /\ \/ /\ jar' = [jar EXCEPT ![b] = Kept(@, r.set)]
                /\ served' = [served EXCEPT ![b] = r.id]
             \/ UNCHANGED <<jar, served>>
  BY Zenon DEF processHttpRequest
<1> DEFINE r == sessionOf(cookie, users[b])
<1>2. UNCHANGED <<now, inRound, seed, last_session_cleanup, roundEnd, restarts, users>>
  BY Zenon DEF processHttpRequest
<1>3. users[b] \in Users /\ users[b].ip \in Ips
  BY <1>0 DEF BrowsersOK, Ips
<1>4. IsResult(r, 2, 3)
  BY <1>0, <1>1, <1>3, SessionOfLemma
<1>5. /\ drawn' = r.drawn
      /\ \/ sessions' = r.sessions
         \/ sessions' = [r.sessions EXCEPT ![r.id].counted = @ \cup {users[b].ip}]
      /\ \/ /\ jar' = [jar EXCEPT ![b] = Kept(@, r.set)]
            /\ served' = [served EXCEPT ![b] = r.id]
         \/ UNCHANGED <<jar, served>>
  BY <1>1, Zenon
<1> HIDE DEF r
<1>6. IsMap(r.sessions) /\ OldOrNow(r.sessions) /\ r.id \in DOMAIN r.sessions
  BY <1>4 DEF IsResult
<1>7. IsMap(sessions') /\ OldOrNow(sessions')
  <2> DEFINE s == [r.sessions[r.id] EXCEPT !.counted = @ \cup {users[b].ip}]
  <2>1. r.sessions[r.id] \in SessionState
    BY <1>6 DEF IsMap
  <2>2. s \in SessionState /\ s.last_accessed = r.sessions[r.id].last_accessed
    BY <2>1, <1>3 DEF SessionState
  <2> HIDE DEF s
  <2>3. IsMap([r.sessions EXCEPT ![r.id] = s]) /\ OldOrNow([r.sessions EXCEPT ![r.id] = s])
    BY <1>6, <2>2, UpdateLemma
  <2>4. sessions' = r.sessions \/ sessions' = [r.sessions EXCEPT ![r.id] = s]
    BY <1>5 DEF s
  <2> QED  BY <1>6, <2>3, <2>4
<1>8. ClockOK'
  <2>1. drawn' \in 0..(MaxDrawn + 1)
    <3>1. r.drawn # drawn => drawn < MaxDrawn
      BY <1>1, Zenon DEF r
    <3>2. r.drawn \in drawn..(drawn + 2) /\ drawn \in 0..(MaxDrawn + 1)
      BY <1>0, <1>4 DEF IsResult, ClockOK, NumbersOK
    <3> QED  BY <3>1, <3>2, <1>5, Constants
  <2> QED  BY <2>1, <1>0, <1>2 DEF ClockOK, NumbersOK
<1>9. BrowsersOK'
  <2>1. r.id \in Ids
    BY <1>6 DEF IsMap
  <2>2. Kept(jar[b], r.set) \in Cookies \cup {NoCookie}
    <3>1. now \in Nat /\ r.set \in Seq(Headers) /\ Len(r.set) <= 3
      BY <1>0, <1>4, TypeFacts, Constants DEF IsResult
    <3>2. jar[b] \in Cookies \cup {NoCookie}
      BY <1>0 DEF BrowsersOK
    <3> QED  BY <3>1, <3>2, KeptType
  <2> QED  BY <2>1, <2>2, <1>0, <1>2, <1>5 DEF BrowsersOK
<1>10. CleaningOK'
  <2>1. last_session_cleanup \in Int /\ now \in Int /\ last_session_cleanup <= now
    BY <1>0 DEF ClockOK, NumbersOK
  <2>2. \A id \in DOMAIN sessions' :
          last_session_cleanup - sessions'[id].last_accessed <= MaxAge
    BY <1>0, <1>7, <2>1, Constants DEF OldOrNow, CleaningOK
  <2> QED  BY <2>2, <1>0, <1>2 DEF CleaningOK
<1>11. IsMap(sessions)'
  BY <1>7 DEF IsMap
<1> QED  BY <1>8, <1>9, <1>10, <1>11, SInvAfter

\* The end of a round cleans when it is due.
LEMMA EndOfRoundStep ==
  ASSUME SInv, EndOfRound  PROVE SInv'
<1>0. TypeOK /\ ClockOK /\ BrowsersOK /\ IsMap(sessions) /\ CleaningOK
  BY Zenon, TypeParts DEF SInv
<1>1. /\ inRound' = FALSE
      /\ sessions' = IF cleanupIsDue THEN cleanExpiredSessions(sessions) ELSE sessions
      /\ last_session_cleanup' = cleanupTime
      /\ roundEnd' = now
      /\ UNCHANGED <<now, seed, drawn, restarts, users, jar, served>>
  BY DEF EndOfRound, browserVars
<1>2. cleanupTime \in seed..now
  BY <1>0 DEF cleanupTime, ClockOK, NumbersOK
<1>3. ClockOK'
  <2>1. now \in Nat /\ NumbersOK'
    BY <1>0, <1>1, <1>2, Constants DEF ClockOK, NumbersOK
  <2> QED  BY Zenon, <1>1, <2>1 DEF ClockOK
<1>4. BrowsersOK'
  BY <1>0, <1>1 DEF BrowsersOK
<1>5. IsMap(sessions)'
  <2>1. CASE cleanupIsDue
    BY <2>1, <1>0, <1>1 DEF IsMap, cleanExpiredSessions, Restrict
  <2>2. CASE ~cleanupIsDue
    BY <2>2, <1>0, <1>1 DEF IsMap
  <2> QED  BY <2>1, <2>2
<1>6. CleaningOK'
  <2>0. now \in Int /\ last_session_cleanup \in Int
    BY <1>0 DEF ClockOK, NumbersOK
  <2>1. CASE cleanupIsDue
    <3>1. sessions' = cleanExpiredSessions(sessions) /\ last_session_cleanup' = now
      BY <1>1, <2>1 DEF cleanupTime
    <3>2. \A id \in DOMAIN sessions' :
            id \in DOMAIN sessions /\ sessions'[id] = sessions[id] /\ ~isExpired(sessions[id])
      BY <3>1 DEF cleanExpiredSessions, Restrict
    <3>3. \A id \in DOMAIN sessions : sessions[id].last_accessed \in Int
      BY <1>0, Numbers
    <3>4. \A id \in DOMAIN sessions' : now - sessions'[id].last_accessed <= MaxAge
      BY <3>2, <3>3, <2>0, Constants DEF isExpired
    <3>5. roundEnd' - last_session_cleanup' <= CleanEvery
      <4>1. roundEnd' = now /\ last_session_cleanup' = now
        BY Zenon, <1>1, <3>1
      <4> QED  BY <4>1, <2>0, Constants
    <3> QED  BY <3>1, <3>4, <3>5 DEF CleaningOK
  <2>2. CASE ~cleanupIsDue
    BY <2>2, <1>0, <1>1, <2>0, Constants DEF cleanupTime, cleanupIsDue, CleaningOK
  <2> QED  BY <2>1, <2>2
<1> QED  BY <1>3, <1>4, <1>5, <1>6, SInvAfter

\* Every step keeps the invariant.
LEMMA NextSInv == SInv /\ [Next]_vars => SInv'
<1> SUFFICES ASSUME SInv, [Next]_vars  PROVE SInv'
  OBVIOUS
<1>0. TypeOK /\ ClockOK /\ BrowsersOK /\ IsMap(sessions) /\ CleaningOK
  BY Zenon, TypeParts DEF SInv
<1>1. CASE PollReturns
  <2>1. inRound' \in BOOLEAN /\ UNCHANGED <<now, serverVars, browserVars>>
    BY <1>1 DEF PollReturns
  <2>2. ClockOK' /\ BrowsersOK'
    BY <2>1, <1>0 DEF serverVars, browserVars, ClockOK, NumbersOK, BrowsersOK
  <2>3. IsMap(sessions)' /\ CleaningOK'
    BY <2>1, <1>0, SameMap, SameCleaning DEF serverVars
  <2> QED  BY <2>2, <2>3, SInvAfter
<1>2. CASE EndOfRound
  BY <1>2, EndOfRoundStep
<1>3. CASE Tick
  <2>1. now < MaxTime /\ now' = now + 1 /\ UNCHANGED <<inRound, serverVars, browserVars>>
    BY <1>3 DEF Tick
  <2>2. ClockOK'
    BY <2>1, <1>0, Constants DEF serverVars, ClockOK, NumbersOK
  <2>3. BrowsersOK'
    BY <2>1, <1>0 DEF browserVars, BrowsersOK
  <2>4. IsMap(sessions)' /\ CleaningOK'
    BY <2>1, <1>0, SameMap, SameCleaning DEF serverVars
  <2> QED  BY <2>2, <2>3, <2>4, SInvAfter
<1>4. CASE Restart
  <2>1. /\ restarts < MaxRestarts /\ restarts' = restarts + 1
        /\ inRound' = FALSE /\ seed' = now /\ drawn' = 0
        /\ sessions' = [id \in {} |-> {}]
        /\ last_session_cleanup' = now /\ roundEnd' = now
        /\ UNCHANGED <<now, users, jar, served>>
    BY <1>4 DEF Restart, browserVars
  <2>2. ClockOK'
    <3>1. NumbersOK'
      BY <1>0, <2>1, Constants DEF ClockOK, NumbersOK
    <3> QED  BY Zenon, <3>1, <2>1 DEF ClockOK
  <2>3. BrowsersOK'
    BY <2>1, <1>0 DEF BrowsersOK
  <2>4. IsMap(sessions)'
    BY <2>1 DEF IsMap
  <2>5. CleaningOK'
    BY <2>1, <1>0, Constants DEF ClockOK, NumbersOK, CleaningOK
  <2> QED  BY <2>2, <2>3, <2>4, <2>5, SInvAfter
<1>5. ASSUME NEW b \in Browsers, processHttpRequest(b)  PROVE SInv'
  BY <1>5, RequestStep
<1>6. ASSUME NEW b \in Browsers, Change(b)  PROVE SInv'
  <2>1. PICK u \in Users : users' = [users EXCEPT ![b] = u]
    BY <1>6 DEF Change
  <2>2. UNCHANGED <<now, inRound, serverVars, jar, served>>
    BY <1>6 DEF Change
  <2>3. ClockOK'
    BY <2>2, <1>0 DEF serverVars, ClockOK, NumbersOK
  <2>4. BrowsersOK'
    BY <2>1, <2>2, <1>0 DEF BrowsersOK
  <2>5. IsMap(sessions)' /\ CleaningOK'
    BY <2>2, <1>0, SameMap, SameCleaning DEF serverVars
  <2> QED  BY <2>3, <2>4, <2>5, SInvAfter
<1>7. CASE UNCHANGED vars
  <2>1. ClockOK' /\ BrowsersOK'
    BY <1>7, <1>0 DEF vars, ClockOK, NumbersOK, BrowsersOK
  <2>2. IsMap(sessions)' /\ CleaningOK'
    BY <1>7, <1>0, SameMap, SameCleaning DEF vars
  <2> QED  BY <2>1, <2>2, SInvAfter
<1> QED  BY <1>1, <1>2, <1>3, <1>4, <1>5, <1>6, <1>7 DEF Next

\* The invariant holds.
THEOREM SessionsInvariance == Spec => []SInv
BY InitSInv, NextSInv, PTL DEF Spec

\* Every variable keeps its type: SessionManager::sessions holds sessions
\* under ids it has drawn, and browsers hold cookies with such ids.
THEOREM SessionsTypeCorrectness == Spec => []TypeOK
<1>1. SInv => TypeOK
  BY DEF SInv
<1> QED  BY <1>1, SessionsInvariance, PTL

\* At the end of a round no session has been idle for longer than its life
\* and one interval of cleaning (NetworkHandler::run, the last lines of the
\* loop), whatever happened to it since.
THEOREM IdleSessionsGo == Spec => []CleanedInTime
<1>1. SInv => CleanedInTime
  <2> SUFFICES ASSUME SInv, NEW id \in DOMAIN sessions
               PROVE  roundEnd - sessions[id].last_accessed <= MaxAge + CleanEvery
    BY DEF CleanedInTime
  <2>1. ClockOK /\ IsMap(sessions) /\ CleaningOK
    BY Zenon, TypeParts DEF SInv
  <2> QED  BY <2>1, Numbers, Constants DEF CleaningOK
<1> QED  BY <1>1, SessionsInvariance, PTL
-----------------------------------------------------------------------------
(* Who a session and a cookie belong to. *)

\* The sessions there are were made by this run of the server, under ids it
\* has drawn.
RunIds == \A id \in DOMAIN sessions : id.seed = seed /\ id.n < drawn

\* An id a browser may still hold is not drawn again, unless the server was
\* restarted in the second it had started in.
JarId(id) ==
  /\ id.seed <= id.at /\ id.at <= now
  /\ id.seed < seed \/ id.n < drawn \/ (id.at = id.seed /\ restarts > 0)
JarIds == \A b \in Browsers : jar[b] # NoCookie => JarId(jar[b].id)

\* Only a replacement is without a user for a while, and counts one that is
\* not its own.
CountOK(s) ==
  IF s.replacement
  THEN \E ip : s.counted \subseteq IF s.client_ip = "" THEN {ip}
                                   ELSE {ip, s.client_ip}
  ELSE s.client_ip # "" /\ s.counted \subseteq {s.client_ip}
CountsOK == \A id \in DOMAIN sessions : CountOK(sessions[id])

\* The inductive invariant, on top of the types and the cleaning.
UInv ==
  /\ SInv /\ RunIds /\ JarIds /\ CountsOK
  /\ KeepsItsCookie /\ IdsAreApart

\* The id the next session gets is not in the map.
LEMMA NextIdIsNew ==
  ASSUME RunIds, TypeOK
  PROVE  generateSessionId(drawn) \notin DOMAIN sessions
<1>1. generateSessionId(drawn).n = drawn
  BY DEF generateSessionId
<1>2. drawn \in Nat
  BY TypeFacts, Constants
<1> QED  BY <1>1, <1>2 DEF RunIds

\* The three things a request does: it uses the session its cookie names,
\* it makes one that is its user's, or it replaces the one it named.
Used(r, cookie, user) ==
  /\ usable(cookie) /\ sameUser(sessions[cookie], user)
  /\ r.id = cookie /\ r.set = <<>> /\ r.drawn = drawn
  /\ DOMAIN r.sessions = DOMAIN sessions
  /\ \A id \in DOMAIN sessions : id # cookie => r.sessions[id] = sessions[id]
  /\ LET s == r.sessions[cookie]
     IN  /\ s.client_ip = user.ip
         /\ s.counted = sessions[cookie].counted
         /\ s.replacement = sessions[cookie].replacement

Made(r, cookie, user, replacement) ==
  LET id == generateSessionId(drawn)
  IN  /\ r.id = id /\ r.drawn = drawn + 1
      /\ DOMAIN r.sessions = (DOMAIN sessions \ {cookie}) \cup {id}
      /\ \A x \in DOMAIN sessions : x # cookie => r.sessions[x] = sessions[x]
      /\ LET s == r.sessions[id]
         IN  /\ s.client_ip = IF replacement THEN "" ELSE user.ip
             /\ s.counted = {} /\ s.replacement = replacement

Created(r, cookie, user) ==
  /\ ~usable(cookie)
  /\ r.set = <<SetCookie(generateSessionId(drawn))>>
  /\ Made(r, cookie, user, FALSE)

Replaced(r, cookie, user) ==
  /\ usable(cookie) /\ ~sameUser(sessions[cookie], user)
  /\ r.set = replaceCookies(cookie, generateSessionId(drawn))
  /\ Made(r, cookie, user, TRUE)

\* A new session has no user yet and has counted nothing.
LEMMA NewSessionFields ==
  ASSUME NEW replacement
  PROVE  /\ NewSession(replacement).client_ip = ""
         /\ NewSession(replacement).counted = {}
         /\ NewSession(replacement).replacement = replacement
<1>1. NewSession(replacement).client_ip = ""
  BY DEF NewSession
<1>2. NewSession(replacement).counted = {}
  BY DEF NewSession
<1>3. NewSession(replacement).replacement = replacement
  BY DEF NewSession
<1> QED  BY <1>1, <1>2, <1>3

\* A request does one of the three.
LEMMA SessionOfCases ==
  ASSUME TypeOK, RunIds, NEW cookie, NEW user \in Users
  PROVE  LET r == sessionOf(cookie, user)
         IN  Used(r, cookie, user) \/ Created(r, cookie, user) \/ Replaced(r, cookie, user)
<1> DEFINE r == sessionOf(cookie, user)
           got == getOrCreateSession(cookie)
           new == generateSessionId(drawn)
<1>0. /\ new \notin DOMAIN sessions /\ IsMap(sessions) /\ user.ip # ""
      /\ user.ip \in Ips /\ user.ua \in Agents
  BY NextIdIsNew, TypeFacts, SessionsAssumption DEF Ips, Agents
<1>1. CASE usable(cookie)
  <2> DEFINE old == sessions[cookie]
             s == [old EXCEPT !.last_accessed = now]
             ss == [sessions EXCEPT ![cookie] = s]
  <2>1. cookie \in DOMAIN sessions /\ old \in SessionState
    BY <1>0, <1>1 DEF usable, IsMap
  <2>2. got = [sessions |-> ss, id |-> cookie, set |-> <<>>, drawn |-> drawn]
    BY <1>1 DEF getOrCreateSession
  <2>3. /\ s.client_ip = old.client_ip /\ s.user_agent = old.user_agent
        /\ s.counted = old.counted
    BY <2>1 DEF SessionState
  <2>4. s.replacement = old.replacement
    BY <2>1 DEF SessionState
  <2>5. s \in SessionState
    <3>1. now \in 0..MaxTime
      BY TypeFacts
    <3> QED  BY <2>1, <3>1 DEF SessionState
  <2> HIDE DEF s
  <2>6. /\ ss[cookie] = s /\ DOMAIN ss = DOMAIN sessions
        /\ \A id \in DOMAIN sessions : id # cookie => ss[id] = sessions[id]
    BY <2>1
  <2>7. sameUser(s, user) <=> sameUser(old, user)
    BY <2>3 DEF sameUser
  <2> HIDE DEF ss, got
  <2>8. got.sessions = ss /\ got.id = cookie /\ got.set = <<>> /\ got.drawn = drawn
    BY <2>2
  <2>9. CASE sameUser(old, user)
    <3> DEFINE b == bound(s, user)
    <3>1. r = [got EXCEPT !.sessions = [ss EXCEPT ![cookie] = b]]
      BY <2>6, <2>7, <2>8, <2>9 DEF sessionOf, got
    <3>2. /\ r.sessions = [ss EXCEPT ![cookie] = b] /\ r.id = cookie
          /\ r.set = <<>> /\ r.drawn = drawn
      BY <2>2, <3>1
    <3>3. b.client_ip = user.ip /\ b.counted = s.counted
      BY <1>0, <2>3, <2>5, <2>7, <2>9 DEF bound, sameUser, SessionState
    <3>4. b.replacement = s.replacement
      BY <2>5 DEF bound, SessionState
    <3> HIDE DEF b, r
    <3>5. /\ r.sessions[cookie] = b /\ DOMAIN r.sessions = DOMAIN sessions
          /\ \A id \in DOMAIN sessions : id # cookie => r.sessions[id] = sessions[id]
      BY <2>1, <2>6, <3>2
    <3>6. Used(r, cookie, user)
      BY <1>1, <2>3, <2>4, <2>9, <3>2, <3>3, <3>4, <3>5 DEF Used
    <3> QED  BY <3>6 DEF r
  <2>10. CASE ~sameUser(old, user)
    <3> DEFINE kept == destroySession(ss, cookie)
               made == createSession(kept, new, TRUE)
               set == got.set \o replaceCookies(cookie, new)
    <3>1. r = [sessions |-> made, id |-> new, set |-> set, drawn |-> drawn + 1]
      BY <2>6, <2>7, <2>8, <2>10 DEF sessionOf, got
    <3>2. set = replaceCookies(cookie, new)
      BY <2>8 DEF replaceCookies
    <3>3. /\ DOMAIN kept = DOMAIN sessions \ {cookie}
          /\ \A x \in DOMAIN kept : kept[x] = sessions[x]
      BY <2>6 DEF destroySession, Restrict
    <3> HIDE DEF kept, new
    <3>4. /\ DOMAIN made = DOMAIN kept \cup {new} /\ made[new] = NewSession(TRUE)
          /\ \A x \in DOMAIN kept : made[x] = kept[x]
      <4>1. new \notin DOMAIN kept
        BY <1>0, <3>3 DEF new
      <4> QED  BY <4>1 DEF createSession
    <3>5. /\ made[new].client_ip = "" /\ made[new].counted = {}
          /\ made[new].replacement = TRUE
      BY <3>4, NewSessionFields, Zenon
    <3> HIDE DEF made, set
    <3>6. r.sessions = made /\ r.id = new /\ r.set = set /\ r.drawn = drawn + 1
      BY <3>1
    <3> HIDE DEF r
    <3>7. /\ DOMAIN r.sessions = (DOMAIN sessions \ {cookie}) \cup {new}
          /\ \A x \in DOMAIN sessions : x # cookie => r.sessions[x] = sessions[x]
      BY <3>3, <3>4, <3>6
    <3>8. Made(r, cookie, user, TRUE)
      BY <3>5, <3>6, <3>7, Zenon DEF Made, new
    <3>9. Replaced(r, cookie, user)
      BY <1>1, <2>10, <3>2, <3>6, <3>8 DEF Replaced, new
    <3> QED  BY <3>9 DEF r
  <2> QED  BY <2>9, <2>10
<1>2. CASE ~usable(cookie)
  <2> DEFINE kept == destroySession(sessions, cookie)
             made == createSession(kept, new, FALSE)
             s == NewSession(FALSE)
             b == bound(s, user)
  <2>1. got = [sessions |-> made, id |-> new, set |-> <<SetCookie(new)>>,
               drawn |-> drawn + 1]
    BY <1>2 DEF getOrCreateSession
  <2>2. /\ DOMAIN kept = DOMAIN sessions \ {cookie}
        /\ \A x \in DOMAIN kept : kept[x] = sessions[x]
    BY DEF destroySession, Restrict
  <2> HIDE DEF kept, new
  <2>3. /\ DOMAIN made = DOMAIN kept \cup {new} /\ made[new] = s
        /\ \A x \in DOMAIN kept : made[x] = kept[x]
    <3>1. new \notin DOMAIN kept
      BY <1>0, <2>2 DEF new
    <3> QED  BY <3>1 DEF createSession
  <2>4. s.client_ip = "" /\ s.counted = {} /\ s.replacement = FALSE
    BY NewSessionFields, Zenon
  <2>5. b = [s EXCEPT !.client_ip = user.ip, !.user_agent = user.ua]
    BY <2>4 DEF bound
  <2>6. b.client_ip = user.ip /\ b.counted = {} /\ b.replacement = FALSE
    BY <2>5 DEF NewSession
  <2> HIDE DEF made, s, b, got
  <2>7. /\ got.sessions = made /\ got.id = new /\ got.drawn = drawn + 1
        /\ got.set = <<SetCookie(new)>>
    BY <2>1
  <2>8. sameUser(got.sessions[got.id], user)
    BY <2>3, <2>4, <2>7 DEF sameUser
  <2>9. r = [got EXCEPT !.sessions = [made EXCEPT ![new] = b]]
    BY <2>3, <2>7, <2>8 DEF sessionOf, got, b
  <2>10. /\ r.sessions = [made EXCEPT ![new] = b] /\ r.id = new
         /\ r.drawn = drawn + 1 /\ r.set = <<SetCookie(new)>>
    BY <2>1, <2>9
  <2> HIDE DEF r
  <2>11. /\ DOMAIN r.sessions = DOMAIN made /\ r.sessions[new] = b
         /\ \A x \in DOMAIN made : x # new => r.sessions[x] = made[x]
    BY <2>3, <2>10
  <2>12. \A x \in DOMAIN sessions : x # cookie => r.sessions[x] = sessions[x]
    BY <1>0, <2>2, <2>3, <2>11
  <2>13. Made(r, cookie, user, FALSE)
    BY <2>2, <2>3, <2>6, <2>10, <2>11, <2>12 DEF Made, new
  <2>14. Created(r, cookie, user)
    BY <1>2, <2>10, <2>13 DEF Created, new
  <2> QED  BY <2>14 DEF r
<1> QED  BY <1>1, <1>2

\* What a browser keeps of the three kinds of response: the cookie it had,
LEMMA KeptNothing == \A old : Kept(old, <<>>) = old
<1> SUFFICES ASSUME NEW old  PROVE Kept(old, <<>>) = old
  OBVIOUS
<1>1. SelectLastInSeq(<<>>, LAMBDA c : c.name = "WEBSERV_SESSION") = 0
  BY DEF SelectLastInSeq
<1> QED  BY <1>1 DEF Kept

\* ... the cookie of a new session,
LEMMA KeptSet ==
  ASSUME NEW old, NEW id
  PROVE  Kept(old, <<SetCookie(id)>>) = [id |-> id, until |-> now + MaxAge]
<1> DEFINE set == <<SetCookie(id)>>
           I == {i \in 1..Len(set) : set[i].name = "WEBSERV_SESSION"}
           k == SelectLastInSeq(set, LAMBDA c : c.name = "WEBSERV_SESSION")
<1>1. I = {1} /\ set[1].id = id /\ set[1].maxAge = MaxAge
  BY DEF SetCookie
<1>2. Max(I) = 1
  <2> HIDE DEF I
  <2> QED  BY <1>1 DEF Max
<1>3. k = 1
  BY <1>1, <1>2 DEF SelectLastInSeq
<1> HIDE DEF set, k
<1>4. Kept(old, set) = IF k = 0 THEN old ELSE IF set[k].maxAge = 0 THEN NoCookie
                       ELSE [id |-> set[k].id, until |-> now + set[k].maxAge]
  BY DEF Kept, k
<1>5. k # 0 /\ set[k].maxAge # 0 /\ set[k].id = id /\ set[k].maxAge = MaxAge
  <2>1. MaxAge # 0
    BY SessionsAssumption
  <2>2. k # 0
    BY <1>3
  <2> QED  BY <1>1, <1>3, <2>1, <2>2, Zenon
<1>6. Kept(old, set) = [id |-> set[k].id, until |-> now + set[k].maxAge]
  BY <1>4, <1>5, Zenon
<1>7. Kept(old, set) = [id |-> id, until |-> now + MaxAge]
  BY <1>5, <1>6, Zenon
<1> QED  BY <1>7 DEF set

\* ... and of one that replaces another, whatever is expired before it.
LEMMA KeptReplaced ==
  ASSUME NEW old, NEW id, NEW other
  PROVE  Kept(old, replaceCookies(other, id)) = [id |-> id, until |-> now + MaxAge]
<1> DEFINE set == replaceCookies(other, id)
           I == {i \in 1..Len(set) : set[i].name = "WEBSERV_SESSION"}
           k == SelectLastInSeq(set, LAMBDA c : c.name = "WEBSERV_SESSION")
<1>1. Len(set) = 2 /\ set[1] = ExpireCookie("WEBSERVER_SESSION", other)
      /\ set[2] = SetCookie(id)
  BY DEF replaceCookies
<1> HIDE DEF set
<1>2. set[1].name # "WEBSERV_SESSION" /\ set[2].name = "WEBSERV_SESSION"
      /\ set[2].id = id /\ set[2].maxAge = MaxAge
  BY <1>1 DEF SetCookie, ExpireCookie
<1>3. I = {2}
  BY <1>1, <1>2
<1>4. Max(I) = 2
  <2> HIDE DEF I
  <2> QED  BY <1>3 DEF Max
<1>5. k = 2
  BY <1>3, <1>4 DEF SelectLastInSeq
<1> HIDE DEF k
<1>6. Kept(old, set) = IF k = 0 THEN old ELSE IF set[k].maxAge = 0 THEN NoCookie
                       ELSE [id |-> set[k].id, until |-> now + set[k].maxAge]
  BY DEF Kept, k
<1>7. k # 0 /\ set[k].maxAge # 0 /\ set[k].id = id /\ set[k].maxAge = MaxAge
  <2>1. MaxAge # 0
    BY SessionsAssumption
  <2>2. k # 0
    BY <1>5
  <2> QED  BY <1>2, <1>5, <2>1, <2>2, Zenon
<1>8. Kept(old, set) = [id |-> set[k].id, until |-> now + set[k].maxAge]
  BY <1>6, <1>7, Zenon
<1>9. Kept(old, set) = [id |-> id, until |-> now + MaxAge]
  BY <1>7, <1>8, Zenon
<1> QED  BY <1>9 DEF set

\* A new id is this run's, drawn now.
LEMMA NewId ==
  ASSUME SInv
  PROVE  LET id == generateSessionId(drawn)
         IN  id.seed = seed /\ id.at = now /\ id.n = drawn /\ drawn \in Nat
             /\ seed \in Nat /\ now \in Nat /\ seed <= now
<1>1. ClockOK
  BY Zenon, TypeParts DEF SInv
<1>2. /\ drawn \in Nat /\ seed \in Nat /\ now \in Nat /\ seed <= now
  BY <1>1, Constants DEF ClockOK, NumbersOK
<1>3. generateSessionId(drawn) = [at |-> now, seed |-> seed, n |-> drawn]
  BY Zenon DEF generateSessionId
<1> QED  BY <1>2, <1>3

\* A cookie that names a session is the browser's own.
LEMMA OwnCookie ==
  ASSUME TypeOK, NEW b \in Browsers, NEW cookie \in Sent(b), usable(cookie)
  PROVE  jar[b] # NoCookie /\ jar[b].id = cookie
<1>1. cookie \in Ids
  BY TypeFacts DEF IsMap, usable
<1>2. cookie # NoCookie
  BY <1>1, NoCookieAssumption
<1> QED  BY <1>2 DEF Sent

\* A request keeps ids, cookies and counts in order.
LEMMA RequestUsers ==
  ASSUME UInv, NEW b \in Browsers, processHttpRequest(b)
  PROVE  RunIds' /\ JarIds' /\ CountsOK' /\ KeepsItsCookie' /\ IdsAreApart'
<1>0. /\ TypeOK /\ IsMap(sessions) /\ BrowsersOK
      /\ RunIds /\ JarIds /\ CountsOK /\ KeepsItsCookie /\ IdsAreApart
  BY Zenon, TypeParts DEF UInv, SInv
<1>1. PICK cookie \in Sent(b) :
        LET r == sessionOf(cookie, users[b]) IN
          /\ r.drawn # drawn => drawn < MaxDrawn
          /\ drawn' = r.drawn
          /\ \/ sessions' = r.sessions
             \/ sessions' = [r.sessions EXCEPT ![r.id].counted = @ \cup {users[b].ip}]
          /\ \/ /\ jar' = [jar EXCEPT ![b] = Kept(@, r.set)]
                /\ served' = [served EXCEPT ![b] = r.id]
             \/ UNCHANGED <<jar, served>>
  BY Zenon DEF processHttpRequest
<1> DEFINE user == users[b]
           r == sessionOf(cookie, user)
           new == generateSessionId(drawn)
<1>2. UNCHANGED <<now, seed, restarts, users>>
  BY Zenon DEF processHttpRequest
<1>3. user \in Users /\ user.ip # ""
  BY <1>0, SessionsAssumption DEF BrowsersOK
<1>4. Used(r, cookie, user) \/ Created(r, cookie, user) \/ Replaced(r, cookie, user)
  BY <1>0, <1>3, SessionOfCases
<1>5. /\ drawn' = r.drawn
      /\ \/ sessions' = r.sessions
         \/ sessions' = [r.sessions EXCEPT ![r.id].counted = @ \cup {user.ip}]
      /\ \/ /\ jar' = [jar EXCEPT ![b] = Kept(@, r.set)]
            /\ served' = [served EXCEPT ![b] = r.id]
         \/ UNCHANGED <<jar, served>>
  BY <1>1, Zenon
<1>6. /\ new.seed = seed /\ new.at = now /\ new.n = drawn /\ drawn \in Nat
      /\ seed \in Nat /\ now \in Nat /\ seed <= now
  BY NewId DEF UInv
<1>7. new \notin DOMAIN sessions
  BY <1>0, NextIdIsNew
<1> HIDE DEF r, new, user
<1>8. \/ Used(r, cookie, user) /\ usable(cookie)
      \/ /\ r.id = new /\ r.drawn = drawn + 1
         /\ \A old : Kept(old, r.set) = [id |-> new, until |-> now + MaxAge]
         /\ DOMAIN r.sessions = (DOMAIN sessions \ {cookie}) \cup {new}
         /\ \A x \in DOMAIN sessions : x # cookie => r.sessions[x] = sessions[x]
         /\ r.sessions[new].counted = {}
         /\ \/ r.sessions[new].client_ip = user.ip /\ r.sessions[new].replacement = FALSE
            \/ r.sessions[new].client_ip = "" /\ r.sessions[new].replacement = TRUE
  <2>1. CASE Created(r, cookie, user)
    BY <2>1, KeptSet DEF Created, Made, new
  <2>2. CASE Replaced(r, cookie, user)
    <3>1. /\ r.id = new /\ r.drawn = drawn + 1
          /\ r.set = replaceCookies(cookie, new)
          /\ DOMAIN r.sessions = (DOMAIN sessions \ {cookie}) \cup {new}
          /\ \A x \in DOMAIN sessions : x # cookie => r.sessions[x] = sessions[x]
          /\ r.sessions[new].counted = {}
          /\ r.sessions[new].client_ip = "" /\ r.sessions[new].replacement = TRUE
      BY <2>2, Zenon DEF Replaced, Made, new
    <3>2. \A old : Kept(old, r.set) = [id |-> new, until |-> now + MaxAge]
      <4> SUFFICES ASSUME NEW old
                   PROVE  Kept(old, r.set) = [id |-> new, until |-> now + MaxAge]
        OBVIOUS
      <4>1. Kept(old, replaceCookies(cookie, new)) = [id |-> new, until |-> now + MaxAge]
        BY KeptReplaced
      <4> QED  BY <3>1, <4>1
    <3> QED  BY <3>1, <3>2
  <2>3. CASE Used(r, cookie, user)
    BY <2>3 DEF Used
  <2> QED  BY <1>4, <2>1, <2>2, <2>3
<1>9. DOMAIN sessions' = DOMAIN r.sessions /\ drawn' \in {drawn, drawn + 1}
  BY <1>5, <1>8 DEF Used
<1>10. IsMap(sessions)' /\ BrowsersOK'
  <2>1. SInv'
    BY RequestStep DEF UInv
  <2> QED  BY <2>1, Zenon DEF SInv, TypeOK, IsMap, BrowsersOK
<1>11. \A d \in Browsers :
         \/ jar'[d] = jar[d]
         \/ /\ d = b /\ r.id = new /\ drawn' = drawn + 1
            /\ jar'[d] = [id |-> new, until |-> now + MaxAge]
  <2>1. CASE Used(r, cookie, user)
    <3>1. jar' = [jar EXCEPT ![b] = Kept(jar[b], <<>>)] \/ jar' = jar
      BY <1>5, <2>1 DEF Used
    <3> QED  BY <1>0, <3>1, KeptNothing DEF BrowsersOK
  <2>2. CASE ~Used(r, cookie, user)
    <3>1. /\ r.id = new /\ drawn' = drawn + 1
          /\ Kept(jar[b], r.set) = [id |-> new, until |-> now + MaxAge]
      BY <1>5, <1>8, <2>2
    <3>2. jar' = [jar EXCEPT ![b] = Kept(jar[b], r.set)] \/ jar' = jar
      BY <1>5
    <3> QED  BY <1>0, <3>1, <3>2 DEF BrowsersOK
  <2> QED  BY <2>1, <2>2
<1>12. RunIds'
  <2> SUFFICES ASSUME NEW id \in DOMAIN sessions'
               PROVE  id.seed = seed /\ id.n < drawn'
    BY <1>2 DEF RunIds
  <2>1. id.n \in Nat
    BY <1>10 DEF IsMap, Ids
  <2>2. CASE id \in DOMAIN sessions
    BY <1>0, <1>6, <1>9, <2>1, <2>2 DEF RunIds
  <2>3. CASE id \notin DOMAIN sessions
    <3>1. id = new /\ drawn' = drawn + 1
      BY <1>5, <1>8, <1>9, <2>3 DEF Used
    <3> QED  BY <1>6, <3>1
  <2> QED  BY <2>2, <2>3
<1>13. \A d \in Browsers : jar[d] # NoCookie => jar[d].id.n \in Nat
  BY <1>0 DEF BrowsersOK, Cookies, Ids
<1>14. JarIds'
  <2> SUFFICES ASSUME NEW d \in Browsers, jar'[d] # NoCookie
               PROVE  JarId(jar[d].id)'
    BY DEF JarIds
  <2>1. CASE jar'[d] = jar[d]
    <3>1. JarId(jar[d].id) /\ jar[d].id.n \in Nat
      BY <1>0, <1>13, <2>1 DEF JarIds
    <3>2. jar[d].id.n < drawn => jar[d].id.n < drawn'
      BY <1>6, <1>9, <3>1
    <3> QED  BY <1>2, <2>1, <3>1, <3>2 DEF JarId
  <2>2. CASE jar'[d] # jar[d]
    <3>1. jar'[d].id = new /\ drawn' = drawn + 1
      BY <1>11, <2>2
    <3>2. new.seed <= new.at /\ new.at <= now /\ new.n < drawn'
      BY <1>6, <3>1
    <3> QED  BY <1>2, <3>1, <3>2 DEF JarId
  <2> QED  BY <2>1, <2>2
<1>15. ASSUME NEW d \in Browsers, jar[d] # NoCookie, jar[d].id = new
       PROVE  new.at = new.seed /\ restarts > 0
  <2>1. JarId(new)
    BY <1>0, <1>15 DEF JarIds
  <2> QED  BY <1>6, <2>1 DEF JarId
<1>16. IdsAreApart'
  <2> SUFFICES ASSUME NEW d \in Browsers, NEW e \in Browsers, d # e,
                      jar'[d] # NoCookie, jar'[e] # NoCookie,
                      jar'[d].id = jar'[e].id
               PROVE  jar'[d].id.at = jar'[d].id.seed /\ restarts > 0
    BY <1>2 DEF IdsAreApart
  <2>1. CASE jar'[d] = jar[d] /\ jar'[e] = jar[e]
    BY <1>0, <2>1 DEF IdsAreApart
  <2>2. CASE jar'[d] # jar[d]
    <3>1. jar'[d].id = new /\ jar'[e] = jar[e]
      BY <1>11, <2>2
    <3> QED  BY <1>15, <3>1
  <2>3. CASE jar'[e] # jar[e]
    <3>1. jar'[e].id = new /\ jar'[d] = jar[d]
      BY <1>11, <2>3
    <3> QED  BY <1>15, <3>1
  <2> QED  BY <2>1, <2>2, <2>3
<1>17. KeepsItsCookie'
  <2> SUFFICES ASSUME NEW d \in Browsers, served'[d] # NoCookie
               PROVE  jar'[d] # NoCookie /\ jar'[d].id = served'[d]
    BY DEF KeepsItsCookie
  <2>1. CASE d # b \/ UNCHANGED <<jar, served>>
    BY <1>0, <1>5, <2>1 DEF KeepsItsCookie, BrowsersOK
  <2>2. CASE d = b /\ ~UNCHANGED <<jar, served>>
    <3>1. /\ jar' = [jar EXCEPT ![b] = Kept(jar[b], r.set)]
          /\ served' = [served EXCEPT ![b] = r.id]
      BY <1>5, <2>2
    <3>2. jar'[b] = Kept(jar[b], r.set) /\ served'[b] = r.id
      BY <1>0, <3>1 DEF BrowsersOK
    <3>3. CASE Used(r, cookie, user)
      <4>1. r.id = cookie /\ Kept(jar[b], r.set) = jar[b] /\ usable(cookie)
        BY <3>3, KeptNothing DEF Used
      <4>2. jar[b] # NoCookie /\ jar[b].id = cookie
        BY <1>0, <4>1, OwnCookie
      <4> QED  BY <2>2, <3>2, <4>1, <4>2
    <3>4. CASE ~Used(r, cookie, user)
      <4>1. r.id = new /\ jar'[b] = [id |-> new, until |-> now + MaxAge]
        BY <1>8, <3>2, <3>4
      <4>2. new \in Ids
        BY <1>9, <1>10, <1>8, <3>4 DEF IsMap
      <4>3. [id |-> new, until |-> now + MaxAge] \in Cookies
        BY <1>6, <4>2, Constants DEF Cookies
      <4>4. jar'[b] # NoCookie /\ jar'[b].id = new
        BY <4>1, <4>3, NoCookieAssumption
      <4> QED  BY <2>2, <3>2, <4>1, <4>4
    <3> QED  BY <3>3, <3>4
  <2> QED  BY <2>1, <2>2
<1>18. CountsOK'
  <2>1. \A x \in DOMAIN r.sessions :
          x # r.id => x \in DOMAIN sessions /\ r.sessions[x] = sessions[x]
    BY <1>8 DEF Used
  <2>2. r.id \in DOMAIN r.sessions
    BY <1>8 DEF Used, usable
  <2> DEFINE s == r.sessions[r.id]
             t == [s EXCEPT !.counted = @ \cup {user.ip}]
  <2>3. s \in SessionState
    <3>1. IsResult(r, 2, 3)
      <4>1. sessionOf(cookie, user).drawn # drawn => drawn < MaxDrawn
        BY <1>1, Zenon DEF user
      <4> QED  BY <1>0, <1>3, <4>1, SessionOfLemma DEF r, user
    <3> QED  BY <3>1 DEF IsResult, IsMap
  <2>4. /\ t.client_ip = s.client_ip /\ t.counted = s.counted \cup {user.ip}
        /\ t.replacement = s.replacement
    <3>1. t.client_ip = s.client_ip /\ t.counted = s.counted \cup {user.ip}
      BY <2>3 DEF SessionState
    <3>2. t.replacement = s.replacement
      BY <2>3 DEF SessionState
    <3> QED  BY <3>1, <3>2
  <2>5. \A x \in DOMAIN sessions' : x # r.id => CountOK(sessions'[x])
    <3> SUFFICES ASSUME NEW x \in DOMAIN sessions', x # r.id
                 PROVE  CountOK(sessions'[x])
      OBVIOUS
    <3>1. sessions'[x] = r.sessions[x]
      BY <1>5, <1>9
    <3>2. CountOK(sessions[x])
      BY <1>0, <1>9, <2>1 DEF CountsOK
    <3> QED  BY <1>9, <2>1, <3>1, <3>2
  <2> HIDE DEF t
  <2>6. CountOK(s) /\ CountOK(t)
    <3>1. CASE Used(r, cookie, user)
      <4>1. /\ CountOK(sessions[cookie]) /\ sameUser(sessions[cookie], user)
            /\ s.client_ip = user.ip
            /\ s.counted = sessions[cookie].counted
            /\ s.replacement = sessions[cookie].replacement
            /\ sessions[cookie].counted \subseteq Ips
        BY <1>0, <3>1 DEF Used, usable, CountsOK, IsMap, SessionState
      <4> HIDE DEF s
      <4>2. sessions[cookie].client_ip \in {"", user.ip}
        BY <4>1 DEF sameUser
      <4>3. CASE s.replacement
        <5>1. PICK ip : sessions[cookie].counted \subseteq
                          IF sessions[cookie].client_ip = "" THEN {ip}
                          ELSE {ip, sessions[cookie].client_ip}
          BY <4>1, <4>3 DEF CountOK
        <5>2. s.counted \subseteq {ip, user.ip} /\ t.counted \subseteq {ip, user.ip}
          BY <2>4, <4>1, <4>2, <5>1
        <5> QED  BY <1>3, <2>4, <4>1, <4>3, <5>2 DEF CountOK
      <4>4. CASE ~s.replacement
        <5>1. s.counted \subseteq {user.ip} /\ t.counted \subseteq {user.ip}
          BY <2>4, <4>1, <4>2, <4>4 DEF CountOK
        <5> QED  BY <1>3, <2>4, <4>1, <4>4, <5>1 DEF CountOK
      <4> QED  BY <4>3, <4>4
    <3>2. CASE ~Used(r, cookie, user)
      <4>1. /\ s.counted = {}
            /\ \/ s.client_ip = user.ip /\ s.replacement = FALSE
               \/ s.client_ip = "" /\ s.replacement = TRUE
        BY <1>8, <3>2
      <4> HIDE DEF s
      <4> QED  BY <1>3, <2>4, <4>1 DEF CountOK
    <3> QED  BY <3>1, <3>2
  <2>7. CountOK(sessions'[r.id])
    BY <1>5, <2>2, <2>6 DEF t
  <2> QED  BY <2>5, <2>7 DEF CountsOK
<1> QED  BY <1>12, <1>14, <1>16, <1>17, <1>18

\* Initially there are no sessions and no cookies.
LEMMA InitUInv == Init => UInv
<1> SUFFICES ASSUME Init  PROVE UInv
  OBVIOUS
<1>1. SInv
  BY InitSInv
<1>2. RunIds /\ CountsOK
  BY DEF Init, RunIds, CountsOK
<1>3. JarIds /\ KeepsItsCookie /\ IdsAreApart
  BY DEF Init, JarIds, KeepsItsCookie, IdsAreApart
<1> QED  BY <1>1, <1>2, <1>3 DEF UInv

\* A step that draws no id, sets no cookie and makes no session keeps them
\* in order.
LEMMA SameUsers ==
  ASSUME UInv, UNCHANGED <<seed, drawn, restarts, jar, served>>,
         now' \in Nat, now' >= now,
         DOMAIN sessions' \subseteq DOMAIN sessions,
         \A id \in DOMAIN sessions' : sessions'[id] = sessions[id]
  PROVE  RunIds' /\ JarIds' /\ CountsOK' /\ KeepsItsCookie' /\ IdsAreApart'
<1>1. RunIds' /\ CountsOK'
  BY DEF UInv, RunIds, CountsOK
<1>2. KeepsItsCookie' /\ IdsAreApart'
  BY DEF UInv, KeepsItsCookie, IdsAreApart
<1>3. JarIds'
  <2> SUFFICES ASSUME NEW b \in Browsers, jar[b] # NoCookie
               PROVE  JarId(jar[b].id)'
    BY DEF JarIds
  <2>1. JarId(jar[b].id)
    BY DEF UInv, JarIds
  <2>2. jar[b].id.at \in Nat /\ now \in Nat
    <3>1. jar[b] \in Cookies
      BY Zenon DEF UInv, SInv, TypeOK
    <3>2. jar[b].id.at \in Nat
      BY <3>1 DEF Cookies, Ids
    <3>3. now \in Nat
      BY NewId DEF UInv
    <3> QED  BY <3>2, <3>3
  <2>3. jar[b].id.at <= now'
    BY <2>1, <2>2 DEF JarId
  <2> QED  BY <2>1, <2>3 DEF JarId
<1> QED  BY <1>1, <1>2, <1>3

\* A restart forgets the sessions, not the cookies: an id of the second it
\* happens in may be drawn again only when the run before began then too.
LEMMA RestartUsers ==
  ASSUME UInv, Restart
  PROVE  RunIds' /\ JarIds' /\ CountsOK' /\ KeepsItsCookie' /\ IdsAreApart'
<1>1. /\ restarts' = restarts + 1 /\ seed' = now /\ now' = now
      /\ sessions' = [id \in {} |-> {}] /\ UNCHANGED <<jar, served>>
  BY DEF Restart, browserVars
<1>2. restarts \in Nat /\ now \in Nat
  <2>1. restarts \in 0..MaxRestarts
    BY Zenon DEF UInv, SInv, TypeOK
  <2> QED  BY <2>1, NewId, Constants DEF UInv
<1>3. RunIds' /\ CountsOK'
  BY <1>1 DEF RunIds, CountsOK
<1>4. KeepsItsCookie' /\ IdsAreApart'
  BY <1>1, <1>2 DEF UInv, KeepsItsCookie, IdsAreApart
<1>5. JarIds'
  <2> SUFFICES ASSUME NEW b \in Browsers, jar[b] # NoCookie
               PROVE  JarId(jar[b].id)'
    BY <1>1 DEF JarIds
  <2>1. JarId(jar[b].id)
    BY DEF UInv, JarIds
  <2>2. jar[b].id.at \in Nat /\ jar[b].id.seed \in Nat
    <3>1. jar[b] \in Cookies
      BY Zenon DEF UInv, SInv, TypeOK
    <3> QED  BY <3>1 DEF Cookies, Ids
  <2>3. jar[b].id.seed <= jar[b].id.at /\ jar[b].id.at <= now
    BY <2>1 DEF JarId
  <2>4. jar[b].id.seed < now \/ jar[b].id.at = jar[b].id.seed
    BY <1>2, <2>2, <2>3
  <2>5. restarts' > 0
    BY <1>1, <1>2
  <2> QED  BY <1>1, <2>3, <2>4, <2>5 DEF JarId
<1> QED  BY <1>3, <1>4, <1>5

\* Every step keeps the invariant.
LEMMA NextUInv == UInv /\ [Next]_vars => UInv'
<1> SUFFICES ASSUME UInv, [Next]_vars  PROVE UInv'
  OBVIOUS
<1>0. SInv'
  BY NextSInv DEF UInv
<1> SUFFICES RunIds' /\ JarIds' /\ CountsOK' /\ KeepsItsCookie' /\ IdsAreApart'
  BY <1>0 DEF UInv
<1>1. now \in Nat /\ now >= now
  BY NewId DEF UInv
<1>2. CASE PollReturns \/ Tick \/ UNCHANGED vars
  <2>1. /\ UNCHANGED <<seed, drawn, restarts, jar, served, sessions>>
        /\ now' \in {now, now + 1}
    BY <1>2 DEF PollReturns, Tick, vars, serverVars, browserVars
  <2> QED  BY <1>1, <2>1, SameUsers
<1>3. CASE EndOfRound
  <2>1. UNCHANGED <<now, seed, drawn, restarts, jar, served>>
    BY <1>3 DEF EndOfRound, browserVars
  <2>2. sessions' = sessions \/ sessions' = cleanExpiredSessions(sessions)
    BY <1>3 DEF EndOfRound
  <2>3. /\ DOMAIN sessions' \subseteq DOMAIN sessions
        /\ \A id \in DOMAIN sessions' : sessions'[id] = sessions[id]
    BY <2>2 DEF cleanExpiredSessions, Restrict
  <2> QED  BY <1>1, <2>1, <2>3, SameUsers
<1>4. CASE Restart
  BY <1>4, RestartUsers
<1>5. ASSUME NEW b \in Browsers, processHttpRequest(b)
      PROVE  RunIds' /\ JarIds' /\ CountsOK' /\ KeepsItsCookie' /\ IdsAreApart'
  BY <1>5, RequestUsers
<1>6. ASSUME NEW b \in Browsers, Change(b)
      PROVE  RunIds' /\ JarIds' /\ CountsOK' /\ KeepsItsCookie' /\ IdsAreApart'
  <2>1. UNCHANGED <<now, seed, drawn, restarts, jar, served, sessions>>
    BY <1>6 DEF Change, serverVars
  <2> QED  BY <1>1, <2>1, SameUsers
<1> QED  BY <1>2, <1>3, <1>4, <1>5, <1>6 DEF Next

\* A pair has two members at most.
LEMMA PairSize ==
  ASSUME NEW x, NEW y, NEW S, S \subseteq {x, y}
  PROVE  Cardinality(S) <= 2
<1>1. IsFiniteSet({x}) /\ Cardinality({x}) = 1
  BY FS_Singleton
<1>2. IsFiniteSet({x} \cup {y}) /\ Cardinality({x} \cup {y}) \in {1, 2}
  BY <1>1, FS_AddElement
<1>3. {x} \cup {y} = {x, y}
  OBVIOUS
<1>4. /\ Cardinality(S) <= Cardinality({x, y}) /\ IsFiniteSet(S)
      /\ Cardinality({x, y}) \in {1, 2}
  BY <1>2, <1>3, FS_Subset
<1>5. Cardinality(S) \in Nat
  BY <1>4, FS_CardinalityType
<1> QED  BY <1>4, <1>5

\* The invariant about users and cookies holds.
THEOREM UsersInvariance == Spec => []UInv
BY InitUInv, NextUInv, PTL DEF Spec

\* Whatever responses are lost, sessions refused and cookies replaced, a
\* browser holds the cookie of the session that served it last.
THEOREM CookiesAreKept == Spec => []KeepsItsCookie
<1>1. UInv => KeepsItsCookie
  BY DEF UInv
<1> QED  BY <1>1, UsersInvariance, PTL

\* No session counts the requests of somebody else, a replacement those of
\* one other address at most.
THEOREM SessionsCountOneUser == Spec => []CountsOneUser
<1>1. UInv => CountsOneUser
  <2> SUFFICES ASSUME UInv, NEW id \in DOMAIN sessions
               PROVE  LET s == sessions[id]
                      IN  /\ s.counted \subseteq {s.client_ip} \/ s.replacement
                          /\ Cardinality(s.counted) <= 2
    BY DEF CountsOneUser
  <2> DEFINE s == sessions[id]
  <2>1. CountOK(s)
    BY DEF UInv, CountsOK
  <2> HIDE DEF s
  <2>2. CASE s.replacement
    <3>1. PICK ip : s.counted \subseteq IF s.client_ip = "" THEN {ip}
                                        ELSE {ip, s.client_ip}
      BY <2>1, <2>2 DEF CountOK
    <3>2. s.counted \subseteq {ip, s.client_ip}
      BY <3>1
    <3>3. Cardinality(s.counted) <= 2
      BY <3>2, PairSize
    <3> QED  BY <2>2, <3>3 DEF s
  <2>3. CASE ~s.replacement
    <3>1. s.counted \subseteq {s.client_ip, s.client_ip}
          /\ s.counted \subseteq {s.client_ip}
      BY <2>1, <2>3 DEF CountOK
    <3>2. Cardinality(s.counted) <= 2
      BY <3>1, PairSize
    <3> QED  BY <3>1, <3>2 DEF s
  <2> QED  BY <2>2, <2>3
<1> QED  BY <1>1, UsersInvariance, PTL

\* Two browsers never hold the same id, unless the server was restarted in
\* the very second it had started in.
THEOREM IdsStayApart == Spec => []IdsAreApart
<1>1. UInv => IdsAreApart
  BY DEF UInv
<1> QED  BY <1>1, UsersInvariance, PTL

\* A session ends because it expired or somebody else came with its cookie,
\* and one that expired is never used again.
THEOREM SessionsEndForAReason == Spec => EndsForAReason
<1>1. ASSUME UInv, Next  PROVE StepOfSessions
  <2> SUFFICES ASSUME restarts' = restarts, NEW x \in DOMAIN sessions
               PROVE  /\ x \notin DOMAIN sessions' =>
                           isExpired(sessions[x]) \/ Refused(x)
                      /\ x \in DOMAIN sessions' /\ isExpired(sessions[x]) =>
                           sessions'[x] = sessions[x]
    BY DEF StepOfSessions
  <2>1. CASE sessions' = sessions
    BY <2>1
  <2>2. CASE EndOfRound
    <3>1. sessions' = sessions \/ sessions' = cleanExpiredSessions(sessions)
      BY <2>2 DEF EndOfRound
    <3> QED  BY <3>1 DEF cleanExpiredSessions, Restrict
  <2>3. ASSUME NEW b \in Browsers, processHttpRequest(b)
        PROVE  /\ x \notin DOMAIN sessions' =>
                    isExpired(sessions[x]) \/ Refused(x)
               /\ x \in DOMAIN sessions' /\ isExpired(sessions[x]) =>
                    sessions'[x] = sessions[x]
    <3>1. PICK cookie \in Sent(b) :
            LET r == sessionOf(cookie, users[b])
            IN  \/ sessions' = r.sessions
                \/ sessions' = [r.sessions EXCEPT ![r.id].counted = @ \cup {users[b].ip}]
      BY <2>3, Zenon DEF processHttpRequest
    <3> DEFINE r == sessionOf(cookie, users[b])
               new == generateSessionId(drawn)
    <3>2. TypeOK /\ RunIds /\ users[b] \in Users
      BY <1>1, <2>3, Zenon DEF UInv, SInv, TypeOK
    <3>3. \/ Used(r, cookie, users[b]) \/ Created(r, cookie, users[b])
          \/ Replaced(r, cookie, users[b])
      BY <3>2, SessionOfCases
    <3>4. new \notin DOMAIN sessions
      BY <3>2, NextIdIsNew
    <3>5. \/ sessions' = r.sessions
          \/ sessions' = [r.sessions EXCEPT ![r.id].counted = @ \cup {users[b].ip}]
      BY <3>1
    <3> HIDE DEF r, new
    <3>6. /\ DOMAIN sessions' = DOMAIN r.sessions
          /\ \A y \in DOMAIN r.sessions : y # r.id => sessions'[y] = r.sessions[y]
      BY <3>5
    <3>7. CASE Used(r, cookie, users[b])
      <4>1. /\ DOMAIN r.sessions = DOMAIN sessions /\ r.id = cookie
            /\ \A y \in DOMAIN sessions : y # cookie => r.sessions[y] = sessions[y]
            /\ usable(cookie)
        BY <3>7 DEF Used
      <4> QED  BY <3>6, <4>1 DEF usable
    <3>8. CASE Created(r, cookie, users[b]) \/ Replaced(r, cookie, users[b])
      <4>1. /\ DOMAIN r.sessions = (DOMAIN sessions \ {cookie}) \cup {new}
            /\ r.id = new
            /\ \A y \in DOMAIN sessions : y # cookie => r.sessions[y] = sessions[y]
        BY <3>8, Zenon DEF Created, Replaced, Made, new
      <4>2. CASE x # cookie
        <5>1. x \in DOMAIN sessions' /\ sessions'[x] = sessions[x]
          BY <3>4, <3>6, <4>1, <4>2
        <5> QED  BY <5>1
      <4>3. CASE x = cookie
        <5>1. x \notin DOMAIN sessions'
          BY <3>4, <3>6, <4>1, <4>3
        <5>2. CASE Created(r, cookie, users[b])
          BY <4>3, <5>1, <5>2 DEF Created, usable
        <5>3. CASE Replaced(r, cookie, users[b])
          <6>1. Refused(x)
            BY <4>3, <5>3 DEF Replaced, Refused
          <6> QED  BY <5>1, <6>1
        <5> QED  BY <3>8, <5>2, <5>3
      <4> QED  BY <4>2, <4>3
    <3> QED  BY <3>3, <3>7, <3>8
  <2>4. CASE Restart
    <3>1. restarts \in Nat
      <4>1. restarts \in 0..MaxRestarts
        BY <1>1, Zenon DEF UInv, SInv, TypeOK
      <4> QED  BY <4>1, Constants
    <3> QED  BY <2>4, <3>1 DEF Restart
  <2>5. CASE PollReturns \/ Tick \/ \E b \in Browsers : Change(b)
    <3>1. sessions' = sessions
      BY <2>5 DEF PollReturns, Tick, Change, serverVars
    <3> QED  BY <3>1
  <2> QED  BY <1>1, <2>2, <2>3, <2>4, <2>5 DEF Next
<1>2. UInv /\ [Next]_vars => [StepOfSessions]_vars
  BY <1>1
<1> QED  BY <1>2, UsersInvariance, PTL DEF Spec, EndsForAReason
=============================================================================
