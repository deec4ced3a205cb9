--------------------------- MODULE ConnectionProofs ---------------------------
(***************************************************************************)
(* What the event loop does for each connection, for any number of         *)
(* listeners, connections and descriptors, any request and response sizes: *)
(* the safety invariants that relate clients, descriptors and connections, *)
(* and that the loop implements ConnectionLife.                            *)
(***************************************************************************)
EXTENDS NetworkHandlerProofs, FiniteSetTheorems

\* Every open descriptor is an open connection, and the other way round.
Holders ==
  /\ \A f \in Open : conn[fdtab[f]].st = "open"
  /\ \A f, g \in Open : fdtab[f] = fdtab[g] => f = g
  /\ \A c \in Conns : conn[c].st = "open" => \E f \in Open : fdtab[f] = c

\* However run() ends, nothing is left open and nobody can connect.
DownIsDown ==
  pc \in Dead => /\ Open = {} /\ listening = {}
                 /\ \A c \in Conns : conn[c].st \in {"new", "closed"}

\* A connection that is not accepted yet has lost nothing but to a reset and
\* was given nothing; only a closed one has a reason for it.
ConnOK(c) ==
  /\ c.st \in {"new", "queued"} =>
       c.owed = 0 /\ c.wrote = 0 /\ c.rx <= c.sent /\ (~c.rst => c.rx = c.sent)
  /\ c.st # "closed" => c.why = "none"
  /\ c.why = "answered" => c.owed > 0 /\ c.wrote = c.owed
  /\ c.why = "answered" /\ c.sent = Need => ~c.abort

ConnsOK == \A c \in Conns : ConnOK(conn[c])

\* A client object and the connection behind its descriptor account for the
\* same units; a response that is out in full is not kept.
Asked(cl) == IF cl.response_buffer > 0 THEN Need ELSE 0

Belongs(cl, c) ==
  /\ c.lsn = cl.server
  /\ cl.response_buffer = c.owed /\ cl.response_offset = c.wrote
  /\ cl.response_buffer > 0 => cl.response_offset < cl.response_buffer
  /\ c.rx + cl.request_buffer + Asked(cl) <= c.sent
  /\ ~c.rst => c.rx + cl.request_buffer + Asked(cl) = c.sent

Pairs ==
  pc \notin Clean =>
    \A f \in DOMAIN clients : Belongs(clients[f], conn[fdtab[f]])

\* What poll() reported of an entry is still true while the loop has not
\* passed it: only the server reads from its sockets and writes to them.
InRound == {"scan", "read", "process", "write"}

ReportLasts(k) ==
  LET c == conn[fdtab[fds[k].fd]]
  IN  /\ "OUT" \in fds[k].revents => WritableConn(c)
      /\ "IN" \in fds[k].revents /\ (k > i \/ pc \in {"scan", "read"})
           => ReadableConn(c)

ReportsLast ==
  pc \in InRound =>
    \A k \in DOMAIN fds : k >= i /\ fds[k].fd \in Open => ReportLasts(k)

\* Where processClientEvent is, of the client that is being processed.
EventOK ==
  /\ pc = "read" => "IN" \in cur.revents
  /\ pc = "write" => clients[cur.fd].response_buffer > 0

\* The inductive invariant, on top of the tables' agreement.
JInv ==
  /\ IInv /\ Holders /\ DownIsDown /\ ConnsOK /\ Pairs /\ ReportsLast
  /\ EventOK
-----------------------------------------------------------------------------
(* Helpers. *)

\* close() changes what a connection is, not what was sent and written.
LEMMA EndedFields ==
  ASSUME NEW c \in ConnState, NEW why \in Whys
  PROVE  LET e == Ended(c, why)
         IN  /\ e.st = "closed" /\ e.why = why
             /\ e.owed = c.owed /\ e.wrote = c.wrote /\ e.sent = c.sent
             /\ e.fin = c.fin /\ e.rst = c.rst
             /\ c.rx = 0 => ~e.abort
<1>1. (c.rx > 0) \in BOOLEAN
  OBVIOUS
<1>2. PICK unread \in BOOLEAN : unread = (c.rx > 0)
  BY <1>1
<1> DEFINE e == [c EXCEPT !.st = "closed", !.why = why, !.abort = unread,
                          !.rx = 0, !.flight = 0]
<1>3. Ended(c, why) = e
  BY <1>2, Zenon DEF Ended
<1>4. /\ e.st = "closed" /\ e.why = why
      /\ e.owed = c.owed /\ e.wrote = c.wrote /\ e.sent = c.sent
  BY DEF ConnState
<1>5. e.fin = c.fin /\ e.rst = c.rst
  BY DEF ConnState
<1>6. e.abort = unread
  <2>1. "abort" \in DOMAIN c
    BY DEF ConnState
  <2> QED  BY <2>1, Zenon
<1>7. c.rx = 0 => ~unread
  <2>1. c.rx = 0 => ~(c.rx > 0)
    OBVIOUS
  <2> QED  BY <1>2, <2>1, Zenon
<1> QED  BY <1>3, <1>4, <1>5, <1>6, <1>7, Zenon

\* Behind an open descriptor are a connection and, in the loop, its client.
LEMMA OpenLemma ==
  ASSUME IInv, NEW f \in Open
  PROVE  /\ f \in ClientFds /\ fdtab[f] \in Conns
         /\ conn[fdtab[f]] \in ConnState
         /\ pc \notin Clean => f \in DOMAIN clients /\ clients[f] \in ClientState
<1>1. f \in ClientFds /\ fdtab[f] \in Conns
  BY DEF IInv, TypeOK, Open
<1>2. conn[fdtab[f]] \in ConnState
  BY <1>1 DEF IInv, TypeOK
<1>3. pc \notin Clean => f \in DOMAIN clients
  BY DEF IInv, FdAgreement, TablesAgree
<1>4. \A g \in DOMAIN clients : clients[g] \in ClientState
  BY DEF IInv, TypeOK
<1> QED  BY <1>1, <1>2, <1>3, <1>4

\* In the loop every client has an open descriptor.
LEMMA ClientLemma ==
  ASSUME IInv, pc \notin Clean, NEW f \in DOMAIN clients
  PROVE  f \in Open
BY DEF IInv, FdAgreement, TablesAgree

\* The client that is being processed.
LEMMA CurLemma ==
  ASSUME IInv, pc \in {"read", "process", "write"}
  PROVE  /\ i \in DOMAIN fds /\ fds[i] = cur /\ cur.fd \in Open
         /\ pc \notin Clean /\ pc \notin Dead
         /\ cur.fd \in ClientFds /\ fdtab[cur.fd] \in Conns
         /\ conn[fdtab[cur.fd]] \in ConnState
         /\ cur.fd \in DOMAIN clients /\ clients[cur.fd] \in ClientState
<1>1. /\ i \in DOMAIN fds /\ fds[i] = cur /\ cur.fd \in Open
      /\ pc \notin Clean /\ pc \notin Dead
  BY DEF IInv, FdAgreement, Clean, Dead
<1> QED  BY <1>1, OpenLemma

\* The entries of the vector are for different descriptors.
LEMMA EntriesDiffer ==
  ASSUME IInv, pc \notin Clean, NEW j \in DOMAIN fds, NEW k \in DOMAIN fds,
         fds[j].fd = fds[k].fd
  PROVE  j = k
BY DEF IInv, FdAgreement, TablesAgree

\* A step that changes neither connections nor tables keeps what they say.
LEMMA SameConns ==
  ASSUME JInv, UNCHANGED <<clients, fdtab, listening, conn>>,
         pc' \notin Dead, pc \notin Clean \/ pc = "start"
  PROVE  Holders' /\ DownIsDown' /\ ConnsOK' /\ Pairs'
<1>1. Holders'
  BY DEF JInv, Holders, Open
<1>2. ConnsOK'
  BY DEF JInv, ConnsOK
<1>3. DownIsDown'
  BY DEF DownIsDown
<1>4. Pairs'
  BY DEF JInv, IInv, NothingOpenYet, Pairs
<1> QED  BY <1>1, <1>2, <1>3, <1>4

\* A step that changes one connection, and the client that belongs to it,
\* keeps what the others say.
LEMMA OneConn ==
  ASSUME JInv, pc \notin Dead, pc' \notin Dead,
         pc' \notin Clean => pc \notin Clean,
         UNCHANGED <<fdtab, listening>>,
         NEW c \in Conns, NEW r \in ConnState, conn' = [conn EXCEPT ![c] = r],
         r.st = "open" <=> conn[c].st = "open", ConnOK(r),
         DOMAIN clients' = DOMAIN clients,
         \A f \in DOMAIN clients : fdtab[f] # c => clients'[f] = clients[f],
         \A f \in DOMAIN clients : pc \notin Clean /\ fdtab[f] = c
                                     => Belongs(clients'[f], r)
  PROVE  Holders' /\ DownIsDown' /\ ConnsOK' /\ Pairs'
<1>1. /\ conn'[c] = r /\ \A d \in Conns : d # c => conn'[d] = conn[d]
      /\ Open' = Open
  BY DEF JInv, IInv, TypeOK, Open
<1>2. \A d \in Conns : conn'[d].st = "open" <=> conn[d].st = "open"
  BY <1>1
<1>3. \A f \in Open : fdtab[f] \in Conns
  BY DEF JInv, IInv, TypeOK, Open
<1>4. Holders'
  BY <1>1, <1>2, <1>3 DEF JInv, Holders
<1>5. ConnsOK'
  BY <1>1 DEF JInv, ConnsOK
<1>6. DownIsDown'
  BY DEF DownIsDown
<1>7. ASSUME pc' \notin Clean, NEW f \in DOMAIN clients'
      PROVE  Belongs(clients'[f], conn'[fdtab'[f]])
  <2>1. f \in DOMAIN clients /\ f \in Open /\ pc \notin Clean
    BY <1>7, ClientLemma DEF JInv
  <2>2. CASE fdtab[f] = c
    BY <2>1, <2>2, <1>1
  <2>3. CASE fdtab[f] # c
    <3>1. clients'[f] = clients[f] /\ conn'[fdtab'[f]] = conn[fdtab[f]]
      BY <2>1, <2>3, <1>1, <1>3
    <3> QED  BY <2>1, <3>1 DEF JInv, Pairs
  <2> QED  BY <2>2, <2>3
<1> QED  BY <1>4, <1>5, <1>6, <1>7 DEF Pairs

\* What was reported lasts through a step that leaves the tables alone, if
\* the connections it changes stay as ready or lie behind the loop.
LEMMA ReportsLemma ==
  ASSUME JInv, UNCHANGED <<fds, fdtab>>, pc \in InRound,
         i' >= i, i' \in Nat, pc' \in InRound,
         pc' \in {"scan", "read"} => pc \in {"scan", "read"} \/ i' > i,
         \A k \in DOMAIN fds :
           k >= i' /\ fds[k].fd \in Open =>
             LET c == conn[fdtab[fds[k].fd]]
                 d == conn'[fdtab[fds[k].fd]]
             IN  /\ WritableConn(c) => WritableConn(d)
                 /\ k > i' \/ pc' \in {"scan", "read"} =>
                      (ReadableConn(c) => ReadableConn(d))
  PROVE  ReportsLast'
<1>1. Open' = Open /\ i \in Nat
  BY DEF Open, JInv, IInv, TypeOK
<1> SUFFICES ASSUME NEW k \in DOMAIN fds, k >= i', fds[k].fd \in Open
             PROVE  ReportLasts(k)'
  BY <1>1 DEF ReportsLast
<1>2. k \in Nat
  BY DEF JInv, IInv, TypeOK
<1>3. ReportLasts(k)
  BY <1>1, <1>2 DEF JInv, ReportsLast
<1>4. k > i' => k > i
  BY <1>1, <1>2
<1>5. k > i' \/ pc' \in {"scan", "read"} => k > i \/ pc \in {"scan", "read"}
  BY <1>1, <1>2, <1>4
<1> QED  BY <1>3, <1>4, <1>5 DEF ReportLasts

\* Dropping the client that is being processed keeps what the others say.
LEMMA DropConns ==
  ASSUME JInv, pc \in {"read", "process", "write"},
         NEW e \in ConnState, e.st = "closed", ConnOK(e),
         Drop(cur.fd, e), EndEvent, UNCHANGED <<running, listening>>
  PROVE  Holders' /\ DownIsDown' /\ ConnsOK' /\ Pairs' /\ ReportsLast' /\ EventOK'
<1> DEFINE fd == cur.fd
           x == fdtab[fd]
<1>1. /\ i \in DOMAIN fds /\ fds[i] = cur /\ fd \in Open
      /\ pc \notin Clean /\ x \in Conns /\ fd \in ClientFds
  BY CurLemma DEF JInv
<1>2. /\ DOMAIN clients' = DOMAIN clients \ {fd}
      /\ \A f \in DOMAIN clients' : clients'[f] = clients[f]
      /\ Open' = Open \ {fd}
      /\ fds' \in Seq(PollFds(AllFds))
      /\ Len(fds') = Len(fds) - 1
      /\ \A k \in i..(Len(fds) - 1) : fds'[k] = fds[k + 1]
  BY DropFacts DEF JInv, IInv
<1>3. /\ \A f \in Open' : fdtab'[f] = fdtab[f]
      /\ conn'[x] = e /\ \A c \in Conns : c # x => conn'[c] = conn[c]
  BY <1>1, <1>2 DEF Drop, JInv, IInv, TypeOK, Open
<1>4. /\ \A f \in Open : f # fd => fdtab[f] # x
      /\ \A f \in Open : fdtab[f] \in Conns
  BY <1>1, OpenLemma DEF JInv, Holders
<1>5. \A f \in Open' : /\ f \in Open /\ f # fd
                       /\ conn'[fdtab'[f]] = conn[fdtab[f]]
  BY <1>2, <1>3, <1>4
<1>6. pc' = "scan" /\ i' = i + 1 /\ cur' = NoEvent
  BY DEF EndEvent
<1>7. Holders'
  <2>1. \A f \in Open' : conn'[fdtab'[f]].st = "open"
    BY <1>5 DEF JInv, Holders
  <2>2. \A f, g \in Open' : fdtab'[f] = fdtab'[g] => f = g
    BY <1>3, <1>5 DEF JInv, Holders
  <2>3. ASSUME NEW c \in Conns, conn'[c].st = "open"
        PROVE  \E f \in Open' : fdtab'[f] = c
    <3>1. c # x /\ conn[c].st = "open"
      BY <1>3, <2>3
    <3>2. PICK f \in Open : fdtab[f] = c
      BY <3>1 DEF JInv, Holders
    <3>3. f \in Open'
      BY <1>2, <3>1, <3>2
    <3> QED  BY <1>3, <3>2, <3>3
  <2> QED  BY <2>1, <2>2, <2>3 DEF Holders
<1>8. DownIsDown' /\ EventOK'
  BY <1>6 DEF DownIsDown, Dead, EventOK
<1>9. ConnsOK'
  BY <1>3 DEF JInv, ConnsOK
<1>10. Pairs'
  <2> SUFFICES ASSUME NEW f \in DOMAIN clients'
               PROVE  Belongs(clients'[f], conn'[fdtab'[f]])
    BY DEF Pairs
  <2>1. f \in DOMAIN clients /\ f # fd /\ clients'[f] = clients[f]
    BY <1>2
  <2>2. f \in Open'
    BY <1>1, <1>2, <2>1, ClientLemma DEF JInv
  <2> QED  BY <1>1, <1>5, <2>1, <2>2 DEF JInv, Pairs
<1>11. ReportsLast'
  <2> SUFFICES ASSUME NEW k \in DOMAIN fds', k >= i', fds'[k].fd \in Open'
               PROVE  ReportLasts(k)'
    BY DEF ReportsLast
  <2>1. /\ Len(fds) \in Nat /\ i \in Nat /\ DOMAIN fds = 1..Len(fds)
        /\ DOMAIN fds' = 1..(Len(fds) - 1) /\ i \in 1..Len(fds)
    BY <1>1, <1>2 DEF JInv, IInv, TypeOK
  <2>2. /\ k + 1 \in DOMAIN fds /\ k + 1 > i /\ fds'[k] = fds[k + 1]
    BY <1>2, <1>6, <2>1
  <2>3. fds[k + 1].fd \in Open /\ conn'[fdtab'[fds'[k].fd]] = conn[fdtab[fds[k + 1].fd]]
    BY <1>5, <2>2
  <2>4. ReportLasts(k + 1) /\ k + 1 >= i
    BY <2>1, <2>2, <2>3 DEF JInv, ReportsLast, InRound
  <2> QED  BY <2>2, <2>3, <2>4 DEF ReportLasts
<1> QED  BY <1>7, <1>8, <1>9, <1>10, <1>11

\* Accepting a connection makes it an open one with a client of its own.
LEMMA AcceptConns ==
  ASSUME JInv, pc = "scan", i \in DOMAIN fds, fds[i].fd \in ListenSet,
         NEW c \in Backlog(fds[i].fd), NEW fd \in FreeFds,
         fdtab' = [fdtab EXCEPT ![fd] = c],
         conn' = [conn EXCEPT ![c].st = "open"],
         fds' = addFd(fds, fd, {"IN", "OUT"}),
         clients' = addClient(clients, fd, fds[i].fd),
         i' = i + 1, UNCHANGED <<running, pc, cur, listening>>
  PROVE  Holders' /\ DownIsDown' /\ ConnsOK' /\ Pairs' /\ ReportsLast' /\ EventOK'
<1>1. /\ fd \in ClientFds /\ fd \notin Open
      /\ Open' = Open \cup {fd}
      /\ DOMAIN clients' = DOMAIN clients \cup {fd}
      /\ \A f \in DOMAIN clients : clients'[f] = clients[f]
      /\ clients'[fd] = NewClient(fds[i].fd)
      /\ fds' \in Seq(PollFds(AllFds)) /\ Len(fds') = Len(fds) + 1
      /\ \A k \in 1..Len(fds) : fds'[k] = fds[k]
      /\ fds'[Len(fds) + 1] = PollFd(fd, {"IN", "OUT"})
  BY AcceptFacts DEF JInv, Backlog
<1>2. /\ c \in Conns /\ conn[c].st = "queued" /\ conn[c].lsn = fds[i].fd
      /\ conn[c] \in ConnState
  BY DEF Backlog, JInv, IInv, TypeOK
<1> DEFINE r == [conn[c] EXCEPT !.st = "open"]
<1>3. /\ r \in ConnState /\ r.st = "open" /\ r.lsn = fds[i].fd
      /\ r.rx = conn[c].rx /\ r.sent = conn[c].sent
      /\ r.owed = conn[c].owed /\ r.wrote = conn[c].wrote /\ r.why = conn[c].why
  BY <1>2 DEF ConnState
<1>4. r.rst = conn[c].rst
  BY <1>2 DEF ConnState
<1>5. /\ conn'[c] = r /\ \A d \in Conns : d # c => conn'[d] = conn[d]
      /\ fdtab'[fd] = c /\ \A f \in Open : fdtab'[f] = fdtab[f]
  BY <1>1, <1>2 DEF JInv, IInv, TypeOK, Open
<1>6. /\ \A f \in Open : fdtab[f] # c
      /\ \A f \in Open : fdtab[f] \in Conns
  BY <1>2, OpenLemma DEF JInv, Holders
<1>7. \A f \in Open : conn'[fdtab'[f]] = conn[fdtab[f]]
  BY <1>5, <1>6
<1> HIDE DEF r
<1>8. Holders'
  <2>1. \A f \in Open' : conn'[fdtab'[f]].st = "open"
    BY <1>1, <1>3, <1>5, <1>7 DEF JInv, Holders
  <2>2. \A f, g \in Open' : fdtab'[f] = fdtab'[g] => f = g
    BY <1>1, <1>5, <1>6 DEF JInv, Holders
  <2>3. \A d \in Conns : conn'[d].st = "open" => \E f \in Open' : fdtab'[f] = d
    BY <1>1, <1>5 DEF JInv, Holders
  <2> QED  BY <2>1, <2>2, <2>3 DEF Holders
<1>9. DownIsDown' /\ EventOK'
  BY DEF DownIsDown, Dead, EventOK
<1>10. ConnsOK'
  <2>1. r.why = "none"
    BY <1>2, <1>3 DEF JInv, ConnsOK, ConnOK
  <2>2. ConnOK(r)
    BY <1>3, <2>1 DEF ConnOK
  <2> QED  BY <1>5, <2>2 DEF JInv, ConnsOK
<1>11. Pairs'
  <2>1. Belongs(clients'[fd], conn'[fdtab'[fd]])
    <3>1. /\ clients'[fd].server = fds[i].fd /\ clients'[fd].request_buffer = 0
          /\ clients'[fd].response_buffer = 0 /\ clients'[fd].response_offset = 0
      BY <1>1 DEF NewClient
    <3>2. r.owed = 0 /\ r.wrote = 0 /\ r.rx <= r.sent /\ (~r.rst => r.rx = r.sent)
      BY <1>2, <1>3, <1>4 DEF JInv, ConnsOK, ConnOK
    <3>3. r.rx \in Nat /\ r.sent \in Nat
      BY <1>3 DEF ConnState
    <3>4. Asked(clients'[fd]) = 0
      BY <3>1 DEF Asked
    <3>5. fds[i].fd = r.lsn
      BY <1>3
    <3>6. Belongs(clients'[fd], r)
      BY <3>1, <3>2, <3>3, <3>4, <3>5 DEF Belongs
    <3>7. conn'[fdtab'[fd]] = r
      BY <1>5
    <3> QED  BY <3>6, <3>7, Zenon
  <2>2. \A f \in DOMAIN clients : Belongs(clients'[f], conn'[fdtab'[f]])
    <3>1. pc \notin Clean
      BY DEF Clean
    <3> QED  BY <3>1, <1>1, <1>7, ClientLemma DEF JInv, Pairs
  <2> QED  BY <1>1, <2>1, <2>2 DEF Pairs
<1>12. ReportsLast'
  <2> SUFFICES ASSUME NEW k \in DOMAIN fds', k >= i', fds'[k].fd \in Open'
               PROVE  ReportLasts(k)'
    BY DEF ReportsLast
  <2>1. /\ Len(fds) \in Nat /\ i \in Nat /\ DOMAIN fds = 1..Len(fds)
        /\ DOMAIN fds' = 1..(Len(fds) + 1)
    BY <1>1 DEF JInv, IInv, TypeOK
  <2>2. CASE k = Len(fds) + 1
    <3>1. fds'[k].revents = {}
      BY <1>1, <2>2 DEF PollFd
    <3> QED  BY <3>1 DEF ReportLasts
  <2>3. CASE k # Len(fds) + 1
    <3>1. k \in DOMAIN fds /\ k >= i /\ k > i /\ fds'[k] = fds[k]
      BY <1>1, <2>1, <2>3
    <3>2. fds[k].fd # fd
      <4>1. TablesAgree
        BY DEF JInv, IInv, FdAgreement, Clean
      <4>2. FdsOf(fds) = ListenSet \cup Open /\ fd \notin ListenSet
        BY <4>1, <1>1, FdsDisjoint DEF TablesAgree
      <4> QED  BY <4>2, <3>1, <1>1 DEF FdsOf
    <3>3. fds[k].fd \in Open
      BY <1>1, <3>1, <3>2
    <3>4. ReportLasts(k)
      BY <3>1, <3>3 DEF JInv, ReportsLast, InRound
    <3> QED  BY <1>7, <3>1, <3>3, <3>4 DEF ReportLasts
  <2> QED  BY <2>2, <2>3
<1> QED  BY <1>8, <1>9, <1>10, <1>11, <1>12

\* When the process ends, every connection ends, for a reason that is not
\* an answer.
LEMMA EndConns ==
  ASSUME JInv, NEW why \in Whys \ {"none", "answered"}, EndAll(why), pc' \in Dead
  PROVE  Holders' /\ DownIsDown' /\ ConnsOK' /\ Pairs' /\ ReportsLast' /\ EventOK'
<1>1. \A c \in Conns : conn[c] \in ConnState
  BY DEF JInv, IInv, TypeOK
<1>2. Open' = {} /\ listening' = {}
  BY DEF EndAll, Open
<1>3. ASSUME NEW c \in Conns
      PROVE  conn'[c].st \in {"new", "closed"} /\ ConnOK(conn'[c])
  <2>1. CASE conn[c].st \in {"queued", "open"}
    <3>1. conn'[c] = Ended(conn[c], why)
      BY <2>1 DEF EndAll
    <3>2. conn'[c].st = "closed" /\ conn'[c].why = why
      BY <1>1, <3>1, EndedFields
    <3> QED  BY <3>2 DEF ConnOK
  <2>2. CASE conn[c].st \notin {"queued", "open"}
    <3>1. conn'[c] = conn[c] /\ conn[c].st \in {"new", "closed"}
      BY <1>1, <2>2 DEF EndAll, ConnState
    <3> QED  BY <3>1 DEF JInv, ConnsOK
  <2> QED  BY <2>1, <2>2
<1>4. Holders'
  BY <1>2, <1>3 DEF Holders
<1>5. Pairs' /\ ReportsLast' /\ EventOK'
  BY DEF Pairs, Clean, Dead, ReportsLast, InRound, EventOK
<1> QED  BY <1>2, <1>3, <1>4, <1>5 DEF DownIsDown, ConnsOK

\* cleanup reaches every connection that is queued or open: the poller has
\* an entry for each.
LEMMA CleanupEndsAll ==
  ASSUME JInv, cleanup
  PROVE  EndAll("shutdown")
<1>1. TablesAgree
  BY DEF JInv, IInv, FdAgreement, cleanup, Clean
<1>2. closedByCleanup = Open
  BY <1>1, FdsDisjoint DEF TablesAgree, closedByCleanup, isListeningSocket, Open
<1>3. fdtab' = [f \in ClientFds |-> NoConn]
  BY <1>2 DEF cleanup, Open
<1>4. \A c \in Conns :
        conn[c].st = "open" <=> \E f \in closedByCleanup : fdtab[f] = c
  BY <1>2 DEF JInv, Holders
<1>5. conn' = [c \in Conns |-> IF conn[c].st \in {"queued", "open"}
                               THEN Ended(conn[c], "shutdown") ELSE conn[c]]
  BY <1>4 DEF cleanup
<1> QED  BY <1>3, <1>5 DEF EndAll, cleanup

\* A fresh report is true of every entry.
LEMMA FreshReports ==
  ASSUME JInv, pc = "wait", pc' = "scan", i' = 1, fds' = Polled(fds, ReadyEvents),
         UNCHANGED <<cur, clients, fdtab, listening, conn>>
  PROVE  Holders' /\ DownIsDown' /\ ConnsOK' /\ Pairs' /\ ReportsLast' /\ EventOK'
<1>1. Holders' /\ DownIsDown' /\ ConnsOK' /\ Pairs'
  BY SameConns DEF Dead, Clean
<1>2. EventOK'
  BY DEF EventOK
<1>3. ReportsLast'
  <2> SUFFICES ASSUME NEW k \in DOMAIN fds', fds'[k].fd \in Open'
               PROVE  ReportLasts(k)'
    BY DEF ReportsLast
  <2>1. k \in DOMAIN fds /\ fds[k] \in PollFds(AllFds)
    BY DEF Polled, JInv, IInv, TypeOK
  <2>2. /\ fds'[k].fd = fds[k].fd
        /\ fds'[k].revents = ReadyEvents[fds[k].fd] \cap fds[k].events
    BY <2>1 DEF Polled, PollFds
  <2> DEFINE f == fds[k].fd
  <2>3. f \in Open /\ f \in AllFds /\ f \notin ListenSet
    BY <2>2, FdsDisjoint DEF Open, AllFds
  <2>4. \A e \in ReadyEvents[f] : /\ e = "IN" => ReadableConn(conn[fdtab[f]])
                                  /\ e = "OUT" => WritableConn(conn[fdtab[f]])
    BY <2>3 DEF ReadyEvents
  <2> QED  BY <2>2, <2>4 DEF ReportLasts
<1> QED  BY <1>1, <1>2, <1>3

\* While the write is tried there is something to write and room for it.
LEMMA WrittenLemma ==
  ASSUME JInv, pc = "write", pollOut, ~curConn.rst
  PROVE  /\ curConn \in ConnState /\ curClient \in ClientState
         /\ Belongs(curClient, curConn)
         /\ Written \in Nat \ {0}
         /\ curClient.response_offset + Written <= curClient.response_buffer
         /\ curConn.flight + Written <= Window
         /\ AfterWrite \in ConnState
         /\ AfterWrite.st = curConn.st /\ AfterWrite.lsn = curConn.lsn
         /\ AfterWrite.rx = curConn.rx /\ AfterWrite.sent = curConn.sent
         /\ AfterWrite.why = curConn.why
         /\ AfterWrite.fin = curConn.fin /\ AfterWrite.rst = curConn.rst
         /\ AfterWrite.owed = curConn.owed
         /\ AfterWrite.wrote = curConn.wrote + Written
<1>1. /\ i \in DOMAIN fds /\ fds[i] = cur /\ cur.fd \in Open /\ pc \notin Clean
      /\ curConn \in ConnState /\ curClient \in ClientState
      /\ cur.fd \in DOMAIN clients /\ fdtab[cur.fd] \in Conns
  BY CurLemma DEF JInv, curConn, curClient
<1>2. Belongs(curClient, curConn)
  BY <1>1 DEF JInv, Pairs, curClient, curConn
<1>3. curConn.flight < Window
  <2>1. ReportLasts(i)
    <3>1. i >= i
      BY DEF JInv, IInv, TypeOK
    <3> QED  BY <3>1, <1>1 DEF JInv, ReportsLast, InRound
  <2> QED  BY <1>1, <2>1 DEF ReportLasts, WritableConn, pollOut, curConn
<1>4. curClient.response_offset < curClient.response_buffer
  BY <1>2 DEF JInv, EventOK, Belongs, curClient
<1> DEFINE m == curClient.response_buffer - curClient.response_offset
           room == Window - curConn.flight
<1>5. /\ curClient.response_buffer \in Nat /\ curClient.response_offset \in Nat
      /\ curConn.flight \in Nat /\ curConn.wrote \in Nat /\ Window \in Nat
  BY <1>1, ConstantsAssumption DEF ConnState, ClientState
<1>6. m \in Nat \ {0} /\ room \in Nat \ {0}
  BY <1>3, <1>4, <1>5
<1>7. Written \in {m, room} /\ Written <= m /\ Written <= room
  <2>1. Written = Lesser(m, room)
    BY DEF Written
  <2> QED  BY <1>6, <2>1, LesserLemma
<1>8. /\ Written \in Nat \ {0}
      /\ curClient.response_offset + Written <= curClient.response_buffer
      /\ curConn.flight + Written <= Window
      /\ curConn.wrote + Written \in Nat /\ curConn.flight + Written \in Nat
  BY <1>5, <1>6, <1>7
<1> HIDE DEF m, room
<1>9. AfterWrite \in ConnState
  BY <1>1, <1>8 DEF AfterWrite, ConnState
<1>10. /\ AfterWrite.st = curConn.st /\ AfterWrite.lsn = curConn.lsn
       /\ AfterWrite.rx = curConn.rx /\ AfterWrite.sent = curConn.sent
       /\ AfterWrite.why = curConn.why
  BY <1>1 DEF AfterWrite, ConnState
<1>11. AfterWrite.fin = curConn.fin /\ AfterWrite.rst = curConn.rst
  BY <1>1 DEF AfterWrite, ConnState
<1>12. AfterWrite.owed = curConn.owed /\ AfterWrite.wrote = curConn.wrote + Written
  BY <1>1 DEF AfterWrite, ConnState
<1> QED  BY <1>1, <1>2, <1>8, <1>9, <1>10, <1>11, <1>12

\* In a step that changes the connection of the client being processed only,
\* the entries after it report of connections that stay as they are.
LEMMA OtherReports ==
  ASSUME JInv, pc \in {"read", "process", "write"}, NEW k \in DOMAIN fds, k # i,
         fds[k].fd \in Open
  PROVE  fdtab[fds[k].fd] # fdtab[cur.fd] /\ fdtab[fds[k].fd] \in Conns
<1>1. i \in DOMAIN fds /\ fds[i] = cur /\ cur.fd \in Open /\ pc \notin Clean
  BY CurLemma DEF JInv
<1>2. fds[k].fd # cur.fd
  BY <1>1, EntriesDiffer DEF JInv
<1> QED  BY <1>1, <1>2, OpenLemma DEF JInv, Holders
-----------------------------------------------------------------------------
(* The inductive invariant. *)

\* The invariant holds before the loop starts.
LEMMA InitConns == Init => JInv
<1> SUFFICES ASSUME Init  PROVE JInv
  OBVIOUS
<1>1. IInv
  BY InitInvariant
<1>2. Open = {} /\ pc = "start" /\ \A c \in Conns : conn[c] = NewConn
  BY DEF Init, Open
<1>3. NewConn.st = "new" /\ ConnOK(NewConn)
  BY DEF NewConn, ConnOK
<1>4. Holders /\ ConnsOK
  BY <1>2, <1>3 DEF Holders, ConnsOK
<1>5. DownIsDown /\ Pairs /\ ReportsLast /\ EventOK
  BY <1>2 DEF DownIsDown, Dead, Pairs, Clean, ReportsLast, InRound, EventOK
<1> QED  BY <1>1, <1>4, <1>5 DEF JInv

\* Every step of a client event preserves the invariant.
LEMMA ClientEventConns ==
  ASSUME JInv, ClientEvent
  PROVE  Holders' /\ DownIsDown' /\ ConnsOK' /\ Pairs' /\ ReportsLast' /\ EventOK'
<1>0. i \in Nat /\ i + 1 \in Nat /\ i + 1 >= i /\ i + 1 > i /\ i >= i
  BY DEF JInv, IInv, TypeOK
<1>1. CASE BeginClientEvent
  <2> USE <1>1 DEF BeginClientEvent
  <2>1. fds[i].fd \in DOMAIN clients
    <3>1. i \in DOMAIN fds
      BY DEF JInv, IInv, TypeOK
    <3> QED
      BY <3>1 DEF JInv, IInv, FdAgreement, TablesAgree, isListeningSocket, Clean, FdsOf
  <2>2. pc = "scan" /\ pc' \in {"process", "read"} /\ "IN" \in cur'.revents /\ i' = i
    BY <2>1
  <2>3. Holders' /\ DownIsDown' /\ ConnsOK' /\ Pairs'
    BY <2>2, SameConns DEF Clean, Dead
  <2>4. ReportsLast'
    BY <1>0, <2>2, ReportsLemma DEF InRound
  <2> QED  BY <2>2, <2>3, <2>4 DEF EventOK
<1>2. CASE ReadData
  <2>0. /\ i \in DOMAIN fds /\ fds[i] = cur /\ cur.fd \in Open
        /\ pc \notin Clean /\ pc \notin Dead
        /\ cur.fd \in ClientFds /\ fdtab[cur.fd] \in Conns
        /\ conn[fdtab[cur.fd]] \in ConnState
        /\ cur.fd \in DOMAIN clients /\ clients[cur.fd] \in ClientState
    BY <1>2, CurLemma DEF JInv, ReadData
  <2> DEFINE fd == cur.fd
             c == fdtab[fd]
             n == Lesser(conn[c].rx, ReadMax)
             size == clients[fd].request_buffer + n
             r == [conn[c] EXCEPT !.rx = conn[c].rx - n]
             cl == [clients[fd] EXCEPT !.request_buffer = size,
                                       !.request_complete = size >= Need]
  <2>1. /\ conn' = [conn EXCEPT ![c] = r] /\ clients' = [clients EXCEPT ![fd] = cl]
        /\ pc = "read" /\ pc' = "process"
        /\ UNCHANGED <<running, fds, i, cur, fdtab, listening>>
    BY <1>2 DEF ReadData, curConn, curClient
  <2>2. n \in Nat /\ n <= conn[c].rx /\ conn[c].rx - n \in Nat /\ size \in Nat
    <3>1. conn[c].rx \in Nat /\ ReadMax \in Nat /\ clients[fd].request_buffer \in Nat
      BY <2>0, ConstantsAssumption DEF ConnState, ClientState
    <3>2. n \in {conn[c].rx, ReadMax} /\ n <= conn[c].rx
      BY <3>1, LesserLemma
    <3> HIDE DEF n
    <3> QED  BY <3>1, <3>2
  <2>3. Belongs(clients[fd], conn[c]) /\ conn[c].st = "open" /\ conn[c].why = "none"
    BY <2>0 DEF JInv, Pairs, Holders, ConnsOK, ConnOK
  <2> HIDE DEF n
  <2>4. /\ r \in ConnState /\ r.st = "open" /\ r.why = "none" /\ r.lsn = conn[c].lsn
        /\ r.rx = conn[c].rx - n /\ r.sent = conn[c].sent /\ r.flight = conn[c].flight
        /\ r.owed = conn[c].owed /\ r.wrote = conn[c].wrote
    BY <2>0, <2>2, <2>3 DEF ConnState
  <2>5. r.rst = conn[c].rst
    BY <2>0 DEF ConnState
  <2>6. /\ cl.server = clients[fd].server /\ cl.request_buffer = size
        /\ cl.response_buffer = clients[fd].response_buffer
        /\ cl.response_offset = clients[fd].response_offset
    <3> HIDE DEF size
    <3> QED  BY <2>0 DEF ClientState
  <2> HIDE DEF r, cl
  <2>7. ConnOK(r)
    BY <2>4 DEF ConnOK
  <2>8. Belongs(cl, r)
    <3>1. Asked(cl) = Asked(clients[fd]) /\ Asked(cl) \in Nat
      BY <2>6, ConstantsAssumption DEF Asked
    <3>2. clients[fd].request_buffer \in Nat /\ conn[c].rx \in Nat /\ conn[c].sent \in Nat
      BY <2>0 DEF ClientState, ConnState
    <3>3. r.rx + cl.request_buffer = conn[c].rx + clients[fd].request_buffer
      BY <2>2, <2>4, <2>6, <3>2
    <3> HIDE DEF c, fd, size
    <3> QED  BY <2>3, <2>4, <2>5, <2>6, <3>1, <3>3 DEF Belongs
  <2>9. \A f \in DOMAIN clients : /\ f # fd => clients'[f] = clients[f] /\ fdtab[f] # c
                                  /\ f = fd => clients'[f] = cl
    BY <2>0, <2>1, ClientLemma DEF JInv, IInv, TypeOK, Holders
  <2>10. Holders' /\ DownIsDown' /\ ConnsOK' /\ Pairs'
    <3>1. pc \notin Dead /\ pc' \notin Dead /\ DOMAIN clients' = DOMAIN clients
          /\ (r.st = "open" <=> conn[c].st = "open")
      BY <2>0, <2>1, <2>3, <2>4 DEF Dead
    <3> QED  BY <2>0, <2>1, <2>4, <2>7, <2>8, <2>9, <3>1, OneConn
  <2>11. ReportsLast'
    <3>1. conn'[c] = r /\ \A d \in Conns : d # c => conn'[d] = conn[d]
      BY <2>0, <2>1 DEF JInv, IInv, TypeOK
    <3>2. WritableConn(conn[c]) => WritableConn(r)
      BY <2>4, <2>5 DEF WritableConn
    <3>3. ASSUME NEW k \in DOMAIN fds, fds[k].fd \in Open, k # i
          PROVE  conn'[fdtab[fds[k].fd]] = conn[fdtab[fds[k].fd]]
      BY <3>1, <3>3, <2>1, OtherReports
    <3>4. conn'[fdtab[fds[i].fd]] = r /\ conn[fdtab[fds[i].fd]] = conn[c]
      BY <3>1, <2>0
    <3>5. \A k \in DOMAIN fds : k > i => k # i
      BY <1>0
    <3> QED  BY <1>0, <2>1, <3>2, <3>3, <3>4, <3>5, ReportsLemma DEF InRound
  <2> QED  BY <2>1, <2>10, <2>11 DEF EventOK
<1>3. CASE ReadFails \/ WriteError
  <2>1. pc \in {"read", "process", "write"} /\ Drop(cur.fd, Ended(curConn, "dropped"))
        /\ EndEvent /\ UNCHANGED <<running, listening>>
    BY <1>3 DEF ReadFails, WriteError
  <2>2. curConn \in ConnState
    BY <2>1, CurLemma DEF JInv, curConn
  <2>3. "dropped" \in Whys
    BY DEF Whys
  <2>4. /\ Ended(curConn, "dropped") \in ConnState
        /\ Ended(curConn, "dropped").st = "closed"
        /\ Ended(curConn, "dropped").why = "dropped"
    BY <2>2, <2>3, EndedType, EndedFields
  <2>5. ConnOK(Ended(curConn, "dropped"))
    BY <2>4 DEF ConnOK
  <2> QED  BY <2>1, <2>4, <2>5, DropConns
<1>4. CASE generateClientResponse
  <2>0. /\ i \in DOMAIN fds /\ fds[i] = cur /\ cur.fd \in Open
        /\ pc \notin Clean /\ pc \notin Dead
        /\ cur.fd \in ClientFds /\ fdtab[cur.fd] \in Conns
        /\ conn[fdtab[cur.fd]] \in ConnState
        /\ cur.fd \in DOMAIN clients /\ clients[cur.fd] \in ClientState
    BY <1>4, CurLemma DEF JInv, generateClientResponse
  <2> DEFINE fd == cur.fd
             c == fdtab[fd]
  <2>1. PICK size \in RespSizes :
          /\ clients' = [clients EXCEPT ![fd].response_buffer = size,
                                        ![fd].request_buffer = eraseRequest(@),
                                        ![fd].request_complete = FALSE]
          /\ conn' = [conn EXCEPT ![c].owed = size]
    BY <1>4 DEF generateClientResponse
  <2> DEFINE left == clients[fd].request_buffer - Need
             r == [conn[c] EXCEPT !.owed = size]
             cl == [clients[fd] EXCEPT !.response_buffer = size,
                                       !.request_buffer = left,
                                       !.request_complete = FALSE]
  <2>2. /\ conn' = [conn EXCEPT ![c] = r] /\ clients' = [clients EXCEPT ![fd] = cl]
        /\ pc = "process" /\ pc' = "write"
        /\ UNCHANGED <<running, fds, i, cur, fdtab, listening>>
    BY <1>4, <2>0, <2>1 DEF generateClientResponse, eraseRequest
  <2>3. /\ size \in Nat /\ size > 0
        /\ clients[fd].request_buffer \in Nat /\ clients[fd].request_buffer >= Need
        /\ clients[fd].response_buffer = 0 /\ clients[fd].response_offset = 0
    BY <1>4, <2>0, ConstantsAssumption
       DEF generateClientResponse, mayGenerate, curClient, JInv, IInv, CountsOK,
           ClientState
  <2>4. Belongs(clients[fd], conn[c]) /\ conn[c].st = "open" /\ conn[c].why = "none"
    BY <2>0 DEF JInv, Pairs, Holders, ConnsOK, ConnOK
  <2>5. /\ r \in ConnState /\ r.st = "open" /\ r.why = "none" /\ r.lsn = conn[c].lsn
        /\ r.rx = conn[c].rx /\ r.sent = conn[c].sent /\ r.flight = conn[c].flight
        /\ r.owed = size /\ r.wrote = conn[c].wrote
    BY <2>0, <2>3, <2>4 DEF ConnState
  <2>6. r.rst = conn[c].rst /\ r.fin = conn[c].fin
    BY <2>0 DEF ConnState
  <2>7. /\ cl.server = clients[fd].server /\ cl.request_buffer = left
        /\ cl.response_buffer = size /\ cl.response_offset = 0
    <3> HIDE DEF left
    <3> QED  BY <2>0, <2>3 DEF ClientState
  <2> HIDE DEF r, cl
  <2>8. ConnOK(r)
    BY <2>5 DEF ConnOK
  <2>9. Belongs(cl, r)
    <3>1. Asked(cl) = Need /\ Asked(clients[fd]) = 0 /\ Need \in Nat
      BY <2>3, <2>7, ConstantsAssumption DEF Asked
    <3>2. conn[c].rx \in Nat /\ conn[c].sent \in Nat
      BY <2>0 DEF ConnState
    <3>3. r.rx + cl.request_buffer + Asked(cl)
            = conn[c].rx + clients[fd].request_buffer + Asked(clients[fd])
      BY <2>3, <2>5, <2>7, <3>1, <3>2
    <3> HIDE DEF c, fd, left
    <3> QED  BY <2>3, <2>4, <2>5, <2>6, <2>7, <3>3 DEF Belongs
  <2>10. \A f \in DOMAIN clients : /\ f # fd => clients'[f] = clients[f] /\ fdtab[f] # c
                                   /\ f = fd => clients'[f] = cl
    BY <2>0, <2>2, ClientLemma DEF JInv, IInv, TypeOK, Holders
  <2>11. Holders' /\ DownIsDown' /\ ConnsOK' /\ Pairs'
    <3>1. pc \notin Dead /\ pc' \notin Dead /\ DOMAIN clients' = DOMAIN clients
          /\ (r.st = "open" <=> conn[c].st = "open")
      BY <2>0, <2>2, <2>4, <2>5 DEF Dead
    <3> QED  BY <2>0, <2>2, <2>5, <2>8, <2>9, <2>10, <3>1, OneConn
  <2>12. ReportsLast'
    <3>1. conn'[c] = r /\ \A d \in Conns : d # c => conn'[d] = conn[d]
      BY <2>0, <2>2 DEF JInv, IInv, TypeOK
    <3>2. WritableConn(conn[c]) => WritableConn(r)
      BY <2>5, <2>6 DEF WritableConn
    <3>3. ASSUME NEW k \in DOMAIN fds, fds[k].fd \in Open, k # i
          PROVE  conn'[fdtab[fds[k].fd]] = conn[fdtab[fds[k].fd]]
      BY <3>1, <3>3, <2>2, OtherReports
    <3>4. conn'[fdtab[fds[i].fd]] = r /\ conn[fdtab[fds[i].fd]] = conn[c]
      BY <3>1, <2>0
    <3>5. \A k \in DOMAIN fds : k > i => k # i
      BY <1>0
    <3> QED  BY <1>0, <2>2, <3>2, <3>3, <3>4, <3>5, ReportsLemma DEF InRound
  <2>13. EventOK'
    BY <2>0, <2>2, <2>3, <2>7, <2>10 DEF EventOK
  <2> QED  BY <2>11, <2>12, <2>13
<1>5. CASE NothingToGenerate \/ WriteLater
  <2>1. /\ UNCHANGED <<running, fds, clients, fdtab, listening, conn>>
        /\ pc \in {"process", "write"}
        /\ \/ pc' = "scan" /\ i' = i + 1
           \/ pc' = "write" /\ i' = i /\ cur' = cur /\ clients[cur.fd].response_buffer # 0
    BY <1>5 DEF NothingToGenerate, WriteLater, EndEvent, curClient
  <2>2. Holders' /\ DownIsDown' /\ ConnsOK' /\ Pairs'
    BY <2>1, SameConns DEF Clean, Dead
  <2>3. ReportsLast'
    BY <1>0, <2>1, ReportsLemma DEF InRound
  <2>4. EventOK'
    <3>1. clients[cur.fd].response_buffer \in Nat
      BY <2>1, CurLemma DEF JInv, ClientState
    <3> QED  BY <2>1, <3>1 DEF EventOK
  <2> QED  BY <2>2, <2>3, <2>4
<1>6. CASE WriteSome
  <2> DEFINE fd == cur.fd
             c == fdtab[fd]
             offset == clients[fd].response_offset + Written
  <2>0. /\ i \in DOMAIN fds /\ fds[i] = cur /\ fd \in Open
        /\ pc \notin Clean /\ pc \notin Dead /\ c \in Conns
        /\ conn[c] \in ConnState
        /\ fd \in DOMAIN clients /\ clients[fd] \in ClientState
    BY <1>6, CurLemma DEF JInv, WriteSome
  <2>1. /\ Belongs(clients[fd], conn[c])
        /\ Written \in Nat \ {0}
        /\ offset <= clients[fd].response_buffer
        /\ AfterWrite \in ConnState
        /\ AfterWrite.st = conn[c].st /\ AfterWrite.lsn = conn[c].lsn
        /\ AfterWrite.rx = conn[c].rx /\ AfterWrite.sent = conn[c].sent
        /\ AfterWrite.why = conn[c].why
        /\ AfterWrite.rst = conn[c].rst
        /\ AfterWrite.owed = conn[c].owed /\ AfterWrite.wrote = conn[c].wrote + Written
    BY <1>6, WrittenLemma DEF WriteSome, curConn, curClient
  <2>2. conn[c].st = "open" /\ conn[c].why = "none"
    BY <2>0 DEF JInv, Pairs, Holders, ConnsOK, ConnOK
  <2>3. /\ clients[fd].response_buffer \in Nat /\ clients[fd].response_offset \in Nat
        /\ clients[fd].request_buffer \in Nat
        /\ conn[c].rx \in Nat /\ conn[c].sent \in Nat /\ Need \in Nat
        /\ clients[fd].response_buffer > 0
    BY <1>6, <2>0, ConstantsAssumption
       DEF ClientState, ConnState, JInv, EventOK, WriteSome
  <2>4. pc = "write" /\ ~conn[c].rst
    BY <1>6 DEF WriteSome, curConn
  <2>5. CASE offset = clients[fd].response_buffer
    <3> DEFINE e == Ended(AfterWrite, "answered")
    <3>1. Drop(cur.fd, e) /\ EndEvent /\ UNCHANGED <<running, listening>>
      BY <1>6, <2>5 DEF WriteSome, curClient
    <3>2. "answered" \in Whys
      BY DEF Whys
    <3>3. /\ e \in ConnState /\ e.st = "closed" /\ e.why = "answered"
          /\ e.owed = AfterWrite.owed /\ e.wrote = AfterWrite.wrote
          /\ e.sent = AfterWrite.sent
          /\ AfterWrite.rx = 0 => ~e.abort
      BY <2>1, <3>2, EndedType, EndedFields
    <3>4. e.owed > 0 /\ e.wrote = e.owed
      BY <2>1, <2>3, <2>5, <3>3 DEF Belongs
    <3>5. e.sent = Need => AfterWrite.rx = 0
      <4>1. Asked(clients[fd]) = Need
        BY <2>3 DEF Asked
      <4>2. conn[c].rx + clients[fd].request_buffer + Need = conn[c].sent
        BY <2>1, <2>4, <4>1 DEF Belongs
      <4> QED  BY <2>1, <2>3, <3>3, <4>2
    <3> HIDE DEF e
    <3>6. ConnOK(e)
      BY <3>3, <3>4, <3>5 DEF ConnOK
    <3> QED  BY <2>4, <3>1, <3>3, <3>6, DropConns
  <2>6. CASE offset # clients[fd].response_buffer
    <3> DEFINE cl == [clients[fd] EXCEPT !.response_offset = offset]
    <3>1. /\ clients' = [clients EXCEPT ![fd] = cl]
          /\ conn' = [conn EXCEPT ![c] = AfterWrite]
          /\ pc' = "scan" /\ i' = i + 1
          /\ UNCHANGED <<fds, fdtab, running, listening>>
      <4>1. Written # 0
        BY <2>1
      <4> QED
        BY <1>6, <2>6, <4>1 DEF WriteSome, curClient, afterPart, EndEvent
    <3>2. /\ cl.server = clients[fd].server
          /\ cl.request_buffer = clients[fd].request_buffer
          /\ cl.response_buffer = clients[fd].response_buffer
          /\ cl.response_offset = offset
      <4> HIDE DEF offset
      <4> QED  BY <2>0 DEF ClientState
    <3> HIDE DEF cl
    <3>3. ConnOK(AfterWrite)
      BY <2>1, <2>2 DEF ConnOK
    <3>4. Belongs(cl, AfterWrite)
      <4>1. offset < clients[fd].response_buffer
        BY <2>1, <2>3, <2>6
      <4>2. offset = conn[c].wrote + Written
        BY <2>1 DEF Belongs
      <4>3. Asked(cl) = Asked(clients[fd])
        BY <3>2 DEF Asked
      <4> HIDE DEF fd, c, offset
      <4> QED  BY <2>1, <3>2, <4>1, <4>2, <4>3 DEF Belongs
    <3>5. \A f \in DOMAIN clients :
            /\ f # fd => clients'[f] = clients[f] /\ fdtab[f] # c
            /\ f = fd => clients'[f] = cl
      BY <2>0, <3>1, ClientLemma DEF JInv, IInv, TypeOK, Holders
    <3>6. Holders' /\ DownIsDown' /\ ConnsOK' /\ Pairs'
      <4>1. pc \notin Dead /\ pc' \notin Dead /\ DOMAIN clients' = DOMAIN clients
            /\ (AfterWrite.st = "open" <=> conn[c].st = "open")
        BY <2>0, <2>1, <3>1 DEF Dead
      <4> QED  BY <2>0, <2>1, <3>1, <3>3, <3>4, <3>5, <4>1, OneConn
    <3>7. ReportsLast'
      <4>1. conn'[c] = AfterWrite /\ \A d \in Conns : d # c => conn'[d] = conn[d]
        BY <2>0, <3>1 DEF JInv, IInv, TypeOK
      <4>2. ASSUME NEW k \in DOMAIN fds, fds[k].fd \in Open, k # i
            PROVE  conn'[fdtab[fds[k].fd]] = conn[fdtab[fds[k].fd]]
        BY <4>1, <4>2, <2>4, OtherReports
      <4>3. \A k \in DOMAIN fds : k >= i + 1 => k # i
        BY <1>0
      <4> QED  BY <1>0, <2>4, <3>1, <4>2, <4>3, ReportsLemma DEF InRound
    <3> QED  BY <3>1, <3>6, <3>7 DEF EventOK
  <2> QED  BY <2>5, <2>6
<1>7. CASE WriteKills
  BY <1>7, EndConns DEF WriteKills, Whys, Dead
<1> QED  BY <1>1, <1>2, <1>3, <1>4, <1>5, <1>6, <1>7 DEF ClientEvent

\* A peer changes its own connection, in a way its client agrees with, and
\* never makes it less ready than poll() reported.
LEMMA PeerFacts ==
  ASSUME JInv, NEW c \in Conns, Peer(c)
  PROVE  /\ pc \notin Dead
         /\ \E r \in ConnState :
              /\ conn' = [conn EXCEPT ![c] = r]
              /\ r.st = "open" <=> conn[c].st = "open"
              /\ ConnOK(r)
              /\ conn[c].st = "open" =>
                   \A cl \in ClientState : Belongs(cl, conn[c]) => Belongs(cl, r)
              /\ WritableConn(conn[c]) => WritableConn(r)
              /\ ReadableConn(conn[c]) => ReadableConn(r)
<1>1. conn[c] \in ConnState /\ ConnOK(conn[c])
  BY DEF JInv, IInv, TypeOK, ConnsOK
<1>2. /\ conn[c].rx \in Nat /\ conn[c].sent \in Nat /\ conn[c].flight \in Nat
      /\ conn[c].rx + 1 \in Nat /\ conn[c].sent + 1 \in Nat
  BY <1>1 DEF ConnState
<1>3. pc \notin Dead
  BY DEF JInv, DownIsDown, Peer, Connect, Send, ShutDown, Reset, Receive, CanSend
<1>4. \A cl \in ClientState : cl.request_buffer \in Nat /\ Asked(cl) \in Nat
  BY ConstantsAssumption DEF ClientState, Asked
<1> SUFFICES \E r \in ConnState :
               /\ conn' = [conn EXCEPT ![c] = r]
               /\ r.st = "open" <=> conn[c].st = "open"
               /\ ConnOK(r)
               /\ conn[c].st = "open" =>
                    \A cl \in ClientState : Belongs(cl, conn[c]) => Belongs(cl, r)
               /\ WritableConn(conn[c]) => WritableConn(r)
               /\ ReadableConn(conn[c]) => ReadableConn(r)
  BY <1>3
<1>5. CASE \E l \in ListenSet : Connect(c, l)
  <2>1. PICK l \in ListenSet : Connect(c, l)
    BY <1>5
  <2> DEFINE r == [conn[c] EXCEPT !.st = "queued", !.lsn = l]
  <2>2. conn' = [conn EXCEPT ![c] = r] /\ conn[c].st = "new"
    BY <2>1 DEF Connect
  <2>3. /\ r \in ConnState /\ r.st = "queued" /\ r.rx = conn[c].rx
        /\ r.sent = conn[c].sent /\ r.owed = conn[c].owed /\ r.wrote = conn[c].wrote
        /\ r.flight = conn[c].flight /\ r.why = conn[c].why
    BY <1>1 DEF ConnState
  <2>4. r.rst = conn[c].rst /\ r.fin = conn[c].fin
    BY <1>1 DEF ConnState
  <2> HIDE DEF r
  <2>5. ConnOK(r)
    BY <1>1, <2>2, <2>3, <2>4 DEF ConnOK
  <2>6. WritableConn(conn[c]) => WritableConn(r)
    BY <2>3, <2>4 DEF WritableConn
  <2>7. ReadableConn(conn[c]) => ReadableConn(r)
    BY <2>3, <2>4 DEF ReadableConn
  <2> QED  BY <2>2, <2>3, <2>5, <2>6, <2>7
<1>6. CASE Send(c)
  <2> DEFINE r == [conn[c] EXCEPT !.rx = conn[c].rx + 1, !.sent = conn[c].sent + 1]
  <2>1. /\ conn' = [conn EXCEPT ![c] = r] /\ conn[c].st \in {"queued", "open"}
        /\ ~conn[c].rst
    BY <1>6 DEF Send, CanSend
  <2>2. /\ r \in ConnState /\ r.st = conn[c].st /\ r.lsn = conn[c].lsn
        /\ r.rx = conn[c].rx + 1 /\ r.sent = conn[c].sent + 1
        /\ r.owed = conn[c].owed /\ r.wrote = conn[c].wrote
        /\ r.flight = conn[c].flight /\ r.why = conn[c].why
    BY <1>1, <1>2 DEF ConnState
  <2>3. r.rst = conn[c].rst /\ r.fin = conn[c].fin
    BY <1>1 DEF ConnState
  <2> HIDE DEF r
  <2>4. ConnOK(r)
    BY <1>1, <1>2, <2>1, <2>2, <2>3 DEF ConnOK
  <2>5. ASSUME NEW cl \in ClientState, Belongs(cl, conn[c])
        PROVE  Belongs(cl, r)
    <3>1. r.rx + cl.request_buffer + Asked(cl)
            = (conn[c].rx + cl.request_buffer + Asked(cl)) + 1
      BY <1>2, <1>4, <2>2
    <3>2. conn[c].rx + cl.request_buffer + Asked(cl) = conn[c].sent
      BY <2>1, <2>5 DEF Belongs
    <3>3. r.rx + cl.request_buffer + Asked(cl) = r.sent /\ r.sent <= r.sent
      BY <1>2, <2>2, <3>1, <3>2
    <3> QED  BY <2>2, <2>5, <3>3 DEF Belongs
  <2>6. WritableConn(conn[c]) => WritableConn(r)
    BY <2>2, <2>3 DEF WritableConn
  <2>7. ReadableConn(conn[c]) => ReadableConn(r)
    BY <1>2, <2>2, <2>3 DEF ReadableConn
  <2> QED  BY <2>1, <2>2, <2>4, <2>5, <2>6, <2>7
<1>7. CASE ShutDown(c)
  <2> DEFINE r == [conn[c] EXCEPT !.fin = TRUE]
  <2>1. conn' = [conn EXCEPT ![c] = r]
    BY <1>7 DEF ShutDown
  <2>2. /\ r \in ConnState /\ r.st = conn[c].st /\ r.lsn = conn[c].lsn
        /\ r.rx = conn[c].rx /\ r.sent = conn[c].sent
        /\ r.owed = conn[c].owed /\ r.wrote = conn[c].wrote
        /\ r.flight = conn[c].flight /\ r.why = conn[c].why
    BY <1>1 DEF ConnState
  <2>3. r.rst = conn[c].rst /\ r.fin /\ r.abort = conn[c].abort
    BY <1>1 DEF ConnState
  <2> HIDE DEF r
  <2>4. ConnOK(r)
    BY <1>1, <2>2, <2>3 DEF ConnOK
  <2>5. ASSUME NEW cl \in ClientState, Belongs(cl, conn[c])
        PROVE  Belongs(cl, r)
    BY <2>2, <2>3, <2>5 DEF Belongs
  <2>6. WritableConn(conn[c]) => WritableConn(r)
    BY <2>2, <2>3 DEF WritableConn
  <2>7. ReadableConn(r)
    BY <2>3 DEF ReadableConn
  <2> QED  BY <2>1, <2>2, <2>4, <2>5, <2>6, <2>7
<1>8. CASE Reset(c)
  <2> DEFINE r == [conn[c] EXCEPT !.rst = TRUE, !.rx = 0, !.flight = 0]
  <2>1. conn' = [conn EXCEPT ![c] = r] /\ conn[c].st \in {"queued", "open"}
    BY <1>8 DEF Reset
  <2>2. /\ r \in ConnState /\ r.st = conn[c].st /\ r.lsn = conn[c].lsn
        /\ r.rx = 0 /\ r.sent = conn[c].sent
        /\ r.owed = conn[c].owed /\ r.wrote = conn[c].wrote /\ r.why = conn[c].why
    BY <1>1 DEF ConnState
  <2>3. r.rst
    BY <1>1 DEF ConnState
  <2> HIDE DEF r
  <2>4. ConnOK(r)
    BY <1>1, <1>2, <2>1, <2>2, <2>3 DEF ConnOK
  <2>5. ASSUME NEW cl \in ClientState, Belongs(cl, conn[c])
        PROVE  Belongs(cl, r)
    <3>1. conn[c].rx + cl.request_buffer + Asked(cl) <= conn[c].sent
      BY <2>5 DEF Belongs
    <3>2. r.rx + cl.request_buffer + Asked(cl) <= r.sent
      BY <1>2, <1>4, <2>2, <3>1
    <3> QED  BY <2>2, <2>3, <2>5, <3>2 DEF Belongs
  <2>6. WritableConn(r) /\ ReadableConn(r)
    BY <2>3 DEF WritableConn, ReadableConn
  <2> QED  BY <2>1, <2>2, <2>4, <2>5, <2>6
<1>9. CASE Receive(c)
  <2> DEFINE r == [conn[c] EXCEPT !.flight = conn[c].flight - 1]
  <2>1. conn' = [conn EXCEPT ![c] = r] /\ conn[c].flight > 0
    BY <1>9 DEF Receive
  <2>2. conn[c].flight - 1 \in Nat
    BY <1>2, <2>1
  <2>3. /\ r \in ConnState /\ r.st = conn[c].st /\ r.lsn = conn[c].lsn
        /\ r.rx = conn[c].rx /\ r.sent = conn[c].sent
        /\ r.owed = conn[c].owed /\ r.wrote = conn[c].wrote
        /\ r.flight = conn[c].flight - 1 /\ r.why = conn[c].why
    BY <1>1, <2>2 DEF ConnState
  <2>4. r.rst = conn[c].rst /\ r.fin = conn[c].fin /\ r.abort = conn[c].abort
    BY <1>1 DEF ConnState
  <2> HIDE DEF r
  <2>5. ConnOK(r)
    BY <1>1, <2>3, <2>4 DEF ConnOK
  <2>6. ASSUME NEW cl \in ClientState, Belongs(cl, conn[c])
        PROVE  Belongs(cl, r)
    BY <2>3, <2>4, <2>6 DEF Belongs
  <2>7. WritableConn(conn[c]) => WritableConn(r)
    BY <1>2, <2>3, <2>4, ConstantsAssumption DEF WritableConn
  <2>8. ReadableConn(conn[c]) => ReadableConn(r)
    BY <2>3, <2>4 DEF ReadableConn
  <2> QED  BY <2>1, <2>3, <2>5, <2>6, <2>7, <2>8
<1> QED  BY <1>5, <1>6, <1>7, <1>8, <1>9 DEF Peer

\* A peer's step preserves the invariant, wherever the loop is.
LEMMA PeerConns ==
  ASSUME JInv, NEW c \in Conns, Peer(c)
  PROVE  Holders' /\ DownIsDown' /\ ConnsOK' /\ Pairs' /\ ReportsLast' /\ EventOK'
<1>1. UNCHANGED <<running, pc, fds, i, cur, clients, fdtab, listening>>
  BY DEF Peer, Connect, Send, ShutDown, Reset, Receive
<1>2. pc \notin Dead
  BY PeerFacts
<1>3. PICK r \in ConnState :
        /\ conn' = [conn EXCEPT ![c] = r]
        /\ r.st = "open" <=> conn[c].st = "open"
        /\ ConnOK(r)
        /\ conn[c].st = "open" =>
             \A cl \in ClientState : Belongs(cl, conn[c]) => Belongs(cl, r)
        /\ WritableConn(conn[c]) => WritableConn(r)
        /\ ReadableConn(conn[c]) => ReadableConn(r)
  BY PeerFacts
<1>4. ASSUME pc \notin Clean, NEW f \in DOMAIN clients, fdtab[f] = c
      PROVE  Belongs(clients'[f], r)
  <2>1. f \in Open
    BY <1>4, ClientLemma DEF JInv
  <2>2. clients[f] \in ClientState /\ conn[c].st = "open"
    BY <1>4, <2>1, OpenLemma DEF JInv, Holders
  <2>3. Belongs(clients[f], conn[c])
    BY <1>4 DEF JInv, Pairs
  <2> QED  BY <1>1, <1>3, <2>2, <2>3
<1>5. Holders' /\ DownIsDown' /\ ConnsOK' /\ Pairs'
  BY <1>1, <1>2, <1>3, <1>4, OneConn
<1>6. EventOK'
  BY <1>1 DEF JInv, EventOK
<1>7. ReportsLast'
  <2>1. CASE pc \in InRound
    <3>1. conn'[c] = r /\ \A d \in Conns : d # c => conn'[d] = conn[d]
      BY <1>3 DEF JInv, IInv, TypeOK
    <3>2. \A d \in Conns : /\ WritableConn(conn[d]) => WritableConn(conn'[d])
                           /\ ReadableConn(conn[d]) => ReadableConn(conn'[d])
      BY <1>3, <3>1
    <3>3. \A f \in Open : fdtab[f] \in Conns
      BY OpenLemma DEF JInv
    <3>4. i \in Nat /\ i >= i
      BY DEF JInv, IInv, TypeOK
    <3> QED  BY <1>1, <2>1, <3>2, <3>3, <3>4, ReportsLemma
  <2>2. CASE pc \notin InRound
    BY <1>1, <2>2 DEF ReportsLast
  <2> QED  BY <2>1, <2>2
<1> QED  BY <1>5, <1>6, <1>7

\* Every step of the server and of its environment preserves the invariant.
LEMMA NextConns == JInv /\ [Next]_vars => JInv'
<1> SUFFICES ASSUME JInv, [Next]_vars  PROVE JInv'
  OBVIOUS
<1>0. IInv'
  BY NextInvariant DEF JInv
<1> SUFFICES Holders' /\ DownIsDown' /\ ConnsOK' /\ Pairs' /\ ReportsLast' /\ EventOK'
  BY <1>0 DEF JInv
<1>1. i \in Nat /\ i + 1 \in Nat /\ i + 1 >= i /\ i + 1 > i /\ i >= i
  BY DEF JInv, IInv, TypeOK
<1>2. CASE addListeningSocketsToPoller \/ CheckRunning \/ EnterPoll \/ EndOfRound
  <2>1. /\ pc \in {"start", "check", "poll", "scan"}
        /\ pc' \in {"check", "poll", "cleanup", "wait"}
        /\ UNCHANGED <<clients, fdtab, listening, conn>>
    BY <1>2 DEF addListeningSocketsToPoller, CheckRunning, EnterPoll, EndOfRound
  <2>2. Holders' /\ DownIsDown' /\ ConnsOK' /\ Pairs'
    BY <2>1, SameConns DEF Clean, Dead
  <2> QED  BY <2>1, <2>2 DEF ReportsLast, InRound, EventOK
<1>3. CASE Skip \/ (acceptNewConnection /\ UNCHANGED <<fds, clients, fdtab, conn>>)
  <2>1. /\ pc = "scan" /\ pc' = "scan" /\ i' = i + 1
        /\ UNCHANGED <<fds, clients, fdtab, listening, conn>>
    BY <1>3 DEF Skip, acceptNewConnection
  <2>2. Holders' /\ DownIsDown' /\ ConnsOK' /\ Pairs'
    BY <2>1, SameConns DEF Clean, Dead
  <2>3. ReportsLast'
    BY <1>1, <2>1, ReportsLemma DEF InRound
  <2> QED  BY <2>1, <2>2, <2>3 DEF EventOK
<1>4. CASE PollReturns
  BY <1>4, FreshReports DEF PollReturns
<1>5. CASE PollThrows
  BY <1>5, EndConns DEF PollThrows, Whys, Dead
<1>6. CASE acceptNewConnection /\ ~UNCHANGED <<fds, clients, fdtab, conn>>
  <2>1. PICK c \in Backlog(fds[i].fd), fd \in FreeFds :
          /\ fdtab' = [fdtab EXCEPT ![fd] = c]
          /\ conn' = [conn EXCEPT ![c].st = "open"]
          /\ fds' = addFd(fds, fd, {"IN", "OUT"})
          /\ clients' = addClient(clients, fd, fds[i].fd)
    BY <1>6 DEF acceptNewConnection
  <2>2. /\ pc = "scan" /\ i \in DOMAIN fds /\ fds[i].fd \in ListenSet
        /\ i' = i + 1 /\ UNCHANGED <<running, pc, cur, listening>>
    BY <1>6 DEF acceptNewConnection, isListeningSocket, JInv, IInv, TypeOK
  <2> QED  BY <2>1, <2>2, AcceptConns
<1>7. CASE ClientEvent
  BY <1>7, ClientEventConns
<1>8. CASE cleanup
  <2>1. EndAll("shutdown") /\ pc' = "stopped"
    BY <1>8, CleanupEndsAll DEF cleanup
  <2> QED  BY <2>1, EndConns DEF Whys, Dead
<1>9. CASE signalHandler
  <2>1. CASE pc = "wait"
    BY <1>9, <2>1, FreshReports DEF signalHandler
  <2>2. CASE pc # "wait"
    <3>1. /\ UNCHANGED <<pc, i, fds, cur, clients, fdtab, listening, conn>>
          /\ pc \notin Dead
      BY <1>9, <2>2 DEF signalHandler
    <3>2. Open' = Open
      BY <3>1 DEF Open
    <3>3. Holders' /\ DownIsDown' /\ ConnsOK' /\ Pairs'
      BY <3>1, <3>2 DEF JInv, Holders, DownIsDown, ConnsOK, Pairs
    <3>4. ReportsLast' /\ EventOK'
      BY <3>1, <3>2 DEF JInv, ReportsLast, ReportLasts, EventOK
    <3> QED  BY <3>3, <3>4
  <2> QED  BY <2>1, <2>2
<1>10. CASE \E c \in Conns : Peer(c)
  BY <1>10, PeerConns
<1>11. CASE UNCHANGED vars
  <2>1. Open' = Open
    BY <1>11 DEF Open, vars
  <2>2. Holders' /\ DownIsDown' /\ ConnsOK' /\ Pairs'
    BY <1>11, <2>1 DEF JInv, Holders, DownIsDown, ConnsOK, Pairs, vars
  <2>3. ReportsLast' /\ EventOK'
    BY <1>11, <2>1 DEF JInv, ReportsLast, ReportLasts, EventOK, vars
  <2> QED  BY <2>2, <2>3
<1> QED
  BY <1>2, <1>3, <1>4, <1>5, <1>6, <1>7, <1>8, <1>9, <1>10, <1>11
     DEF Next, run, Terminated
-----------------------------------------------------------------------------
(* The theorems. *)

\* JInv holds in every state of every behaviour of the event loop.
THEOREM ConnInvariance == Spec => []JInv
BY InitConns, NextConns, PTL DEF Spec

\* However descriptors are reused, a client object accounts for the units of
\* the connection behind its descriptor, and of no other.
THEOREM ClientsKeepTheirConnection == Spec => []ClientIsItsConnection
<1>1. JInv => ClientIsItsConnection
  <2> SUFFICES ASSUME JInv, pc \notin Clean, NEW f \in DOMAIN clients
               PROVE  LET c == conn[fdtab[f]]
                          cl == clients[f]
                          asked == IF cl.response_buffer > 0 THEN Need ELSE 0
                      IN  /\ c.st = "open" /\ c.lsn = cl.server
                          /\ cl.response_buffer = c.owed /\ cl.response_offset = c.wrote
                          /\ ~c.rst => c.rx + cl.request_buffer + asked = c.sent
                          /\ \A g \in DOMAIN clients : fdtab[g] = fdtab[f] => g = f
    BY DEF ClientIsItsConnection
  <2>1. DOMAIN clients \subseteq Open
    BY ClientLemma DEF JInv
  <2>2. conn[fdtab[f]].st = "open"
        /\ \A g \in DOMAIN clients : fdtab[g] = fdtab[f] => g = f
    BY <2>1 DEF JInv, Holders
  <2>3. Belongs(clients[f], conn[fdtab[f]])
    BY DEF JInv, Pairs
  <2> QED  BY <2>2, <2>3 DEF Belongs, Asked
<1> QED  BY <1>1, ConnInvariance, PTL

\* The POLLOUT that was reported when the round began is still true when its
\* client is reached: write() never meets a full socket.
THEOREM RoomToWrite == Spec => []WriteHasRoom
<1>1. JInv => WriteHasRoom
  <2> SUFFICES ASSUME JInv, pc = "write", "OUT" \in cur.revents, ~curConn.rst
               PROVE  curConn.flight < Window
    BY DEF WriteHasRoom
  <2>1. i \in DOMAIN fds /\ fds[i] = cur /\ cur.fd \in Open /\ i >= i
    BY CurLemma DEF JInv, IInv, TypeOK
  <2>2. ReportLasts(i)
    BY <2>1 DEF JInv, ReportsLast, InRound
  <2> QED  BY <2>1, <2>2 DEF ReportLasts, WritableConn, curConn
<1> QED  BY <1>1, ConnInvariance, PTL

\* Who is closed as answered has the whole response, and its close is clean
\* when it sent one request and nothing more.
THEOREM AnswersInFull == Spec => []AnsweredInFull
<1>1. JInv => AnsweredInFull
  BY DEF JInv, ConnsOK, ConnOK, AnsweredInFull
<1> QED  BY <1>1, ConnInvariance, PTL

\* After run() has returned, through whatever interleaving, nothing is open.
THEOREM ShutdownIsClean == Spec => []ShutdownClosesAll
<1>1. JInv => ShutdownClosesAll
  BY DEF JInv, DownIsDown, Dead, ShutdownClosesAll
<1> QED  BY <1>1, ConnInvariance, PTL
-----------------------------------------------------------------------------
(* The refinement of ConnectionLife. *)

\* The state of ConnectionLife that a state of the loop stands for.
ups == pc \notin Dead
phases == [c \in Conns |-> conn[c].st]
askeds == [c \in Conns |-> conn[c].sent >= Need]
lefts == [c \in Conns |-> conn[c].fin \/ conn[c].rst]
oweds == [c \in Conns |-> conn[c].owed]
writtens == [c \in Conns |-> conn[c].wrote]

\* What becomes of it when one connection changes.
LEMMA OneMapped ==
  ASSUME JInv, NEW c \in Conns, NEW r \in ConnState, conn' = [conn EXCEPT ![c] = r]
  PROVE  /\ phases' = [phases EXCEPT ![c] = r.st]
         /\ askeds' = [askeds EXCEPT ![c] = (r.sent >= Need)]
         /\ lefts' = [lefts EXCEPT ![c] = (r.fin \/ r.rst)]
         /\ oweds' = [oweds EXCEPT ![c] = r.owed]
         /\ writtens' = [writtens EXCEPT ![c] = r.wrote]
<1>1. conn'[c] = r /\ \A d \in Conns : d # c => conn'[d] = conn[d]
  BY DEF JInv, IInv, TypeOK
<1>2. phases' = [phases EXCEPT ![c] = r.st]
  <2>1. \A d \in Conns : phases'[d] = [phases EXCEPT ![c] = r.st][d]
    BY <1>1 DEF phases
  <2>2. DOMAIN phases' = Conns /\ DOMAIN [phases EXCEPT ![c] = r.st] = Conns
    BY DEF phases
  <2> QED  BY <2>1, <2>2, Zenon DEF phases
<1>3. oweds' = [oweds EXCEPT ![c] = r.owed]
  <2>1. \A d \in Conns : oweds'[d] = [oweds EXCEPT ![c] = r.owed][d]
    BY <1>1 DEF oweds
  <2>2. DOMAIN oweds' = Conns /\ DOMAIN [oweds EXCEPT ![c] = r.owed] = Conns
    BY DEF oweds
  <2> QED  BY <2>1, <2>2, Zenon DEF oweds
<1>4. writtens' = [writtens EXCEPT ![c] = r.wrote]
  <2>1. \A d \in Conns : writtens'[d] = [writtens EXCEPT ![c] = r.wrote][d]
    BY <1>1 DEF writtens
  <2>2. DOMAIN writtens' = Conns /\ DOMAIN [writtens EXCEPT ![c] = r.wrote] = Conns
    BY DEF writtens
  <2> QED  BY <2>1, <2>2, Zenon DEF writtens
<1>5. askeds' = [askeds EXCEPT ![c] = (r.sent >= Need)]
  <2>1. \A d \in Conns : askeds'[d] = [askeds EXCEPT ![c] = (r.sent >= Need)][d]
    BY <1>1 DEF askeds
  <2>2. DOMAIN askeds' = Conns /\ DOMAIN [askeds EXCEPT ![c] = (r.sent >= Need)] = Conns
    BY DEF askeds
  <2> QED  BY <2>1, <2>2, Zenon DEF askeds
<1>6. lefts' = [lefts EXCEPT ![c] = (r.fin \/ r.rst)]
  <2>1. \A d \in Conns : lefts'[d] = [lefts EXCEPT ![c] = (r.fin \/ r.rst)][d]
    BY <1>1 DEF lefts
  <2>2. DOMAIN lefts' = Conns /\ DOMAIN [lefts EXCEPT ![c] = (r.fin \/ r.rst)] = Conns
    BY DEF lefts
  <2> QED  BY <2>1, <2>2, Zenon DEF lefts
<1> QED  BY <1>2, <1>3, <1>4, <1>5, <1>6

\* A field that stays as it is.
LEMMA SameMapped ==
  ASSUME JInv, NEW c \in Conns, NEW r \in ConnState, conn' = [conn EXCEPT ![c] = r]
  PROVE  /\ r.st = conn[c].st => phases' = phases
         /\ (r.sent >= Need) = (conn[c].sent >= Need) => askeds' = askeds
         /\ (r.fin \/ r.rst) = (conn[c].fin \/ conn[c].rst) => lefts' = lefts
         /\ r.owed = conn[c].owed => oweds' = oweds
         /\ r.wrote = conn[c].wrote => writtens' = writtens
<1>1. [phases EXCEPT ![c] = conn[c].st] = phases
  BY DEF phases
<1>2. [askeds EXCEPT ![c] = (conn[c].sent >= Need)] = askeds
  BY DEF askeds
<1>3. [lefts EXCEPT ![c] = (conn[c].fin \/ conn[c].rst)] = lefts
  BY DEF lefts
<1>4. [oweds EXCEPT ![c] = conn[c].owed] = oweds
  BY DEF oweds
<1>5. [writtens EXCEPT ![c] = conn[c].wrote] = writtens
  BY DEF writtens
<1>6. /\ phases' = [phases EXCEPT ![c] = r.st]
      /\ askeds' = [askeds EXCEPT ![c] = (r.sent >= Need)]
      /\ lefts' = [lefts EXCEPT ![c] = (r.fin \/ r.rst)]
      /\ oweds' = [oweds EXCEPT ![c] = r.owed]
      /\ writtens' = [writtens EXCEPT ![c] = r.wrote]
  BY OneMapped
<1> QED  BY <1>1, <1>2, <1>3, <1>4, <1>5, <1>6, Zenon

\* There is room for one more connection while a descriptor is free: every
\* open connection holds another one.
LEMMA RoomToAccept ==
  ASSUME JInv, NEW fd \in FreeFds
  PROVE  Cardinality({c \in Conns : conn[c].st = "open"}) < Cardinality(ClientFds)
<1> DEFINE O == {c \in Conns : conn[c].st = "open"}
           held == [f \in Open |-> fdtab[f]]
<1>1. held \in Surjection(Open, O)
  <2>1. held \in [Open -> O]
    BY OpenLemma DEF JInv, Holders
  <2>2. \A c \in O : \E f \in Open : held[f] = c
    BY DEF JInv, Holders
  <2> QED  BY <2>1, <2>2 DEF Surjection
<1>2. IsFiniteSet(ClientFds) /\ fd \in ClientFds /\ Open \in SUBSET (ClientFds \ {fd})
  BY ConstantsAssumption DEF FreeFds, Open
<1>3. /\ IsFiniteSet(ClientFds \ {fd})
      /\ Cardinality(ClientFds \ {fd}) = Cardinality(ClientFds) - 1
  BY <1>2, FS_RemoveElement
<1>4. IsFiniteSet(Open) /\ Cardinality(Open) <= Cardinality(ClientFds \ {fd})
  BY <1>2, <1>3, FS_Subset
<1>5. IsFiniteSet(O) /\ Cardinality(O) <= Cardinality(Open)
  <2> HIDE DEF O, held
  <2> QED  BY <1>1, <1>4, FS_Surjection
<1>6. /\ Cardinality(O) \in Nat /\ Cardinality(Open) \in Nat
      /\ Cardinality(ClientFds) \in Nat
  <2> HIDE DEF O
  <2> QED  BY <1>2, <1>4, <1>5, FS_CardinalityType
<1> HIDE DEF O
<1>7. Cardinality(O) < Cardinality(ClientFds)
  BY <1>3, <1>4, <1>5, <1>6
<1> QED  BY <1>7 DEF O

\* The initial states map to initial states.
LEMMA LifeInit == Init => Life!Init
<1> SUFFICES ASSUME Init  PROVE Life!Init
  OBVIOUS
<1>1. ups = TRUE
  BY DEF Init, ups, Dead
<1>2. \A c \in Conns : conn[c] = NewConn
  BY DEF Init
<1>3. phases = [c \in Conns |-> "new"]
  BY <1>2 DEF phases, NewConn
<1>4. oweds = [c \in Conns |-> 0]
  BY <1>2 DEF oweds, NewConn
<1>5. writtens = [c \in Conns |-> 0]
  BY <1>2 DEF writtens, NewConn
<1>6. askeds = [c \in Conns |-> FALSE]
  <2>1. \A c \in Conns : (conn[c].sent >= Need) = FALSE
    BY <1>2, ConstantsAssumption DEF NewConn
  <2> QED  BY <2>1, Zenon DEF askeds
<1>7. lefts = [c \in Conns |-> FALSE]
  <2>1. \A c \in Conns : (conn[c].fin \/ conn[c].rst) = FALSE
    BY <1>2 DEF NewConn
  <2> QED  BY <2>1, Zenon DEF lefts
<1> QED
  BY <1>1, <1>3, <1>4, <1>5, <1>6, <1>7, Zenon
     DEF Life!Init, ups, phases, askeds, lefts, oweds, writtens

\* A step that keeps the mapped state is a stutter.
LEMMA Stutter ==
  ASSUME ups' = ups, UNCHANGED <<phases, askeds, lefts, oweds, writtens>>
  PROVE  UNCHANGED Life!lifeVars
BY Zenon DEF Life!lifeVars, ups, phases, askeds, lefts, oweds, writtens

\* The end of the process is the end of the server.
LEMMA EndIsGoDown ==
  ASSUME JInv, NEW why \in Whys, EndAll(why), pc \notin Dead, pc' \in Dead
  PROVE  Life!GoDown
<1>1. \A c \in Conns : conn[c] \in ConnState
  BY DEF JInv, IInv, TypeOK
<1>2. ASSUME NEW c \in Conns
      PROVE  /\ conn'[c].st = IF conn[c].st \in {"queued", "open"} THEN "closed"
                              ELSE conn[c].st
             /\ conn'[c].sent = conn[c].sent /\ conn'[c].fin = conn[c].fin
             /\ conn'[c].rst = conn[c].rst /\ conn'[c].owed = conn[c].owed
             /\ conn'[c].wrote = conn[c].wrote
  <2>1. CASE conn[c].st \in {"queued", "open"}
    <3>1. conn'[c] = Ended(conn[c], why)
      BY <2>1 DEF EndAll
    <3> QED  BY <1>1, <2>1, <3>1, EndedFields
  <2>2. CASE conn[c].st \notin {"queued", "open"}
    <3>1. conn'[c] = conn[c]
      BY <2>2 DEF EndAll
    <3> QED  BY <2>2, <3>1
  <2> QED  BY <2>1, <2>2
<1>3. phases' = [c \in Conns |-> IF phases[c] \in {"queued", "open"} THEN "closed"
                                 ELSE phases[c]]
  <2>1. \A c \in Conns : phases[c] = conn[c].st
    BY DEF phases
  <2> QED  BY <1>2, <2>1 DEF phases
<1>4. askeds' = askeds
  BY <1>2, Zenon DEF askeds
<1>5. lefts' = lefts
  BY <1>2, Zenon DEF lefts
<1>6. oweds' = oweds
  BY <1>2, Zenon DEF oweds
<1>7. writtens' = writtens
  BY <1>2, Zenon DEF writtens
<1>8. ups = TRUE /\ ups' = FALSE
  BY DEF ups
<1> QED
  BY <1>3, <1>4, <1>5, <1>6, <1>7, <1>8, Zenon
     DEF Life!GoDown, Life!Alive, ups, phases, askeds, lefts, oweds, writtens

\* A step of one connection is a step of its life.
LEMMA LifeStep ==
  ASSUME NEW c \in Conns,
         \/ Life!Arrive(c) \/ Life!Ask(c) \/ Life!Leave(c) \/ Life!Accept(c)
         \/ Life!Answer(c) \/ Life!Deliver(c) \/ Life!GiveUp(c)
  PROVE  Life!Next
BY Zenon DEF Life!Next

\* What a peer does is a step of its connection, or is not seen at all.
LEMMA PeerLife ==
  ASSUME JInv, NEW c \in Conns, Peer(c)
  PROVE  Life!Next \/ UNCHANGED Life!lifeVars
<1>1. conn[c] \in ConnState
  BY DEF JInv, IInv, TypeOK
<1>2. pc \notin Dead /\ pc' = pc
  BY PeerFacts DEF Peer, Connect, Send, ShutDown, Reset, Receive
<1>3. ups /\ ups' = ups
  BY <1>2 DEF ups
<1>4. /\ conn[c].rx \in Nat /\ conn[c].sent \in Nat /\ conn[c].flight \in Nat
      /\ conn[c].rx + 1 \in Nat /\ conn[c].sent + 1 \in Nat
  BY <1>1 DEF ConnState
<1>5. phases[c] = conn[c].st
  BY DEF phases
<1>6. CASE \E l \in ListenSet : Connect(c, l)
  <2>1. PICK l \in ListenSet : Connect(c, l)
    BY <1>6
  <2> DEFINE r == [conn[c] EXCEPT !.st = "queued", !.lsn = l]
  <2>2. conn' = [conn EXCEPT ![c] = r] /\ conn[c].st = "new"
    BY <2>1 DEF Connect
  <2>3. /\ r \in ConnState /\ r.st = "queued" /\ r.sent = conn[c].sent
        /\ r.owed = conn[c].owed /\ r.wrote = conn[c].wrote
    BY <1>1 DEF ConnState
  <2>4. r.rst = conn[c].rst /\ r.fin = conn[c].fin
    BY <1>1 DEF ConnState
  <2> HIDE DEF r
  <2>5. UNCHANGED <<askeds, lefts, oweds, writtens>>
    BY <2>2, <2>3, <2>4, SameMapped
  <2>6. phases' = [phases EXCEPT ![c] = "queued"]
    <3>1. phases' = [phases EXCEPT ![c] = r.st]
      BY <2>2, <2>3, OneMapped
    <3> QED  BY <2>3, <3>1
  <2>7. phases[c] = "new"
    BY <1>5, <2>2
  <2>8. Life!Arrive(c)
    BY <1>3, <2>5, <2>6, <2>7, Zenon
       DEF Life!Arrive, ups, phases, askeds, lefts, oweds, writtens
  <2> QED  BY <2>8, LifeStep, Zenon
<1>7. CASE Send(c)
  <2> DEFINE r == [conn[c] EXCEPT !.rx = conn[c].rx + 1, !.sent = conn[c].sent + 1]
  <2>1. /\ conn' = [conn EXCEPT ![c] = r] /\ conn[c].st \in {"queued", "open"}
        /\ ~conn[c].fin /\ ~conn[c].rst
    BY <1>7 DEF Send, CanSend
  <2>2. /\ r \in ConnState /\ r.st = conn[c].st /\ r.sent = conn[c].sent + 1
        /\ r.owed = conn[c].owed /\ r.wrote = conn[c].wrote
    BY <1>1, <1>4 DEF ConnState
  <2>3. r.rst = conn[c].rst /\ r.fin = conn[c].fin
    BY <1>1 DEF ConnState
  <2> HIDE DEF r
  <2>4. UNCHANGED <<phases, lefts, oweds, writtens>>
    BY <2>1, <2>2, <2>3, SameMapped
  <2>5. CASE r.sent >= Need
    <3>1. (r.sent >= Need) = TRUE
      BY <2>5
    <3>2. askeds' = [askeds EXCEPT ![c] = (r.sent >= Need)]
      BY <2>1, <2>2, OneMapped
    <3>3. askeds' = [askeds EXCEPT ![c] = TRUE]
      BY <3>1, <3>2, Zenon
    <3>4. lefts[c] = FALSE
      BY <2>1 DEF lefts
    <3>5. Life!Ask(c)
      BY <1>3, <1>5, <2>1, <2>4, <3>3, <3>4, Zenon
         DEF Life!Ask, Life!Alive, ups, phases, askeds, lefts, oweds, writtens
    <3> QED  BY <3>5, LifeStep, Zenon
  <2>6. CASE ~(r.sent >= Need)
    <3>1. (r.sent >= Need) = (conn[c].sent >= Need)
      BY <1>4, <2>2, <2>6, ConstantsAssumption
    <3>2. askeds' = askeds
      BY <2>1, <2>2, <3>1, SameMapped
    <3> QED  BY <1>3, <2>4, <3>2, Stutter
  <2> QED  BY <2>5, <2>6
<1>8. CASE ShutDown(c) \/ Reset(c)
  <2> DEFINE r1 == [conn[c] EXCEPT !.fin = TRUE]
             r2 == [conn[c] EXCEPT !.rst = TRUE, !.rx = 0, !.flight = 0]
  <2>1. /\ r1 \in ConnState /\ r1.st = conn[c].st /\ r1.sent = conn[c].sent
        /\ r1.owed = conn[c].owed /\ r1.wrote = conn[c].wrote /\ r1.fin
    BY <1>1 DEF ConnState
  <2>2. /\ r2 \in ConnState /\ r2.st = conn[c].st /\ r2.sent = conn[c].sent
        /\ r2.owed = conn[c].owed /\ r2.wrote = conn[c].wrote /\ r2.rst
    BY <1>1 DEF ConnState
  <2>3. /\ conn' = [conn EXCEPT ![c] = r1] \/ conn' = [conn EXCEPT ![c] = r2]
        /\ conn[c].st \in {"queued", "open"}
    BY <1>8 DEF ShutDown, CanSend, Reset
  <2> HIDE DEF r1, r2
  <2>4. PICK r \in ConnState :
          /\ conn' = [conn EXCEPT ![c] = r] /\ r.st = conn[c].st
          /\ r.sent = conn[c].sent /\ r.owed = conn[c].owed
          /\ r.wrote = conn[c].wrote /\ (r.fin \/ r.rst)
    BY <2>1, <2>2, <2>3
  <2>5. UNCHANGED <<phases, askeds, oweds, writtens>>
    BY <2>4, SameMapped
  <2>6. lefts' = [lefts EXCEPT ![c] = (r.fin \/ r.rst)]
    BY <2>4, OneMapped
  <2>7. (r.fin \/ r.rst) = TRUE
    BY <2>4
  <2>8. lefts' = [lefts EXCEPT ![c] = TRUE]
    BY <2>6, <2>7, Zenon
  <2>9. Life!Leave(c)
    BY <1>3, <1>5, <2>3, <2>5, <2>8, Zenon
       DEF Life!Leave, Life!Alive, ups, phases, askeds, lefts, oweds, writtens
  <2> QED  BY <2>9, LifeStep, Zenon
<1>9. CASE Receive(c)
  <2> DEFINE r == [conn[c] EXCEPT !.flight = conn[c].flight - 1]
  <2>1. conn' = [conn EXCEPT ![c] = r] /\ conn[c].flight - 1 \in Nat
    BY <1>4, <1>9 DEF Receive
  <2>2. /\ r \in ConnState /\ r.st = conn[c].st /\ r.sent = conn[c].sent
        /\ r.owed = conn[c].owed /\ r.wrote = conn[c].wrote
    BY <1>1, <2>1 DEF ConnState
  <2>3. r.rst = conn[c].rst /\ r.fin = conn[c].fin
    BY <1>1 DEF ConnState
  <2> HIDE DEF r
  <2>4. UNCHANGED <<phases, askeds, lefts, oweds, writtens>>
    BY <2>1, <2>2, <2>3, SameMapped
  <2> QED  BY <1>3, <2>4, Stutter
<1> QED  BY <1>6, <1>7, <1>8, <1>9 DEF Peer

\* Taking a connection from the backlog accepts it.
LEMMA AcceptLife ==
  ASSUME JInv, pc = "scan", pc' = "scan", NEW fd \in FreeFds,
         NEW c \in Conns, conn[c].st = "queued", conn' = [conn EXCEPT ![c].st = "open"]
  PROVE  Life!Accept(c)
<1> DEFINE r == [conn[c] EXCEPT !.st = "open"]
<1>1. conn[c] \in ConnState /\ conn' = [conn EXCEPT ![c] = r]
  BY DEF JInv, IInv, TypeOK
<1>2. /\ r \in ConnState /\ r.st = "open" /\ r.sent = conn[c].sent
      /\ r.owed = conn[c].owed /\ r.wrote = conn[c].wrote
  BY <1>1 DEF ConnState
<1>3. r.rst = conn[c].rst /\ r.fin = conn[c].fin
  BY <1>1 DEF ConnState
<1> HIDE DEF r
<1>4. UNCHANGED <<askeds, lefts, oweds, writtens>>
  BY <1>1, <1>2, <1>3, SameMapped
<1>5. phases' = [phases EXCEPT ![c] = "open"]
  <2>1. phases' = [phases EXCEPT ![c] = r.st]
    BY <1>1, <1>2, OneMapped
  <2> QED  BY <1>2, <2>1
<1>6. phases[c] = "queued"
  BY DEF phases
<1>7. ups /\ ups' = ups
  BY DEF ups, Dead
<1>8. Life!Cardinality(Life!OpenConns) < Cardinality(ClientFds)
  <2>1. Life!OpenConns = {d \in Conns : conn[d].st = "open"}
    BY DEF Life!OpenConns
  <2>2. Life!Cardinality(Life!OpenConns) = Cardinality(Life!OpenConns)
    BY Zenon DEF Cardinality, Life!Cardinality, IsFiniteSet, Life!IsFiniteSet
  <2> QED  BY <2>1, <2>2, RoomToAccept
<1> QED
  BY <1>4, <1>5, <1>6, <1>7, <1>8, Zenon
     DEF Life!Accept, ups, phases, askeds, lefts, oweds, writtens

\* A response is generated for a whole request, once.
LEMMA AnswerLife ==
  ASSUME JInv, generateClientResponse, NEW c \in Conns, c = fdtab[cur.fd]
  PROVE  Life!Answer(c)
<1> DEFINE fd == cur.fd
<1>1. /\ pc \notin Clean /\ fd \in Open /\ c \in Conns
      /\ conn[c] \in ConnState /\ fd \in DOMAIN clients
      /\ clients[fd] \in ClientState
  BY CurLemma DEF JInv, generateClientResponse
<1>2. Belongs(clients[fd], conn[c]) /\ conn[c].st = "open"
  BY <1>1 DEF JInv, Pairs, Holders
<1>3. clients[fd].request_buffer >= Need /\ clients[fd].response_buffer = 0
  BY <1>1 DEF generateClientResponse, mayGenerate, curClient, JInv, IInv, CountsOK
<1>4. PICK size \in RespSizes : conn' = [conn EXCEPT ![c].owed = size]
  BY DEF generateClientResponse
<1>5. size \in Nat \ {0} /\ size \in Nat
  BY ConstantsAssumption
<1> DEFINE r == [conn[c] EXCEPT !.owed = size]
<1>6. conn' = [conn EXCEPT ![c] = r]
  BY <1>1, <1>4
<1>7. /\ r \in ConnState /\ r.st = conn[c].st /\ r.sent = conn[c].sent
      /\ r.owed = size /\ r.wrote = conn[c].wrote
  BY <1>1, <1>5 DEF ConnState
<1>8. r.rst = conn[c].rst /\ r.fin = conn[c].fin
  BY <1>1 DEF ConnState
<1> HIDE DEF r
<1>9. UNCHANGED <<phases, askeds, lefts, writtens>>
  BY <1>1, <1>6, <1>7, <1>8, SameMapped
<1>10. oweds' = [oweds EXCEPT ![c] = size]
  <2>1. oweds' = [oweds EXCEPT ![c] = r.owed]
    BY <1>1, <1>6, <1>7, OneMapped
  <2> QED  BY <1>7, <2>1
<1>11. phases[c] = "open" /\ oweds[c] = 0
  BY <1>1, <1>2, <1>3 DEF phases, oweds, Belongs
<1>12. askeds[c] = TRUE
  <2>1. /\ conn[c].rx \in Nat /\ conn[c].sent \in Nat /\ Need \in Nat
        /\ clients[fd].request_buffer \in Nat
    BY <1>1, ConstantsAssumption DEF ConnState, ClientState
  <2>2. Asked(clients[fd]) = 0
    BY <1>3 DEF Asked
  <2>3. conn[c].rx + clients[fd].request_buffer + 0 <= conn[c].sent
    BY <1>2, <2>2 DEF Belongs
  <2>4. conn[c].sent >= Need
    BY <1>3, <2>1, <2>3
  <2> QED  BY <1>1, <2>4 DEF askeds
<1>13. oweds'[c] = size
  BY <1>1, <1>10 DEF oweds
<1>14. oweds' = [oweds EXCEPT ![c] = oweds'[c]]
  BY <1>10, <1>13
<1>15. ups /\ ups' = ups
  BY DEF ups, Dead, generateClientResponse
<1>16. oweds'[c] \in Nat \ {0}
  BY <1>5, <1>13
<1> QED
  BY <1>9, <1>11, <1>12, <1>14, <1>15, <1>16, Zenon
     DEF Life!Answer, ups, phases, askeds, lefts, oweds, writtens

\* A connection that is dropped was left by its peer.
LEMMA GiveUpLife ==
  ASSUME JInv, pc \in {"read", "process", "write"}, EndEvent,
         Drop(cur.fd, Ended(curConn, "dropped")), curConn.fin \/ curConn.rst,
         NEW c \in Conns, c = fdtab[cur.fd]
  PROVE  Life!GiveUp(c)
<1> DEFINE r == Ended(conn[c], "dropped")
<1>1. /\ cur.fd \in Open /\ c \in Conns /\ conn[c] \in ConnState
      /\ pc \notin Dead
  BY CurLemma DEF JInv
<1>2. conn' = [conn EXCEPT ![c] = r]
  BY DEF Drop, curConn
<1>3. "dropped" \in Whys
  BY DEF Whys
<1>4. /\ r \in ConnState /\ r.st = "closed" /\ r.sent = conn[c].sent
      /\ r.owed = conn[c].owed /\ r.wrote = conn[c].wrote
      /\ r.rst = conn[c].rst /\ r.fin = conn[c].fin
  BY <1>1, <1>3, EndedType, EndedFields
<1> HIDE DEF r
<1>5. UNCHANGED <<askeds, lefts, oweds, writtens>>
  BY <1>1, <1>2, <1>4, SameMapped
<1>6. phases' = [phases EXCEPT ![c] = "closed"]
  <2>1. phases' = [phases EXCEPT ![c] = r.st]
    BY <1>1, <1>2, <1>4, OneMapped
  <2> QED  BY <1>4, <2>1
<1>7. phases[c] = "open"
  BY <1>1 DEF phases, JInv, Holders
<1>8. lefts[c] = TRUE
  <2>1. (conn[c].fin \/ conn[c].rst) = TRUE
    BY DEF curConn
  <2> QED  BY <1>1, <2>1, Zenon DEF lefts
<1>9. ups /\ ups' = ups
  BY <1>1 DEF ups, EndEvent, Dead
<1> QED
  BY <1>5, <1>6, <1>7, <1>8, <1>9, Zenon
     DEF Life!GiveUp, ups, phases, askeds, lefts, oweds, writtens

\* A write delivers, and the last one closes.
LEMMA DeliverLife ==
  ASSUME JInv, WriteSome, NEW c \in Conns, c = fdtab[cur.fd]
  PROVE  Life!Deliver(c)
<1> DEFINE fd == cur.fd
           offset == clients[fd].response_offset + Written
           closing == offset = clients[fd].response_buffer
           e == Ended(AfterWrite, "answered")
<1>1. /\ fd \in Open /\ c \in Conns /\ conn[c] \in ConnState /\ pc \notin Dead
      /\ clients[fd] \in ClientState
  BY CurLemma DEF JInv, WriteSome
<1>2. /\ Belongs(clients[fd], conn[c])
      /\ Written \in Nat \ {0}
      /\ offset <= clients[fd].response_buffer
      /\ AfterWrite \in ConnState
      /\ AfterWrite.st = conn[c].st /\ AfterWrite.sent = conn[c].sent
      /\ AfterWrite.fin = conn[c].fin /\ AfterWrite.rst = conn[c].rst
      /\ AfterWrite.owed = conn[c].owed /\ AfterWrite.wrote = conn[c].wrote + Written
  BY WrittenLemma DEF WriteSome, curConn, curClient
<1>3. conn[c].st = "open"
  BY <1>1 DEF JInv, Holders
<1>4. /\ conn[c].wrote \in Nat /\ conn[c].owed \in Nat
      /\ conn[c].wrote = clients[fd].response_offset
      /\ conn[c].owed = clients[fd].response_buffer
  BY <1>1, <1>2 DEF ConnState, Belongs
<1>5. /\ offset = conn[c].wrote + Written /\ offset \in (conn[c].wrote + 1)..conn[c].owed
      /\ conn[c].wrote < conn[c].owed
  BY <1>2, <1>4
<1>6. "answered" \in Whys
  BY DEF Whys
<1>7. /\ e \in ConnState /\ e.st = "closed" /\ e.sent = AfterWrite.sent
      /\ e.owed = AfterWrite.owed /\ e.wrote = AfterWrite.wrote
      /\ e.rst = AfterWrite.rst /\ e.fin = AfterWrite.fin
  BY <1>2, <1>6, EndedType, EndedFields
<1> HIDE DEF e
<1>8. PICK r \in ConnState :
        /\ conn' = [conn EXCEPT ![c] = r]
        /\ r.st = IF offset = conn[c].owed THEN "closed" ELSE conn[c].st
        /\ r.sent = conn[c].sent /\ r.rst = conn[c].rst /\ r.fin = conn[c].fin
        /\ r.owed = conn[c].owed /\ r.wrote = offset
  <2>1. CASE offset = conn[c].owed
    <3>1. conn' = [conn EXCEPT ![c] = e]
      BY <1>4, <2>1 DEF WriteSome, Drop, curClient, e
    <3> QED  BY <1>2, <1>5, <1>7, <2>1, <3>1
  <2>2. CASE offset # conn[c].owed
    <3>1. conn' = [conn EXCEPT ![c] = AfterWrite]
      <4>1. Written # 0
        BY <1>2
      <4> QED  BY <1>4, <2>2, <4>1 DEF WriteSome, curClient
    <3> QED  BY <1>2, <1>5, <2>2, <3>1
  <2> QED  BY <2>1, <2>2
<1>9. UNCHANGED <<askeds, lefts, oweds>>
  BY <1>1, <1>8, SameMapped
<1>10. writtens' = [writtens EXCEPT ![c] = offset]
  <2>1. writtens' = [writtens EXCEPT ![c] = r.wrote]
    BY <1>1, <1>8, OneMapped
  <2> QED  BY <1>8, <2>1
<1>11. phases[c] = "open" /\ writtens[c] = conn[c].wrote /\ oweds[c] = conn[c].owed
  BY <1>1, <1>3 DEF phases, writtens, oweds
<1>12. phases' = IF offset = oweds[c] THEN [phases EXCEPT ![c] = "closed"] ELSE phases
  <2>1. CASE offset = conn[c].owed
    <3>1. phases' = [phases EXCEPT ![c] = r.st]
      BY <1>1, <1>8, OneMapped
    <3> QED  BY <1>8, <1>11, <2>1, <3>1
  <2>2. CASE offset # conn[c].owed
    <3>1. phases' = phases
      BY <1>1, <1>8, <2>2, SameMapped
    <3> QED  BY <1>11, <2>2, <3>1
  <2> QED  BY <2>1, <2>2
<1>13. offset \in (writtens[c] + 1)..oweds[c] /\ writtens[c] < oweds[c]
  BY <1>5, <1>11
<1>14. ups /\ ups' = ups
  BY <1>1 DEF ups, WriteSome, EndEvent, afterPart, Dead
<1> HIDE DEF offset
<1> QED
  <2>1. \E n \in (writtens[c] + 1)..oweds[c] :
          /\ writtens' = [writtens EXCEPT ![c] = n]
          /\ phases' = IF n = oweds[c] THEN [phases EXCEPT ![c] = "closed"] ELSE phases
    BY <1>10, <1>12, <1>13, Zenon
  <2>2. phases[c] = "open"
    BY <1>11
  <2> QED
    BY <1>9, <1>13, <1>14, <2>1, <2>2, Zenon
       DEF Life!Deliver, ups, phases, askeds, lefts, oweds, writtens

\* Every step of the loop and its environment is a step of ConnectionLife,
\* or changes nothing ConnectionLife speaks of.
LEMMA LifeNext ==
  ASSUME JInv, [Next]_vars
  PROVE  Life!Next \/ UNCHANGED Life!lifeVars
<1>1. ASSUME conn' = conn, pc' \in Dead <=> pc \in Dead
      PROVE  UNCHANGED Life!lifeVars
  <2>1. ups' = ups
    <3>1. (pc' \notin Dead) = (pc \notin Dead)
      BY <1>1
    <3> QED  BY <3>1, Zenon DEF ups
  <2>2. UNCHANGED <<phases, askeds, lefts, oweds, writtens>>
    BY <1>1, Zenon DEF phases, askeds, lefts, oweds, writtens
  <2> QED  BY <2>1, <2>2, Stutter
<1>2. ASSUME NEW why \in Whys, EndAll(why), pc \notin Dead, pc' \in Dead
      PROVE  Life!Next
  <2>1. Life!GoDown
    BY <1>2, EndIsGoDown
  <2> QED  BY <2>1, Zenon DEF Life!Next
<1>3. CASE \/ addListeningSocketsToPoller \/ CheckRunning \/ EnterPoll
           \/ PollReturns \/ Skip \/ EndOfRound
           \/ NothingToGenerate \/ WriteLater
           \/ signalHandler \/ UNCHANGED vars
  <2>1. conn' = conn /\ (pc' \in Dead <=> pc \in Dead)
    BY <1>3 DEF addListeningSocketsToPoller, CheckRunning, EnterPoll, PollReturns,
         Skip, EndOfRound, NothingToGenerate, WriteLater,
         EndEvent, signalHandler, vars, Dead
  <2> QED  BY <1>1, <2>1
<1>4. CASE BeginClientEvent
  <2>1. i \in DOMAIN fds
    BY <1>4 DEF BeginClientEvent, JInv, IInv, TypeOK
  <2>2. fds[i].fd \in DOMAIN clients
    BY <1>4, <2>1 DEF BeginClientEvent, JInv, IInv, FdAgreement, TablesAgree,
                      isListeningSocket, Clean, FdsOf
  <2>3. conn' = conn /\ (pc' \in Dead <=> pc \in Dead)
    BY <1>4, <2>2 DEF BeginClientEvent, Dead
  <2> QED  BY <1>1, <2>3
<1>5. CASE PollThrows \/ WriteKills
  <2>1. EndAll("died") /\ pc \notin Dead /\ pc' \in Dead /\ "died" \in Whys
    BY <1>5 DEF PollThrows, WriteKills, Dead, Whys
  <2> QED  BY <1>2, <2>1
<1>6. CASE cleanup
  <2>1. EndAll("shutdown") /\ pc \notin Dead /\ pc' \in Dead /\ "shutdown" \in Whys
    BY <1>6, CleanupEndsAll DEF cleanup, Dead, Whys
  <2> QED  BY <1>2, <2>1
<1>7. CASE acceptNewConnection
  <2>1. CASE conn' = conn
    BY <1>1, <1>7, <2>1 DEF acceptNewConnection
  <2>2. CASE conn' # conn
    <3>1. PICK c \in Backlog(fds[i].fd), fd \in FreeFds :
            conn' = [conn EXCEPT ![c].st = "open"]
      BY <1>7, <2>2 DEF acceptNewConnection
    <3>2. c \in Conns /\ conn[c].st = "queued" /\ pc = "scan" /\ pc' = "scan"
      BY <1>7 DEF acceptNewConnection, Backlog
    <3>3. Life!Accept(c)
      BY <3>1, <3>2, AcceptLife
    <3> QED  BY <3>2, <3>3, LifeStep, Zenon
  <2> QED  BY <2>1, <2>2
<1>8. CASE ReadData
  <2> DEFINE c == fdtab[cur.fd]
             n == Lesser(conn[c].rx, ReadMax)
             r == [conn[c] EXCEPT !.rx = conn[c].rx - n]
  <2>1. c \in Conns /\ conn[c] \in ConnState /\ pc \notin Dead
    BY <1>8, CurLemma DEF JInv, ReadData
  <2>2. conn' = [conn EXCEPT ![c] = r]
    BY <1>8 DEF ReadData, curConn
  <2>3. conn[c].rx - n \in Nat
    <3>1. conn[c].rx \in Nat /\ ReadMax \in Nat
      BY <2>1, ConstantsAssumption DEF ConnState
    <3>2. n \in {conn[c].rx, ReadMax} /\ n <= conn[c].rx
      BY <3>1, LesserLemma
    <3> HIDE DEF n
    <3> QED  BY <3>1, <3>2
  <2> HIDE DEF n
  <2>4. /\ r \in ConnState /\ r.st = conn[c].st /\ r.sent = conn[c].sent
        /\ r.owed = conn[c].owed /\ r.wrote = conn[c].wrote
    BY <2>1, <2>3 DEF ConnState
  <2>5. r.rst = conn[c].rst /\ r.fin = conn[c].fin
    BY <2>1 DEF ConnState
  <2> HIDE DEF r, c
  <2>6. UNCHANGED <<phases, askeds, lefts, oweds, writtens>>
    BY <2>1, <2>2, <2>4, <2>5, SameMapped
  <2>7. ups' = ups
    BY <1>8 DEF ups, ReadData, Dead
  <2> QED  BY <2>6, <2>7, Stutter
<1>9. CASE ReadFails \/ WriteError
  <2>1. /\ pc \in {"read", "process", "write"} /\ EndEvent
        /\ Drop(cur.fd, Ended(curConn, "dropped"))
    BY <1>9 DEF ReadFails, WriteError
  <2>2. curConn.fin \/ curConn.rst
    <3>1. CASE WriteError
      BY <3>1 DEF WriteError
    <3>2. CASE ReadFails
      <4>1. /\ i \in DOMAIN fds /\ fds[i] = cur /\ cur.fd \in Open
            /\ curConn \in ConnState /\ i >= i
        BY <2>1, CurLemma DEF JInv, IInv, TypeOK, curConn
      <4>2. ReportLasts(i) /\ "IN" \in cur.revents
        BY <3>2, <4>1 DEF ReadFails, JInv, ReportsLast, InRound, EventOK
      <4>3. ReadableConn(curConn)
        BY <3>2, <4>1, <4>2 DEF ReadFails, ReportLasts, curConn
      <4>4. curConn.rx = 0
        BY <3>2 DEF ReadFails
      <4> QED  BY <4>3, <4>4 DEF ReadableConn
    <3> QED  BY <1>9, <3>1, <3>2
  <2>3. PICK c \in Conns : c = fdtab[cur.fd]
    BY <2>1, CurLemma DEF JInv
  <2>4. Life!GiveUp(c)
    BY <2>1, <2>2, <2>3, GiveUpLife
  <2> QED  BY <2>4, LifeStep, Zenon
<1>10. CASE generateClientResponse
  <2>1. PICK c \in Conns : c = fdtab[cur.fd]
    BY <1>10, CurLemma DEF JInv, generateClientResponse
  <2>2. Life!Answer(c)
    BY <1>10, <2>1, AnswerLife
  <2> QED  BY <2>2, LifeStep, Zenon
<1>11. CASE WriteSome
  <2>1. PICK c \in Conns : c = fdtab[cur.fd]
    BY <1>11, CurLemma DEF JInv, WriteSome
  <2>2. Life!Deliver(c)
    BY <1>11, <2>1, DeliverLife
  <2> QED  BY <2>2, LifeStep, Zenon
<1>12. CASE \E c \in Conns : Peer(c)
  BY <1>12, PeerLife
<1> QED
  BY <1>3, <1>4, <1>5, <1>6, <1>7, <1>8, <1>9, <1>10, <1>11, <1>12
     DEF Next, run, ClientEvent, Terminated

\* The event loop implements ConnectionLife.
THEOREM LoopKeepsPromise == Spec => KeepsPromise
<1>1. JInv /\ [Next]_vars => [Life!Next]_(Life!lifeVars)
  BY LifeNext
<1> QED  BY <1>1, LifeInit, ConnInvariance, PTL DEF Spec, KeepsPromise, Life!LifeSpec
===============================================================================
