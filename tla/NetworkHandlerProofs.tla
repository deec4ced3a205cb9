------------------------ MODULE NetworkHandlerProofs ------------------------
(***************************************************************************)
(* The event loop's type correctness and the agreement of its tables, for  *)
(* any number of listeners, connections and descriptors, any request and   *)
(* response sizes.                                                         *)
(***************************************************************************)
EXTENDS NetworkHandler, TLAPS

\* What keeps the counters natural numbers: a complete request is in the
\* buffer, no more is sent than there is, no socket holds more than it takes.
CountsOK ==
  /\ \A f \in DOMAIN clients :
       /\ clients[f].request_complete => clients[f].request_buffer >= Need
       /\ clients[f].response_offset <= clients[f].response_buffer
  /\ \A c \in Conns : conn[c].flight <= Window

\* Before the loop nothing is open.
NothingOpenYet == pc = "start" => Open = {} /\ DOMAIN clients = {}

\* The inductive invariant.
IInv == TypeOK /\ CountsOK /\ NothingOpenYet /\ FdAgreement
-----------------------------------------------------------------------------
(* What addFd and removeFd do to the vector of pollfd entries. *)

\* Entries for different descriptors only.
Distinct(v) == \A j, k \in DOMAIN v : v[j].fd = v[k].fd => j = k

\* addFd puts the new entry last and leaves the others where they are.
LEMMA AddFdLemma ==
  ASSUME NEW S, NEW v \in Seq(PollFds(S)), NEW fd \in S,
         NEW events \in SUBSET PollEvents
  PROVE  LET new == addFd(v, fd, events)
         IN  /\ new \in Seq(PollFds(S))
             /\ Len(new) = Len(v) + 1
             /\ \A k \in DOMAIN v : new[k] = v[k]
             /\ new[Len(v) + 1] = PollFd(fd, events)
<1>1. PollFd(fd, events) \in PollFds(S)
  BY DEF PollFd, PollFds
<1> QED  BY <1>1 DEF addFd

\* removeFd takes out the one entry for fd; the later ones move up by one.
LEMMA RemoveFdLemma ==
  ASSUME NEW S, NEW v \in Seq(PollFds(S)), Distinct(v),
         NEW n \in DOMAIN v
  PROVE  LET new == removeFd(v, v[n].fd)
         IN  /\ new \in Seq(PollFds(S))
             /\ Len(new) = Len(v) - 1
             /\ \A k \in 1..(n - 1) : new[k] = v[k]
             /\ \A k \in n..(Len(v) - 1) : new[k] = v[k + 1]
<1> DEFINE fd == v[n].fd
           I == {k \in 1..Len(v) : v[k].fd = fd}
<1>1. I = {n}
  BY DEF Distinct
<1>2. Min(I) = n
  BY <1>1 DEF Min
<1>3. removeFd(v, fd) = SubSeq(v, 1, n - 1) \o SubSeq(v, n + 1, Len(v))
  BY <1>1, <1>2 DEF removeFd, RemoveFirstMatch, SelectInSeq, RemoveAt
<1> DEFINE P == PollFds(S)
<1> HIDE DEF P
<1>4. v \in Seq(P) /\ n \in 1..Len(v)
  BY DEF P
<1>5. /\ SubSeq(v, 1, n - 1) \in Seq(P)
      /\ Len(SubSeq(v, 1, n - 1)) = n - 1
      /\ \A k \in 1..(n - 1) : SubSeq(v, 1, n - 1)[k] = v[k]
  BY <1>4
<1>6. /\ SubSeq(v, n + 1, Len(v)) \in Seq(P)
      /\ Len(SubSeq(v, n + 1, Len(v))) = Len(v) - n
      /\ \A k \in 1..(Len(v) - n) :
           SubSeq(v, n + 1, Len(v))[k] = v[n + k]
  BY <1>4
<1> DEFINE A == SubSeq(v, 1, n - 1)
           B == SubSeq(v, n + 1, Len(v))
<1> HIDE DEF A, B
<1>7. /\ A \o B \in Seq(P)
      /\ Len(A \o B) = Len(v) - 1
      /\ \A k \in 1..(n - 1) : (A \o B)[k] = v[k]
      /\ \A k \in n..(Len(v) - 1) : (A \o B)[k] = v[k + 1]
  <2>1. A \in Seq(P) /\ B \in Seq(P) /\ Len(A) = n - 1 /\ Len(B) = Len(v) - n
    BY <1>5, <1>6 DEF A, B
  <2>2. A \o B \in Seq(P) /\ Len(A \o B) = Len(v) - 1
    BY <2>1, <1>4
  <2>3. ASSUME NEW k \in 1..(n - 1)  PROVE (A \o B)[k] = v[k]
    <3>1. (A \o B)[k] = A[k]
      BY <2>1, <1>4
    <3> QED  BY <3>1, <1>5 DEF A
  <2>4. ASSUME NEW k \in n..(Len(v) - 1)  PROVE (A \o B)[k] = v[k + 1]
    <3>1. (A \o B)[k] = B[k - n + 1]
      BY <2>1, <1>4
    <3>2. k - n + 1 \in 1..(Len(v) - n) /\ n + (k - n + 1) = k + 1
      BY <1>4
    <3> QED  BY <3>1, <3>2, <1>6 DEF B
  <2> QED  BY <2>2, <2>3, <2>4
<1> QED  BY <1>3, <1>7 DEF A, B, P

-----------------------------------------------------------------------------
(* Helpers. *)

\* The lesser of two numbers is one of them and exceeds neither.
LEMMA LesserLemma ==
  ASSUME NEW m \in Int, NEW n \in Int
  PROVE  /\ Lesser(m, n) \in {m, n}
         /\ Lesser(m, n) <= m /\ Lesser(m, n) <= n
BY DEF Lesser

\* A closed connection is still a connection.
LEMMA EndedType ==
  ASSUME NEW c \in ConnState, NEW why \in Whys
  PROVE  Ended(c, why) \in ConnState /\ Ended(c, why).flight = 0
<1>1. (c.rx > 0) \in BOOLEAN
  OBVIOUS
<1>2. PICK unread \in BOOLEAN : unread = (c.rx > 0)
  BY <1>1
<1> DEFINE e == [c EXCEPT !.st = "closed", !.why = why, !.abort = unread,
                          !.rx = 0, !.flight = 0]
<1>3. Ended(c, why) = e
  BY <1>2, Zenon DEF Ended
<1>4. e \in ConnState /\ e.flight = 0
  BY DEF ConnState
<1> QED  BY <1>3, <1>4

\* A new client object is well typed.
LEMMA NewClientType ==
  ASSUME NEW l \in ListenSet  PROVE NewClient(l) \in ClientState
BY DEF NewClient, ClientState

\* Listening and client descriptors are different.
LEMMA FdsDisjoint == ListenSet \cap ClientFds = {}
BY ConstantsAssumption DEF ListenSet

\* poll changes revents only.
LEMMA PolledLemma ==
  ASSUME TypeOK
  PROVE  LET new == Polled(fds, ReadyEvents)
         IN  /\ new \in Seq(PollFds(AllFds))
             /\ Len(new) = Len(fds)
             /\ \A k \in DOMAIN fds : new[k].fd = fds[k].fd
<1> DEFINE new == Polled(fds, ReadyEvents)
<1>1. \A k \in DOMAIN fds : fds[k] \in PollFds(AllFds)
  BY DEF TypeOK
<1>2. \A k \in DOMAIN fds :
        /\ [fds[k] EXCEPT !.revents = ReadyEvents[fds[k].fd] \cap fds[k].events]
             \in PollFds(AllFds)
        /\ [fds[k] EXCEPT !.revents = ReadyEvents[fds[k].fd] \cap fds[k].events].fd
             = fds[k].fd
  BY <1>1 DEF PollFds
<1>3. DOMAIN fds = 1..Len(fds) /\ Len(fds) \in Nat
  BY DEF TypeOK
<1>4. new \in [1..Len(fds) -> PollFds(AllFds)]
  BY <1>2, <1>3 DEF Polled
<1>5. new \in Seq(PollFds(AllFds)) /\ Len(new) = Len(fds)
  BY <1>3, <1>4
<1> QED  BY <1>2, <1>3, <1>5 DEF Polled

\* Dropping the client whose event is processed takes out its entry, its
\* client object and its descriptor, and nothing else.
LEMMA DropFacts ==
  ASSUME TypeOK, FdAgreement, pc \in {"read", "process", "write"},
         NEW ended, Drop(cur.fd, ended)
  PROVE  /\ DOMAIN clients' = DOMAIN clients \ {cur.fd}
         /\ \A f \in DOMAIN clients' : clients'[f] = clients[f]
         /\ clients' = [f \in DOMAIN clients' |-> clients'[f]]
         /\ Open' = Open \ {cur.fd}
         /\ fds' \in Seq(PollFds(AllFds))
         /\ Len(fds') = Len(fds) - 1
         /\ \A k \in 1..(i - 1) : fds'[k] = fds[k]
         /\ \A k \in i..(Len(fds) - 1) : fds'[k] = fds[k + 1]
<1>1. /\ i \in DOMAIN fds /\ fds[i] = cur /\ cur.fd \in Open
      /\ TablesAgree
  BY DEF FdAgreement, Clean
<1>2. /\ DOMAIN clients' = DOMAIN clients \ {cur.fd}
      /\ \A f \in DOMAIN clients' : clients'[f] = clients[f]
      /\ clients' = [f \in DOMAIN clients' |-> clients'[f]]
  BY DEF Drop, removeClient, Restrict
<1>3. Open' = Open \ {cur.fd}
  BY <1>1, ConstantsAssumption DEF Open, Drop, TypeOK
<1>4. Distinct(fds) /\ fds \in Seq(PollFds(AllFds))
  BY <1>1 DEF Distinct, TablesAgree, TypeOK
<1>5. fds' = removeFd(fds, fds[i].fd)
  BY <1>1 DEF Drop
<1> QED  BY <1>1, <1>2, <1>3, <1>4, <1>5, RemoveFdLemma

\* Dropping the client whose event is processed keeps the tables in
\* agreement: its entry, its client and its descriptor go together.
LEMMA DropLemma ==
  ASSUME TypeOK, CountsOK, FdAgreement, pc \in {"read", "process", "write"},
         NEW ended \in ConnState, ended.flight <= Window,
         Drop(cur.fd, ended)
  PROVE  /\ fds' \in Seq(PollFds(AllFds))
         /\ fdtab' \in [ClientFds -> Conns \cup {NoConn}]
         /\ conn' \in [Conns -> ConnState]
         /\ DOMAIN clients' \subseteq ClientFds
         /\ clients' \in [DOMAIN clients' -> ClientState]
         /\ CountsOK'
         /\ TablesAgree'
<1>1. /\ i \in DOMAIN fds /\ fds[i] = cur /\ cur.fd \in Open
      /\ TablesAgree
  BY DEF FdAgreement, Clean
<1>2. fdtab' \in [ClientFds -> Conns \cup {NoConn}]
  BY DEF Drop, TypeOK
<1>3. conn' \in [Conns -> ConnState] /\ \A c \in Conns : conn'[c].flight <= Window
  BY DEF Drop, TypeOK, CountsOK
<1>4. /\ DOMAIN clients' = DOMAIN clients \ {cur.fd}
      /\ \A f \in DOMAIN clients' : clients'[f] = clients[f]
      /\ clients' = [f \in DOMAIN clients' |-> clients'[f]]
  BY DropFacts
<1>5. /\ DOMAIN clients' \subseteq ClientFds
      /\ clients' \in [DOMAIN clients' -> ClientState]
  BY <1>4 DEF TypeOK
<1>6. CountsOK'
  BY <1>3, <1>4 DEF CountsOK
<1>7. Open' = Open \ {cur.fd}
  BY DropFacts
<1>8. /\ fds' \in Seq(PollFds(AllFds))
      /\ Len(fds') = Len(fds) - 1
      /\ \A k \in 1..(i - 1) : fds'[k] = fds[k]
      /\ \A k \in i..(Len(fds) - 1) : fds'[k] = fds[k + 1]
  BY DropFacts
<1>9. TablesAgree'
  <2> DEFINE N == Len(fds)
             L == Len(ListenFds)
  <2>1. /\ N \in Nat /\ DOMAIN fds = 1..N /\ DOMAIN fds' = 1..(N - 1)
        /\ i \in 1..N /\ Len(fds') = N - 1
    BY <1>1, <1>8 DEF TypeOK
  <2>2. L \in Nat /\ DOMAIN ListenFds = 1..L
    BY ConstantsAssumption
  <2>3. /\ \A k \in 1..(i - 1) : fds'[k] = fds[k]
        /\ \A k \in i..(N - 1) : fds'[k] = fds[k + 1]
    BY <1>8
  <2>4. /\ N >= L
        /\ \A k \in 1..L : fds[k].fd = ListenFds[k]
    BY <1>1, <2>2 DEF TablesAgree
  <2>5. \A j, k \in 1..N : fds[j].fd = fds[k].fd => j = k
    BY <1>1, <2>1 DEF TablesAgree
  <2>6. cur.fd = fds[i].fd /\ cur.fd \notin ListenSet
    BY <1>1, FdsDisjoint DEF Open
  <2> HIDE DEF N, L
  <2>7. i > L
    BY <2>1, <2>2, <2>4, <2>6 DEF ListenSet
  <2>8. \A k \in 1..L : fds'[k].fd = ListenFds[k]
    <3> SUFFICES ASSUME NEW k \in 1..L  PROVE fds'[k].fd = ListenFds[k]
      OBVIOUS
    <3>1. k \in 1..(i - 1)
      BY <2>1, <2>2, <2>7
    <3> QED  BY <3>1, <2>3, <2>4
  <2>9. \A j, k \in 1..(N - 1) : fds'[j].fd = fds'[k].fd => j = k
    <3> SUFFICES ASSUME NEW j \in 1..(N - 1), NEW k \in 1..(N - 1),
                        fds'[j].fd = fds'[k].fd
                 PROVE  j = k
      OBVIOUS
    <3> DEFINE old(n) == IF n < i THEN n ELSE n + 1
    <3>1. \A n \in 1..(N - 1) : old(n) \in 1..N /\ fds'[n] = fds[old(n)]
      BY <2>1, <2>3
    <3>2. fds[old(j)].fd = fds[old(k)].fd /\ old(j) \in 1..N /\ old(k) \in 1..N
      BY <3>1
    <3>3. old(j) = old(k)
      <4> HIDE DEF old
      <4> QED  BY <3>2, <2>5
    <3> QED  BY <3>3, <2>1
  <2>10. FdsOf(fds') = FdsOf(fds) \ {cur.fd}
    <3>1. ASSUME NEW k \in 1..(N - 1)
          PROVE  fds'[k].fd \in FdsOf(fds) \ {cur.fd}
      <4>1. PICK n \in 1..N : fds'[k] = fds[n] /\ n # i
        <5>1. CASE k < i
          <6>1. k \in 1..N /\ k \in 1..(i - 1) /\ k # i
            BY <5>1, <2>1
          <6> QED  BY <6>1, <2>3
        <5>2. CASE k >= i
          <6>1. k + 1 \in 1..N /\ k \in i..(N - 1) /\ k + 1 # i
            BY <5>2, <2>1
          <6> QED  BY <6>1, <2>3
        <5> QED  BY <5>1, <5>2, <2>1
      <4>2. fds[n].fd # cur.fd
        BY <4>1, <2>1, <2>5, <2>6
      <4> QED  BY <4>1, <4>2, <2>1 DEF FdsOf
    <3>2. ASSUME NEW k \in 1..N, k # i
          PROVE  fds[k].fd \in FdsOf(fds')
      <4>1. PICK n \in 1..(N - 1) : fds'[n] = fds[k]
        <5>1. CASE k < i
          <6>1. k \in 1..(N - 1) /\ k \in 1..(i - 1)
            BY <5>1, <2>1
          <6> QED  BY <6>1, <2>3
        <5>2. CASE k > i
          <6>1. k - 1 \in 1..(N - 1) /\ k - 1 \in i..(N - 1) /\ (k - 1) + 1 = k
            BY <5>2, <2>1
          <6> QED  BY <6>1, <2>3
        <5> QED  BY <5>1, <5>2, <3>2, <2>1
      <4> QED  BY <4>1, <2>1 DEF FdsOf
    <3>3. FdsOf(fds') = {fds'[k].fd : k \in 1..(N - 1)}
      BY <2>1 DEF FdsOf
    <3>4. FdsOf(fds) = {fds[k].fd : k \in 1..N}
      BY <2>1 DEF FdsOf
    <3> QED  BY <3>1, <3>2, <3>3, <3>4, <2>6
  <2>11. FdsOf(fds') = ListenSet \cup Open'
    BY <2>10, <2>6, <1>1, <1>7 DEF TablesAgree
  <2>12. DOMAIN clients' = Open'
    BY <1>1, <1>4, <1>7 DEF TablesAgree
  <2>13. Len(fds') >= Len(ListenFds)
    BY <2>1, <2>2, <2>7 DEF L
  <2>14. \A k \in DOMAIN ListenFds : fds'[k].fd = ListenFds[k]
    BY <2>2, <2>8
  <2>15. \A j, k \in DOMAIN fds' : fds'[j].fd = fds'[k].fd => j = k
    BY <2>1, <2>9
  <2> QED  BY <2>11, <2>12, <2>13, <2>14, <2>15 DEF TablesAgree
<1> QED  BY <1>2, <1>3, <1>5, <1>6, <1>8, <1>9

\* Accepting a connection adds its entry, its client and its descriptor.
LEMMA AcceptFacts ==
  ASSUME IInv, pc = "scan", i \in DOMAIN fds, fds[i].fd \in ListenSet,
         NEW c \in Conns, NEW fd \in FreeFds,
         fdtab' = [fdtab EXCEPT ![fd] = c],
         fds' = addFd(fds, fd, {"IN", "OUT"}),
         clients' = addClient(clients, fd, fds[i].fd)
  PROVE  /\ TablesAgree /\ fd \in ClientFds /\ fd \notin Open /\ fd \notin ListenSet
         /\ Open' = Open \cup {fd}
         /\ DOMAIN clients' = DOMAIN clients \cup {fd}
         /\ \A f \in DOMAIN clients : clients'[f] = clients[f]
         /\ clients'[fd] = NewClient(fds[i].fd)
         /\ clients' = [f \in DOMAIN clients' |-> clients'[f]]
         /\ fds' \in Seq(PollFds(AllFds))
         /\ Len(fds') = Len(fds) + 1
         /\ \A k \in 1..Len(fds) : fds'[k] = fds[k]
         /\ fds'[Len(fds) + 1] = PollFd(fd, {"IN", "OUT"})
<1> USE DEF IInv
<1>1. TablesAgree /\ fd \in ClientFds /\ fd \notin Open /\ fd \notin ListenSet
  BY FdsDisjoint DEF FdAgreement, Clean, FreeFds, Open
<1>2. Open' = Open \cup {fd}
  BY <1>1, ConstantsAssumption DEF Open, TypeOK
<1>3. /\ DOMAIN clients' = DOMAIN clients \cup {fd}
      /\ \A f \in DOMAIN clients : clients'[f] = clients[f]
      /\ clients'[fd] = NewClient(fds[i].fd)
      /\ clients' = [f \in DOMAIN clients' |-> clients'[f]]
  BY <1>1 DEF addClient, TablesAgree
<1>4. fds \in Seq(PollFds(AllFds)) /\ fd \in AllFds /\ DOMAIN fds = 1..Len(fds)
  BY <1>1 DEF TypeOK, AllFds
<1>5. {"IN", "OUT"} \in SUBSET PollEvents
  BY DEF PollEvents
<1> QED  BY <1>1, <1>2, <1>3, <1>4, <1>5, AddFdLemma

\* The tables agree with the connection that was accepted in them.
LEMMA AcceptLemma ==
  ASSUME IInv, pc = "scan", i \in DOMAIN fds, fds[i].fd \in ListenSet,
         NEW c \in Conns, NEW fd \in FreeFds,
         fdtab' = [fdtab EXCEPT ![fd] = c],
         conn' = [conn EXCEPT ![c].st = "open"],
         fds' = addFd(fds, fd, {"IN", "OUT"}),
         clients' = addClient(clients, fd, fds[i].fd)
  PROVE  /\ fds' \in Seq(PollFds(AllFds))
         /\ fdtab' \in [ClientFds -> Conns \cup {NoConn}]
         /\ conn' \in [Conns -> ConnState]
         /\ DOMAIN clients' \subseteq ClientFds
         /\ clients' \in [DOMAIN clients' -> ClientState]
         /\ CountsOK'
         /\ TablesAgree'
<1> USE DEF IInv
<1> DEFINE N == Len(fds)
<1>1. TablesAgree /\ fd \in ClientFds /\ fd \notin Open /\ fd \notin ListenSet
  BY AcceptFacts
<1>2. fdtab' \in [ClientFds -> Conns \cup {NoConn}]
  BY <1>1 DEF TypeOK
<1>3. /\ conn' \in [Conns -> ConnState]
      /\ \A d \in Conns : conn'[d].flight = conn[d].flight
  <2>1. conn[c] \in ConnState
    BY DEF TypeOK
  <2>2. /\ [conn[c] EXCEPT !.st = "open"] \in ConnState
        /\ [conn[c] EXCEPT !.st = "open"].flight = conn[c].flight
    BY <2>1 DEF ConnState
  <2> QED  BY <2>2 DEF TypeOK
<1>4. Open' = Open \cup {fd}
  BY AcceptFacts
<1>5. /\ DOMAIN clients' = DOMAIN clients \cup {fd}
      /\ \A f \in DOMAIN clients : clients'[f] = clients[f]
      /\ clients'[fd] = NewClient(fds[i].fd)
      /\ clients' = [f \in DOMAIN clients' |-> clients'[f]]
  BY AcceptFacts
<1>6. /\ DOMAIN clients' \subseteq ClientFds
      /\ clients' \in [DOMAIN clients' -> ClientState]
  BY <1>1, <1>5, NewClientType DEF TypeOK
<1>7. CountsOK'
  BY <1>3, <1>5, NewClientType DEF CountsOK, NewClient
<1>8. /\ fds' \in Seq(PollFds(AllFds))
      /\ Len(fds') = N + 1
      /\ \A k \in 1..N : fds'[k] = fds[k]
      /\ fds'[N + 1].fd = fd
  <2>1. PollFd(fd, {"IN", "OUT"}).fd = fd
    BY DEF PollFd
  <2> QED  BY <2>1, AcceptFacts
<1>9. TablesAgree'
  <2>1. /\ N \in Nat /\ DOMAIN fds = 1..N /\ DOMAIN fds' = 1..(N + 1)
        /\ Len(ListenFds) \in Nat /\ DOMAIN ListenFds = 1..Len(ListenFds)
    BY <1>8, ConstantsAssumption DEF TypeOK
  <2>2. \A k \in 1..N : fds[k].fd # fd
    BY <1>1, <2>1 DEF TablesAgree, FdsOf
  <2>3. /\ Len(fds') >= Len(ListenFds)
        /\ \A k \in DOMAIN ListenFds : fds'[k].fd = ListenFds[k]
    BY <1>1, <1>8, <2>1 DEF TablesAgree
  <2>4. \A j, k \in DOMAIN fds' : fds'[j].fd = fds'[k].fd => j = k
    <3>1. \A j, k \in 1..N : fds[j].fd = fds[k].fd => j = k
      BY <1>1, <2>1 DEF TablesAgree
    <3> HIDE DEF N
    <3> SUFFICES ASSUME NEW j \in 1..(N + 1), NEW k \in 1..(N + 1),
                        fds'[j].fd = fds'[k].fd
                 PROVE  j = k
      BY <2>1
    <3>2. CASE j \in 1..N /\ k \in 1..N
      BY <3>1, <3>2, <1>8
    <3>3. CASE j = N + 1 /\ k \in 1..N
      BY <3>3, <1>8, <2>2
    <3>4. CASE j \in 1..N /\ k = N + 1
      BY <3>4, <1>8, <2>2
    <3>5. N \in Nat
      BY <2>1
    <3>6. (j \in 1..N \/ j = N + 1) /\ (k \in 1..N \/ k = N + 1)
      BY <3>5
    <3> QED  BY <3>2, <3>3, <3>4, <3>6
  <2>5. FdsOf(fds') = FdsOf(fds) \cup {fd}
    <3> HIDE DEF N
    <3>1. FdsOf(fds') = {fds'[k].fd : k \in 1..(N + 1)}
      BY <2>1 DEF FdsOf
    <3>2. FdsOf(fds) = {fds[k].fd : k \in 1..N}
      BY <2>1 DEF FdsOf
    <3>3. \A k \in 1..N : k \in 1..(N + 1) /\ fds'[k].fd = fds[k].fd
      BY <1>8, <2>1
    <3>4. \A k \in 1..(N + 1) : k \in 1..N \/ k = N + 1
      BY <2>1
    <3>5. N + 1 \in 1..(N + 1)
      BY <2>1
    <3> QED  BY <3>1, <3>2, <3>3, <3>4, <3>5, <1>8
  <2> QED  BY <1>1, <1>4, <1>5, <2>3, <2>4, <2>5 DEF TablesAgree
<1> QED  BY <1>2, <1>3, <1>6, <1>7, <1>8, <1>9

\* The tables agree after any step that leaves them alone.
LEMMA SameTables ==
  ASSUME FdAgreement, UNCHANGED <<fds, clients, fdtab>>,
         pc \notin Clean
  PROVE  TablesAgree'
BY DEF FdAgreement, TablesAgree, Open, FdsOf

\* The counts are right after any step that leaves them alone.
LEMMA SameCounts ==
  ASSUME CountsOK, UNCHANGED <<clients, conn>>
  PROVE  CountsOK'
BY DEF CountsOK

\* poll leaves the tables in agreement.
LEMMA PolledTables ==
  ASSUME TypeOK, TablesAgree, fds' = Polled(fds, ReadyEvents),
         UNCHANGED <<clients, fdtab>>
  PROVE  fds' \in Seq(PollFds(AllFds)) /\ TablesAgree'
<1>1. /\ fds' \in Seq(PollFds(AllFds)) /\ Len(fds') = Len(fds)
      /\ \A k \in DOMAIN fds : fds'[k].fd = fds[k].fd
  BY PolledLemma
<1>2. DOMAIN fds = 1..Len(fds) /\ DOMAIN fds' = DOMAIN fds
  BY <1>1 DEF TypeOK
<1>3. FdsOf(fds') = FdsOf(fds)
  BY <1>1, <1>2 DEF FdsOf
<1>4. Len(ListenFds) \in Nat /\ DOMAIN ListenFds = 1..Len(ListenFds)
  BY ConstantsAssumption
<1>5. \A k \in DOMAIN ListenFds : fds'[k].fd = ListenFds[k]
  <2> SUFFICES ASSUME NEW k \in DOMAIN ListenFds  PROVE fds'[k].fd = ListenFds[k]
    OBVIOUS
  <2>1. Len(fds) \in Nat
    BY DEF TypeOK
  <2>2. k \in DOMAIN fds
    BY <1>2, <1>4, <2>1 DEF TablesAgree
  <2> QED  BY <1>1, <2>2 DEF TablesAgree
<1>6. \A j, k \in DOMAIN fds' : fds'[j].fd = fds'[k].fd => j = k
  BY <1>1, <1>2 DEF TablesAgree
<1>7. Open' = Open
  BY DEF Open
<1> QED  BY <1>1, <1>3, <1>5, <1>6, <1>7 DEF TablesAgree

\* The end of the process leaves well-typed connections and descriptors.
LEMMA EndAllLemma ==
  ASSUME TypeOK, CountsOK, NEW why \in Whys, EndAll(why)
  PROVE  /\ fdtab' \in [ClientFds -> Conns \cup {NoConn}]
         /\ listening' \subseteq ListenSet
         /\ conn' \in [Conns -> ConnState]
         /\ \A c \in Conns : conn'[c].flight <= Window
<1>1. \A c \in Conns : conn[c] \in ConnState
  BY DEF TypeOK
<1>2. \A c \in Conns : Ended(conn[c], why) \in ConnState
                       /\ Ended(conn[c], why).flight = 0
  BY <1>1, EndedType
<1>3. conn' \in [Conns -> ConnState]
  BY <1>1, <1>2 DEF EndAll
<1>4. \A c \in Conns : conn'[c].flight <= Window
  BY <1>2, ConstantsAssumption DEF EndAll, CountsOK
<1> QED  BY <1>3, <1>4 DEF EndAll

\* A peer's step changes connections only.
LEMMA PeerLemma ==
  ASSUME IInv, conn' \in [Conns -> ConnState],
         \A c \in Conns : conn'[c].flight <= Window,
         UNCHANGED <<running, pc, fds, i, cur, clients, fdtab, listening>>
  PROVE  IInv'
<1> USE DEF IInv
<1>1. TypeOK'
  BY DEF TypeOK
<1>2. CountsOK'
  BY DEF CountsOK
<1>3. NothingOpenYet'
  BY DEF NothingOpenYet, Open
<1>4. FdAgreement'
  BY DEF FdAgreement, TablesAgree, Open, FdsOf
<1> QED  BY <1>1, <1>2, <1>3, <1>4


\* Where an entry is in a vector without duplicates.
LEMMA IndexLemma ==
  ASSUME NEW S, NEW s \in Seq(PollFds(S)), Distinct(s)
  PROVE  /\ \A n \in DOMAIN s : IndexIn(s, s[n].fd) = n
         /\ \A fd : fd \notin FdsOf(s) => IndexIn(s, fd) = 0
<1>1. ASSUME NEW n \in DOMAIN s  PROVE IndexIn(s, s[n].fd) = n
  <2> DEFINE I == {k \in 1..Len(s) : s[k].fd = s[n].fd}
  <2>1. I = {n}
    BY DEF Distinct
  <2>2. Min(I) = n
    BY <2>1 DEF Min
  <2> QED  BY <2>1, <2>2 DEF IndexIn, SelectInSeq
<1>2. ASSUME NEW fd, fd \notin FdsOf(s)  PROVE IndexIn(s, fd) = 0
  <2>1. {k \in 1..Len(s) : s[k].fd = fd} = {}
    BY <1>2 DEF FdsOf
  <2> QED  BY <2>1 DEF IndexIn, SelectInSeq
<1> QED  BY <1>1, <1>2

\* A step that leaves every entry where it is passes over none.
LEMMA InPlace ==
  ASSUME IInv, pc \notin Clean, i' \in {i, i + 1},
         fds' \in Seq(PollFds(AllFds)), Distinct(fds'),
         \A k \in DOMAIN fds : k \in DOMAIN fds' /\ fds'[k].fd = fds[k].fd
  PROVE  StepOfRound
<1>1. \A k \in DOMAIN fds : k \in Nat /\ IndexIn(fds', fds[k].fd) = k
  <2>1. \A k \in DOMAIN fds : IndexIn(fds', fds'[k].fd) = k
    BY IndexLemma
  <2>2. \A k \in DOMAIN fds : k \in Nat
    BY DEF IInv, TypeOK
  <2> QED  BY <2>1, <2>2
<1>2. i \in Nat /\ DOMAIN fds = 1..Len(fds) /\ Len(fds) \in Nat
  BY DEF IInv, TypeOK
<1> SUFFICES ASSUME NEW k \in DOMAIN fds
             PROVE  LET now == IndexIn(fds', fds[k].fd)
                    IN  /\ k > i /\ now < i' => k = i + 1 /\ Gone(fds[i].fd)
                        /\ \A j \in 1..(k - 1) :
                             Gone(fds[j].fd) \/ IndexIn(fds', fds[j].fd) < now
  BY DEF StepOfRound
<1>3. ~(k > i /\ IndexIn(fds', fds[k].fd) < i')
  BY <1>1, <1>2
<1>4. \A j \in 1..(k - 1) : j \in DOMAIN fds /\ j < k
  BY <1>2
<1>5. \A j \in 1..(k - 1) : IndexIn(fds', fds[j].fd) < IndexIn(fds', fds[k].fd)
  BY <1>1, <1>4
<1> QED  BY <1>3, <1>5

\* Dropping a client moves the entries after it up by one, and the loop
\* passes over the first of them.
LEMMA MovedUp ==
  ASSUME IInv, pc \in {"read", "process", "write"}, NEW ended,
         Drop(cur.fd, ended), i' = i + 1, TablesAgree'
  PROVE  StepOfRound
<1>1. /\ i \in DOMAIN fds /\ fds[i] = cur /\ cur.fd \in Open
      /\ DOMAIN fds = 1..Len(fds) /\ Len(fds) \in Nat /\ i \in Nat
  BY DEF IInv, FdAgreement, TypeOK
<1>2. /\ fds' \in Seq(PollFds(AllFds))
      /\ Len(fds') = Len(fds) - 1
      /\ \A k \in 1..(i - 1) : fds'[k] = fds[k]
      /\ \A k \in i..(Len(fds) - 1) : fds'[k] = fds[k + 1]
      /\ Open' = Open \ {cur.fd}
  BY DropFacts DEF IInv
<1>3. Distinct(fds') /\ DOMAIN fds' = 1..(Len(fds) - 1)
  BY <1>1, <1>2 DEF Distinct, TablesAgree
<1>4. Gone(fds[i].fd)
  <2>1. cur.fd \notin FdsOf(fds')
    BY <1>1, <1>2, FdsDisjoint DEF TablesAgree, Open
  <2> QED  BY <1>1, <1>2, <1>3, <2>1, IndexLemma DEF Gone
<1> DEFINE place(k) == IF k < i THEN k ELSE k - 1
<1>5. ASSUME NEW k \in DOMAIN fds, k # i
      PROVE  place(k) \in DOMAIN fds' /\ IndexIn(fds', fds[k].fd) = place(k)
  <2>1. place(k) \in DOMAIN fds' /\ fds'[place(k)] = fds[k]
    <3>1. CASE k < i
      <4>1. place(k) = k /\ k \in 1..(i - 1) /\ k \in 1..(Len(fds) - 1)
        BY <1>1, <3>1
      <4> QED  BY <1>2, <1>3, <4>1
    <3>2. CASE k > i
      <4>1. /\ place(k) = k - 1 /\ k - 1 \in i..(Len(fds) - 1)
            /\ k - 1 \in 1..(Len(fds) - 1) /\ (k - 1) + 1 = k
        BY <1>1, <3>2
      <4> QED  BY <1>2, <1>3, <4>1
    <3> QED  BY <1>1, <1>5, <3>1, <3>2
  <2>2. IndexIn(fds', fds'[place(k)].fd) = place(k)
    <3> HIDE DEF place
    <3> QED  BY <1>2, <1>3, <2>1, IndexLemma
  <2> QED  BY <2>1, <2>2
<1> SUFFICES ASSUME NEW k \in DOMAIN fds, ~Gone(fds[k].fd)
             PROVE  LET now == IndexIn(fds', fds[k].fd)
                    IN  /\ k > i /\ now < i' => k = i + 1 /\ Gone(fds[i].fd)
                        /\ \A j \in 1..(k - 1) :
                             Gone(fds[j].fd) \/ IndexIn(fds', fds[j].fd) < now
  BY DEF StepOfRound
<1>6. k # i /\ k \in Nat /\ IndexIn(fds', fds[k].fd) = place(k)
  BY <1>1, <1>4, <1>5
<1>7. k > i /\ place(k) < i' => k = i + 1
  BY <1>1, <1>6
<1>8. ASSUME NEW j \in 1..(k - 1), j # i
      PROVE  IndexIn(fds', fds[j].fd) < IndexIn(fds', fds[k].fd)
  <2>1. j \in DOMAIN fds /\ IndexIn(fds', fds[j].fd) = place(j)
    <3>1. j \in DOMAIN fds
      BY <1>1
    <3> QED  BY <1>5, <1>8, <3>1
  <2>2. place(j) < place(k)
    BY <1>1, <1>6, <1>8
  <2> QED  BY <1>6, <2>1, <2>2
<1> HIDE DEF place
<1> QED  BY <1>4, <1>6, <1>7, <1>8

-----------------------------------------------------------------------------
(* The inductive invariant. *)

\* The invariant holds before the loop starts.
LEMMA InitInvariant == Init => IInv
<1> SUFFICES ASSUME Init  PROVE IInv
  OBVIOUS
<1>1. NewConn \in ConnState
  BY DEF NewConn, ConnState, Whys
<1>2. TypeOK
  BY <1>1 DEF Init, TypeOK, Pcs, NoEvent, PollFd, PollFds
<1>3. CountsOK
  BY ConstantsAssumption DEF Init, CountsOK, NewConn
<1>4. NothingOpenYet
  BY DEF Init, NothingOpenYet, Open
<1>5. FdAgreement
  BY DEF Init, FdAgreement, Clean
<1> QED  BY <1>2, <1>3, <1>4, <1>5 DEF IInv

\* A client that is dropped, or answered in full, ends its event.
LEMMA DroppedInvariant ==
  ASSUME IInv, pc \in {"read", "process", "write"},
         NEW c \in ConnState, NEW why \in Whys,
         Drop(cur.fd, Ended(c, why)), EndEvent, UNCHANGED <<running, listening>>
  PROVE  IInv'
<1> USE DEF IInv
<1>1. Ended(c, why) \in ConnState /\ Ended(c, why).flight <= Window
  BY EndedType, ConstantsAssumption
<1>2. /\ fds' \in Seq(PollFds(AllFds))
      /\ fdtab' \in [ClientFds -> Conns \cup {NoConn}]
      /\ conn' \in [Conns -> ConnState]
      /\ DOMAIN clients' \subseteq ClientFds
      /\ clients' \in [DOMAIN clients' -> ClientState]
      /\ CountsOK' /\ TablesAgree'
  BY <1>1, DropLemma
<1>3. pc' = "scan" /\ i' = i + 1 /\ cur' = NoEvent
  BY DEF EndEvent
<1>4. TypeOK'
  BY <1>2, <1>3 DEF TypeOK, Pcs, NoEvent, PollFd, PollFds
<1> QED  BY <1>2, <1>3, <1>4 DEF FdAgreement, NothingOpenYet

\* Every step of a client event preserves the invariant.
LEMMA ClientEventInvariant ==
  ASSUME IInv, ClientEvent
  PROVE  IInv'
<1> USE DEF IInv
<1>1. CASE BeginClientEvent
  <2> USE <1>1 DEF BeginClientEvent
  <2>1. TablesAgree /\ i \in DOMAIN fds
    BY DEF FdAgreement, Clean, TypeOK
  <2>2. fds[i] \in PollFds(AllFds)
    BY <2>1 DEF TypeOK
  <2>3. fds[i].fd \in Open
    BY <2>1 DEF TablesAgree, FdsOf, isListeningSocket
  <2>4. TypeOK'
    BY <2>2 DEF TypeOK, Pcs, Dead, PollFds
  <2>5. CountsOK'
    BY SameCounts
  <2>6. TablesAgree'
    BY SameTables DEF Clean
  <2>7. i' \in DOMAIN fds' /\ fds'[i'] = cur' /\ cur'.fd \in Open'
    BY <2>1, <2>3 DEF Open
  <2> QED  BY <2>4, <2>5, <2>6, <2>7 DEF FdAgreement, NothingOpenYet
<1>2. CASE ReadData
  <2> USE <1>2 DEF ReadData
  <2>0. TablesAgree /\ i \in DOMAIN fds /\ fds[i] = cur /\ cur.fd \in Open
    BY DEF FdAgreement, Clean
  <2> DEFINE fd == cur.fd
             c == fdtab[fd]
             n == Lesser(conn[c].rx, ReadMax)
             size == clients[fd].request_buffer + n
  <2>1. fd \in DOMAIN clients /\ fd \in ClientFds /\ c \in Conns
    BY <2>0 DEF TablesAgree, Open, TypeOK
  <2>2. conn[c] \in ConnState /\ clients[fd] \in ClientState
    BY <2>1 DEF TypeOK
  <2>3. n \in Nat /\ n <= conn[c].rx /\ size \in Nat
    <3>1. conn[c].rx \in Nat /\ ReadMax \in Nat /\ clients[fd].request_buffer \in Nat
      BY <2>2, ConstantsAssumption DEF ConnState, ClientState
    <3>2. n \in {conn[c].rx, ReadMax} /\ n <= conn[c].rx
      BY <3>1, LesserLemma
    <3> HIDE DEF n
    <3> QED  BY <3>1, <3>2
  <2> DEFINE r == [conn[c] EXCEPT !.rx = @ - n]
             cl == [clients[fd] EXCEPT !.request_buffer = size,
                                       !.request_complete = size >= Need]
  <2>4. r \in ConnState /\ r.flight = conn[c].flight
    <3> HIDE DEF n
    <3> QED  BY <2>2, <2>3 DEF ConnState
  <2>5. conn' = [conn EXCEPT ![c] = r]
    BY <2>1 DEF curConn, curClient
  <2>6. clients' = [clients EXCEPT ![fd] = cl]
    BY <2>1 DEF curConn, curClient
  <2>7. /\ cl \in ClientState
        /\ cl.request_complete => cl.request_buffer >= Need
        /\ cl.response_offset = clients[fd].response_offset
        /\ cl.response_buffer = clients[fd].response_buffer
    <3> HIDE DEF size
    <3>0. (size >= Need) \in BOOLEAN
      OBVIOUS
    <3>1. PICK b \in BOOLEAN : b = (size >= Need)
      BY <3>0
    <3>2. cl = [clients[fd] EXCEPT !.request_buffer = size,
                                   !.request_complete = b]
      BY <3>1, Zenon
    <3> QED  BY <3>1, <3>2, <2>2, <2>3 DEF ClientState
  <2> HIDE DEF r, cl
  <2>8. TypeOK'
    <3>1. conn' \in [Conns -> ConnState]
      BY <2>4, <2>5 DEF TypeOK
    <3>2. clients' \in [DOMAIN clients' -> ClientState] /\ DOMAIN clients' = DOMAIN clients
      BY <2>6, <2>7 DEF TypeOK
    <3>3. pc' = "process" /\ UNCHANGED <<running, fds, i, cur, fdtab, listening>>
      OBVIOUS
    <3> QED  BY <3>1, <3>2, <3>3 DEF TypeOK, Pcs
  <2>9. CountsOK'
    BY <2>1, <2>4, <2>5, <2>6, <2>7 DEF CountsOK, TypeOK
  <2>10. TablesAgree' /\ fds' = fds /\ i' = i /\ cur' = cur /\ Open' = Open
    BY <2>0, <2>6 DEF TablesAgree, Open, FdsOf
  <2> QED  BY <2>0, <2>8, <2>9, <2>10 DEF FdAgreement, NothingOpenYet
<1>3. CASE ReadFails \/ WriteError
  <2> USE <1>3 DEF ReadFails, WriteError
  <2> DEFINE ended == Ended(curConn, "dropped")
  <2>1. pc \in {"read", "process", "write"} /\ Drop(cur.fd, ended) /\ EndEvent
        /\ UNCHANGED <<running, listening>>
    OBVIOUS
  <2>2. curConn \in ConnState
    BY <2>1 DEF FdAgreement, Open, TypeOK, curConn
  <2> HIDE DEF ReadFails, WriteError
  <2>3. "dropped" \in Whys
    BY DEF Whys
  <2> QED  BY <2>1, <2>2, <2>3, DroppedInvariant
<1>4. CASE generateClientResponse
  <2> USE <1>4 DEF generateClientResponse
  <2>0. TablesAgree /\ i \in DOMAIN fds /\ fds[i] = cur /\ cur.fd \in Open
    BY DEF FdAgreement, Clean
  <2> DEFINE fd == cur.fd
             c == fdtab[fd]
  <2>1. fd \in DOMAIN clients /\ fd \in ClientFds /\ c \in Conns
    BY <2>0 DEF TablesAgree, Open, TypeOK
  <2>2. conn[c] \in ConnState /\ clients[fd] \in ClientState
    BY <2>1 DEF TypeOK
  <2>3. PICK size \in RespSizes :
          /\ clients' = [clients EXCEPT ![fd].response_buffer = size,
                                        ![fd].request_buffer = eraseRequest(@),
                                        ![fd].request_complete = FALSE]
          /\ conn' = [conn EXCEPT ![c].owed = size]
    OBVIOUS
  <2>4. size \in Nat /\ size > 0
    BY ConstantsAssumption
  <2> DEFINE left == clients[fd].request_buffer - Need
             r == [conn[c] EXCEPT !.owed = size]
             cl == [clients[fd] EXCEPT !.response_buffer = size,
                                       !.request_buffer = left,
                                       !.request_complete = FALSE]
  <2>5. left \in Nat
    BY <2>1, <2>2, ConstantsAssumption
       DEF CountsOK, ClientState, mayGenerate, curClient
  <2>6. r \in ConnState /\ r.flight = conn[c].flight
    BY <2>2, <2>4 DEF ConnState
  <2>7. conn' = [conn EXCEPT ![c] = r]
    BY <2>1, <2>3
  <2>8. clients' = [clients EXCEPT ![fd] = cl]
    BY <2>1, <2>3 DEF eraseRequest
  <2>9. /\ cl \in ClientState /\ cl.request_complete = FALSE
        /\ cl.response_offset <= cl.response_buffer
    <3>1. clients[fd].response_offset = 0
      BY <2>1, <2>2 DEF CountsOK, ClientState, mayGenerate, curClient
    <3> HIDE DEF left
    <3>2. cl \in ClientState
      BY <2>2, <2>4, <2>5 DEF ClientState
    <3>3. cl.request_complete = FALSE /\ cl.response_offset = 0
          /\ cl.response_buffer = size
      BY <2>2, <3>1 DEF ClientState
    <3> QED  BY <2>4, <3>2, <3>3
  <2> HIDE DEF r, cl
  <2>10. TypeOK'
    BY <2>6, <2>7, <2>8, <2>9 DEF TypeOK, Pcs
  <2>11. CountsOK'
    BY <2>1, <2>6, <2>7, <2>8, <2>9 DEF CountsOK, TypeOK
  <2>12. TablesAgree' /\ fds' = fds /\ i' = i /\ cur' = cur /\ Open' = Open
    BY <2>0, <2>8 DEF TablesAgree, Open, FdsOf
  <2> QED  BY <2>0, <2>10, <2>11, <2>12 DEF FdAgreement, NothingOpenYet
<1>5. CASE NothingToGenerate \/ WriteLater
  <2> USE <1>5 DEF NothingToGenerate, WriteLater, EndEvent
  <2>0. /\ TablesAgree /\ i \in DOMAIN fds /\ fds[i] = cur /\ cur.fd \in Open
        /\ UNCHANGED <<running, fds, clients, fdtab, listening, conn>>
        /\ \/ pc' = "scan" /\ i' = i + 1 /\ cur' = NoEvent
           \/ pc' = "write" /\ i' = i /\ cur' = cur
    BY DEF FdAgreement, Clean
  <2>1. TypeOK'
    BY <2>0 DEF TypeOK, Pcs, NoEvent, PollFd, PollFds
  <2>2. CountsOK'
    BY <2>0, SameCounts
  <2>3. TablesAgree' /\ Open' = Open
    BY <2>0 DEF TablesAgree, Open, FdsOf
  <2> QED  BY <2>0, <2>1, <2>2, <2>3 DEF FdAgreement, NothingOpenYet
<1>6. CASE WriteSome
  <2> USE <1>6 DEF WriteSome
  <2>0. TablesAgree /\ i \in DOMAIN fds /\ fds[i] = cur /\ cur.fd \in Open
    BY DEF FdAgreement, Clean
  <2> DEFINE fd == cur.fd
             c == fdtab[fd]
             offset == clients[fd].response_offset + Written
  <2>1. fd \in DOMAIN clients /\ fd \in ClientFds /\ c \in Conns
    BY <2>0 DEF TablesAgree, Open, TypeOK
  <2>2. conn[c] \in ConnState /\ clients[fd] \in ClientState
    BY <2>1 DEF TypeOK
  <2>3. /\ Written \in Nat
        /\ clients[fd].response_offset + Written <= clients[fd].response_buffer
        /\ conn[c].flight + Written <= Window
    <3> DEFINE m == clients[fd].response_buffer - clients[fd].response_offset
               room == Window - conn[c].flight
    <3>1. /\ clients[fd].response_buffer \in Nat
          /\ clients[fd].response_offset \in Nat
          /\ conn[c].flight \in Nat /\ Window \in Nat
      BY <2>2, ConstantsAssumption DEF ConnState, ClientState
    <3>2. m \in Nat /\ room \in Nat
      BY <2>1, <3>1 DEF CountsOK
    <3>3. Written = Lesser(m, room)
      BY DEF Written, curClient, curConn
    <3>4. Written \in {m, room} /\ Written <= m /\ Written <= room
      BY <3>2, <3>3, LesserLemma
    <3> QED  BY <3>1, <3>2, <3>4
  <2>4. AfterWrite \in ConnState /\ AfterWrite.flight <= Window
    <3>1. AfterWrite = [conn[c] EXCEPT !.wrote = @ + Written,
                                       !.flight = @ + Written]
      BY DEF AfterWrite, curConn
    <3>2. conn[c].wrote + Written \in Nat /\ conn[c].flight + Written \in Nat
      BY <2>2, <2>3 DEF ConnState
    <3>3. AfterWrite \in ConnState
      BY <2>2, <3>1, <3>2 DEF ConnState
    <3>4. AfterWrite.flight = conn[c].flight + Written
      BY <2>2, <3>1 DEF ConnState
    <3> QED  BY <2>3, <3>3, <3>4
  <2>5. CASE Written = 0 \/ offset = clients[fd].response_buffer
    <3>1. Drop(fd, Ended(AfterWrite, "answered")) /\ EndEvent
          /\ UNCHANGED <<running, listening>>
      BY <2>5 DEF curClient
    <3> QED  BY <3>1, <2>4, DroppedInvariant DEF Whys
  <2>6. CASE ~(Written = 0 \/ offset = clients[fd].response_buffer)
    <3> DEFINE cl == [clients[fd] EXCEPT !.response_offset = offset]
    <3>1. /\ clients' = [clients EXCEPT ![fd] = cl]
          /\ conn' = [conn EXCEPT ![c] = AfterWrite]
          /\ pc' = "scan" /\ i' = i + 1 /\ cur' = NoEvent
          /\ UNCHANGED <<fds, fdtab, running, listening>>
      BY <2>6 DEF curClient, afterPart, EndEvent
    <3>2. /\ cl \in ClientState
          /\ cl.request_complete = clients[fd].request_complete
          /\ cl.request_buffer = clients[fd].request_buffer
          /\ cl.response_offset <= cl.response_buffer
      BY <2>2, <2>3 DEF ClientState
    <3> HIDE DEF cl
    <3>3. TypeOK'
      <4>1. conn' \in [Conns -> ConnState]
        BY <2>4, <3>1 DEF TypeOK
      <4>2. clients' \in [DOMAIN clients' -> ClientState] /\ DOMAIN clients' = DOMAIN clients
        BY <3>1, <3>2 DEF TypeOK
      <4>3. NoEvent \in PollFds(AllFds \cup {-1})
        BY DEF NoEvent, PollFd, PollFds
      <4> HIDE DEF WriteSome
      <4> QED  BY <3>1, <4>1, <4>2, <4>3 DEF TypeOK, Pcs
    <3>4. CountsOK'
      BY <2>1, <2>4, <3>1, <3>2 DEF CountsOK, TypeOK
    <3>5. TablesAgree'
      BY <2>0, <3>1 DEF TablesAgree, Open, FdsOf
    <3> QED  BY <3>1, <3>3, <3>4, <3>5 DEF FdAgreement, NothingOpenYet
  <2> QED  BY <2>5, <2>6
<1>7. CASE WriteKills
  <2> USE <1>7 DEF WriteKills
  <2>1. /\ fdtab' \in [ClientFds -> Conns \cup {NoConn}]
        /\ listening' \subseteq ListenSet
        /\ conn' \in [Conns -> ConnState]
        /\ \A c \in Conns : conn'[c].flight <= Window
    BY EndAllLemma DEF Whys
  <2>2. TypeOK'
    BY <2>1 DEF TypeOK, Pcs, Dead
  <2>3. CountsOK'
    BY <2>1 DEF CountsOK
  <2> QED  BY <2>2, <2>3 DEF FdAgreement, NothingOpenYet, Clean
<1> QED  BY <1>1, <1>2, <1>3, <1>4, <1>5, <1>6, <1>7 DEF ClientEvent

\* Every step of the server and of its environment preserves the invariant.
LEMMA NextInvariant == IInv /\ [Next]_vars => IInv'
<1> SUFFICES ASSUME IInv, [Next]_vars  PROVE IInv'
  OBVIOUS
<1> USE DEF IInv
<1>1. ASSUME addListeningSocketsToPoller  PROVE IInv'
  <2> USE <1>1 DEF addListeningSocketsToPoller
  <2> DEFINE L == Len(ListenFds)
  <2>1. /\ L \in Nat /\ DOMAIN ListenFds = 1..L
        /\ \A k \in 1..L : ListenFds[k] \in ListenSet
    BY ConstantsAssumption DEF ListenSet
  <2>2. \A k \in 1..L : PollFd(ListenFds[k], {"IN"}) \in PollFds(AllFds)
    BY <2>1 DEF PollFd, PollFds, AllFds, PollEvents
  <2>3. /\ fds' \in Seq(PollFds(AllFds)) /\ Len(fds') = L
        /\ \A k \in 1..L : fds'[k].fd = ListenFds[k]
    BY <2>1, <2>2 DEF PollFd
  <2>4. TypeOK'
    BY <2>3 DEF TypeOK, Pcs
  <2>5. CountsOK'
    BY SameCounts
  <2>6. Open' = {} /\ DOMAIN clients' = {}
    BY DEF NothingOpenYet, Open
  <2>7. FdsOf(fds') = ListenSet
    BY <2>1, <2>3 DEF FdsOf, ListenSet
  <2>8. TablesAgree'
    BY <2>1, <2>3, <2>6, <2>7, ConstantsAssumption DEF TablesAgree
  <2> QED  BY <2>4, <2>5, <2>6, <2>8 DEF FdAgreement, NothingOpenYet
<1>2. ASSUME CheckRunning \/ EnterPoll \/ Skip \/ EndOfRound  PROVE IInv'
  <2> USE DEF CheckRunning, EnterPoll, Skip, EndOfRound
  <2>1. TypeOK'
    BY <1>2 DEF TypeOK, Pcs
  <2>2. CountsOK'
    BY <1>2, SameCounts
  <2>3. pc \notin Clean /\ pc' \notin {"start", "read", "process", "write"}
    BY <1>2 DEF Clean
  <2>4. TablesAgree'
    BY <1>2, <2>3, SameTables
  <2> QED  BY <2>1, <2>2, <2>3, <2>4 DEF FdAgreement, NothingOpenYet
<1>3. ASSUME PollReturns  PROVE IInv'
  <2> USE <1>3 DEF PollReturns
  <2>1. TablesAgree
    BY DEF FdAgreement, Clean
  <2>2. fds' \in Seq(PollFds(AllFds)) /\ TablesAgree'
    BY <2>1, PolledTables
  <2>3. TypeOK'
    BY <2>2 DEF TypeOK, Pcs
  <2>4. CountsOK'
    BY SameCounts
  <2> QED  BY <2>2, <2>3, <2>4 DEF FdAgreement, NothingOpenYet
<1>4. ASSUME PollThrows  PROVE IInv'
  <2> USE <1>4 DEF PollThrows
  <2>1. /\ fdtab' \in [ClientFds -> Conns \cup {NoConn}]
        /\ listening' \subseteq ListenSet
        /\ conn' \in [Conns -> ConnState]
        /\ \A c \in Conns : conn'[c].flight <= Window
    BY EndAllLemma DEF Whys
  <2>2. TypeOK'
    BY <2>1 DEF TypeOK, Pcs, Dead
  <2>3. CountsOK'
    BY <2>1 DEF CountsOK
  <2> QED  BY <2>2, <2>3 DEF FdAgreement, NothingOpenYet, Clean
<1>5. ASSUME acceptNewConnection  PROVE IInv'
  <2> USE DEF acceptNewConnection
  <2>1. /\ pc = "scan" /\ pc' = "scan" /\ i \in DOMAIN fds
        /\ fds[i].fd \in ListenSet /\ i' = i + 1
        /\ UNCHANGED <<running, pc, cur, listening>>
    BY <1>5 DEF isListeningSocket, TypeOK
  <2>2. CASE UNCHANGED <<fds, clients, fdtab, conn>>
    <3>1. TypeOK'
      BY <2>1, <2>2 DEF TypeOK
    <3>2. CountsOK'
      BY <2>2, SameCounts
    <3>3. TablesAgree'
      BY <2>1, <2>2, SameTables DEF Clean
    <3> QED  BY <2>1, <3>1, <3>2, <3>3 DEF FdAgreement, NothingOpenYet
  <2>3. CASE ~UNCHANGED <<fds, clients, fdtab, conn>>
    <3>1. PICK c \in Backlog(fds[i].fd), fd \in FreeFds :
            /\ fdtab' = [fdtab EXCEPT ![fd] = c]
            /\ conn' = [conn EXCEPT ![c].st = "open"]
            /\ fds' = addFd(fds, fd, {"IN", "OUT"})
            /\ clients' = addClient(clients, fd, fds[i].fd)
      BY <1>5, <2>3
    <3>2. c \in Conns
      BY DEF Backlog
    <3>3. /\ fds' \in Seq(PollFds(AllFds))
          /\ fdtab' \in [ClientFds -> Conns \cup {NoConn}]
          /\ conn' \in [Conns -> ConnState]
          /\ DOMAIN clients' \subseteq ClientFds
          /\ clients' \in [DOMAIN clients' -> ClientState]
          /\ CountsOK' /\ TablesAgree'
      BY <2>1, <3>1, <3>2, AcceptLemma
    <3>4. TypeOK'
      BY <2>1, <3>3 DEF TypeOK
    <3> QED  BY <2>1, <3>3, <3>4 DEF FdAgreement, NothingOpenYet
  <2> QED  BY <2>2, <2>3
<1>6. ASSUME ClientEvent  PROVE IInv'
  BY <1>6, ClientEventInvariant
<1>7. ASSUME cleanup  PROVE IInv'
  <2> USE <1>7 DEF cleanup
  <2>1. \A c \in Conns : conn[c] \in ConnState /\ conn[c].flight <= Window
    BY DEF TypeOK, CountsOK
  <2>2. \A c \in Conns : /\ Ended(conn[c], "shutdown") \in ConnState
                         /\ Ended(conn[c], "shutdown").flight = 0
    BY <2>1, EndedType DEF Whys
  <2>3. conn' \in [Conns -> ConnState] /\ \A c \in Conns : conn'[c].flight <= Window
    BY <2>1, <2>2, ConstantsAssumption
  <2>4. TypeOK'
    BY <2>3 DEF TypeOK, Pcs, Dead
  <2>5. CountsOK'
    BY <2>3 DEF CountsOK
  <2> QED  BY <2>4, <2>5 DEF FdAgreement, NothingOpenYet, Clean
<1>8. ASSUME signalHandler  PROVE IInv'
  <2> USE DEF signalHandler
  <2>1. CASE pc = "wait"
    <3>1. TablesAgree
      BY <2>1 DEF FdAgreement, Clean
    <3>2. fds' \in Seq(PollFds(AllFds)) /\ TablesAgree'
      BY <1>8, <2>1, <3>1, PolledTables
    <3>3. TypeOK'
      <4>1. /\ running' = FALSE /\ pc' = "scan" /\ i' = 1
            /\ UNCHANGED <<cur, clients, fdtab, listening, conn>>
        BY <1>8, <2>1
      <4>2. running' \in BOOLEAN
        BY <4>1
      <4>5. i' \in Nat \ {0}
        BY <4>1
      <4>4. pc' \in Pcs
        BY <4>1 DEF Pcs
      <4>3. fds' \in Seq(PollFds(AllFds))
        BY <3>2
      <4> HIDE DEF signalHandler
      <4> QED  BY <4>1, <4>2, <4>3, <4>4, <4>5 DEF TypeOK
    <3>4. CountsOK'
      BY <1>8, SameCounts
    <3> QED  BY <1>8, <2>1, <3>2, <3>3, <3>4 DEF FdAgreement, NothingOpenYet
  <2>2. CASE pc # "wait"
    <3>1. TypeOK'
      BY <1>8, <2>2 DEF TypeOK
    <3>2. CountsOK'
      BY <1>8, SameCounts
    <3>3. NothingOpenYet'
      BY <1>8, <2>2 DEF NothingOpenYet, Open
    <3>4. FdAgreement'
      BY <1>8, <2>2 DEF FdAgreement, TablesAgree, Open, FdsOf
    <3> QED  BY <3>1, <3>2, <3>3, <3>4
  <2> QED  BY <2>1, <2>2
<1>9. ASSUME NEW c \in Conns, Peer(c)  PROVE IInv'
  <2>1. UNCHANGED <<running, pc, fds, i, cur, clients, fdtab, listening>>
    BY <1>9 DEF Peer, Connect, Send, ShutDown, Reset, Receive
  <2>2. conn[c] \in ConnState /\ conn[c].flight \in Nat /\ conn[c].flight <= Window
    BY DEF TypeOK, CountsOK, ConnState
  <2>3. PICK r \in ConnState : conn' = [conn EXCEPT ![c] = r] /\ r.flight <= Window
    <3>1. CASE \E l \in ListenSet : Connect(c, l)
      <4>1. PICK l \in ListenSet : Connect(c, l)
        BY <3>1
      <4> DEFINE r == [conn[c] EXCEPT !.st = "queued", !.lsn = l]
      <4>2. r \in ConnState /\ r.flight = conn[c].flight
        BY <2>2 DEF ConnState
      <4>3. conn' = [conn EXCEPT ![c] = r]
        BY <4>1 DEF Connect, TypeOK
      <4> QED  BY <2>2, <4>2, <4>3
    <3>2. CASE Send(c)
      <4> DEFINE r == [conn[c] EXCEPT !.rx = @ + 1, !.sent = @ + 1]
      <4>0. conn[c].rx + 1 \in Nat /\ conn[c].sent + 1 \in Nat
        BY <2>2 DEF ConnState
      <4>1. r \in ConnState /\ r.flight = conn[c].flight
        BY <2>2, <4>0 DEF ConnState
      <4>2. conn' = [conn EXCEPT ![c] = r]
        BY <3>2 DEF Send, TypeOK
      <4> QED  BY <2>2, <4>1, <4>2
    <3>3. CASE ShutDown(c)
      <4> DEFINE r == [conn[c] EXCEPT !.fin = TRUE]
      <4>1. r \in ConnState /\ r.flight = conn[c].flight
        BY <2>2 DEF ConnState
      <4> QED  BY <3>3, <2>2, <4>1 DEF ShutDown
    <3>4. CASE Reset(c)
      <4> DEFINE r == [conn[c] EXCEPT !.rst = TRUE, !.rx = 0, !.flight = 0]
      <4>1. r \in ConnState /\ r.flight = 0
        BY <2>2 DEF ConnState
      <4>2. conn' = [conn EXCEPT ![c] = r]
        BY <3>4 DEF Reset, TypeOK
      <4>3. 0 <= Window
        BY ConstantsAssumption
      <4> HIDE DEF r
      <4> QED  BY <4>1, <4>2, <4>3
    <3>5. CASE Receive(c)
      <4> DEFINE r == [conn[c] EXCEPT !.flight = @ - 1]
      <4>0. conn[c].flight - 1 \in Nat /\ conn[c].flight - 1 <= Window
        BY <3>5, <2>2, ConstantsAssumption DEF Receive
      <4>1. r \in ConnState /\ r.flight <= Window
        BY <2>2, <4>0 DEF ConnState
      <4> QED  BY <3>5, <4>1 DEF Receive
    <3> QED  BY <1>9, <3>1, <3>2, <3>3, <3>4, <3>5 DEF Peer
  <2>4. /\ conn' \in [Conns -> ConnState]
        /\ \A d \in Conns : conn'[d].flight <= Window
    BY <2>3 DEF TypeOK, CountsOK
  <2> QED  BY <2>1, <2>4, PeerLemma
<1>10. ASSUME UNCHANGED vars  PROVE IInv'
  <2>1. conn' \in [Conns -> ConnState] /\ \A c \in Conns : conn'[c].flight <= Window
    BY <1>10 DEF vars, TypeOK, CountsOK
  <2> QED  BY <1>10, <2>1, PeerLemma DEF vars
<1> QED
  BY <1>1, <1>2, <1>3, <1>4, <1>5, <1>6, <1>7, <1>8, <1>9, <1>10
     DEF Next, run, Terminated
-----------------------------------------------------------------------------
(* The theorems. *)

\* IInv holds in every state of every behaviour of the event loop.
THEOREM Invariance == Spec => []IInv
BY InitInvariant, NextInvariant, PTL DEF Spec

\* The loop's, the client table's and the kernel's state are well typed.
THEOREM TypeCorrectness == Spec => []TypeOK
<1>1. IInv => TypeOK
  BY DEF IInv
<1> QED  BY <1>1, Invariance, PTL

\* However many connections come and go while the loop walks its vector, the
\* entries, the client objects and the open descriptors stay in agreement.
THEOREM Agreement == Spec => []FdAgreement
<1>1. IInv => FdAgreement
  BY DEF IInv
<1> QED  BY <1>1, Invariance, PTL

\* getClient never throws: the loop never meets a descriptor without client.
ClientIsFound ==
  pc = "scan" /\ i \in DOMAIN fds /\ ~isListeningSocket(fds[i].fd)
    => fds[i].fd \in DOMAIN clients

THEOREM ClientsAreFound == Spec => []ClientIsFound
<1>1. IInv => ClientIsFound
  BY DEF IInv, FdAgreement, TablesAgree, ClientIsFound, isListeningSocket,
         Clean, FdsOf
<1> QED  BY <1>1, Invariance, PTL

\* No step of the loop reorders the entries, and a step passes over one that
\* it has not looked at only when the client before it was dropped.
LEMMA RoundStep ==
  ASSUME IInv, IInv', Next, i' > 1, pc \notin Clean
  PROVE  StepOfRound
<1>1. TablesAgree /\ i \in Nat /\ Distinct(fds) /\ fds \in Seq(PollFds(AllFds))
  BY DEF IInv, FdAgreement, TablesAgree, Distinct, TypeOK
<1>2. CASE fds' = fds /\ i' \in {i, i + 1}
  BY <1>1, <1>2, InPlace
<1>3. CASE acceptNewConnection
  <2>1. CASE fds' = fds
    <3>1. i' = i + 1
      BY <1>3 DEF acceptNewConnection
    <3> QED  BY <1>2, <2>1, <3>1
  <2>2. CASE fds' # fds
    <3>1. PICK c \in Backlog(fds[i].fd), fd \in FreeFds :
            /\ fdtab' = [fdtab EXCEPT ![fd] = c]
            /\ fds' = addFd(fds, fd, {"IN", "OUT"})
            /\ clients' = addClient(clients, fd, fds[i].fd)
      BY <1>3, <2>2 DEF acceptNewConnection
    <3>2. /\ pc = "scan" /\ i \in DOMAIN fds /\ fds[i].fd \in ListenSet
          /\ pc' = "scan" /\ i' = i + 1
      BY <1>1, <1>3 DEF acceptNewConnection, isListeningSocket
    <3>3. /\ fds' \in Seq(PollFds(AllFds)) /\ Len(fds') = Len(fds) + 1
          /\ \A k \in 1..Len(fds) : fds'[k] = fds[k]
      BY <3>1, <3>2, AcceptFacts DEF Backlog
    <3>4. Distinct(fds')
      BY <3>2 DEF IInv, FdAgreement, Clean, TablesAgree, Distinct
    <3>5. \A k \in DOMAIN fds : k \in DOMAIN fds' /\ fds'[k].fd = fds[k].fd
      BY <1>1, <3>3
    <3> QED  BY <3>2, <3>3, <3>4, <3>5, InPlace
  <2> QED  BY <2>1, <2>2
<1>4. ASSUME pc \in {"read", "process", "write"}, NEW ended,
             Drop(cur.fd, ended), EndEvent
      PROVE  StepOfRound
  <2>1. pc' = "scan" /\ i' = i + 1
    BY <1>4 DEF EndEvent
  <2>2. TablesAgree'
    BY <2>1 DEF IInv, FdAgreement, Clean
  <2> QED  BY <1>4, <2>1, <2>2, MovedUp
<1>5. CASE ReadFails
  BY <1>4, <1>5 DEF ReadFails
<1>6. CASE WriteError
  BY <1>4, <1>6 DEF WriteError
<1>7. CASE WriteSome
  <2>1. CASE Drop(cur.fd, Ended(AfterWrite, "answered")) /\ EndEvent
    BY <1>4, <1>7, <2>1 DEF WriteSome
  <2>2. CASE ~(Drop(cur.fd, Ended(AfterWrite, "answered")) /\ EndEvent)
    <3>1. fds' = fds /\ i' = i + 1
      BY <1>7, <2>2 DEF WriteSome, afterPart, EndEvent
    <3> QED  BY <1>2, <3>1
  <2> QED  BY <2>1, <2>2
<1>8. CASE PollReturns \/ EndOfRound \/ addListeningSocketsToPoller
  <2>1. i' = 1 \/ pc = "start"
    BY <1>8 DEF PollReturns, EndOfRound, addListeningSocketsToPoller
  <2> QED  BY <2>1 DEF Clean
<1>9. CASE signalHandler
  <2>1. fds' = fds /\ i' = i
    BY <1>9 DEF signalHandler
  <2> QED  BY <1>2, <2>1
<1>10. CASE \/ CheckRunning \/ EnterPoll \/ PollThrows \/ Skip \/ cleanup
            \/ BeginClientEvent \/ ReadData \/ generateClientResponse
            \/ NothingToGenerate \/ WriteLater \/ WriteKills
  <2>1. fds' = fds /\ i' \in {i, i + 1}
    BY <1>10 DEF CheckRunning, EnterPoll, PollThrows, Skip, cleanup,
                 BeginClientEvent, ReadData, generateClientResponse,
                 NothingToGenerate, WriteLater, WriteKills, EndEvent
  <2> QED  BY <1>2, <2>1
<1>11. CASE (\E c \in Conns : Peer(c)) \/ Terminated
  <2>1. fds' = fds /\ i' = i
    BY <1>11 DEF Peer, Connect, Send, ShutDown, Reset, Receive, Terminated, vars
  <2> QED  BY <1>2, <2>1
<1> QED
  BY <1>3, <1>5, <1>6, <1>7, <1>8, <1>9, <1>10, <1>11 DEF Next, run, ClientEvent

\* The rounds of the loop keep their order: see StepOfRound.
THEOREM RoundsKeepOrder == Spec => PassesOverOnlyAfterDrop
<1>1. IInv /\ IInv' /\ [Next]_vars => [StepOfRound]_vars
  <2> SUFFICES ASSUME IInv, IInv', Next  PROVE StepOfRound
    OBVIOUS
  <2>1. CASE i' > 1 /\ pc \notin Clean
    BY <2>1, RoundStep
  <2>2. CASE ~(i' > 1 /\ pc \notin Clean)
    BY <2>2 DEF StepOfRound
  <2> QED  BY <2>1, <2>2
<1> QED  BY <1>1, Invariance, PTL DEF Spec, PassesOverOnlyAfterDrop
=============================================================================
