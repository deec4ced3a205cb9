--------------------------- MODULE NetworkHandler ---------------------------
(***************************************************************************)
(* The event loop of webserv: NetworkHandler::run and everything it calls  *)
(* on a connection (Poller, ConnectionManager, Client::readRequest,        *)
(* Client::writeResponse), the SIGINT handler, and, as the environment,    *)
(* the kernel's sockets and the peers.                                     *)
(*                                                                         *)
(* Data is counted in units.  A request is Need units long whatever it     *)
(* says (module Client models how bytes make a request); a response is one *)
(* of RespSizes units long (module HttpHandler models what it says).      *)
(***************************************************************************)
EXTENDS Integers, Sequences, FiniteSets, Functions, Poller

CONSTANTS
  Conns,       \* the connections peers may open, each at most once
  NoConn,      \* the value of an unused descriptor
  ListenFds,   \* the servers' listening descriptors, in the servers' order
  ClientFds,   \* the descriptors left for accepted connections (RLIMIT_NOFILE)
  Need,        \* units in a request
  ReadMax,     \* units one read() takes at most (the 4096 bytes of buffer)
  MaxSend,     \* BOUND: units a peer sends at most
  RespSizes,   \* the sizes a response may have
  Window       \* units a socket takes before the peer has to read some

ASSUME ConstantsAssumption ==
  /\ NoConn \notin Conns
  /\ ListenFds \in Seq(Nat) /\ ListenFds # <<>>
  /\ \A j, k \in DOMAIN ListenFds : ListenFds[j] = ListenFds[k] => j = k
  /\ ClientFds \subseteq Nat /\ IsFiniteSet(ClientFds)
  /\ \A k \in DOMAIN ListenFds : ListenFds[k] \notin ClientFds
  /\ Need \in Nat \ {0} /\ ReadMax \in Nat \ {0} /\ Window \in Nat \ {0}
  /\ MaxSend \in Nat
  /\ RespSizes \subseteq Nat \ {0}

VARIABLES
  running,     \* g_running
  pc,          \* where run() is
  fds,         \* poller.fds
  i,           \* the index of the for loop over fds (from 1 here)
  cur,         \* pollClient, the COPY of the entry being processed
  clients,     \* connectionManager.clients
  fdtab,       \* kernel: which connection a descriptor of ClientFds is
  listening,   \* kernel: the listening descriptors that are open
  conn         \* kernel and peers: the state of each connection

vars == <<running, pc, fds, i, cur, clients, fdtab, listening, conn>>
-----------------------------------------------------------------------------
ListenSet == {ListenFds[k] : k \in DOMAIN ListenFds}
AllFds == ListenSet \cup ClientFds

\* "failed": an exception left run(); "killed": SIGPIPE, whose disposition
\* is never changed (the constructor installs a handler for SIGINT only).
Dead == {"stopped", "failed", "killed"}
Pcs == {"start", "check", "poll", "wait", "scan", "read", "process", "write",
        "cleanup"} \cup Dead

\* response_buffer is the size of the text, 0 when empty.  response_sent is
\* left out: the step that sets it also erases the client.
ClientState ==
  [server : ListenSet, request_buffer : Nat, request_complete : BOOLEAN,
   response_buffer : Nat, response_offset : Nat]

NewClient(lsn) ==
  [server |-> lsn, request_buffer |-> 0, request_complete |-> FALSE,
   response_buffer |-> 0, response_offset |-> 0]

\* st: queued in the listen backlog, open (accepted), closed.  lsn: the
\* listener connected to.  rx: units received and not read.  flight: units
\* written and not read by the peer.  fin, rst: the peer has shut down its
\* side, has reset.  For checking only: sent, wrote, owed (units the peer
\* sent, the server wrote, the response has), why (the reason it was closed)
\* and abort (close() found unread data: the peer gets a RST).
Whys == {"none", "answered", "dropped", "shutdown", "died"}
ConnState ==
  [st : {"new", "queued", "open", "closed"}, lsn : ListenSet \cup {-1},
   rx : Nat, flight : Nat, fin : BOOLEAN, rst : BOOLEAN,
   sent : Nat, wrote : Nat, owed : Nat, why : Whys, abort : BOOLEAN]

NewConn ==
  [st |-> "new", lsn |-> -1, rx |-> 0, flight |-> 0,
   fin |-> FALSE, rst |-> FALSE, sent |-> 0, wrote |-> 0, owed |-> 0,
   why |-> "none", abort |-> FALSE]

Lesser(m, n) == IF m <= n THEN m ELSE n
NoEvent == PollFd(-1, {})
-----------------------------------------------------------------------------
(* The kernel. *)

Backlog(l) == {c \in Conns : conn[c].st = "queued" /\ conn[c].lsn = l}
FreeFds == {f \in ClientFds : fdtab[f] = NoConn}

\* End of input, a reset and unread data are all "readable".
ReadableConn(c) == c.rx > 0 \/ c.fin \/ c.rst
WritableConn(c) == c.rst \/ c.flight < Window

ReadyEvents ==
  [f \in AllFds |->
     IF f \in ListenSet
     THEN {e \in {"IN"} : Backlog(f) # {}}
     ELSE {e \in PollEvents :
             /\ fdtab[f] # NoConn
             /\ e = "IN" => ReadableConn(conn[fdtab[f]])
             /\ e = "OUT" => WritableConn(conn[fdtab[f]])}]

\* What close(), or the end of the process, does to a connection.
Ended(c, why) ==
  [c EXCEPT !.st = "closed", !.why = why, !.abort = c.rx > 0,
            !.rx = 0, !.flight = 0]

\* The process ends: the kernel closes what the server had open or queued.
EndAll(why) ==
  /\ fdtab' = [f \in ClientFds |-> NoConn]
  /\ listening' = {}
  /\ conn' = [c \in Conns |-> IF conn[c].st \in {"queued", "open"}
                              THEN Ended(conn[c], why) ELSE conn[c]]
-----------------------------------------------------------------------------
(* Poller and ConnectionManager, called together. *)

isListeningSocket(fd) == fd \in ListenSet

\* std::map::insert: an entry that is already there stays as it is.
addClient(cl, fd, lsn) ==
  [f \in DOMAIN cl \cup {fd} |-> IF f \in DOMAIN cl THEN cl[f]
                                 ELSE NewClient(lsn)]

\* Slip: the client object outlives its connection.
KeepClient(cl, fd) == cl

removeClient(cl, fd) == Restrict(cl, DOMAIN cl \ {fd})

\* removeFd, close and removeClient, as readClientRequest and
\* writeClientResponse both do.  ended: the connection after close().
Drop(fd, ended) ==
  /\ fds' = removeFd(fds, fd)
  /\ fdtab' = [fdtab EXCEPT ![fd] = NoConn]
  /\ conn' = [conn EXCEPT ![fdtab[fd]] = ended]
  /\ clients' = removeClient(clients, fd)

\* Slip: an event advances the index, as the for loop does.
EndEventTwice == pc' = "scan" /\ i' = i + 2 /\ cur' = NoEvent

\* processClientEvent returns to the for loop, which does ++i.
EndEvent == pc' = "scan" /\ i' = i + 1 /\ cur' = NoEvent
-----------------------------------------------------------------------------
(* NetworkHandler::run. *)

Init ==
  /\ running = TRUE
  /\ pc = "start"
  /\ fds = <<>>
  /\ i = 1
  /\ cur = NoEvent
  /\ clients = [f \in {} |-> {}]
  /\ fdtab = [f \in ClientFds |-> NoConn]
  /\ listening = ListenSet
  /\ conn = [c \in Conns |-> NewConn]

addListeningSocketsToPoller ==
  /\ pc = "start"
  /\ fds' = [k \in DOMAIN ListenFds |-> PollFd(ListenFds[k], {"IN"})]
  /\ pc' = "check"
  /\ UNCHANGED <<running, i, cur, clients, fdtab, listening, conn>>

\* Slip: while (g_running || !clients.empty()).
RunningOrServing == running \/ DOMAIN clients # {}

loopCondition == running                               \* while (g_running)

CheckRunning ==
  /\ pc = "check"
  /\ pc' = IF loopCondition THEN "poll" ELSE "cleanup"
  /\ UNCHANGED <<running, fds, i, cur, clients, fdtab, listening, conn>>

\* poller.poll(-1): from here on only an event or a signal wakes the server.
EnterPoll ==
  /\ pc = "poll"
  /\ pc' = "wait"
  /\ UNCHANGED <<running, fds, i, cur, clients, fdtab, listening, conn>>

PollReturns ==
  /\ pc = "wait"
  /\ \E k \in DOMAIN fds : ReadyEvents[fds[k].fd] \cap fds[k].events # {}
  /\ fds' = Polled(fds, ReadyEvents)
  /\ pc' = "scan"
  /\ i' = 1
  /\ UNCHANGED <<running, cur, clients, fdtab, listening, conn>>

\* poll() fails with something else than EINTR: throwPollFailedError.
PollThrows ==
  /\ pc = "wait"
  /\ pc' = "failed"
  /\ EndAll("died")
  /\ UNCHANGED <<running, fds, i, cur, clients>>

Skip ==
  /\ pc = "scan" /\ i <= Len(fds) /\ "IN" \notin fds[i].revents
  /\ i' = i + 1
  /\ UNCHANGED <<running, pc, fds, cur, clients, fdtab, listening, conn>>

\* The expired sessions cleaned here are in module Sessions.
EndOfRound ==
  /\ pc = "scan" /\ i > Len(fds)
  /\ pc' = "check"
  /\ i' = 1
  /\ UNCHANGED <<running, fds, cur, clients, fdtab, listening, conn>>

\* accept() takes the lowest free descriptor; without one (EMFILE) it fails
\* and the connection stays in the backlog.
acceptNewConnection ==
  /\ pc = "scan" /\ i <= Len(fds) /\ "IN" \in fds[i].revents
  /\ isListeningSocket(fds[i].fd)
  /\ i' = i + 1
  /\ \/ /\ FreeFds = {}
        /\ UNCHANGED <<fds, clients, fdtab, conn>>
     \/ \E c \in Backlog(fds[i].fd), fd \in FreeFds :
          /\ \A f \in FreeFds : fd <= f
          /\ fdtab' = [fdtab EXCEPT ![fd] = c]
          /\ conn' = [conn EXCEPT ![c].st = "open"]
          /\ fds' = addFd(fds, fd, {"IN", "OUT"})
          /\ clients' = addClient(clients, fd, fds[i].fd)
  /\ UNCHANGED <<running, pc, cur, listening>>
-----------------------------------------------------------------------------
(* NetworkHandler::processClientEvent.  The sockets may change between two *)
(* system calls, so each call is a step.                                   *)

curConn == conn[fdtab[cur.fd]]
curClient == clients[cur.fd]

\* getClient throws when the descriptor has no client, and run() is left.
BeginClientEvent ==
  /\ pc = "scan" /\ i <= Len(fds) /\ "IN" \in fds[i].revents
  /\ ~isListeningSocket(fds[i].fd)
  /\ cur' = fds[i]
  /\ pc' = IF fds[i].fd \notin DOMAIN clients THEN "failed"
           ELSE IF clients[fds[i].fd].request_complete THEN "process"
           ELSE "read"
  /\ UNCHANGED <<running, fds, i, clients, fdtab, listening, conn>>

\* read() returns data: it is appended, and the request may be complete.
ReadData ==
  /\ pc = "read" /\ curConn.rx > 0
  /\ LET n == Lesser(curConn.rx, ReadMax)
         size == curClient.request_buffer + n
     IN  /\ conn' = [conn EXCEPT ![fdtab[cur.fd]].rx = @ - n]
         /\ clients' = [clients EXCEPT ![cur.fd].request_buffer = size,
                                       ![cur.fd].request_complete = size >= Need]
  /\ pc' = "process"
  /\ UNCHANGED <<running, fds, i, cur, fdtab, listening>>

\* read() returns 0 (end of input) or -1 (reset, EAGAIN).
ReadFails ==
  /\ pc = "read" /\ curConn.rx = 0
  /\ Drop(cur.fd, Ended(curConn, "dropped"))
  /\ EndEvent
  /\ UNCHANGED <<running, listening>>

\* Slip: a pipelined request is answered while a response is on its way.
WheneverComplete == curClient.request_complete

mayGenerate == curClient.request_complete /\ curClient.response_buffer = 0

\* Slips: the answered request stays in the buffer; one unit too many goes.
KeepRequest(buffer) == buffer
EraseOneMore(buffer) == buffer - Need - 1

eraseRequest(buffer) == buffer - Need

\* generateClientResponse, then the request leaves the buffer.
generateClientResponse ==
  /\ pc = "process"
  /\ mayGenerate
  /\ \E size \in RespSizes :
       /\ clients' = [clients EXCEPT ![cur.fd].response_buffer = size,
                                     ![cur.fd].request_buffer = eraseRequest(@),
                                     ![cur.fd].request_complete = FALSE]
       /\ conn' = [conn EXCEPT ![fdtab[cur.fd]].owed = size]
  /\ pc' = "write"
  /\ UNCHANGED <<running, fds, i, cur, fdtab, listening>>

\* The request is incomplete, or a response is on its way already.
NothingToGenerate ==
  /\ pc = "process"
  /\ ~mayGenerate
  /\ IF curClient.response_buffer = 0
     THEN EndEvent
     ELSE pc' = "write" /\ UNCHANGED <<i, cur>>
  /\ UNCHANGED <<running, fds, clients, fdtab, listening, conn>>

\* Slip: write without looking at POLLOUT.
AlwaysWritable == TRUE

pollOut == "OUT" \in cur.revents

\* The copied revents lack POLLOUT: the rest waits for another event.
WriteLater ==
  /\ pc = "write" /\ ~pollOut
  /\ EndEvent
  /\ UNCHANGED <<running, fds, clients, fdtab, listening, conn>>

\* write() takes what the socket has room for; 0 stands for -1 with EAGAIN.
Written == Lesser(curClient.response_buffer - curClient.response_offset,
                  Window - curConn.flight)

AfterWrite ==
  [curConn EXCEPT !.wrote = @ + Written, !.flight = @ + Written]

\* Slip: write again in the same event until the response is out.
WriteAgain == UNCHANGED <<pc, i, cur>>

afterPart == EndEvent                \* one write() per event

\* writeResponse returns TRUE, "done", after the last byte but also after
\* any error, and then the connection is closed.
WriteSome ==
  /\ pc = "write" /\ pollOut /\ ~curConn.rst
  /\ LET offset == curClient.response_offset + Written
     IN  IF Written = 0 \/ offset = curClient.response_buffer
         THEN Drop(cur.fd, Ended(AfterWrite, "answered")) /\ EndEvent
         ELSE /\ clients' = [clients EXCEPT ![cur.fd].response_offset = offset]
              /\ conn' = [conn EXCEPT ![fdtab[cur.fd]] = AfterWrite]
              /\ afterPart
              /\ UNCHANGED <<fds, fdtab>>
  /\ UNCHANGED <<running, listening>>

\* The peer has reset the connection since: -1 (ECONNRESET), "done".
WriteError ==
  /\ pc = "write" /\ pollOut /\ curConn.rst
  /\ Drop(cur.fd, Ended(curConn, "dropped"))
  /\ EndEvent
  /\ UNCHANGED <<running, listening>>

\* ... or EPIPE, and SIGPIPE ends the process.
WriteKills ==
  /\ pc = "write" /\ pollOut /\ curConn.rst /\ curConn.fin
  /\ pc' = "killed"
  /\ EndAll("died")
  /\ UNCHANGED <<running, fds, i, cur, clients>>

\* Slip: the loop over the poller's entries stops one early.
AllButLastFd == {fds[k].fd : k \in 1..(Len(fds) - 1)} \ ListenSet

closedByCleanup == {f \in FdsOf(fds) : ~isListeningSocket(f)}

\* Closes every client descriptor of the poller, then the servers' sockets.
cleanup ==
  /\ pc = "cleanup"
  /\ LET down(c) == \/ conn[c].st = "queued"
                    \/ \E f \in closedByCleanup : fdtab[f] = c
     IN  /\ fdtab' = [f \in ClientFds |-> IF f \in closedByCleanup THEN NoConn
                                          ELSE fdtab[f]]
         /\ conn' = [c \in Conns |-> IF down(c) THEN Ended(conn[c], "shutdown")
                                     ELSE conn[c]]
  /\ listening' = {}
  /\ pc' = "stopped"
  /\ UNCHANGED <<running, fds, i, cur, clients>>

ClientEvent ==
  \/ BeginClientEvent \/ ReadData \/ ReadFails \/ generateClientResponse
  \/ NothingToGenerate \/ WriteLater \/ WriteSome \/ WriteError \/ WriteKills

run ==
  \/ addListeningSocketsToPoller \/ CheckRunning \/ EnterPoll \/ PollReturns
  \/ PollThrows \/ Skip \/ EndOfRound \/ acceptNewConnection \/ ClientEvent
  \/ cleanup
-----------------------------------------------------------------------------
(* The environment. *)

\* signalHandler.  Only a server that is already inside poll() is woken
\* (EINTR); poll() then reports what is ready, which may be nothing.
signalHandler ==
  /\ running /\ pc \notin Dead
  /\ running' = FALSE
  /\ IF pc = "wait"
     THEN pc' = "scan" /\ i' = 1 /\ fds' = Polled(fds, ReadyEvents)
     ELSE UNCHANGED <<pc, i, fds>>
  /\ UNCHANGED <<cur, clients, fdtab, listening, conn>>

Connect(c, l) ==
  /\ conn[c].st = "new" /\ l \in listening
  /\ conn' = [conn EXCEPT ![c].st = "queued", ![c].lsn = l]
  /\ UNCHANGED <<running, pc, fds, i, cur, clients, fdtab, listening>>

CanSend(c) == conn[c].st \in {"queued", "open"} /\ ~conn[c].fin /\ ~conn[c].rst

Send(c) ==
  /\ CanSend(c) /\ conn[c].sent < MaxSend
  /\ conn' = [conn EXCEPT ![c].rx = @ + 1, ![c].sent = @ + 1]
  /\ UNCHANGED <<running, pc, fds, i, cur, clients, fdtab, listening>>

\* The peer shuts down its sending side; it may still read.
ShutDown(c) ==
  /\ CanSend(c)
  /\ conn' = [conn EXCEPT ![c].fin = TRUE]
  /\ UNCHANGED <<running, pc, fds, i, cur, clients, fdtab, listening>>

Reset(c) ==
  /\ conn[c].st \in {"queued", "open"} /\ ~conn[c].rst
  /\ conn' = [conn EXCEPT ![c].rst = TRUE, ![c].rx = 0, ![c].flight = 0]
  /\ UNCHANGED <<running, pc, fds, i, cur, clients, fdtab, listening>>

\* The peer reads a unit of the response.
Receive(c) ==
  /\ conn[c].st = "open" /\ conn[c].flight > 0
  /\ conn' = [conn EXCEPT ![c].flight = @ - 1]
  /\ UNCHANGED <<running, pc, fds, i, cur, clients, fdtab, listening>>

Peer(c) ==
  \/ \E l \in ListenSet : Connect(c, l)
  \/ Send(c) \/ ShutDown(c) \/ Reset(c) \/ Receive(c)

\* The process is gone; the peers' side is of no interest any more.
Terminated == pc \in Dead /\ UNCHANGED vars

Next ==
  \/ run
  \/ signalHandler
  \/ \E c \in Conns : Peer(c)
  \/ Terminated

Spec == Init /\ [][Next]_vars

\* The process is scheduled, and a peer reads what it is sent.  That poll()
\* fails, or a write() kills, is never due.
Fairness ==
  /\ WF_vars(run /\ pc' \notin {"failed", "killed"})
  /\ \A c \in Conns : WF_vars(Receive(c))
FairSpec == Spec /\ Fairness
-----------------------------------------------------------------------------
(* Properties. *)

\* Type correctness of the loop's, the client table's and the kernel's state.
TypeOK ==
  /\ running \in BOOLEAN
  /\ pc \in Pcs
  /\ fds \in Seq(PollFds(AllFds))
  /\ i \in Nat \ {0}
  /\ cur \in PollFds(AllFds \cup {-1})
  /\ DOMAIN clients \subseteq ClientFds
  /\ clients \in [DOMAIN clients -> ClientState]
  /\ fdtab \in [ClientFds -> Conns \cup {NoConn}]
  /\ listening \subseteq ListenSet
  /\ conn \in [Conns -> ConnState]

Open == {f \in ClientFds : fdtab[f] # NoConn}
Clean == {"stopped", "failed", "killed", "start"}

TablesAgree ==
  /\ Len(fds) >= Len(ListenFds)
  /\ \A k \in DOMAIN ListenFds : fds[k].fd = ListenFds[k]
  /\ \A j, k \in DOMAIN fds : fds[j].fd = fds[k].fd => j = k
  /\ FdsOf(fds) = ListenSet \cup Open
  /\ DOMAIN clients = Open

\* The pollfd vector, the client map and the open descriptors agree: the
\* servers' sockets first, then exactly one entry per open connection, each
\* with its client.  getClient and isListeningSocket rest on it, and so does
\* the copied entry of a client that is being processed.
FdAgreement ==
  /\ pc \notin Clean => TablesAgree
  /\ pc \in {"read", "process", "write"} =>
       i \in DOMAIN fds /\ fds[i] = cur /\ cur.fd \in Open

\* A client object belongs to the connection behind its descriptor, also
\* after the descriptor was reused: it has the configuration of the server
\* the peer connected to, and every unit the peer sent is in the socket, in
\* the buffer, or was the request that is being answered.
ClientIsItsConnection ==
  pc \notin Clean =>
    \A f \in DOMAIN clients :
      LET c == conn[fdtab[f]]
          cl == clients[f]
          asked == IF cl.response_buffer > 0 THEN Need ELSE 0
      IN  /\ c.st = "open" /\ c.lsn = cl.server
          /\ cl.response_buffer = c.owed /\ cl.response_offset = c.wrote
          /\ ~c.rst => c.rx + cl.request_buffer + asked = c.sent
          /\ \A g \in DOMAIN clients : fdtab[g] = fdtab[f] => g = f

\* write() is tried only when the socket has room, so that -1 is never
\* EAGAIN, which writeResponse would take for the end of the response: the
\* POLLOUT test uses revents that are old by then, and stays true.
WriteHasRoom ==
  pc = "write" /\ "OUT" \in cur.revents /\ ~curConn.rst
    => curConn.flight < Window

\* A connection closed as answered got a complete response, unless its peer
\* reset it; and a peer that sent one request and nothing more is not reset
\* by the close, which would destroy the response it has not read yet.
AnsweredInFull ==
  \A c \in Conns :
    /\ conn[c].why = "answered" => conn[c].owed > 0 /\ conn[c].wrote = conn[c].owed
    /\ conn[c].why = "answered" /\ conn[c].sent = Need => ~conn[c].abort

\* After run() has returned no descriptor and no connection is left open.
ShutdownClosesAll ==
  pc = "stopped" =>
    /\ Open = {} /\ listening = {}
    /\ \A c \in Conns : conn[c].st \in {"new", "closed"}

IndexIn(s, fd) == SelectInSeq(s, LAMBDA p : p.fd = fd)
Gone(fd) == IndexIn(fds', fd) = 0
StepOfRound ==
  i' > 1 /\ pc \notin Clean =>
    \A k \in DOMAIN fds : ~Gone(fds[k].fd) =>
      LET now == IndexIn(fds', fds[k].fd)
      IN  /\ k > i /\ now < i' => k = i + 1 /\ Gone(fds[i].fd)
          /\ \A j \in 1..(k - 1) :
               Gone(fds[j].fd) \/ IndexIn(fds', fds[j].fd) < now

\* The loop walks a vector that changes under it.  No step reorders the
\* entries, and a step passes over at most one that it has not looked at
\* yet: the one right after a client that was dropped.  So a ready client
\* is overlooked in a round only when the one before it left for good.
PassesOverOnlyAfterDrop == [][StepOfRound]_vars
-----------------------------------------------------------------------------
(* Refinement. *)

Life == INSTANCE ConnectionLife WITH
  Capacity <- Cardinality(ClientFds),
  up <- pc \notin Dead,
  phase <- [c \in Conns |-> conn[c].st],
  asked <- [c \in Conns |-> conn[c].sent >= Need],
  left <- [c \in Conns |-> conn[c].fin \/ conn[c].rst],
  owed <- [c \in Conns |-> conn[c].owed],
  written <- [c \in Conns |-> conn[c].wrote]

\* The loop keeps the promise of ConnectionLife to every peer: one response
\* at most, only after a whole request, and no connection is given up whose
\* peer is still there and has not got all of its response.
KeepsPromise == Life!LifeSpec
-----------------------------------------------------------------------------
(* Liveness, under FairSpec. *)

Down == pc \in Dead \/ ~running
Answered(c) == conn[c].why = "answered"

\* Whoever sent a whole request is answered, also when it has shut down its
\* side, unless it resets the connection or the server goes down.
RequestsAreAnswered ==
  \A c \in Conns : conn[c].sent >= Need ~> Answered(c) \/ conn[c].rst \/ Down

\* A server told to stop does stop, or sleeps in poll() until something
\* wakes it: the signal may come between the test of g_running and poll(),
\* and then only a client that is connected, or connects, ends the wait.
Asleep == pc = "wait" /\ Open = {} /\ \A l \in ListenSet : Backlog(l) = {}
SigintStops == <>[](running \/ pc \in Dead \/ Asleep)

\* "Handle life cycle of a client (read, process, write)": a peer that sends
\* its request and waits for the response gets it, whatever its size.
LifeCycleCompletes ==
  \A c \in Conns : conn[c].sent >= Need ~> Answered(c) \/ conn[c].rst
                                           \/ conn[c].fin \/ Down
=============================================================================
