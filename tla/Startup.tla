------------------------------ MODULE Startup ------------------------------
(***************************************************************************)
(* main and the constructor of WebServer: the configuration file is read,  *)
(* checked, and one listening socket is opened for each server, while      *)
(* other programs take and free ports.  Any system call may fail; what     *)
(* throws ends in main's catch, and the program exits.                     *)
(***************************************************************************)
EXTENDS ConfigParser

CONSTANTS
  Ports,        \* the ports the other programs use
  Octal,        \* the numerals that begin with 0 and do not end there: the
                \* integer of their digits in base 8, or -1 when one is 8 or 9
  LocalHosts    \* the addresses of this machine, of four octets each

VARIABLES
  sockets,   \* the sockets of the servers so far: a sequence of SocketState
  taken      \* the ports other programs listen on

vars == <<pc, block, server, location, servers, text, sockets, taken>>

Broadcast == <<255, 255, 255, 255>>

SocketState == [state : {"new", "bound", "listening"},
                address : LocalHosts \cup {<<>>, Broadcast},
                port : 0..MaxPort]

NewSocket == [state |-> "new", address |-> <<>>, port |-> 0]

StartInit ==
  /\ Init
  /\ sockets = <<>>
  /\ taken = {}
-----------------------------------------------------------------------------
\* The octets of a host as inet_addr reads them, in base 8 behind a 0.
octets(host) ==
  LET numerals == getlines(host, ".")
      octet(t) == IF t \in DOMAIN Octal THEN Octal[t] ELSE IntOf[t]
  IN  [i \in DOMAIN numerals |-> octet(numerals[i][1])]

\* What inet_addr makes of a host that setHost took, or of none: of what it
\* cannot read, no host or one with a dot at its end among it, INADDR_NONE,
\* which is 255.255.255.255.
inet_addr(host) ==
  IF host # <<>> /\ Last(host) # "." /\ ToSet(octets(host)) \subseteq 0..255
  THEN octets(host) ELSE Broadcast

\* Port 0 is nobody's.
ASSUME StartupAssumption == Ports \subseteq 1..MaxPort

current == Len(sockets)      \* the server whose socket is being opened
Cfg == servers[current]

NoFile ==
  /\ pc = "parsing" /\ text = <<>>
  /\ pc' = "exited"
  /\ UNCHANGED <<parserVars, sockets, taken>>

ReadConfig == Parse /\ UNCHANGED <<sockets, taken>>

\* Slip: the ports are not compared.
AnyPorts == TRUE

uniquePorts == \A i, j \in DOMAIN servers :
                 i # j => servers[i].listen # servers[j].listen

\* checkEmptyServers and checkUniquePortForServers.
checkServers ==
  /\ pc = "parsed"
  /\ pc' = IF servers # <<>> /\ uniquePorts THEN "socket" ELSE "caught"
  /\ UNCHANGED <<parserVars, sockets, taken>>

\* socket(), and setsockopt(), whose failure closes the descriptor.
OpenSocket ==
  /\ pc = "socket"
  /\ \/ current < Len(servers) /\ sockets' = Append(sockets, NewSocket) /\ pc' = "bind"
     \/ current < Len(servers) /\ pc' = "caught" /\ UNCHANGED sockets
     \/ current = Len(servers) /\ pc' = "running" /\ UNCHANGED sockets
  /\ UNCHANGED <<parserVars, taken>>

bindable ==
  /\ inet_addr(Cfg.host) \in LocalHosts \cup {Broadcast}
  /\ Cfg.listen \notin taken
  /\ \A i \in 1..(current - 1) : \/ sockets[i].port # Cfg.listen
                                 \/ sockets[i].address # inet_addr(Cfg.host)

\* Slip: nothing is closed.
LeaveOpen == sockets

\* A failure closes the socket that is being opened, and no other.
closeFailed == Front(sockets)

Bind ==
  /\ pc = "bind"
  /\ \/ /\ bindable
        /\ sockets' = [sockets EXCEPT ![current] =
             [state |-> "bound", address |-> inet_addr(Cfg.host), port |-> Cfg.listen]]
        /\ pc' = "listen"
     \/ sockets' = closeFailed /\ pc' = "caught"
  /\ UNCHANGED <<parserVars, taken>>

Listen ==
  /\ pc = "listen"
  /\ \/ sockets' = [sockets EXCEPT ![current].state = "listening"] /\ pc' = "socket"
     \/ sockets' = closeFailed /\ pc' = "caught"
  /\ UNCHANGED <<parserVars, taken>>

\* The catch of main; the kernel closes what is still open.
Exit ==
  /\ pc = "caught"
  /\ pc' = "exited"
  /\ sockets' = <<>>
  /\ UNCHANGED <<parserVars, taken>>

\* BOUND: others are left out until a server has been read, when a port of
\* theirs can matter.
OtherProgram ==
  /\ pc \notin {"parsing", "exited"} /\ servers # <<>>
  /\ \E p \in Ports :
       \/ p \in taken /\ taken' = taken \ {p}
       \/ /\ p \notin taken
          /\ \A i \in DOMAIN sockets : sockets[i].port # p
          /\ taken' = taken \cup {p}
  /\ UNCHANGED <<pc, parserVars, sockets>>

Next ==
  \/ NoFile \/ ReadConfig \/ checkServers
  \/ OpenSocket \/ Bind \/ Listen \/ Exit
  \/ OtherProgram

Spec == StartInit /\ [][Next]_vars
-----------------------------------------------------------------------------
(* Properties. *)

\* The program counter, the open block, the servers and the sockets are of
\* their kinds; limits are in the ranges the setters allow.
TypeOK ==
  /\ pc \in {"parsing", "parsed", "caught", "socket", "bind", "listen", "running", "exited"}
  /\ block \in {"file", "server", "location"}
  /\ \A s \in ToSet(servers) \cup {server} :
       /\ s.listen \in 1..MaxPort
       /\ \A l \in ToSet(s.locations) : l.client_max_body_size \in 1..MaxBody
       /\ DOMAIN s = DOMAIN ServerConfig
  /\ DOMAIN location = DOMAIN NoLocation
  /\ sockets \in Seq(SocketState) /\ Len(sockets) <= Len(servers)
  /\ taken \subseteq Ports

(* What a file says, read off its lines and their nesting.  t is the file up *)
(* to some line, of which clean leaves t[1], t[2], ...                     *)
Lined == [i \in DOMAIN text |-> clean[text[i]]]
UpTo(t, n) == SubSeq(t, 1, n)

Opens(w) == w = ServerLine \/ IsLocationLine(w)
Depth(t, i) == Cardinality({j \in 1..i : Opens(t[j])})
                 - Cardinality({j \in 1..i : t[j] = BlockEnd})

\* Where the block ends that is opened at i.
EndOf(t, i) == Min({j \in DOMAIN t : j > i /\ Depth(t, j) < Depth(t, i)})

\* The lines of the block that is opened at i, which t does not go beyond: its
\* own, and those that end a location in it.
Body(t, i) == {j \in (i + 1)..Len(t) : Depth(t, j) = Depth(t, i)}
ServersAt(t) == {i \in DOMAIN t : t[i] = ServerLine}
LocationsAt(t, i) == {j \in i..Len(t) : IsLocationLine(t[j])}

\* The values of the last line among those at I that sets name, or default.
Says(t, I, name, default) ==
  LET at == {i \in I : t[i] # <<>> /\ t[i][1] = name}
  IN  IF at = {} THEN default ELSE Tail(words(t[Max(at)]))

Text(t, I, name, default) == Says(t, I, name, <<default>>)[1]

AsFolder(w) == IF Last(w) = "/" THEN w ELSE Append(w, "/")

SizeOf(w) == CHOOSE n \in convertBodySize(w) : TRUE

BodySize(t, I, default) ==
  LET said == Says(t, I, "client_max_body_size", <<>>)
  IN  IF said = <<>> THEN default ELSE SizeOf(said[1])

\* The size a location at j without one of its own has: what its server says
\* above it.
Inherited(t, i, j) ==
  LET above == UpTo(t, j - 1) IN BodySize(above, Body(above, i), Kilo * Kilo)

PathAt(t, j) == split(t[j], " ")[2]

LocationSays(t, l, i, j) ==
  LET I == Body(t, j)
  IN  /\ l.location = PathAt(t, j)
      /\ l.root = Text(t, I, "root", <<>>)
      /\ l.index = Text(t, I, "index", <<>>)
      /\ l.upload_store = Text(t, I, "upload_store", <<>>)
      /\ l.cgi_extension = Text(t, I, "cgi_extension", <<>>)
      /\ l.cgi_path = Text(t, I, "cgi_path", <<>>)
      /\ l.autoindex = (Text(t, I, "autoindex", <<>>) = <<"on">>)
      /\ l.upload_enable = (Text(t, I, "upload_enable", <<>>) = <<"on">>)
      /\ l.allowed_methods =
           (LET said == Says(t, I, "allowed_methods", <<>>)
            IN  IF said = <<>> THEN Methods ELSE ToSet(said))
      /\ l.client_max_body_size = BodySize(t, I, Inherited(t, i, j))

\* Of the locations with one path, the first.
FirstAt(t, i) ==
  {j \in LocationsAt(t, i) :
     \A k \in LocationsAt(t, i) : k < j => PathAt(t, k) # PathAt(t, j)}

\* The how-manieth of S.
Rank(j, S) == Cardinality({k \in S : k <= j})

ServerSays(t, s, i) ==
  LET I == Body(t, i)
      first == FirstAt(t, i)
  IN  /\ s.host = Text(t, I, "host", <<>>)
      /\ s.server_name = Text(t, I, "server_name", <<"localhost">>)
      /\ s.root = AsFolder(Text(t, I, "root", <<"www", "/">>))
      /\ s.index = Text(t, I, "index", <<"index", ".", "html">>)
      /\ s.client_max_body_size = BodySize(t, I, Kilo * Kilo)
      /\ s.listen = (LET said == Says(t, I, "listen", <<>>)
                     IN  IF said = <<>> THEN 80 ELSE IntOf[said[1][1]])
      /\ Len(s.locations) = Cardinality(first)
      /\ \A j \in first :
           LocationSays(UpTo(t, EndOf(t, j)), s.locations[Rank(j, first)], i, j)

\* A file that is accepted means what its lines say: a server per server
\* block, with the locations written in it (of two with one path, the first),
\* each setting but error_page and return from the last line of its own block
\* that sets it, and for a location's body size otherwise what the server's
\* lines above it say.
SaysWhatTheFileSays ==
  pc = "parsed" =>
    /\ Len(servers) = Cardinality(ServersAt(Lined))
    /\ \A i \in ServersAt(Lined) :
         ServerSays(UpTo(Lined, EndOf(Lined, i)), servers[Rank(i, ServersAt(Lined))], i)

\* The page of each status: what the last line among those at I that names
\* the status says.
PagesSaid(t, I) ==
  LET naming == {i \in I : t[i] # <<>> /\ t[i][1] = "error_page"}
      status(i) == stringToInt(words(t[i])[2])
  IN  [code \in UNION {status(i) : i \in naming} |->
         words(t[Max({i \in naming : code \in status(i)})])[3]]

\* "return code target", "return code" or "return target": the status is that
\* of the last line, the target that of the last line that says one.
ReturnSays(t, I, l) ==
  LET at == {i \in I : t[i] # <<>> /\ t[i][1] = "return"}
      said(i) == Tail(words(t[i]))
      coded == {i \in at : Len(said(i)) = 2 \/ isInt(said(i)[1])}
      aimed == {i \in at : Len(said(i)) = 2 \/ i \notin coded}
  IN  /\ l.return_code = (IF at = {} THEN 0 ELSE IF Max(at) \notin coded THEN 302
                          ELSE CHOOSE n \in stringToInt(said(Max(at))[1]) : TRUE)
      /\ l.return_target = (IF aimed = {} THEN <<>> ELSE Last(said(Max(aimed))))

\* The settings that take several lines together: a block's error pages are
\* those its own lines say, for each status the last, and a location returns
\* what its lines together say.  None comes from another block, a dropped
\* location of the same path among them.
PagesAndReturnsAreSaid ==
  pc = "parsed" =>
    \A i \in ServersAt(Lined) :
      LET t == UpTo(Lined, EndOf(Lined, i))
          s == servers[Rank(i, ServersAt(Lined))]
      IN  /\ s.error_pages = PagesSaid(t, Body(t, i))
          /\ \A j \in FirstAt(t, i) :
               LET u == UpTo(t, EndOf(t, j))
                   l == s.locations[Rank(j, FirstAt(t, i))]
               IN  /\ l.error_pages = PagesSaid(u, Body(u, j))
                   /\ ReturnSays(u, Body(u, j), l)

\* The address a host says: its octets in decimal, as setHost reads them.
HostSays(host) ==
  LET numerals == getlines(host, ".")
  IN  [i \in DOMAIN numerals |-> IntOf[numerals[i][1]]]

\* No octet has a zero before it.
NoLeadingZero(host) == \A numeral \in ToSet(getlines(host, ".")) : numeral[1] \notin DOMAIN Octal

\* Once the event loop runs, each server listens, on the port of its
\* configuration and no two on the same, and the program never runs without
\* a server.  Its address is the one its host says, if no octet has a zero
\* before it; but without a host, or with a dot behind it, INADDR_NONE, where
\* nobody can connect.
ListensAsConfigured ==
  pc = "running" =>
    /\ servers # <<>> /\ Len(sockets) = Len(servers)
    /\ \A k \in DOMAIN servers :
         /\ sockets[k].state = "listening"
         /\ sockets[k].port = servers[k].listen
         /\ NoLeadingZero(servers[k].host) =>
              sockets[k].address = IF servers[k].host = <<>> \/ Last(servers[k].host) = "."
                                   THEN Broadcast ELSE HostSays(servers[k].host)
    /\ \A j, k \in DOMAIN servers : j # k => sockets[j].port # sockets[k].port

\* A server that cannot open its socket leaves no half-made one: when the
\* exception arrives in main, the open sockets are those of the servers
\* before it, all listening; and a port is never ours and another's.
NoHalfOpenSocket ==
  /\ pc \in {"caught", "running", "socket"} =>
       \A k \in DOMAIN sockets : sockets[k].state = "listening"
  /\ \A k \in DOMAIN sockets : sockets[k].port \notin taken
=============================================================================
