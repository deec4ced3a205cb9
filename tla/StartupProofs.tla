--------------------------- MODULE StartupProofs ---------------------------
(***************************************************************************)
(* For any lines a configuration file may have and any ports and addresses *)
(* of the machine: that an accepted file is obeyed line by line, what it   *)
(* keeps to, and which sockets are open at each point of the start.        *)
(***************************************************************************)
EXTENDS Startup, Recursion, FiniteSetTheorems

IsSequence(q) == q \in Seq(ToSet(q))

\* A location that a server has got.
LocationOK(l) == l.client_max_body_size \in 1..MaxBody

LocationsOK(q) == IsSequence(q) /\ \A i \in 1..Len(q) : LocationOK(q[i])

HostOK(w) == w = <<>> \/ isHost(w)

ServerOK(s) ==
  /\ DOMAIN s = DOMAIN ServerConfig /\ HostOK(s.host)
  /\ s.listen \in 1..MaxPort
  /\ s.client_max_body_size \in 1..MaxBody
  /\ LocationsOK(s.locations)

ServersOK(q) == IsSequence(q) /\ \A i \in 1..Len(q) : ServerOK(q[i])

\* The parser's part of the inductive invariant.
ParserOK ==
  /\ block \in {"file", "server", "location"}
  /\ ServerOK(server)
  /\ DOMAIN location = DOMAIN NoLocation
  /\ block = "location" => location.client_max_body_size \in 1..MaxBody
  /\ ServersOK(servers)

\* A socket at the address and the port of its server.
PlacedAs(k, s) == k.port = s.listen /\ k.address = inet_addr(s.host)

\* The sockets' part: only the last one may be unfinished, and only while it
\* is being bound or is about to listen.
SocketsOK ==
  /\ sockets \in Seq(SocketState) /\ Len(sockets) <= Len(servers)
  /\ taken \subseteq Ports
  /\ pc \in {"parsing", "parsed"} => sockets = <<>>
  /\ pc \in {"bind", "listen"} => Len(sockets) # 0
  /\ \A k \in 1..Len(sockets) :
       /\ pc \notin {"bind", "listen"} \/ k < Len(sockets) => sockets[k].state = "listening"
       /\ pc # "bind" \/ k < Len(sockets) => PlacedAs(sockets[k], servers[k])
       /\ pc = "bind" /\ k = Len(sockets) => sockets[k].port = 0
       /\ sockets[k].port \notin taken
  /\ pc \in {"socket", "bind", "listen", "running"} => servers # <<>> /\ uniquePorts
  /\ pc = "running" => Len(sockets) = Len(servers)

IInv ==
  /\ pc \in {"parsing", "parsed", "caught", "socket", "bind", "listen", "running", "exited"}
  /\ ParserOK
  /\ SocketsOK
-----------------------------------------------------------------------------
(* Sequences and sizes. *)

\* A sequence with one more element.
LEMMA AppendLemma ==
  ASSUME NEW q, IsSequence(q), NEW e
  PROVE  /\ IsSequence(Append(q, e))
         /\ Len(q) \in Nat /\ Len(Append(q, e)) = Len(q) + 1
         /\ \A i \in 1..Len(q) : Append(q, e)[i] = q[i]
         /\ Append(q, e)[Len(q) + 1] = e
<1>1. q \in Seq(ToSet(q))
  BY DEF IsSequence
<1>2. /\ Append(q, e) \in Seq(ToSet(q) \cup {e})
      /\ Len(q) \in Nat /\ Len(Append(q, e)) = Len(q) + 1
      /\ \A i \in 1..Len(q) : Append(q, e)[i] = q[i]
      /\ Append(q, e)[Len(q) + 1] = e
  BY <1>1
<1>3. ToSet(Append(q, e)) = ToSet(q) \cup {e}
  BY <1>1, <1>2 DEF ToSet
<1> QED  BY <1>2, <1>3 DEF IsSequence

\* The elements of a sequence, as a set.
LEMMA ToSetLemma ==
  ASSUME NEW q, IsSequence(q)
  PROVE  Len(q) \in Nat /\ DOMAIN q = 1..Len(q) /\ \A e : e \in ToSet(q) <=> \E i \in 1..Len(q) : e = q[i]
<1>1. Len(q) \in Nat /\ DOMAIN q = 1..Len(q)
  BY DEF IsSequence
<1> QED  BY <1>1 DEF ToSet

\* The default size is within the limit.
LEMMA DefaultSize == Kilo * Kilo \in 1..MaxBody /\ MaxBody \in Nat
<1>1. Kilo \in Nat /\ Kilo >= 1
  BY ConfigAssumption
<1>2. /\ Kilo * Kilo \in Nat
      /\ Kilo * Kilo >= Kilo
  BY <1>1
<1> DEFINE K2 == Kilo * Kilo
<1>3. K2 \in Nat /\ K2 >= 1
  BY <1>1, <1>2
<1>4. MaxBody = 2 * (K2 * Kilo)
  BY <1>1 DEF MaxBody
<1> HIDE DEF K2
<1>5. K2 * Kilo >= K2 /\ K2 * Kilo \in Nat
  BY <1>1, <1>3
<1>6. K2 \in 1..MaxBody /\ MaxBody \in Nat
  BY <1>3, <1>4, <1>5
<1> QED  BY <1>6 DEF K2

\* The largest port is an integer.
LEMMA PortLemma == MaxPort \in Nat /\ 80 <= MaxPort
BY SMT DEF MaxPort

\* The largest int is an integer.
LEMMA IntMaxLemma == IntMax \in Int
<1>1. Kilo \in Int
  BY ConfigAssumption
<1>2. Kilo * Kilo \in Int
  BY <1>1
<1>3. Kilo * Kilo * Kilo \in Int
  BY <1>1, <1>2
<1> QED  BY <1>1, <1>3 DEF IntMax

\* A size is a natural number.
LEMMA SizeLemma ==
  ASSUME NEW w, NEW n \in convertBodySize(w)
  PROVE  n \in Nat
<1> DEFINE multiplier ==
             CASE Last(w) \in {"K", "k"} -> Kilo
               [] Last(w) \in {"M", "m"} -> Kilo * Kilo
               [] Last(w) \in {"G", "g"} -> Kilo * Kilo * Kilo
               [] OTHER -> 1
           number_part == IF multiplier = 1 THEN w ELSE Front(w)
<1>1. multiplier \in Nat
  <2>1. Kilo \in Nat
    BY ConfigAssumption
  <2>2. Kilo * Kilo \in Nat
    BY <2>1
  <2>3. Kilo * Kilo * Kilo \in Nat
    BY <2>1, <2>2
  <2> QED  BY <2>1, <2>2, <2>3
<1> HIDE DEF multiplier
<1>2. PICK m \in stringToInt(number_part) : n = IF m < 0 THEN 0 ELSE m * multiplier
  BY DEF convertBodySize, multiplier
<1>3. m \in Int
  BY <1>2, IntMaxLemma DEF stringToInt
<1>4. m >= 0 => m * multiplier \in Nat
  BY <1>1, <1>3
<1> QED  BY <1>2, <1>3, <1>4

\* What the setter of a size leaves.
LEMMA SizeSetterLemma ==
  ASSUME NEW c, NEW t, "client_max_body_size" \in DOMAIN c,
         NEW d \in parseBodySizeDirective(c, t)
  PROVE  /\ d.client_max_body_size \in 1..MaxBody
         /\ \E n : d = [c EXCEPT !.client_max_body_size = n]
<1>1. PICK n \in convertBodySize(t[2]) : d \in setClientMaxBodySize(c, n)
  BY DEF parseBodySizeDirective
<1>2. n \in Nat
  BY <1>1, SizeLemma
<1>3. MaxBody \in Int
  BY DefaultSize
<1>4. d = [c EXCEPT !.client_max_body_size = n] /\ n # 0 /\ n <= MaxBody
  BY <1>1 DEF setClientMaxBodySize, Accept
<1>5. d.client_max_body_size = n /\ n \in 1..MaxBody
  BY <1>2, <1>3, <1>4
<1> QED  BY <1>4, <1>5
-----------------------------------------------------------------------------
(* Directives. *)

\* The fields of a server's configuration.
LEMMA ServerFields ==
  DOMAIN ServerConfig = {"listen", "host", "server_name", "error_pages",
                         "client_max_body_size", "root", "index",
                         "allowed_methods", "locations"}
BY DEF ServerConfig

\* A new server's configuration.
LEMMA NewServerLemma == ServerOK(ServerConfig)
<1>1. ServerConfig.listen = 80 /\ ServerConfig.client_max_body_size = Kilo * Kilo
      /\ ServerConfig.locations = <<>> /\ ServerConfig.host = <<>>
  BY DEF ServerConfig
<1>2. <<>> \in Seq(ToSet(<<>>)) /\ Len(<<>>) = 0
  OBVIOUS
<1>3. LocationsOK(<<>>)
  BY <1>2 DEF IsSequence, LocationsOK
<1>4. 80 \in 1..MaxPort
  BY PortLemma
<1> QED  BY <1>1, <1>3, <1>4, DefaultSize, Zenon DEF ServerOK, HostOK

\* A change of another field leaves a configuration in order.
LEMMA OtherField ==
  ASSUME NEW c, ServerOK(c), NEW d, DOMAIN d = DOMAIN c,
         d.listen = c.listen, d.client_max_body_size = c.client_max_body_size,
         d.locations = c.locations, HostOK(d.host)
  PROVE  ServerOK(d)
BY Zenon DEF ServerOK

\* The directives of a server block.
LEMMA ServerDirectiveLemma ==
  ASSUME NEW c, ServerOK(c), NEW t, NEW d \in parseServerDirective(c, t)
  PROVE  ServerOK(d)
<1>a. DOMAIN c = DOMAIN ServerConfig
  BY Zenon DEF ServerOK
<1>0. {"listen", "client_max_body_size", "locations", "host"} \subseteq DOMAIN c
  BY <1>a, ServerFields
<1>b. HostOK(c.host)
  BY Zenon DEF ServerOK
<1>1. CASE d \in parseListenDirective(c, t)
  <2>1. PICK p \in stringToInt(t[2]) : d \in setListen(c, p)
    BY <1>1 DEF parseListenDirective
  <2>2. d = [c EXCEPT !.listen = p] /\ 0 < p /\ p <= MaxPort
    BY <2>1 DEF setListen, Accept
  <2>3. p \in Int
    BY <2>1, IntMaxLemma DEF stringToInt
  <2>4. /\ DOMAIN d = DOMAIN c /\ d.listen = p /\ d.host = c.host
        /\ d.client_max_body_size = c.client_max_body_size /\ d.locations = c.locations
    BY <2>2, <1>0, Zenon
  <2>5. d.listen \in 1..MaxPort
    BY <2>2, <2>3, <2>4, PortLemma
  <2> QED  BY <2>4, <2>5, Zenon DEF ServerOK
<1>2. CASE d \in parseBodySizeDirective(c, t)
  <2>1. d.client_max_body_size \in 1..MaxBody /\ \E n : d = [c EXCEPT !.client_max_body_size = n]
    BY <1>2, <1>0, SizeSetterLemma
  <2>2. DOMAIN d = DOMAIN c /\ d.listen = c.listen /\ d.locations = c.locations
        /\ d.host = c.host
    BY <2>1, <1>0
  <2>3. d.client_max_body_size \in 1..MaxBody
    BY <2>1
  <2> QED  BY <2>2, <2>3, Zenon DEF ServerOK
<1>3. CASE \E x : \/ d = [c EXCEPT !.host = x] /\ HostOK(x)
                  \/ d = [c EXCEPT !.server_name = x]
                  \/ d = [c EXCEPT !.error_pages = x] \/ d = [c EXCEPT !.root = x]
                  \/ d = [c EXCEPT !.index = x]
  <2>1. /\ DOMAIN d = DOMAIN c /\ d.listen = c.listen
        /\ d.client_max_body_size = c.client_max_body_size /\ d.locations = c.locations
        /\ HostOK(d.host)
    BY <1>3, <1>0, <1>b
  <2> QED  BY <2>1, OtherField
<1>4. \/ d \in parseListenDirective(c, t) \/ d \in parseBodySizeDirective(c, t)
      \/ d \in parseHostDirective(c, t) \/ d \in parseServerNameDirective(c, t)
      \/ d \in parseErrorPageDirective(c, t) \/ d \in parseIndexDirective(c, t)
      \/ d \in parseServerRootDirective(c, t)
  BY DEF parseServerDirective
<1>5. ASSUME d \in parseHostDirective(c, t)
      PROVE  \E x : d = [c EXCEPT !.host = x] /\ HostOK(x)
  BY <1>5 DEF parseHostDirective, setHost, Accept, HostOK
<1>6. ASSUME d \in parseServerNameDirective(c, t)  PROVE \E x : d = [c EXCEPT !.server_name = x]
  BY <1>6 DEF parseServerNameDirective, setServerName, Accept
<1>7. ASSUME d \in parseErrorPageDirective(c, t)  PROVE \E x : d = [c EXCEPT !.error_pages = x]
  BY <1>7 DEF parseErrorPageDirective, addErrorPage, Accept
<1>8. ASSUME d \in parseIndexDirective(c, t)  PROVE \E x : d = [c EXCEPT !.index = x]
  BY <1>8 DEF parseIndexDirective, setIndex, Accept
<1>9. ASSUME d \in parseServerRootDirective(c, t)  PROVE \E x : d = [c EXCEPT !.root = x]
  BY <1>9 DEF parseServerRootDirective, ServerSetRoot, Accept
<1> QED  BY <1>1, <1>2, <1>3, <1>4, <1>5, <1>6, <1>7, <1>8, <1>9

\* The fields of a location.
LEMMA LocationFields ==
  ASSUME NEW path, NEW size
  PROVE  /\ DOMAIN LocationConfig(path, size) = DOMAIN NoLocation
         /\ LocationConfig(path, size).client_max_body_size = size
         /\ "client_max_body_size" \in DOMAIN NoLocation
BY DEF LocationConfig, NoLocation

\* The directives of a location block.
LEMMA LocationDirectiveLemma ==
  ASSUME NEW c, DOMAIN c = DOMAIN NoLocation, c.client_max_body_size \in 1..MaxBody,
         NEW t, NEW d \in parseLocationDirective(c, t)
  PROVE  DOMAIN d = DOMAIN NoLocation /\ d.client_max_body_size \in 1..MaxBody
<1>0. "client_max_body_size" \in DOMAIN c
  BY LocationFields
<1>1. CASE d \in parseBodySizeDirective(c, t)
  <2>1. d.client_max_body_size \in 1..MaxBody /\ \E n : d = [c EXCEPT !.client_max_body_size = n]
    BY <1>1, <1>0, SizeSetterLemma
  <2> QED  BY <2>1
<1>2. ASSUME \/ \E x : \/ d = [c EXCEPT !.root = x] \/ d = [c EXCEPT !.index = x]
                       \/ d = [c EXCEPT !.autoindex = x] \/ d = [c EXCEPT !.allowed_methods = x]
                       \/ d = [c EXCEPT !.cgi_extension = x] \/ d = [c EXCEPT !.cgi_path = x]
             \/ \E x : \/ d = [c EXCEPT !.upload_store = x] \/ d = [c EXCEPT !.upload_enable = x]
                       \/ d = [c EXCEPT !.error_pages = x]
      PROVE  DOMAIN d = DOMAIN c /\ d.client_max_body_size = c.client_max_body_size
  BY <1>2, <1>0
<1>3. ASSUME d \in parseReturnDirective(c, t)
      PROVE  DOMAIN d = DOMAIN c /\ d.client_max_body_size = c.client_max_body_size
  <2> DEFINE coded == Len(t) = 3 \/ isInt(t[2])
             codes == IF coded THEN stringToInt(t[2]) ELSE {302}
             target == IF ~coded THEN t[2] ELSE IF Len(t) = 3 THEN t[3] ELSE <<>>
             withCode == UNION {setReturnCode(c, n) : n \in codes}
  <2>1. \/ d \in withCode
        \/ \E e \in withCode : d \in setReturnTarget(e, target)
    BY <1>3 DEF parseReturnDirective
  <2>2. ASSUME NEW e \in withCode
        PROVE  DOMAIN e = DOMAIN c /\ e.client_max_body_size = c.client_max_body_size
    <3>1. PICK n : e = [c EXCEPT !.return_code = n]
      BY <2>2 DEF setReturnCode, Accept
    <3> QED  BY <3>1, <1>0
  <2> HIDE DEF withCode, target
  <2>3. ASSUME NEW e \in withCode, d \in setReturnTarget(e, target)
        PROVE  DOMAIN d = DOMAIN e /\ d.client_max_body_size = e.client_max_body_size
    <3>1. d = [e EXCEPT !.return_target = target]
      BY <2>3 DEF setReturnTarget, Accept
    <3> QED  BY <3>1, <2>2, <1>0
  <2> QED  BY <2>1, <2>2, <2>3
<1>4. \/ d \in parseLocationRootDirective(c, t) \/ d \in parseIndexDirective(c, t)
      \/ d \in parseAutoindexDirective(c, t) \/ d \in parseAllowedMethodsDirective(c, t)
      \/ d \in parseReturnDirective(c, t) \/ d \in parseCgiExtensionDirective(c, t)
      \/ d \in parseCgiPathDirective(c, t) \/ d \in parseUploadStoreDirective(c, t)
      \/ d \in parseUploadEnableDirective(c, t) \/ d \in parseBodySizeDirective(c, t)
      \/ d \in parseErrorPageDirective(c, t)
  BY DEF parseLocationDirective
<1>5. ASSUME d \in parseLocationRootDirective(c, t)  PROVE \E x : d = [c EXCEPT !.root = x]
  BY <1>5 DEF parseLocationRootDirective, LocationSetRoot, Accept
<1>6. ASSUME d \in parseIndexDirective(c, t)  PROVE \E x : d = [c EXCEPT !.index = x]
  BY <1>6 DEF parseIndexDirective, setIndex, Accept
<1>7. ASSUME d \in parseAutoindexDirective(c, t)  PROVE \E x : d = [c EXCEPT !.autoindex = x]
  BY <1>7 DEF parseAutoindexDirective
<1>8. ASSUME d \in parseAllowedMethodsDirective(c, t)
      PROVE  \E x : d = [c EXCEPT !.allowed_methods = x]
  BY <1>8 DEF parseAllowedMethodsDirective, setAllowedMethods, Accept
<1>9. ASSUME d \in parseCgiExtensionDirective(c, t)  PROVE \E x : d = [c EXCEPT !.cgi_extension = x]
  BY <1>9 DEF parseCgiExtensionDirective, setCgiExtension, Accept
<1>10. ASSUME d \in parseCgiPathDirective(c, t)  PROVE \E x : d = [c EXCEPT !.cgi_path = x]
  BY <1>10 DEF parseCgiPathDirective, setCgiPath, Accept
<1>11. ASSUME d \in parseUploadStoreDirective(c, t)  PROVE \E x : d = [c EXCEPT !.upload_store = x]
  BY <1>11 DEF parseUploadStoreDirective, setUploadStore, Accept
<1>12. ASSUME d \in parseUploadEnableDirective(c, t)  PROVE \E x : d = [c EXCEPT !.upload_enable = x]
  BY <1>12 DEF parseUploadEnableDirective
<1>13. ASSUME d \in parseErrorPageDirective(c, t)  PROVE \E x : d = [c EXCEPT !.error_pages = x]
  BY <1>13 DEF parseErrorPageDirective, addErrorPage, Accept
<1> QED  BY <1>1, <1>2, <1>3, <1>4, <1>5, <1>6, <1>7, <1>8, <1>9, <1>10, <1>11, <1>12, <1>13

\* A server that gets a location.
LEMMA AddLocationLemma ==
  ASSUME NEW c, ServerOK(c), NEW l, LocationOK(l)
  PROVE  ServerOK(addLocation(c, l))
<1>1. CASE \E i \in DOMAIN c.locations : c.locations[i].location = l.location
  BY <1>1, Zenon DEF addLocation
<1>2. CASE ~ \E i \in DOMAIN c.locations : c.locations[i].location = l.location
  <2> DEFINE q == c.locations
             d == [c EXCEPT !.locations = Append(q, l)]
  <2>1. addLocation(c, l) = d
    BY <1>2, Zenon DEF addLocation
  <2>2. DOMAIN c = DOMAIN ServerConfig
    BY Zenon DEF ServerOK
  <2>3. "locations" \in DOMAIN c /\ HostOK(c.host)
    BY <2>2, ServerFields, Zenon DEF ServerOK
  <2>4. /\ DOMAIN d = DOMAIN c /\ d.listen = c.listen /\ d.host = c.host
        /\ d.client_max_body_size = c.client_max_body_size /\ d.locations = Append(q, l)
    BY <2>3
  <2>5. LocationsOK(q)
    BY Zenon DEF ServerOK
  <2> HIDE DEF q
  <2>6. LocationsOK(Append(q, l))
    <3>1. IsSequence(q) /\ \A i \in 1..Len(q) : LocationOK(q[i])
      BY <2>5 DEF LocationsOK
    <3>2. /\ IsSequence(Append(q, l))
          /\ Len(q) \in Nat /\ Len(Append(q, l)) = Len(q) + 1
          /\ \A i \in 1..Len(q) : Append(q, l)[i] = q[i]
          /\ Append(q, l)[Len(q) + 1] = l
      BY <3>1, AppendLemma
    <3>3. ASSUME NEW i \in 1..Len(Append(q, l))
          PROVE  LocationOK(Append(q, l)[i])
      <4>1. i \in 1..Len(q) \/ i = Len(q) + 1
        BY <3>2
      <4> QED  BY <4>1, <3>1, <3>2, Zenon
    <3> QED  BY <3>2, <3>3, Zenon DEF LocationsOK
  <2> HIDE DEF d
  <2>7. ServerOK(d)
    BY <2>4, <2>6, Zenon DEF ServerOK
  <2> QED  BY <2>1, <2>7
<1> QED  BY <1>1, <1>2

\* A location that is being read, with nothing said in it yet.
LEMMA NewLocationLemma ==
  ASSUME NEW path, NEW size, NEW d \in setLocation(LocationConfig(path, size), path)
  PROVE  DOMAIN d = DOMAIN NoLocation /\ d.client_max_body_size = size
<1> DEFINE c == LocationConfig(path, size)
<1>1. DOMAIN c = DOMAIN NoLocation /\ c.client_max_body_size = size
      /\ "client_max_body_size" \in DOMAIN NoLocation
  BY LocationFields
<1>2. d = [c EXCEPT !.location = path]
  BY DEF setLocation, Accept
<1> HIDE DEF c
<1> QED  BY <1>1, <1>2
-----------------------------------------------------------------------------
(* Reading the file. *)

\* A line that is not accepted changes none of the configurations.
LEMMA ThrowLemma ==
  ASSUME ParserOK, UNCHANGED <<block, server, location, servers>>
  PROVE  ParserOK'
<1>1. block' = block /\ server' = server /\ location' = location /\ servers' = servers
  OBVIOUS
<1> QED  BY <1>1, Zenon DEF ParserOK

\* A line read outside any block, or the end of the file.
LEMMA parseFileStep ==
  ASSUME ParserOK, NEW line, parseFile(line)
  PROVE  ParserOK'
<1>1. CASE Throw
  BY <1>1, ThrowLemma DEF Throw
<1>2. CASE ~Throw
  <2>1. block' = "server" /\ server' = ServerConfig /\ location' = location /\ servers' = servers
    BY <1>2 DEF parseFile
  <2>2. ServerOK(server')
    BY <2>1, NewServerLemma
  <2> QED  BY <2>1, <2>2 DEF ParserOK
<1> QED  BY <1>1, <1>2

\* The end of a server block.
LEMMA CloseServerStep ==
  ASSUME ParserOK, NEW line, CloseServer(line)
  PROVE  ParserOK'
<1>1. block' = "file" /\ servers' = Append(servers, server)
      /\ server' = server /\ location' = location
  BY DEF CloseServer
<1>2. ServerOK(server) /\ IsSequence(servers) /\ \A i \in 1..Len(servers) : ServerOK(servers[i])
  BY DEF ParserOK, ServersOK
<1>3. /\ IsSequence(servers')
      /\ Len(servers) \in Nat /\ Len(servers') = Len(servers) + 1
      /\ \A i \in 1..Len(servers) : servers'[i] = servers[i]
      /\ servers'[Len(servers) + 1] = server
  BY <1>1, <1>2, AppendLemma
<1>4. ASSUME NEW i \in 1..Len(servers')
      PROVE  ServerOK(servers'[i])
  <2>1. i \in 1..Len(servers) \/ i = Len(servers) + 1
    BY <1>3
  <2> QED  BY <2>1, <1>2, <1>3, Zenon
<1>5. ServersOK(servers')
  BY <1>3, <1>4, Zenon DEF ServersOK
<1> QED  BY <1>1, <1>2, <1>5 DEF ParserOK

\* The start of a location.
LEMMA handleLocationStep ==
  ASSUME ParserOK, NEW line, handleLocation(line)
  PROVE  ParserOK'
<1> DEFINE tokens == split(clean[line], " ")
           opened == IF Len(tokens) # 3 THEN {}
                     ELSE setLocation(LocationConfig(tokens[2], server.client_max_body_size),
                                      tokens[2])
<1>1. CASE Throw
  BY <1>1, ThrowLemma DEF Throw
<1>2. CASE ~Throw
  <2>1. location' \in opened /\ block' = "location" /\ server' = server /\ servers' = servers
    BY <1>2 DEF handleLocation
  <2>2. location' \in setLocation(LocationConfig(tokens[2], server.client_max_body_size), tokens[2])
    BY <2>1
  <2> HIDE DEF tokens, opened
  <2>3. DOMAIN location' = DOMAIN NoLocation
        /\ location'.client_max_body_size = server.client_max_body_size
    BY <2>2, NewLocationLemma
  <2>4. server.client_max_body_size \in 1..MaxBody
    BY DEF ParserOK, ServerOK
  <2>5. location'.client_max_body_size \in 1..MaxBody
    BY <2>3, <2>4
  <2> QED  BY <2>1, <2>3, <2>5 DEF ParserOK
<1> QED  BY <1>1, <1>2

\* A directive of a server.
LEMMA ServerLineStep ==
  ASSUME ParserOK, NEW line, parseServerDirectiveLine(line)
  PROVE  ParserOK'
<1>1. CASE Throw
  BY <1>1, ThrowLemma DEF Throw
<1>2. CASE ~Throw
  <2>1. /\ server' \in IF tokensOf[line] = <<>> THEN {}
                       ELSE parseServerDirective(server, tokensOf[line])
        /\ block' = block /\ location' = location /\ servers' = servers
    BY <1>2 DEF parseServerDirectiveLine
  <2>2. server' \in parseServerDirective(server, tokensOf[line])
    BY <2>1
  <2>3. ServerOK(server)
    BY DEF ParserOK
  <2>4. ServerOK(server')
    BY <2>2, <2>3, ServerDirectiveLemma
  <2> QED  BY <2>1, <2>4 DEF ParserOK
<1> QED  BY <1>1, <1>2

\* The end of a location.
LEMMA CloseLocationStep ==
  ASSUME ParserOK, NEW line, CloseLocation(line)
  PROVE  ParserOK'
<1>1. CASE Throw
  BY <1>1, ThrowLemma DEF Throw
<1>2. CASE ~Throw
  <2>1. /\ block = "location" /\ checkCgi(location) /\ server' = addLocation(server, location)
        /\ block' = "server" /\ location' = location /\ servers' = servers
    BY <1>2 DEF CloseLocation
  <2>2. ServerOK(server) /\ LocationOK(location)
    BY <2>1 DEF ParserOK, LocationOK
  <2>3. ServerOK(server')
    BY <2>1, <2>2, AddLocationLemma
  <2> QED  BY <2>1, <2>3 DEF ParserOK
<1> QED  BY <1>1, <1>2

\* A directive of a location.
LEMMA LocationLineStep ==
  ASSUME ParserOK, NEW line, parseLocationDirectiveLine(line)
  PROVE  ParserOK'
<1>1. CASE Throw
  BY <1>1, ThrowLemma DEF Throw
<1>2. CASE ~Throw
  <2>1. /\ block = "location"
        /\ location' \in IF tokensOf[line] = <<>> THEN {}
                         ELSE parseLocationDirective(location, tokensOf[line])
        /\ block' = block /\ server' = server /\ servers' = servers
    BY <1>2 DEF parseLocationDirectiveLine
  <2>2. location' \in parseLocationDirective(location, tokensOf[line])
    BY <2>1
  <2>3. DOMAIN location = DOMAIN NoLocation /\ location.client_max_body_size \in 1..MaxBody
    BY <2>1 DEF ParserOK
  <2>4. DOMAIN location' = DOMAIN NoLocation /\ location'.client_max_body_size \in 1..MaxBody
    BY <2>2, <2>3, LocationDirectiveLemma
  <2> QED  BY <2>1, <2>4 DEF ParserOK
<1> QED  BY <1>1, <1>2

\* Whatever line is read, the configurations stay in order.
LEMMA ParseStep ==
  ASSUME ParserOK, Parse
  PROVE  ParserOK' /\ pc = "parsing" /\ pc' \in {"parsing", "parsed", "caught"}
<1>1. pc = "parsing"
  BY DEF Parse
<1>2. CASE EndOfFile
  <2>1. UNCHANGED <<block, server, location, servers>> /\ pc' \in {"parsed", "caught"}
    BY <1>2 DEF EndOfFile, Throw
  <2> QED  BY <1>1, <2>1, ThrowLemma
<1>3. ASSUME NEW line \in Lines, BlankLine(line)
      PROVE  ParserOK' /\ pc' \in {"parsing", "parsed", "caught"}
  BY <1>1, <1>3, ThrowLemma DEF BlankLine
<1>4. ASSUME NEW line \in Lines,
             \/ parseFile(line) \/ CloseServer(line) \/ handleLocation(line)
             \/ parseServerDirectiveLine(line) \/ CloseLocation(line)
             \/ parseLocationDirectiveLine(line)
      PROVE  ParserOK' /\ pc' \in {"parsing", "parsed", "caught"}
  <2>1. ParserOK'
    BY <1>4, parseFileStep, CloseServerStep, handleLocationStep, ServerLineStep,
       CloseLocationStep, LocationLineStep
  <2>2. pc' = pc \/ pc' = "caught"
    BY <1>4 DEF parseFile, CloseServer, handleLocation, parseServerDirectiveLine,
                CloseLocation, parseLocationDirectiveLine, Throw
  <2> QED  BY <1>1, <2>1, <2>2
<1> QED  BY <1>1, <1>2, <1>3, <1>4 DEF Parse
-----------------------------------------------------------------------------
(* Opening the sockets. *)

\* All but the last element of a sequence.
LEMMA FrontLemma ==
  ASSUME NEW S, NEW q \in Seq(S), Len(q) # 0
  PROVE  /\ Front(q) \in Seq(S) /\ Len(Front(q)) = Len(q) - 1
         /\ \A i \in 1..Len(Front(q)) : i \in 1..Len(q) /\ i < Len(q) /\ Front(q)[i] = q[i]
<1>1. Len(q) \in Nat /\ Front(q) = SubSeq(q, 1, Len(q) - 1)
  BY DEF Front
<1>2. /\ SubSeq(q, 1, Len(q) - 1) \in Seq(S) /\ Len(SubSeq(q, 1, Len(q) - 1)) = Len(q) - 1
      /\ \A i \in 1..(Len(q) - 1) : SubSeq(q, 1, Len(q) - 1)[i] = q[i]
  <2> DEFINE n == Len(q) - 1
  <2>1. n \in Int /\ n >= 0 /\ \A i \in 1..n : q[i] \in S
    BY <1>1
  <2> HIDE DEF n
  <2>2. /\ SubSeq(q, 1, n) \in Seq(S)
        /\ Len(SubSeq(q, 1, n)) = IF 1 <= n THEN n - 1 + 1 ELSE 0
        /\ \A i \in 1..(n - 1 + 1) : SubSeq(q, 1, n)[i] = q[1 + i - 1]
    BY <2>1, SubSeqProperties
  <2>3. Len(SubSeq(q, 1, n)) = n /\ n - 1 + 1 = n /\ \A i \in 1..n : 1 + i - 1 = i
    BY <2>1, <2>2
  <2>4. \A i \in 1..n : SubSeq(q, 1, n)[i] = q[i]
    BY <2>2, <2>3
  <2> QED  BY <2>2, <2>3, <2>4 DEF n
<1> QED  BY <1>1, <1>2

\* What a step that leaves the configurations alone leaves of ParserOK.
LEMMA ParserKept ==
  ASSUME ParserOK, UNCHANGED parserVars
  PROVE  ParserOK'
BY ThrowLemma DEF parserVars

\* The servers are a sequence, each in order.
LEMMA ServersLemma ==
  ASSUME ParserOK
  PROVE  Len(servers) \in Nat /\ DOMAIN servers = 1..Len(servers)
         /\ \A i \in 1..Len(servers) : ServerOK(servers[i])
<1>1. IsSequence(servers) /\ \A i \in 1..Len(servers) : ServerOK(servers[i])
  BY DEF ParserOK, ServersOK
<1> QED  BY <1>1, ToSetLemma

\* A system call that fails while the last socket is being made.
LEMMA FailStep ==
  ASSUME IInv, pc \in {"bind", "listen"}, sockets' = closeFailed, pc' = "caught",
         UNCHANGED <<parserVars, taken>>
  PROVE  IInv'
<1>1. /\ sockets \in Seq(SocketState) /\ Len(sockets) # 0 /\ Len(sockets) <= Len(servers)
      /\ taken \subseteq Ports
      /\ \A k \in 1..Len(sockets) :
           /\ k < Len(sockets) => sockets[k].state = "listening"
           /\ k < Len(sockets) => PlacedAs(sockets[k], servers[k])
           /\ sockets[k].port \notin taken
  BY DEF IInv, SocketsOK
<1>2. /\ sockets' \in Seq(SocketState) /\ Len(sockets') = Len(sockets) - 1
      /\ \A k \in 1..Len(sockets') : k \in 1..Len(sockets) /\ k < Len(sockets) /\ sockets'[k] = sockets[k]
  BY <1>1, FrontLemma DEF closeFailed
<1>3. servers' = servers /\ taken' = taken
  BY DEF parserVars
<1>4. ParserOK' /\ Len(servers) \in Nat /\ Len(sockets) \in Nat
  BY <1>1, ParserKept, ServersLemma DEF IInv
<1>5. \A k \in 1..Len(sockets') : /\ sockets'[k].state = "listening"
                                  /\ PlacedAs(sockets'[k], servers'[k])
                                  /\ sockets'[k].port \notin taken'
  BY <1>1, <1>2, <1>3, Zenon
<1>6. Len(sockets') <= Len(servers')
  BY <1>1, <1>2, <1>3, <1>4
<1>7. \A k \in 1..Len(sockets') : PlacedAs(sockets[k], servers[k])'
  BY <1>5 DEF PlacedAs
<1> QED  BY <1>1, <1>2, <1>3, <1>4, <1>5, <1>6, <1>7 DEF IInv, SocketsOK

\* A step of WebServer that neither opens nor closes a socket.
LEMMA checkServersStep ==
  ASSUME IInv, checkServers
  PROVE  IInv'
<1>1. /\ pc = "parsed" /\ pc' \in {"socket", "caught"} /\ servers' = servers /\ taken' = taken
      /\ sockets' = sockets
      /\ pc' = "socket" => servers # <<>> /\ uniquePorts
  BY DEF checkServers, parserVars
<1>2. ParserOK'
  BY ParserKept DEF IInv, checkServers
<1>3. sockets = <<>> /\ Len(sockets) <= Len(servers) /\ taken \subseteq Ports /\ sockets \in Seq(SocketState)
  BY <1>1 DEF IInv, SocketsOK
<1>4. Len(sockets') = 0
  BY <1>1, <1>3
<1>5. pc' = "socket" => uniquePorts'
  BY <1>1 DEF uniquePorts
<1> QED  BY <1>1, <1>2, <1>3, <1>4, <1>5 DEF IInv, SocketsOK

\* Reading, and the file that cannot be opened.
LEMMA ReadStep ==
  ASSUME IInv, ReadConfig \/ NoFile
  PROVE  IInv'
<1>1. ParserOK' /\ pc = "parsing" /\ pc' \in {"parsing", "parsed", "caught", "exited"}
      /\ sockets' = sockets /\ taken' = taken
  <2>1. CASE ReadConfig
    BY <2>1, ParseStep DEF ReadConfig, IInv
  <2>2. CASE NoFile
    BY <2>2, ParserKept DEF NoFile, IInv
  <2> QED  BY <2>1, <2>2
<1>2. sockets = <<>> /\ taken \subseteq Ports /\ sockets \in Seq(SocketState)
  BY <1>1 DEF IInv, SocketsOK
<1>3. Len(servers') \in Nat
  <2>1. IsSequence(servers')
    BY <1>1 DEF ParserOK, ServersOK
  <2> QED  BY <2>1, ToSetLemma
<1>4. Len(sockets') = 0 /\ Len(sockets') <= Len(servers')
  BY <1>1, <1>2, <1>3
<1> QED  BY <1>1, <1>2, <1>4 DEF IInv, SocketsOK

\* initSocketFd: a new socket, a failure, or all sockets are open.
LEMMA OpenSocketStep ==
  ASSUME IInv, OpenSocket
  PROVE  IInv'
<1>1. /\ pc = "socket" /\ servers' = servers /\ taken' = taken
  BY DEF OpenSocket, parserVars
<1>2. ParserOK' /\ Len(servers) \in Nat
  BY ParserKept, ServersLemma DEF IInv, OpenSocket
<1>3. /\ sockets \in Seq(SocketState) /\ Len(sockets) \in Nat /\ Len(sockets) <= Len(servers)
      /\ taken \subseteq Ports /\ servers # <<>> /\ uniquePorts
      /\ \A k \in 1..Len(sockets) :
           /\ sockets[k].state = "listening" /\ PlacedAs(sockets[k], servers[k])
           /\ sockets[k].port \notin taken
  BY <1>1 DEF IInv, SocketsOK
<1>4. uniquePorts' /\ servers' # <<>> /\ taken' \subseteq Ports
  BY <1>1, <1>3 DEF uniquePorts
<1>5. CASE Len(sockets) < Len(servers) /\ sockets' = Append(sockets, NewSocket) /\ pc' = "bind"
  <2>1. NewSocket \in SocketState /\ NewSocket.port = 0
    BY PortLemma DEF NewSocket, SocketState
  <2>2. /\ sockets' \in Seq(SocketState) /\ Len(sockets') = Len(sockets) + 1
        /\ \A k \in 1..Len(sockets) : sockets'[k] = sockets[k]
        /\ sockets'[Len(sockets')] = NewSocket
    BY <1>3, <1>5, <2>1
  <2>3. 0 \notin taken
    BY <1>3, StartupAssumption, PortLemma
  <2>4. ASSUME NEW k \in 1..Len(sockets')
        PROVE  /\ k < Len(sockets') => /\ sockets'[k].state = "listening"
                                       /\ PlacedAs(sockets[k], servers[k])'
                                       /\ sockets'[k].port \notin taken'
               /\ k = Len(sockets') => sockets'[k].port = 0 /\ sockets'[k].port \notin taken'
    <3>1. ASSUME k < Len(sockets')
          PROVE  /\ k \in 1..Len(sockets) /\ sockets'[k] = sockets[k]
      BY <1>3, <2>2, <3>1
    <3>2. ASSUME k < Len(sockets')
          PROVE  /\ sockets'[k].state = "listening" /\ PlacedAs(sockets[k], servers[k])'
                 /\ sockets'[k].port \notin taken'
      BY <1>1, <1>3, <3>1, <3>2, Zenon DEF PlacedAs
    <3>3. ASSUME k = Len(sockets')
          PROVE  sockets'[k].port = 0 /\ sockets'[k].port \notin taken'
      BY <1>1, <2>1, <2>2, <2>3, <3>3, Zenon
    <3> QED  BY <3>2, <3>3
  <2>5. Len(sockets') <= Len(servers') /\ Len(sockets') # 0 /\ Len(sockets') \in Nat
    BY <1>1, <1>2, <1>3, <1>5, <2>2
  <2>6. \A k \in 1..Len(sockets') : k < Len(sockets') \/ k = Len(sockets')
    BY <2>5
  <2> QED  BY <1>2, <1>4, <1>5, <2>2, <2>4, <2>5, <2>6 DEF IInv, SocketsOK
<1>6. CASE /\ sockets' = sockets
           /\ pc' = "caught" \/ (pc' = "running" /\ Len(sockets) = Len(servers))
  <2>1. \A k \in 1..Len(sockets') : PlacedAs(sockets[k], servers[k])'
    BY <1>1, <1>3, <1>6 DEF PlacedAs
  <2> QED  BY <1>1, <1>2, <1>3, <1>4, <1>6, <2>1 DEF IInv, SocketsOK
<1>7. \/ Len(sockets) < Len(servers) /\ sockets' = Append(sockets, NewSocket) /\ pc' = "bind"
      \/ /\ sockets' = sockets
         /\ pc' = "caught" \/ (pc' = "running" /\ Len(sockets) = Len(servers))
  BY Zenon DEF OpenSocket, current
<1> QED  BY <1>5, <1>6, <1>7, Zenon

\* The last socket is bound, as its server is configured.
LEMMA BindStep ==
  ASSUME IInv, Bind
  PROVE  IInv'
<1>1. CASE sockets' = closeFailed /\ pc' = "caught"
  BY <1>1, FailStep DEF Bind
<1>2. CASE ~(sockets' = closeFailed /\ pc' = "caught")
  <2> DEFINE n == Len(sockets)
             s == servers[n]
             bound == [state |-> "bound", address |-> inet_addr(s.host), port |-> s.listen]
  <2>1. /\ pc = "bind" /\ pc' = "listen" /\ bindable /\ sockets' = [sockets EXCEPT ![n] = bound]
        /\ servers' = servers /\ taken' = taken
    BY <1>2 DEF Bind, parserVars, current, Cfg
  <2>2. ParserOK'
    BY ParserKept DEF IInv, Bind
  <2>3. /\ sockets \in Seq(SocketState) /\ n \in Nat /\ n # 0 /\ n <= Len(servers)
        /\ taken \subseteq Ports /\ servers # <<>> /\ uniquePorts
        /\ \A k \in 1..n :
             /\ k < n => sockets[k].state = "listening" /\ PlacedAs(sockets[k], servers[k])
             /\ sockets[k].port \notin taken
    BY <2>1 DEF IInv, SocketsOK
  <2>4. n \in 1..n /\ n \in 1..Len(servers)
    BY <2>3, ServersLemma DEF IInv
  <2>5. s.listen \in 1..MaxPort
    BY <2>4, ServersLemma, Zenon DEF IInv, ServerOK
  <2>6. inet_addr(s.host) \in LocalHosts \cup {Broadcast} /\ s.listen \notin taken
    BY <2>1, Zenon DEF bindable, Cfg, current
  <2>7. PlacedAs(bound, s)
    <3>1. bound.address = inet_addr(s.host) /\ bound.port = s.listen
      BY Zenon
    <3> HIDE DEF bound, s
    <3> QED  BY <3>1, Zenon DEF PlacedAs
  <2>8. bound \in SocketState /\ bound.port = s.listen
    <3>1. s.listen \in 0..MaxPort
      BY <2>5, PortLemma
    <3> HIDE DEF s
    <3> QED  BY <3>1, <2>6 DEF SocketState
  <2> HIDE DEF bound, n, s
  <2>9. /\ sockets' \in Seq(SocketState) /\ Len(sockets') = n
        /\ \A k \in 1..n : k # n => sockets'[k] = sockets[k]
        /\ sockets'[n] = bound
    <3>1. /\ Len(sockets) = n /\ sockets' = [sockets EXCEPT ![n] = bound]
      BY <2>1 DEF n
    <3> QED  BY <3>1, <2>3, <2>4, <2>8
  <2>10. ASSUME NEW k \in 1..n
         PROVE  /\ k < n => sockets'[k].state = "listening"
                /\ PlacedAs(sockets[k], servers[k])'
                /\ sockets'[k].port \notin taken'
    <3>1. CASE k = n
      <4>1. sockets'[k] = bound /\ s = servers'[k]
        BY <3>1, <2>1, <2>9 DEF s
      <4>2. ~(k < n)
        BY <3>1, <2>3
      <4> QED  BY <4>1, <4>2, <2>1, <2>6, <2>7, <2>8, Zenon DEF PlacedAs
    <3>2. CASE k # n
      <4>1. sockets'[k] = sockets[k] /\ k < n
        BY <3>2, <2>3, <2>9
      <4>2. sockets[k].state = "listening" /\ PlacedAs(sockets[k], servers[k]) /\ sockets[k].port \notin taken
        BY <4>1, <2>3
      <4>3. servers'[k] = servers[k] /\ taken' = taken
        BY <2>1, Zenon
      <4> QED  BY <4>1, <4>2, <4>3 DEF PlacedAs
    <3> QED  BY <3>1, <3>2
  <2>11. uniquePorts' /\ servers' # <<>> /\ taken' \subseteq Ports /\ n <= Len(servers')
    BY <2>1, <2>3 DEF uniquePorts
  <2> QED  BY <2>1, <2>2, <2>3, <2>9, <2>10, <2>11 DEF IInv, SocketsOK
<1> QED  BY <1>1, <1>2

\* The last socket listens.
LEMMA ListenStep ==
  ASSUME IInv, Listen
  PROVE  IInv'
<1>1. CASE sockets' = closeFailed /\ pc' = "caught"
  BY <1>1, FailStep DEF Listen
<1>2. CASE ~(sockets' = closeFailed /\ pc' = "caught")
  <2> DEFINE n == Len(sockets)
             k0 == [sockets[n] EXCEPT !.state = "listening"]
  <2>1. /\ pc = "listen" /\ pc' = "socket" /\ sockets' = [sockets EXCEPT ![n].state = "listening"]
        /\ servers' = servers /\ taken' = taken
    BY <1>2 DEF Listen, parserVars, current
  <2>2. ParserOK'
    BY ParserKept DEF IInv, Listen
  <2>3. /\ sockets \in Seq(SocketState) /\ n \in Nat /\ n # 0 /\ n <= Len(servers)
        /\ taken \subseteq Ports /\ servers # <<>> /\ uniquePorts
        /\ \A k \in 1..n :
             /\ k < n => sockets[k].state = "listening"
             /\ PlacedAs(sockets[k], servers[k]) /\ sockets[k].port \notin taken
    BY <2>1 DEF IInv, SocketsOK
  <2>4. n \in 1..n /\ sockets[n] \in SocketState
    BY <2>3
  <2>5. /\ k0 \in SocketState /\ k0.state = "listening"
        /\ k0.port = sockets[n].port /\ k0.address = sockets[n].address
    BY <2>4 DEF SocketState
  <2>6. sockets' = [sockets EXCEPT ![n] = k0]
    BY <2>1
  <2> HIDE DEF k0, n
  <2>7. /\ sockets' \in Seq(SocketState) /\ Len(sockets') = n
        /\ \A k \in 1..n : k # n => sockets'[k] = sockets[k]
        /\ sockets'[n] = k0
    <3>1. Len(sockets) = n
      BY DEF n
    <3> QED  BY <3>1, <2>3, <2>4, <2>5, <2>6
  <2>8. ASSUME NEW k \in 1..n
        PROVE  /\ sockets'[k].state = "listening"
               /\ PlacedAs(sockets[k], servers[k])' /\ sockets'[k].port \notin taken'
    <3>1. CASE k = n
      <4>1. sockets'[k] = k0 /\ servers'[k] = servers[k] /\ taken' = taken
        BY <3>1, <2>1, <2>7, Zenon
      <4>2. PlacedAs(sockets[k], servers[k]) /\ sockets[k].port \notin taken
        BY <2>3
      <4>3. k0.port = sockets[k].port /\ k0.address = sockets[k].address /\ k0.state = "listening"
        BY <3>1, <2>5
      <4> QED  BY <4>1, <4>2, <4>3 DEF PlacedAs
    <3>2. CASE k # n
      <4>1. sockets'[k] = sockets[k] /\ k < n
        BY <3>2, <2>3, <2>7
      <4>2. sockets[k].state = "listening" /\ PlacedAs(sockets[k], servers[k]) /\ sockets[k].port \notin taken
        BY <4>1, <2>3
      <4>3. servers'[k] = servers[k] /\ taken' = taken
        BY <2>1, Zenon
      <4> QED  BY <4>1, <4>2, <4>3 DEF PlacedAs
    <3> QED  BY <3>1, <3>2
  <2>9. uniquePorts' /\ servers' # <<>> /\ taken' \subseteq Ports /\ n <= Len(servers')
    BY <2>1, <2>3 DEF uniquePorts
  <2> QED  BY <2>1, <2>2, <2>3, <2>7, <2>8, <2>9 DEF IInv, SocketsOK
<1> QED  BY <1>1, <1>2

\* main's catch.
LEMMA ExitStep ==
  ASSUME IInv, Exit
  PROVE  IInv'
<1>1. pc' = "exited" /\ sockets' = <<>> /\ servers' = servers /\ taken' = taken
  BY DEF Exit, parserVars
<1>2. ParserOK' /\ Len(servers) \in Nat /\ taken \subseteq Ports
  BY ParserKept, ServersLemma DEF IInv, SocketsOK, Exit
<1>3. sockets' \in Seq(SocketState) /\ Len(sockets') = 0 /\ Len(sockets') <= Len(servers')
  BY <1>1, <1>2
<1> QED  BY <1>1, <1>2, <1>3 DEF IInv, SocketsOK

\* Another program takes a port that is not ours, or frees one.
LEMMA OtherProgramStep ==
  ASSUME IInv, OtherProgram
  PROVE  IInv'
<1>1. pc' = pc /\ sockets' = sockets /\ servers' = servers
  BY DEF OtherProgram, parserVars
<1>2. ParserOK'
  BY ParserKept DEF IInv, OtherProgram
<1>3. Len(sockets) \in Nat /\ DOMAIN sockets = 1..Len(sockets)
  BY DEF IInv, SocketsOK
<1>4. PICK p \in Ports : \/ taken' = taken \ {p}
                         \/ /\ taken' = taken \cup {p}
                            /\ \A i \in 1..Len(sockets) : sockets[i].port # p
  BY <1>3 DEF OtherProgram
<1>5. /\ taken' \subseteq Ports
      /\ \A k \in 1..Len(sockets') : sockets'[k].port \notin taken'
  BY <1>1, <1>4 DEF IInv, SocketsOK
<1>6. /\ uniquePorts' <=> uniquePorts
      /\ \A k : PlacedAs(sockets[k], servers[k])' <=> PlacedAs(sockets[k], servers[k])
  BY <1>1 DEF uniquePorts, PlacedAs
<1> QED  BY <1>1, <1>2, <1>5, <1>6 DEF IInv, SocketsOK
-----------------------------------------------------------------------------
(* The theorems. *)

\* The invariant holds at the start.
LEMMA InitLemma == StartInit => IInv
<1> SUFFICES ASSUME StartInit  PROVE IInv
  OBVIOUS
<1>1. /\ pc = "parsing" /\ block = "file" /\ server = ServerConfig
      /\ location = NoLocation /\ servers = <<>> /\ sockets = <<>> /\ taken = {}
  BY DEF StartInit, Init
<1>2. <<>> \in Seq(ToSet(<<>>)) /\ <<>> \in Seq(SocketState) /\ Len(<<>>) = 0
  OBVIOUS
<1>3. ServersOK(<<>>)
  BY <1>2 DEF ServersOK, IsSequence
<1>4. ParserOK
  BY <1>1, <1>3, NewServerLemma, Zenon DEF ParserOK
<1> QED  BY <1>1, <1>2, <1>4 DEF IInv, SocketsOK

\* Every step keeps the invariant.
LEMMA StepLemma == IInv /\ [Next]_vars => IInv'
<1> SUFFICES ASSUME IInv, [Next]_vars  PROVE IInv'
  OBVIOUS
<1>1. CASE UNCHANGED vars
  <2>1. /\ pc' = pc /\ block' = block /\ server' = server /\ location' = location
        /\ servers' = servers /\ sockets' = sockets /\ taken' = taken
    BY <1>1 DEF vars
  <2>2. ParserOK'
    BY <2>1, ThrowLemma DEF IInv
  <2>3. /\ uniquePorts' <=> uniquePorts
        /\ \A k : PlacedAs(sockets[k], servers[k])' <=> PlacedAs(sockets[k], servers[k])
    BY <2>1 DEF uniquePorts, PlacedAs
  <2> QED  BY <2>1, <2>2, <2>3 DEF IInv, SocketsOK
<1>2. CASE ReadConfig \/ NoFile
  BY <1>2, ReadStep
<1>3. CASE checkServers
  BY <1>3, checkServersStep
<1>4. CASE OpenSocket
  BY <1>4, OpenSocketStep
<1>5. CASE Bind
  BY <1>5, BindStep
<1>6. CASE Listen
  BY <1>6, ListenStep
<1>7. CASE Exit
  BY <1>7, ExitStep
<1>8. CASE OtherProgram
  BY <1>8, OtherProgramStep
<1> QED  BY <1>1, <1>2, <1>3, <1>4, <1>5, <1>6, <1>7, <1>8 DEF Next

\* The inductive invariant, in every state.
LEMMA Invariance == Spec => []IInv
<1> QED  BY InitLemma, StepLemma, PTL DEF Spec

\* The servers that are read and the one being read, in order.
LEMMA AllServersOK ==
  ASSUME IInv, NEW s \in ToSet(servers) \cup {server}
  PROVE  ServerOK(s)
<1>1. CASE s = server
  BY <1>1 DEF IInv, ParserOK
<1>2. CASE s \in ToSet(servers)
  <2>1. IsSequence(servers) /\ \A i \in 1..Len(servers) : ServerOK(servers[i])
    BY DEF IInv, ParserOK, ServersOK
  <2>2. PICK i \in 1..Len(servers) : s = servers[i]
    BY <1>2, <2>1, ToSetLemma
  <2> QED  BY <2>1, <2>2
<1> QED  BY <1>1, <1>2

\* Their locations.
LEMMA AllLocationsOK ==
  ASSUME IInv, NEW s \in ToSet(servers) \cup {server}, NEW l \in ToSet(s.locations)
  PROVE  LocationOK(l)
<1>1. IsSequence(s.locations) /\ \A i \in 1..Len(s.locations) : LocationOK(s.locations[i])
  BY AllServersOK, Zenon DEF ServerOK, LocationsOK
<1>2. PICK i \in 1..Len(s.locations) : l = s.locations[i]
  BY <1>1, ToSetLemma, Zenon
<1> QED  BY <1>1, <1>2, Zenon

\* Whatever the file says and whichever system calls fail, the program's
\* state is of its kind; in particular every port and every body size of an
\* accepted configuration is in the range its setter allows.
THEOREM TypeCorrectness == Spec => []TypeOK
<1>1. IInv => TypeOK
  <2> SUFFICES ASSUME IInv  PROVE TypeOK
    OBVIOUS
  <2>1. /\ pc \in {"parsing", "parsed", "caught", "socket", "bind", "listen", "running", "exited"}
        /\ block \in {"file", "server", "location"} /\ DOMAIN location = DOMAIN NoLocation
        /\ sockets \in Seq(SocketState) /\ Len(sockets) <= Len(servers) /\ taken \subseteq Ports
    BY DEF IInv, ParserOK, SocketsOK
  <2>2. ASSUME NEW s \in ToSet(servers) \cup {server}
        PROVE  /\ s.listen \in 1..MaxPort
               /\ \A l \in ToSet(s.locations) : l.client_max_body_size \in 1..MaxBody
               /\ DOMAIN s = DOMAIN ServerConfig
    <3>1. s.listen \in 1..MaxPort /\ DOMAIN s = DOMAIN ServerConfig
      BY AllServersOK, Zenon DEF ServerOK
    <3>2. ASSUME NEW l \in ToSet(s.locations)  PROVE l.client_max_body_size \in 1..MaxBody
      BY AllLocationsOK, Zenon DEF LocationOK
    <3> QED  BY <3>1, <3>2
  <2> QED  BY <2>1, <2>2, Zenon DEF TypeOK
<1> QED  BY <1>1, Invariance, PTL

\* Where inet_addr puts a host.
ReadAs(host, address) ==
  address = IF host = <<>> \/ Last(host) = "." THEN Broadcast ELSE HostSays(host)

\* With no octet behind a zero, inet_addr and setHost read the same.
LEMMA AddressIsSaid ==
  ASSUME NEW host, HostOK(host), NoLeadingZero(host)
  PROVE  ReadAs(host, inet_addr(host))
<1>1. CASE host = <<>> \/ Last(host) = "."
  BY <1>1, Zenon DEF inet_addr, ReadAs
<1>2. CASE host # <<>> /\ Last(host) # "."
  <2>1. isHost(host)
    BY <1>2, Zenon DEF HostOK
  <2>2. PICK q : q = getlines(host, ".")
    OBVIOUS
  <2>3. \A i \in DOMAIN q : IntOf[q[i][1]] \in 0..255
    BY <2>1, <2>2, Zenon DEF isHost
  <2>4. \A i \in DOMAIN q : q[i][1] \notin DOMAIN Octal
    <3>1. \A i \in DOMAIN q : q[i] \in ToSet(q)
      BY Zenon DEF ToSet
    <3> QED  BY <2>2, <3>1, Zenon DEF NoLeadingZero
  <2>5. PICK o : o = octets(host)
    OBVIOUS
  <2>6. o = [i \in DOMAIN q |-> IF q[i][1] \in DOMAIN Octal THEN Octal[q[i][1]] ELSE IntOf[q[i][1]]]
    BY <2>2, <2>5, Zenon DEF octets
  <2>7. o = [i \in DOMAIN q |-> IntOf[q[i][1]]]
    BY ONLY <2>4, <2>6
  <2>8. HostSays(host) = [i \in DOMAIN q |-> IntOf[q[i][1]]]
    BY <2>2, Zenon DEF HostSays
  <2>9. ToSet(o) \subseteq 0..255
    BY ONLY <2>3, <2>7 DEF ToSet
  <2> QED  BY <1>2, <2>5, <2>7, <2>8, <2>9, Zenon DEF inet_addr, ReadAs
<1> QED  BY <1>1, <1>2, Zenon

\* For any number of servers: when the event loop starts, every server listens
\* on the port of its configuration, each on one of its own, and at the address
\* its host says unless an octet has a zero before it; without a host, or with a
\* dot behind it, at INADDR_NONE.
THEOREM Listening == Spec => []ListensAsConfigured
<1>1. IInv => ListensAsConfigured
  <2> SUFFICES ASSUME IInv, pc = "running"  PROVE ListensAsConfigured
    BY Zenon DEF ListensAsConfigured
  <2>1. /\ servers # <<>> /\ uniquePorts /\ Len(sockets) = Len(servers)
        /\ \A k \in 1..Len(sockets) : sockets[k].state = "listening" /\ PlacedAs(sockets[k], servers[k])
    BY DEF IInv, SocketsOK
  <2>2. DOMAIN servers = 1..Len(sockets)
    BY <2>1, ServersLemma DEF IInv
  <2>3. \A k \in DOMAIN servers :
          /\ sockets[k].state = "listening" /\ sockets[k].port = servers[k].listen
          /\ sockets[k].address = inet_addr(servers[k].host) /\ HostOK(servers[k].host)
    BY <2>1, <2>2, ServersLemma, Zenon DEF PlacedAs, IInv, ServerOK
  <2>5. \A k \in DOMAIN servers :
          NoLeadingZero(servers[k].host) =>
            sockets[k].address = IF servers[k].host = <<>> \/ Last(servers[k].host) = "."
                                 THEN Broadcast ELSE HostSays(servers[k].host)
    BY <2>3, AddressIsSaid, Zenon DEF ReadAs
  <2>4. ASSUME NEW j \in DOMAIN servers, NEW k \in DOMAIN servers, j # k
        PROVE  sockets[j].port # sockets[k].port
    <3>1. servers[j].listen # servers[k].listen
      BY <2>1, <2>4, Zenon DEF uniquePorts
    <3> QED  BY <2>3, <3>1, Zenon
  <2> QED  BY <2>1, <2>3, <2>4, <2>5, Zenon DEF ListensAsConfigured
<1> QED  BY <1>1, Invariance, PTL

\* For any number of servers, and whenever socket, bind or listen fails: the
\* sockets that stay open are finished ones, and none has a port that another
\* program listens on.
THEOREM CleanFailure == Spec => []NoHalfOpenSocket
<1>1. IInv => NoHalfOpenSocket
  <2> SUFFICES ASSUME IInv  PROVE NoHalfOpenSocket
    OBVIOUS
  <2>1. DOMAIN sockets = 1..Len(sockets)
    BY DEF IInv, SocketsOK
  <2>2. ASSUME NEW k \in 1..Len(sockets)
        PROVE  /\ pc \notin {"bind", "listen"} => sockets[k].state = "listening"
               /\ sockets[k].port \notin taken
    BY DEF IInv, SocketsOK
  <2> QED  BY <2>1, <2>2 DEF NoHalfOpenSocket
<1> QED  BY <1>1, Invariance, PTL
-----------------------------------------------------------------------------
(* Lines and blocks. *)

\* u is t and one more line, w.
OneMore(t, u, w) ==
  \E n \in Nat :
    /\ Len(t) = n /\ DOMAIN t = 1..n /\ Len(u) = n + 1 /\ DOMAIN u = 1..(n + 1)
    /\ u[n + 1] = w /\ \A k \in 1..n : u[k] = t[k]
    /\ \A k \in 0..n : UpTo(u, k) = UpTo(t, k)
    /\ UpTo(t, n) = t /\ UpTo(u, n + 1) = u

\* Appending a line gives one line more.
LEMMA OneMoreIs ==
  ASSUME NEW S, NEW t \in Seq(S), NEW w \in S
  PROVE  OneMore(t, Append(t, w), w)
<1>1. PICK n \in Nat : n = Len(t) /\ DOMAIN t = 1..n
  OBVIOUS
<1>2. PICK u : u = Append(t, w)
  OBVIOUS
<1>3. u \in Seq(S) /\ Len(u) = n + 1 /\ DOMAIN u = 1..(n + 1) /\ u[n + 1] = w
      /\ \A k \in 1..n : u[k] = t[k]
  BY <1>1, <1>2
<1>4. ASSUME NEW k \in 0..n
      PROVE  SubSeq(u, 1, k) = SubSeq(t, 1, k)
  <2>1. k \in Nat /\ k <= n /\ \A m \in 1..k : u[m] = t[m]
    BY <1>3
  <2> QED  BY <1>1, <1>3, <2>1
<1>5. SubSeq(t, 1, n) = t /\ SubSeq(u, 1, n + 1) = u
  BY <1>1, <1>3, SubSeqFull
<1> QED  BY <1>1, <1>2, <1>3, <1>4, <1>5, Zenon DEF OneMore, UpTo

\* Counting one number further.
LEMMA CountOne ==
  ASSUME NEW G, NEW i \in Nat
  PROVE  /\ Cardinality((1..i) \cap G) \in Nat
         /\ Cardinality((1..(i + 1)) \cap G) =
              Cardinality((1..i) \cap G) + (IF i + 1 \in G THEN 1 ELSE 0)
<1> DEFINE A == (1..i) \cap G
<1>1. IsFiniteSet(1..i)
  BY FS_Interval
<1>2. IsFiniteSet(A) /\ Cardinality(A) \in Nat
  <2>1. A \in SUBSET (1..i)
    OBVIOUS
  <2>2. IsFiniteSet(A)
    BY <1>1, <2>1, FS_Subset
  <2> QED  BY <2>2, FS_CardinalityType
<1>3. i + 1 \notin A
  OBVIOUS
<1>4. (1..(i + 1)) \cap G = IF i + 1 \in G THEN A \cup {i + 1} ELSE A
  OBVIOUS
<1> HIDE DEF A
<1>5. Cardinality(A \cup {i + 1}) = Cardinality(A) + 1
  BY <1>2, <1>3, FS_AddElement
<1> QED  BY <1>2, <1>4, <1>5 DEF A

OneIf(p) == IF p THEN 1 ELSE 0

\* A line changes the depth by what it opens and ends.
LEMMA DepthStep ==
  ASSUME NEW t, NEW i \in Nat
  PROVE  /\ Depth(t, i) \in Int
         /\ Depth(t, i + 1) = Depth(t, i) + OneIf(Opens(t[i + 1]))
                                - OneIf(t[i + 1] = BlockEnd)
<1> DEFINE G == {j \in Nat : Opens(t[j])}
           H == {j \in Nat : t[j] = BlockEnd}
<1>1. \A n \in Nat : /\ {j \in 1..n : Opens(t[j])} = (1..n) \cap G
                     /\ {j \in 1..n : t[j] = BlockEnd} = (1..n) \cap H
  OBVIOUS
<1>2. \A n \in Nat : Depth(t, n) = Cardinality((1..n) \cap G) - Cardinality((1..n) \cap H)
  BY <1>1, Zenon DEF Depth
<1>3. i + 1 \in Nat /\ (i + 1 \in G <=> Opens(t[i + 1])) /\ (i + 1 \in H <=> t[i + 1] = BlockEnd)
  OBVIOUS
<1> HIDE DEF G, H
<1>4. /\ Cardinality((1..i) \cap G) \in Nat
      /\ Cardinality((1..(i + 1)) \cap G) =
           Cardinality((1..i) \cap G) + (IF i + 1 \in G THEN 1 ELSE 0)
  BY CountOne
<1>5. /\ Cardinality((1..i) \cap H) \in Nat
      /\ Cardinality((1..(i + 1)) \cap H) =
           Cardinality((1..i) \cap H) + (IF i + 1 \in H THEN 1 ELSE 0)
  BY CountOne
<1>6. Depth(t, i) = Cardinality((1..i) \cap G) - Cardinality((1..i) \cap H)
  BY <1>2, Zenon
<1>7. Depth(t, i + 1) = Cardinality((1..(i + 1)) \cap G) - Cardinality((1..(i + 1)) \cap H)
  BY <1>2, <1>3, Zenon
<1> QED  BY <1>3, <1>4, <1>5, <1>6, <1>7 DEF OneIf

\* Nothing is open before the first line.
LEMMA DepthOfNone == \A t : Depth(t, 0) = 0
<1>1. \A t : {j \in 1..0 : Opens(t[j])} = {} /\ {j \in 1..0 : t[j] = BlockEnd} = {}
  OBVIOUS
<1>2. Cardinality({}) = 0
  BY FS_EmptySet
<1> QED  BY <1>1, <1>2 DEF Depth

\* One more line changes no depth above it.
LEMMA DepthMore ==
  ASSUME NEW t, NEW u, NEW w, OneMore(t, u, w), NEW n, n = Len(t)
  PROVE  /\ \A k \in 0..n : Depth(u, k) = Depth(t, k) /\ Depth(t, k) \in Int
         /\ Depth(u, n + 1) = Depth(t, n) + OneIf(Opens(w)) - OneIf(w = BlockEnd)
<1>1. n \in Nat /\ u[n + 1] = w /\ \A k \in 1..n : u[k] = t[k]
  BY Zenon DEF OneMore
<1>2. ASSUME NEW k \in 0..n
      PROVE  Depth(u, k) = Depth(t, k) /\ Depth(t, k) \in Int
  <2>1. k \in Nat /\ \A j \in 1..k : u[j] = t[j]
    BY <1>1
  <2>2. /\ {j \in 1..k : Opens(u[j])} = {j \in 1..k : Opens(t[j])}
        /\ {j \in 1..k : u[j] = BlockEnd} = {j \in 1..k : t[j] = BlockEnd}
    BY <2>1, Zenon
  <2>3. Depth(u, k) = Depth(t, k)
    BY <2>2, Zenon DEF Depth
  <2> QED  BY <2>1, <2>3, DepthStep, Zenon
<1>3. n \in 0..n
  BY <1>1
<1>4. Depth(u, n + 1) = Depth(u, n) + OneIf(Opens(w)) - OneIf(w = BlockEnd)
  BY <1>1, DepthStep, Zenon
<1> QED  BY <1>2, <1>3, <1>4, Zenon

\* The block that is opened at i ends at f.
EndsAt(t, i, f) ==
  /\ f \in (i + 1)..Len(t) /\ Depth(t, f) < Depth(t, i)
  /\ \A k \in (i + 1)..(f - 1) : Depth(t, k) >= Depth(t, i)

\* The end of a block is the first line that is not in it.
LEMMA EndIs ==
  ASSUME NEW t, Len(t) \in Nat, DOMAIN t = 1..Len(t), NEW i \in Nat, NEW f, EndsAt(t, i, f)
  PROVE  EndOf(t, i) = f
<1> DEFINE E == {j \in DOMAIN t : j > i /\ Depth(t, j) < Depth(t, i)}
<1>1. PICK n \in Nat : n = Len(t) /\ DOMAIN t = 1..n
  BY Zenon
<1>2. f \in (i + 1)..n /\ Depth(t, f) < Depth(t, i)
  BY <1>1 DEF EndsAt
<1>3. f \in E /\ E \subseteq Nat
  BY <1>1, <1>2
<1>4. PICK m : m = Min(E)
  OBVIOUS
<1>5. m \in E /\ m <= f
  BY <1>3, <1>4, Smallest
<1>6. m \in 1..n /\ m > i /\ Depth(t, m) < Depth(t, i)
  BY <1>1, <1>5
<1>7. \A k \in Nat : Depth(t, k) \in Int
  BY DepthStep
<1>8. m \notin (i + 1)..(f - 1)
  <2>1. ~(Depth(t, m) >= Depth(t, i))
    BY <1>6, <1>7
  <2> QED  BY <2>1 DEF EndsAt
<1>9. m = f
  BY <1>1, <1>2, <1>5, <1>6, <1>8
<1> QED  BY <1>4, <1>9, Zenon DEF EndOf

\* What was read does not change when more is.
LEMMA BlockKept ==
  ASSUME NEW t, NEW u, NEW w, OneMore(t, u, w), NEW i \in Nat, NEW f, EndsAt(t, i, f)
  PROVE  EndsAt(u, i, f) /\ UpTo(u, f) = UpTo(t, f)
<1>1. PICK n \in Nat : n = Len(t) /\ Len(u) = n + 1 /\ \A k \in 0..n : UpTo(u, k) = UpTo(t, k)
  BY Zenon DEF OneMore
<1>2. f \in (i + 1)..n /\ Depth(t, f) < Depth(t, i)
      /\ \A k \in (i + 1)..(f - 1) : Depth(t, k) >= Depth(t, i)
  BY <1>1 DEF EndsAt
<1>3. \A k \in 0..n : Depth(u, k) = Depth(t, k)
  BY <1>1, DepthMore
<1>4. i \in 0..n /\ f \in 0..n /\ f \in (i + 1)..(n + 1)
      /\ \A k \in (i + 1)..(f - 1) : k \in 0..n
  BY <1>1, <1>2
<1>5. Depth(u, f) < Depth(u, i) /\ \A k \in (i + 1)..(f - 1) : Depth(u, k) >= Depth(u, i)
  BY <1>2, <1>3, <1>4
<1>6. UpTo(u, f) = UpTo(t, f)
  BY <1>1, <1>4
<1> QED  BY <1>1, <1>4, <1>5, <1>6, Zenon DEF EndsAt
-----------------------------------------------------------------------------
(* What lines say. *)

Setting(t, I, name) == {i \in I : t[i] # <<>> /\ t[i][1] = name}

\* One more line of a block counts if it sets name.
LEMMA BodyMore ==
  ASSUME NEW t, NEW u, NEW w, OneMore(t, u, w), NEW n, n = Len(t), NEW i \in 1..n
  PROVE  /\ Body(t, i) \subseteq 1..n
         /\ Body(u, i) = Body(t, i) \cup {k \in {n + 1} : Depth(u, n + 1) = Depth(t, i)}
<1>1. n \in Nat /\ Len(u) = n + 1
  BY Zenon DEF OneMore
<1>2. \A k \in 0..n : Depth(u, k) = Depth(t, k)
  BY DepthMore
<1>3. Body(t, i) = {k \in (i + 1)..n : Depth(t, k) = Depth(t, i)}
  BY Zenon DEF Body
<1>4. Body(u, i) = {k \in (i + 1)..(n + 1) : Depth(u, k) = Depth(u, i)}
  BY <1>1, Zenon DEF Body
<1>5. i \in 0..n /\ (i + 1)..(n + 1) = ((i + 1)..n) \cup {n + 1} /\ (i + 1)..n \subseteq 0..n
      /\ (i + 1)..n \subseteq 1..n
  BY <1>1
<1>6. Depth(u, i) = Depth(t, i) /\ \A k \in (i + 1)..n : Depth(u, k) = Depth(t, k)
  BY <1>2, <1>5
<1> QED  BY <1>3, <1>4, <1>5, <1>6

Sets(w, name) == w # <<>> /\ w[1] = name

\* What a block says after one more line: the line's words if it is a line of
\* the block and sets name, or what it said before.
LEMMA SaysNext ==
  ASSUME NEW t, NEW u, NEW w, OneMore(t, u, w), NEW n, n = Len(t), NEW i \in 1..n,
         NEW name, NEW default
  PROVE  Says(u, Body(u, i), name, default) =
           IF Depth(u, n + 1) = Depth(t, i) /\ Sets(w, name) THEN Tail(words(w))
           ELSE Says(t, Body(t, i), name, default)
<1>1. n \in Nat /\ u[n + 1] = w /\ \A k \in 1..n : u[k] = t[k]
  BY Zenon DEF OneMore
<1>2. PICK I, J : I = Body(t, i) /\ J = Body(u, i)
  OBVIOUS
<1>3. I \subseteq 1..n /\ J = I \cup {k \in {n + 1} : Depth(u, n + 1) = Depth(t, i)}
  BY <1>2, BodyMore
<1>4. PICK a, b : a = Setting(t, I, name) /\ b = Setting(u, J, name)
  OBVIOUS
<1>5. a \subseteq 1..n /\ a = {k \in I : t[k] # <<>> /\ t[k][1] = name}
      /\ b = {k \in J : u[k] # <<>> /\ u[k][1] = name}
  BY <1>3, <1>4 DEF Setting
<1>6. /\ Says(t, I, name, default) = IF a = {} THEN default ELSE Tail(words(t[Max(a)]))
      /\ Says(u, J, name, default) = IF b = {} THEN default ELSE Tail(words(u[Max(b)]))
  BY <1>4, Zenon DEF Says, Setting
<1>7. CASE Depth(u, n + 1) = Depth(t, i) /\ Sets(w, name)
  <2>1. n + 1 \in b
    BY <1>1, <1>3, <1>5, <1>7 DEF Sets
  <2>2. b \subseteq 0..(n + 1) /\ n + 1 \in Nat
    <3>1. b \subseteq J /\ J \subseteq (1..n) \cup {n + 1}
      BY <1>3, <1>5, Zenon
    <3> QED  BY <1>1, <3>1
  <2>3. PICK m : m = Max(b)
    OBVIOUS
  <2>4. m \in b /\ n + 1 <= m
    BY <2>1, <2>2, <2>3, Largest, Zenon
  <2>5. m = n + 1
    BY <2>2, <2>4
  <2> QED  BY <1>1, <1>2, <1>6, <1>7, <2>1, <2>3, <2>5, Zenon
<1>8. CASE ~(Depth(u, n + 1) = Depth(t, i) /\ Sets(w, name))
  <2>1. b \subseteq a
    <3>1. SUFFICES ASSUME NEW k \in b PROVE k \in a
      OBVIOUS
    <3>2. k # n + 1
      BY <1>1, <1>3, <1>5, <1>8 DEF Sets
    <3>3. k \in I
      BY <1>3, <1>5, <3>2
    <3>4. u[k] = t[k]
      BY <1>1, <1>3, <3>3
    <3> QED  BY <1>5, <3>3, <3>4
  <2>2. a \subseteq b
    <3>1. SUFFICES ASSUME NEW k \in a PROVE k \in b
      OBVIOUS
    <3>2. k \in I /\ k \in J /\ u[k] = t[k]
      BY <1>1, <1>3, <1>5
    <3> QED  BY <1>5, <3>2
  <2>3. a = b
    BY <2>1, <2>2
  <2>4. a # {} => u[Max(a)] = t[Max(a)]
    <3> HAVE a # {}
    <3>1. a \subseteq 0..n
      BY <1>5
    <3>2. Max(a) \in a
      BY <1>1, <3>1, Largest, Zenon
    <3> QED  BY <1>1, <1>5, <3>2
  <2> QED  BY <1>2, <1>6, <1>8, <2>3, <2>4, Zenon
<1> QED  BY <1>7, <1>8
-----------------------------------------------------------------------------
(* Lines and their words. *)

LineOK(w) == w \in Seq(STRING) /\ (w # <<>> => w[1] \notin Blank)

\* A cleaned line begins with no blank.
LEMMA CleanLine ==
  ASSUME NEW line \in Lines
  PROVE  LineOK(clean[line])
<1>1. line \in Seq(STRING)
  BY ParserAssumption
<1>2. PICK x : x = removeComments(line, <<"#">>)
  OBVIOUS
<1>3. PICK at : at = Find(line, <<"#">>) /\ x = IF at = npos THEN line ELSE SubSeq(line, 1, at - 1)
  BY <1>2, Zenon DEF removeComments, Before
<1>4. at # npos => at \in 1..Len(line)
  <2> HAVE at # npos
  <2> DEFINE hits == Within(line, <<"#">>, 1)
  <2>1. at = IF hits = {} THEN npos ELSE Min(hits)
    BY <1>3, Zenon DEF Find, FindFrom
  <2>2. Len(<<"#">>) = 1
    OBVIOUS
  <2>3. hits \subseteq 1..Len(line) /\ Len(line) \in Nat
    BY <1>1, <2>2 DEF Within
  <2> HIDE DEF hits
  <2>4. hits \subseteq Nat
    BY <2>3
  <2>5. hits # {} => Min(hits) \in hits
    BY <2>4, Smallest, Zenon
  <2> QED  BY <2>1, <2>3, <2>5, Zenon
<1>5. x \in Seq(STRING)
  <2>1. CASE at = npos
    BY <1>1, <1>3, <2>1, Zenon
  <2>2. CASE at # npos
    <3>1. at - 1 \in 0..Len(line) /\ Len(line) \in Nat
      BY <1>1, <1>4, <2>2
    <3>2. SubSeq(line, 1, at - 1) \in Seq(STRING)
      BY <1>1, <3>1
    <3> QED  BY <1>3, <2>2, <3>2, Zenon
  <2> QED  BY <2>1, <2>2
<1>6. clean[line] = trim(x)
  BY <1>2, Zenon DEF clean, cleanCurrentLine
<1>7. TrimmedFrom(STRING, x, trim(x))
  BY <1>5, TrimFacts, Zenon
<1> QED  BY <1>6, <1>7, Zenon DEF TrimmedFrom, LineOK

\* A location line begins with the word location.
LEMMA LocationLineIs ==
  ASSUME NEW w \in Seq(STRING), IsLocationLine(w)
  PROVE  Sets(w, "location")
<1> DEFINE p == <<"location">>
           hits == Within(w, p, 1)
<1>1. Find(w, p) = 1
  BY Zenon DEF IsLocationLine, StartsWith
<1>2. Find(w, p) = IF hits = {} THEN npos ELSE Min(hits)
  BY Zenon DEF Find, FindFrom
<1>3. hits # {} /\ Min(hits) = 1
  BY <1>1, <1>2 DEF npos
<1>4. Len(p) = 1 /\ Len(w) \in Nat
  OBVIOUS
<1>5. hits = {i \in 1..Len(w) : SubSeq(w, i, i) = p}
  <2>1. Len(w) - Len(p) + 1 = Len(w) /\ \A i \in 1..Len(w) : i + Len(p) - 1 = i
    BY <1>4
  <2> QED  BY <2>1 DEF Within
<1>6. hits \subseteq Nat
  BY <1>5
<1> HIDE DEF hits
<1>7. 1 \in hits
  BY <1>3, <1>6, Smallest, Zenon
<1>8. 1 \in 1..Len(w) /\ SubSeq(w, 1, 1) = p
  BY <1>5, <1>7
<1>9. SubSeq(w, 1, 1)[1] = w[1] /\ p[1] = "location" /\ w # <<>>
  BY <1>8
<1> QED  BY <1>8, <1>9, Zenon DEF Sets

\* A server line begins with "server", and is none of the other kinds.
LEMMA ServerLineIs ==
  /\ Sets(ServerLine, "server") /\ ServerLine # BlockEnd
  /\ ServerLine \in Seq(STRING) => ~IsLocationLine(ServerLine)
<1>1. \A c : <<"server", c, "{">>[1] = "server" /\ <<"server", c, "{">> # <<>>
  OBVIOUS
<1>2. Sets(ServerLine, "server")
  BY <1>1, Zenon DEF ServerLine, Sets
<1>3. BlockEnd[1] = "}"
  BY DEF BlockEnd
<1>4. "server" # "}" /\ "server" # "location"
  OBVIOUS
<1>5. ServerLine # BlockEnd
  BY <1>2, <1>3, <1>4, Zenon DEF Sets
<1> QED  BY <1>2, <1>4, <1>5, LocationLineIs, Zenon DEF Sets

\* ts without the semicolon.
WordsFrom(q, ts) ==
  LET x == removeTrailingSemicolon(Last(ts))
  IN  \/ q = <<>>
      \/ q = Front(ts) /\ x = <<>>
      \/ q = Append(Front(ts), x) /\ x # <<>>

\* Taking the semicolon away leaves the first word's beginning.
LEMMA WordsOf ==
  ASSUME NEW T, NEW ts, NEW c, BeginsWith(T, ts, c), NEW q, WordsFrom(q, ts), q # <<>>
  PROVE  q[1][1] = c /\ q \in Seq(Seq(T))
<1>0. PICK x :
        /\ x = removeTrailingSemicolon(Last(ts))
        /\ \/ q = Front(ts) /\ x = <<>>
           \/ q = Append(Front(ts), x) /\ x # <<>>
  BY DEF WordsFrom
<1>1. PICK w \in Seq(T), rest \in Seq(Seq(T)) : ts = <<w>> \o rest /\ w # <<>> /\ w[1] = c
  BY Zenon DEF BeginsWith
<1>2. PICK U : U = Seq(T)
  OBVIOUS
<1>3. w \in U /\ rest \in Seq(U)
  BY <1>1, <1>2, Zenon
<1>4. PICK m \in Nat : m = Len(rest)
  BY <1>3
<1>5. ts \in Seq(U) /\ Len(ts) = m + 1 /\ ts[1] = w
  BY ONLY <1>1, <1>3, <1>4
<1>6. Front(ts) = SubSeq(ts, 1, m) /\ Last(ts) = ts[m + 1]
  <2>1. m + 1 - 1 = m
    BY <1>4
  <2>2. Len(ts) = m + 1 /\ Len(ts) - 1 = m
    BY <1>5, <2>1
  <2> QED  BY <2>2, Zenon DEF Front, Last
<1>7. CASE m = 0
  <2>1. Front(ts) = <<>> /\ Last(ts) = w
    BY ONLY <1>5, <1>6, <1>7
  <2>2. q = Append(<<>>, x) /\ x # <<>>
    BY <1>0, <2>1, Zenon
  <2>3. x = IF Last(w) = ";" THEN Front(w) ELSE w
    BY <1>0, <1>1, <2>1, Zenon DEF removeTrailingSemicolon
  <2>4. x \in U /\ x[1] = c
    <3>1. CASE x = w
      BY <1>1, <1>2, <3>1, Zenon
    <3>2. CASE x = Front(w)
      <4>1. Front(w) = SubSeq(w, 1, Len(w) - 1) /\ Len(w) \in Nat /\ Len(w) # 0
        BY <1>1 DEF Front
      <4>2. SubSeq(w, 1, Len(w) - 1) # <<>>
        BY <2>2, <3>2, <4>1, Zenon
      <4>3. Len(w) - 1 >= 1
        BY <1>1, <4>1, <4>2
      <4>4. SubSeq(w, 1, Len(w) - 1)[1] = w[1] /\ SubSeq(w, 1, Len(w) - 1) \in Seq(T)
        BY <1>1, <4>1, <4>3
      <4> QED  BY <1>1, <1>2, <3>2, <4>1, <4>4, Zenon
    <3> QED  BY <2>3, <3>1, <3>2, Zenon
  <2>5. Append(<<>>, x) \in Seq(U) /\ Append(<<>>, x)[1] = x
    BY ONLY <2>4
  <2> QED  BY <1>2, <2>2, <2>4, <2>5, Zenon
<1>8. CASE m # 0
  <2>1. 1 \in 1..m /\ m >= 1
    BY <1>4, <1>8
  <2>2. PICK g \in Seq(U) : g = Front(ts) /\ Len(g) = m /\ g[1] = w
    <3>1. SubSeq(ts, 1, m) \in Seq(U) /\ Len(SubSeq(ts, 1, m)) = m /\ SubSeq(ts, 1, m)[1] = ts[1]
      BY ONLY <1>4, <1>5, <2>1
    <3> QED  BY <1>5, <1>6, <3>1, Zenon
  <2>3. Last(ts) \in U
    <3>1. ts[m + 1] \in U
      BY ONLY <1>4, <1>5
    <3> QED  BY <1>6, <3>1, Zenon
  <2>4. x \in U
    <3>1. PICK v \in Seq(T) : v = Last(ts)
      BY <1>2, <2>3, Zenon
    <3>2. v # <<>> => Front(v) \in Seq(T)
      BY DEF Front
    <3>3. x = IF v # <<>> /\ Last(v) = ";" THEN Front(v) ELSE v
      BY <1>0, <3>1, Zenon DEF removeTrailingSemicolon
    <3> QED  BY <1>2, <3>2, <3>3, Zenon
  <2>5. Append(g, x) \in Seq(U) /\ \A k \in 1..Len(g) : Append(g, x)[k] = g[k]
    BY ONLY <2>2, <2>4
  <2>6. q[1] = w /\ q \in Seq(U)
    BY <1>0, <2>1, <2>2, <2>5, Zenon
  <2> QED  BY <1>1, <1>2, <2>6, Zenon
<1> QED  BY <1>7, <1>8

\* The first of the words of a line begins as the line does.
LEMMA WordsBegin ==
  ASSUME NEW w, LineOK(w), w # <<>>, words(w) # <<>>
  PROVE  words(w)[1][1] = w[1] /\ words(w) \in Seq(Seq(STRING))
<1>1. " " \in Blank
  BY Zenon DEF Blank
<1>2. BeginsWith(STRING, split(w, " "), w[1])
  BY <1>1, FirstWord, Zenon DEF LineOK
<1>3. WordsFrom(words(w), split(w, " "))
  BY Zenon DEF words, WordsFrom
<1>4. \A q, ts, c : BeginsWith(STRING, ts, c) /\ WordsFrom(q, ts) /\ q # <<>> =>
        q[1][1] = c /\ q \in Seq(Seq(STRING))
  BY WordsOf
<1> QED  BY <1>2, <1>3, <1>4, Zenon
-----------------------------------------------------------------------------
(* What a directive does to the configuration. *)

Names == {"listen", "host", "server_name", "root", "index", "client_max_body_size",
          "upload_store", "upload_enable", "cgi_extension", "cgi_path", "autoindex",
          "allowed_methods"}

\* The line that makes t into u sets nothing in the block at i.
Silent(t, u, i) ==
  \A name, default :
    name \in Names => Says(u, Body(u, i), name, default) = Says(t, Body(t, i), name, default)

\* Its words are q, and it is a line of that block.
Said(t, u, i, q) ==
  \A name, default :
    Says(u, Body(u, i), name, default) =
      IF name = q[1][1] THEN Tail(q) ELSE Says(t, Body(t, i), name, default)

\* Blank lines, ends of blocks and lines of other blocks set nothing.
LEMMA LineIsSilent ==
  ASSUME NEW t, NEW u, NEW w, OneMore(t, u, w), NEW n, n = Len(t), NEW i \in 1..n,
         w = <<>> \/ w = BlockEnd \/ Depth(u, n + 1) # Depth(t, i)
  PROVE  Silent(t, u, i)
<1>1. BlockEnd[1] \notin Names
  <2>1. BlockEnd[1] = "}"
    BY Zenon DEF BlockEnd
  <2> QED  BY <2>1, Zenon DEF Names
<1>2. SUFFICES ASSUME NEW name, NEW default, name \in Names
               PROVE  Says(u, Body(u, i), name, default) = Says(t, Body(t, i), name, default)
  BY Zenon DEF Silent
<1>3. ~(Depth(u, n + 1) = Depth(t, i) /\ Sets(w, name))
  BY <1>1, <1>2, Zenon DEF Sets
<1> QED  BY <1>3, SaysNext

\* The words of a directive are what its block says from there on.
LEMMA LineIsSaid ==
  ASSUME NEW t, NEW u, NEW w, OneMore(t, u, w), NEW n, n = Len(t), NEW i \in 1..n,
         LineOK(w), w # <<>>, words(w) # <<>>, Depth(u, n + 1) = Depth(t, i)
  PROVE  Said(t, u, i, words(w))
<1>1. SUFFICES ASSUME NEW name, NEW default
               PROVE  Says(u, Body(u, i), name, default) =
                        IF name = words(w)[1][1] THEN Tail(words(w))
                        ELSE Says(t, Body(t, i), name, default)
  BY Zenon DEF Said
<1>2. words(w)[1][1] = w[1]
  BY WordsBegin
<1>3. Sets(w, name) <=> name = words(w)[1][1]
  BY <1>2, Zenon DEF Sets
<1>4. Says(u, Body(u, i), name, default) =
        IF Depth(u, n + 1) = Depth(t, i) /\ Sets(w, name) THEN Tail(words(w))
        ELSE Says(t, Body(t, i), name, default)
  BY SaysNext
<1> QED  BY <1>3, <1>4, Zenon

\* The settings of the server whose block is opened at i.
ServerSettings(t, s, i) ==
  LET I == Body(t, i)
  IN  /\ s.host = Text(t, I, "host", <<>>)
      /\ s.server_name = Text(t, I, "server_name", <<"localhost">>)
      /\ s.root = AsFolder(Text(t, I, "root", <<"www", "/">>))
      /\ s.index = Text(t, I, "index", <<"index", ".", "html">>)
      /\ s.client_max_body_size = BodySize(t, I, Kilo * Kilo)
      /\ s.listen = (LET said == Says(t, I, "listen", <<>>)
                     IN  IF said = <<>> THEN 80 ELSE IntOf[said[1][1]])

\* The names, one by one.
LEMMA NamesAre ==
  /\ "listen" \in Names /\ "host" \in Names /\ "server_name" \in Names /\ "root" \in Names
  /\ "index" \in Names /\ "client_max_body_size" \in Names /\ "upload_store" \in Names
  /\ "upload_enable" \in Names /\ "cgi_extension" \in Names /\ "cgi_path" \in Names
  /\ "autoindex" \in Names /\ "allowed_methods" \in Names
BY Zenon DEF Names

\* A line that sets nothing leaves the server as the file says.
LEMMA ServerUnsaid ==
  ASSUME NEW t, NEW u, NEW i, Silent(t, u, i), NEW s, ServerSettings(t, s, i)
  PROVE  ServerSettings(u, s, i)
<1>1. \A name, default : name \in Names =>
        Text(u, Body(u, i), name, default) = Text(t, Body(t, i), name, default)
  BY Zenon DEF Silent, Text
<1>2. \A default : BodySize(u, Body(u, i), default) = BodySize(t, Body(t, i), default)
  <2>1. Says(u, Body(u, i), "client_max_body_size", <<>>)
          = Says(t, Body(t, i), "client_max_body_size", <<>>)
    BY NamesAre, Zenon DEF Silent
  <2> QED  BY <2>1, Zenon DEF BodySize
<1>3. Says(u, Body(u, i), "listen", <<>>) = Says(t, Body(t, i), "listen", <<>>)
  BY NamesAre, Zenon DEF Silent
<1>4. \A default :
        /\ Text(u, Body(u, i), "host", default) = Text(t, Body(t, i), "host", default)
        /\ Text(u, Body(u, i), "server_name", default) = Text(t, Body(t, i), "server_name", default)
        /\ Text(u, Body(u, i), "root", default) = Text(t, Body(t, i), "root", default)
        /\ Text(u, Body(u, i), "index", default) = Text(t, Body(t, i), "index", default)
  BY <1>1, NamesAre, Zenon
<1> QED  BY <1>2, <1>3, <1>4, Zenon DEF ServerSettings

\* What comes before a location stays.
LEMMA AboveKept ==
  ASSUME NEW t, NEW u, NEW w, OneMore(t, u, w), NEW n, n = Len(t), NEW i, NEW j \in 1..n
  PROVE  PathAt(u, j) = PathAt(t, j) /\ Inherited(u, i, j) = Inherited(t, i, j)
<1>1. u[j] = t[j] /\ n \in Nat /\ \A k \in 0..n : UpTo(u, k) = UpTo(t, k)
  BY Zenon DEF OneMore
<1>2. j - 1 \in 0..n
  BY <1>1
<1> QED  BY <1>1, <1>2, Zenon DEF PathAt, Inherited

\* And the location.
LEMMA LocationUnsaid ==
  ASSUME NEW t, NEW u, NEW w, OneMore(t, u, w), NEW n, n = Len(t), NEW i, NEW j \in 1..n,
         Silent(t, u, j), NEW l, LocationSays(t, l, i, j)
  PROVE  LocationSays(u, l, i, j)
<1>1. PathAt(u, j) = PathAt(t, j) /\ Inherited(u, i, j) = Inherited(t, i, j)
  BY AboveKept
<1>2. \A name, default : name \in Names =>
        Text(u, Body(u, j), name, default) = Text(t, Body(t, j), name, default)
  BY Zenon DEF Silent, Text
<1>3. \A default : BodySize(u, Body(u, j), default) = BodySize(t, Body(t, j), default)
  <2>1. Says(u, Body(u, j), "client_max_body_size", <<>>)
          = Says(t, Body(t, j), "client_max_body_size", <<>>)
    BY NamesAre, Zenon DEF Silent
  <2> QED  BY <2>1, Zenon DEF BodySize
<1>4. Says(u, Body(u, j), "allowed_methods", <<>>) = Says(t, Body(t, j), "allowed_methods", <<>>)
  BY NamesAre, Zenon DEF Silent
<1>5. \A default :
        /\ Text(u, Body(u, j), "root", default) = Text(t, Body(t, j), "root", default)
        /\ Text(u, Body(u, j), "index", default) = Text(t, Body(t, j), "index", default)
        /\ Text(u, Body(u, j), "upload_store", default) = Text(t, Body(t, j), "upload_store", default)
        /\ Text(u, Body(u, j), "cgi_extension", default) = Text(t, Body(t, j), "cgi_extension", default)
        /\ Text(u, Body(u, j), "cgi_path", default) = Text(t, Body(t, j), "cgi_path", default)
        /\ Text(u, Body(u, j), "autoindex", default) = Text(t, Body(t, j), "autoindex", default)
        /\ Text(u, Body(u, j), "upload_enable", default) = Text(t, Body(t, j), "upload_enable", default)
  BY <1>2, NamesAre, Zenon
<1> QED  BY <1>1, <1>3, <1>4, <1>5, Zenon DEF LocationSays

\* The size a line gives.
LEMMA SizeSaid ==
  ASSUME NEW t, NEW u, NEW i, NEW q, Said(t, u, i, q), NEW default
  PROVE  BodySize(u, Body(u, i), default) =
           IF q[1][1] = "client_max_body_size"
           THEN IF Tail(q) = <<>> THEN default ELSE SizeOf(Tail(q)[1])
           ELSE BodySize(t, Body(t, i), default)
<1>1. Says(u, Body(u, i), "client_max_body_size", <<>>) =
        IF q[1][1] = "client_max_body_size" THEN Tail(q)
        ELSE Says(t, Body(t, i), "client_max_body_size", <<>>)
  BY Zenon DEF Said
<1> QED  BY <1>1, Zenon DEF BodySize

\* One value.
LEMMA OneValue ==
  ASSUME NEW U, NEW q \in Seq(U), Len(q) = 2
  PROVE  Tail(q) # <<>> /\ Tail(q)[1] = q[2]
<1>1. q # <<>>
  OBVIOUS
<1>2. Len(Tail(q)) = Len(q) - 1 /\ \A k \in 1..Len(Tail(q)) : Tail(q)[k] = q[k + 1]
  BY <1>1, HeadTailProperties, Zenon
<1>3. 2 - 1 = 1 /\ 1 \in 1..1 /\ 1 + 1 = 2 /\ Len(<<>>) = 0 /\ 0 # 1
  OBVIOUS
<1>4. Len(Tail(q)) = 1
  BY <1>2, <1>3, Zenon
<1>5. Tail(q)[1] = q[2]
  BY <1>2, <1>3, <1>4, Zenon
<1> QED  BY <1>3, <1>4, <1>5, Zenon

\* A size has one value.
LEMMA SizeIs ==
  ASSUME NEW w, NEW n \in convertBodySize(w)
  PROVE  SizeOf(w) = n
<1> DEFINE multiplier ==
             CASE Last(w) \in {"K", "k"} -> Kilo
               [] Last(w) \in {"M", "m"} -> Kilo * Kilo
               [] Last(w) \in {"G", "g"} -> Kilo * Kilo * Kilo
               [] OTHER -> 1
           number_part == IF multiplier = 1 THEN w ELSE Front(w)
<1>1. convertBodySize(w) =
        {IF k < 0 THEN 0 ELSE k * multiplier : k \in stringToInt(number_part)}
  BY DEF convertBodySize
<1> HIDE DEF multiplier, number_part
<1>2. PICK v, m : v = number_part /\ m = multiplier
  OBVIOUS
<1>3. convertBodySize(w) = {IF k < 0 THEN 0 ELSE k * m : k \in stringToInt(v)}
  BY <1>1, <1>2
<1>4. \A a, b \in stringToInt(v) : a = b
  BY Zenon DEF stringToInt
<1>5. \A a, b \in convertBodySize(w) : a = b
  BY <1>3, <1>4
<1> QED  BY <1>5, Zenon DEF SizeOf

\* What a server takes from the words q of a line.
ServerTakes(c, d, q) ==
  LET name == q[1][1]
      value == Tail(q)[1]
  IN  /\ name \in {"listen", "client_max_body_size"} => Tail(q) # <<>>
      /\ d.host = IF name = "host" THEN value ELSE c.host
      /\ d.server_name = IF name = "server_name" THEN value ELSE c.server_name
      /\ d.root = IF name = "root" THEN AsFolder(value) ELSE c.root
      /\ d.index = IF name = "index" THEN value ELSE c.index
      /\ d.client_max_body_size =
           IF name = "client_max_body_size" THEN SizeOf(value) ELSE c.client_max_body_size
      /\ d.listen = IF name = "listen" THEN IntOf[value[1]] ELSE c.listen
      /\ d.locations = c.locations

\* A server that takes what a line says is as the file says, that line included.
LEMMA ServerSaid ==
  ASSUME NEW t, NEW u, NEW i, NEW q, Said(t, u, i, q), NEW c, ServerSettings(t, c, i),
         NEW d, ServerTakes(c, d, q)
  PROVE  ServerSettings(u, d, i)
<1>1. PICK name, value : name = q[1][1] /\ value = Tail(q)[1]
  OBVIOUS
<1>2. \A n, default : Text(u, Body(u, i), n, default) =
                        IF n = name THEN value ELSE Text(t, Body(t, i), n, default)
  <2>1. \A n, default : Text(u, Body(u, i), n, default) =
                          IF n = q[1][1] THEN Tail(q)[1] ELSE Text(t, Body(t, i), n, default)
    BY Zenon DEF Said, Text
  <2> QED  BY <1>1, <2>1, Zenon
<1>3. \A default : BodySize(u, Body(u, i), default) =
                     IF name = "client_max_body_size"
                     THEN IF Tail(q) = <<>> THEN default ELSE SizeOf(value)
                     ELSE BodySize(t, Body(t, i), default)
  BY <1>1, SizeSaid
<1>4. Says(u, Body(u, i), "listen", <<>>) =
        IF name = "listen" THEN Tail(q) ELSE Says(t, Body(t, i), "listen", <<>>)
  BY <1>1, Zenon DEF Said
<1>5. d.host = Text(u, Body(u, i), "host", <<>>)
  <2>1. d.host = IF name = "host" THEN value ELSE c.host
    BY <1>1, Zenon DEF ServerTakes
  <2>2. c.host = Text(t, Body(t, i), "host", <<>>)
    BY Zenon DEF ServerSettings
  <2> QED  BY <1>2, <2>1, <2>2, Zenon
<1>6. d.server_name = Text(u, Body(u, i), "server_name", <<"localhost">>)
  <2>1. d.server_name = IF name = "server_name" THEN value ELSE c.server_name
    BY <1>1, Zenon DEF ServerTakes
  <2>2. c.server_name = Text(t, Body(t, i), "server_name", <<"localhost">>)
    BY Zenon DEF ServerSettings
  <2> QED  BY <1>2, <2>1, <2>2, Zenon
<1>7. d.root = AsFolder(Text(u, Body(u, i), "root", <<"www", "/">>))
  <2>1. d.root = IF name = "root" THEN AsFolder(value) ELSE c.root
    BY <1>1, Zenon DEF ServerTakes
  <2>2. c.root = AsFolder(Text(t, Body(t, i), "root", <<"www", "/">>))
    BY Zenon DEF ServerSettings
  <2> QED  BY <1>2, <2>1, <2>2, Zenon
<1>8. d.index = Text(u, Body(u, i), "index", <<"index", ".", "html">>)
  <2>1. d.index = IF name = "index" THEN value ELSE c.index
    BY <1>1, Zenon DEF ServerTakes
  <2>2. c.index = Text(t, Body(t, i), "index", <<"index", ".", "html">>)
    BY Zenon DEF ServerSettings
  <2> QED  BY <1>2, <2>1, <2>2, Zenon
<1>9. d.client_max_body_size = BodySize(u, Body(u, i), Kilo * Kilo)
  <2>1. name = "client_max_body_size" => Tail(q) # <<>>
    BY <1>1, Zenon DEF ServerTakes
  <2> QED  BY <1>1, <1>3, <2>1, Zenon DEF ServerSettings, ServerTakes
<1>10. d.listen = (LET said == Says(u, Body(u, i), "listen", <<>>)
                   IN  IF said = <<>> THEN 80 ELSE IntOf[said[1][1]])
  <2>1. name = "listen" => Tail(q) # <<>>
    BY <1>1, Zenon DEF ServerTakes
  <2>2. CASE name = "listen"
    <3>1. d.listen = IntOf[value[1]]
      BY <1>1, <2>2, Zenon DEF ServerTakes
    <3> QED  BY <1>1, <1>4, <2>1, <2>2, <3>1, Zenon
  <2>3. CASE name # "listen"
    <3>1. d.listen = c.listen
      BY <1>1, <2>3, Zenon DEF ServerTakes
    <3>2. c.listen = (LET said == Says(t, Body(t, i), "listen", <<>>)
                      IN  IF said = <<>> THEN 80 ELSE IntOf[said[1][1]])
      BY Zenon DEF ServerSettings
    <3> QED  BY <1>4, <2>3, <3>1, <3>2, Zenon
  <2> QED  BY <2>2, <2>3
<1> QED  BY <1>5, <1>6, <1>7, <1>8, <1>9, <1>10, Zenon DEF ServerSettings

\* d is c but for one field.
Only(c, d, field, value) ==
  /\ d[field] = value
  /\ \A other \in DOMAIN c : other # field => d[other] = c[other]

\* A directive of a server that sets one field.
LEMMA OnlyServer ==
  ASSUME NEW c, DOMAIN c = DOMAIN ServerConfig, NEW d, NEW field, NEW value,
         Only(c, d, field, value), NEW q, q[1][1] = field, NEW U, q \in Seq(U), Len(q) = 2,
         \/ field \in {"host", "server_name", "index"} /\ value = q[2]
         \/ field = "root" /\ value = AsFolder(q[2])
         \/ field = "client_max_body_size" /\ value = SizeOf(q[2])
         \/ field = "listen" /\ value = IntOf[q[2][1]]
  PROVE  ServerTakes(c, d, q)
<1>1. Tail(q) # <<>> /\ Tail(q)[1] = q[2]
  BY OneValue
<1>2. DOMAIN c = {"listen", "host", "server_name", "error_pages", "client_max_body_size",
                  "root", "index", "allowed_methods", "locations"}
  BY ServerFields
<1>3. d[field] = value /\ \A other \in DOMAIN c : other # field => d[other] = c[other]
  BY Zenon DEF Only
<1>4. PICK v : v = q[2]
  OBVIOUS
<1>5. /\ d.host = IF field = "host" THEN v ELSE c.host
      /\ d.server_name = IF field = "server_name" THEN v ELSE c.server_name
      /\ d.root = IF field = "root" THEN AsFolder(v) ELSE c.root
      /\ d.index = IF field = "index" THEN v ELSE c.index
  BY <1>2, <1>3, <1>4
<1>6. /\ d.client_max_body_size =
           IF field = "client_max_body_size" THEN SizeOf(v) ELSE c.client_max_body_size
      /\ d.listen = IF field = "listen" THEN IntOf[v[1]] ELSE c.listen
      /\ d.locations = c.locations
  BY <1>2, <1>3, <1>4
<1> QED  BY <1>1, <1>4, <1>5, <1>6, Zenon DEF ServerTakes

\* d is in a field what c was.
LEMMA OnlyOne ==
  ASSUME NEW c, NEW field \in DOMAIN c, NEW value, NEW d, d = [c EXCEPT ![field] = value]
  PROVE  Only(c, d, field, value)
BY DEF Only

Directives == {"listen", "host", "server_name", "error_page", "client_max_body_size", "root",
               "index", "autoindex", "allowed_methods", "return", "cgi_extension", "cgi_path",
               "upload_store", "upload_enable"}

\* The words that open blocks are no directives.
LEMMA OpeningsAreNone == "server" \notin Directives /\ "location" \notin Directives
BY DEF Directives

\* Every directive of a server does what its words say.
LEMMA ServerEffect ==
  ASSUME NEW c, DOMAIN c = DOMAIN ServerConfig, NEW U, NEW q \in Seq(U),
         NEW d \in parseServerDirective(c, q)
  PROVE  ServerTakes(c, d, q) /\ q[1][1] \in Directives
<1>1. DOMAIN c = {"listen", "host", "server_name", "error_pages", "client_max_body_size",
                  "root", "index", "allowed_methods", "locations"}
  BY ServerFields
<1>2. \/ q[1] = <<"listen">> /\ d \in parseListenDirective(c, q)
      \/ q[1] = <<"host">> /\ d \in parseHostDirective(c, q)
      \/ q[1] = <<"server_name">> /\ d \in parseServerNameDirective(c, q)
      \/ q[1] = <<"error_page">> /\ d \in parseErrorPageDirective(c, q)
      \/ q[1] = <<"client_max_body_size">> /\ d \in parseBodySizeDirective(c, q)
      \/ q[1] = <<"root">> /\ d \in parseServerRootDirective(c, q)
      \/ q[1] = <<"index">> /\ d \in parseIndexDirective(c, q)
  BY DEF parseServerDirective
<1>3. \A name : <<name>>[1] = name
  OBVIOUS
<1>4. 2..2 = {2}
  OBVIOUS
<1>5. CASE q[1] = <<"listen">> /\ d \in parseListenDirective(c, q)
  <2>1. Len(q) = 2 /\ \E p \in stringToInt(q[2]) : d \in setListen(c, p)
    BY <1>4, <1>5 DEF parseListenDirective, checkTokensSize
  <2>2. d = [c EXCEPT !["listen"] = IntOf[q[2][1]]]
    BY <2>1, Zenon DEF stringToInt, setListen, Accept
  <2>3. Only(c, d, "listen", IntOf[q[2][1]])
    BY <1>1, <2>2, OnlyOne
  <2>4. q[1][1] = "listen"
    BY <1>3, <1>5, Zenon
  <2> QED  BY <2>1, <2>3, <2>4, OnlyServer DEF Directives
<1>6. CASE q[1] = <<"host">> /\ d \in parseHostDirective(c, q)
  <2>1. Len(q) = 2 /\ d \in setHost(c, q[2])
    BY <1>4, <1>6 DEF parseHostDirective, checkTokensSize
  <2>2. d = [c EXCEPT !["host"] = q[2]]
    BY <2>1, Zenon DEF setHost, Accept
  <2>3. Only(c, d, "host", q[2])
    BY <1>1, <2>2, OnlyOne
  <2>4. q[1][1] = "host"
    BY <1>3, <1>6, Zenon
  <2> QED  BY <2>1, <2>3, <2>4, OnlyServer DEF Directives
<1>7. CASE q[1] = <<"server_name">> /\ d \in parseServerNameDirective(c, q)
  <2>1. Len(q) = 2 /\ d \in setServerName(c, q[2])
    BY <1>4, <1>7 DEF parseServerNameDirective, checkTokensSize
  <2>2. d = [c EXCEPT !["server_name"] = q[2]]
    BY <2>1, Zenon DEF setServerName, Accept
  <2>3. Only(c, d, "server_name", q[2])
    BY <1>1, <2>2, OnlyOne
  <2>4. q[1][1] = "server_name"
    BY <1>3, <1>7, Zenon
  <2> QED  BY <2>1, <2>3, <2>4, OnlyServer DEF Directives
<1>8. CASE q[1] = <<"error_page">> /\ d \in parseErrorPageDirective(c, q)
  <2>1. PICK v : d = [c EXCEPT !["error_pages"] = v]
    BY <1>8 DEF parseErrorPageDirective, addErrorPage, Accept
  <2>2. Only(c, d, "error_pages", v)
    BY <1>1, <2>1, OnlyOne
  <2>3. /\ d.host = c.host /\ d.server_name = c.server_name /\ d.root = c.root /\ d.index = c.index
        /\ d.client_max_body_size = c.client_max_body_size /\ d.listen = c.listen
        /\ d.locations = c.locations
    BY <1>1, <2>2 DEF Only
  <2>4. q[1][1] = "error_page"
    BY <1>3, <1>8, Zenon
  <2>5. ServerTakes(c, d, q)
    BY <2>3, <2>4, Zenon DEF ServerTakes
  <2> QED  BY <2>4, <2>5, Zenon DEF Directives
<1>9. CASE q[1] = <<"client_max_body_size">> /\ d \in parseBodySizeDirective(c, q)
  <2>1. Len(q) = 2 /\ \E n \in convertBodySize(q[2]) : d \in setClientMaxBodySize(c, n)
    BY <1>4, <1>9 DEF parseBodySizeDirective, checkTokensSize
  <2>2. PICK n \in convertBodySize(q[2]) : d = [c EXCEPT !["client_max_body_size"] = n]
    BY <2>1, Zenon DEF setClientMaxBodySize, Accept
  <2>3. Only(c, d, "client_max_body_size", SizeOf(q[2]))
    BY <1>1, <2>2, OnlyOne, SizeIs
  <2>4. q[1][1] = "client_max_body_size"
    BY <1>3, <1>9, Zenon
  <2> QED  BY <2>1, <2>3, <2>4, OnlyServer DEF Directives
<1>10. CASE q[1] = <<"root">> /\ d \in parseServerRootDirective(c, q)
  <2>1. Len(q) = 2 /\ d \in ServerSetRoot(c, q[2])
    BY <1>4, <1>10 DEF parseServerRootDirective, checkTokensSize
  <2>2. d = [c EXCEPT !["root"] = AsFolder(q[2])]
    BY <2>1, Zenon DEF ServerSetRoot, Accept, AsFolder
  <2>3. Only(c, d, "root", AsFolder(q[2]))
    BY <1>1, <2>2, OnlyOne
  <2>4. q[1][1] = "root"
    BY <1>3, <1>10, Zenon
  <2> QED  BY <2>1, <2>3, <2>4, OnlyServer DEF Directives
<1>11. CASE q[1] = <<"index">> /\ d \in parseIndexDirective(c, q)
  <2>1. Len(q) = 2 /\ d \in setIndex(c, q[2])
    BY <1>4, <1>11 DEF parseIndexDirective, checkTokensSize
  <2>2. d = [c EXCEPT !["index"] = q[2]]
    BY <2>1, Zenon DEF setIndex, Accept
  <2>3. Only(c, d, "index", q[2])
    BY <1>1, <2>2, OnlyOne
  <2>4. q[1][1] = "index"
    BY <1>3, <1>11, Zenon
  <2> QED  BY <2>1, <2>3, <2>4, OnlyServer DEF Directives
<1> QED  BY <1>2, <1>5, <1>6, <1>7, <1>8, <1>9, <1>10, <1>11, Zenon

\* What a location takes from the words q of a line.
LocationTakes(c, d, q) ==
  LET name == q[1][1]
      value == Tail(q)[1]
  IN  /\ name \in {"allowed_methods", "client_max_body_size"} => Tail(q) # <<>>
      /\ d.location = c.location
      /\ d.root = IF name = "root" THEN value ELSE c.root
      /\ d.index = IF name = "index" THEN value ELSE c.index
      /\ d.upload_store = IF name = "upload_store" THEN value ELSE c.upload_store
      /\ d.cgi_extension = IF name = "cgi_extension" THEN value ELSE c.cgi_extension
      /\ d.cgi_path = IF name = "cgi_path" THEN value ELSE c.cgi_path
      /\ d.autoindex = IF name = "autoindex" THEN value = <<"on">> ELSE c.autoindex
      /\ d.upload_enable = IF name = "upload_enable" THEN value = <<"on">> ELSE c.upload_enable
      /\ d.allowed_methods =
           IF name = "allowed_methods" THEN ToSet(Tail(q)) ELSE c.allowed_methods
      /\ d.client_max_body_size =
           IF name = "client_max_body_size" THEN SizeOf(value) ELSE c.client_max_body_size

\* A location that takes what a line says is as the file says, that line
\* included.
LEMMA LocationSaid ==
  ASSUME NEW t, NEW u, NEW w, OneMore(t, u, w), NEW n, n = Len(t), NEW i, NEW j \in 1..n,
         NEW q, Said(t, u, j, q), NEW c, LocationSays(t, c, i, j),
         NEW d, LocationTakes(c, d, q)
  PROVE  LocationSays(u, d, i, j)
<1>1. PICK name, value : name = q[1][1] /\ value = Tail(q)[1]
  OBVIOUS
<1>2. \A m, default : Text(u, Body(u, j), m, default) =
                        IF m = name THEN value ELSE Text(t, Body(t, j), m, default)
  <2>1. \A m, default : Text(u, Body(u, j), m, default) =
                          IF m = q[1][1] THEN Tail(q)[1] ELSE Text(t, Body(t, j), m, default)
    BY Zenon DEF Said, Text
  <2> QED  BY <1>1, <2>1, Zenon
<1>3. \A default : BodySize(u, Body(u, j), default) =
                     IF name = "client_max_body_size"
                     THEN IF Tail(q) = <<>> THEN default ELSE SizeOf(value)
                     ELSE BodySize(t, Body(t, j), default)
  BY <1>1, SizeSaid
<1>4. Says(u, Body(u, j), "allowed_methods", <<>>) =
        IF name = "allowed_methods" THEN Tail(q) ELSE Says(t, Body(t, j), "allowed_methods", <<>>)
  BY <1>1, Zenon DEF Said
<1>5. d.root = Text(u, Body(u, j), "root", <<>>)
  <2>1. d.root = IF name = "root" THEN value ELSE c.root
    BY <1>1, Zenon DEF LocationTakes
  <2>2. c.root = Text(t, Body(t, j), "root", <<>>)
    BY Zenon DEF LocationSays
  <2> QED  BY <1>2, <2>1, <2>2, Zenon
<1>6. d.index = Text(u, Body(u, j), "index", <<>>)
  <2>1. d.index = IF name = "index" THEN value ELSE c.index
    BY <1>1, Zenon DEF LocationTakes
  <2>2. c.index = Text(t, Body(t, j), "index", <<>>)
    BY Zenon DEF LocationSays
  <2> QED  BY <1>2, <2>1, <2>2, Zenon
<1>7. d.upload_store = Text(u, Body(u, j), "upload_store", <<>>)
  <2>1. d.upload_store = IF name = "upload_store" THEN value ELSE c.upload_store
    BY <1>1, Zenon DEF LocationTakes
  <2>2. c.upload_store = Text(t, Body(t, j), "upload_store", <<>>)
    BY Zenon DEF LocationSays
  <2> QED  BY <1>2, <2>1, <2>2, Zenon
<1>8. d.cgi_extension = Text(u, Body(u, j), "cgi_extension", <<>>)
  <2>1. d.cgi_extension = IF name = "cgi_extension" THEN value ELSE c.cgi_extension
    BY <1>1, Zenon DEF LocationTakes
  <2>2. c.cgi_extension = Text(t, Body(t, j), "cgi_extension", <<>>)
    BY Zenon DEF LocationSays
  <2> QED  BY <1>2, <2>1, <2>2, Zenon
<1>9. d.cgi_path = Text(u, Body(u, j), "cgi_path", <<>>)
  <2>1. d.cgi_path = IF name = "cgi_path" THEN value ELSE c.cgi_path
    BY <1>1, Zenon DEF LocationTakes
  <2>2. c.cgi_path = Text(t, Body(t, j), "cgi_path", <<>>)
    BY Zenon DEF LocationSays
  <2> QED  BY <1>2, <2>1, <2>2, Zenon
<1>10. d.autoindex = (Text(u, Body(u, j), "autoindex", <<>>) = <<"on">>)
  <2>1. d.autoindex = IF name = "autoindex" THEN value = <<"on">> ELSE c.autoindex
    BY <1>1, Zenon DEF LocationTakes
  <2>2. c.autoindex = (Text(t, Body(t, j), "autoindex", <<>>) = <<"on">>)
    BY Zenon DEF LocationSays
  <2> QED  BY <1>2, <2>1, <2>2, Zenon
<1>11. d.upload_enable = (Text(u, Body(u, j), "upload_enable", <<>>) = <<"on">>)
  <2>1. d.upload_enable = IF name = "upload_enable" THEN value = <<"on">> ELSE c.upload_enable
    BY <1>1, Zenon DEF LocationTakes
  <2>2. c.upload_enable = (Text(t, Body(t, j), "upload_enable", <<>>) = <<"on">>)
    BY Zenon DEF LocationSays
  <2> QED  BY <1>2, <2>1, <2>2, Zenon
<1>12. d.client_max_body_size = BodySize(u, Body(u, j), Inherited(u, i, j))
  <2>1. name = "client_max_body_size" => Tail(q) # <<>>
    BY <1>1, Zenon DEF LocationTakes
  <2>2. Inherited(u, i, j) = Inherited(t, i, j)
    BY AboveKept
  <2>3. d.client_max_body_size =
          IF name = "client_max_body_size" THEN SizeOf(value) ELSE c.client_max_body_size
    BY <1>1, Zenon DEF LocationTakes
  <2>4. c.client_max_body_size = BodySize(t, Body(t, j), Inherited(t, i, j))
    BY Zenon DEF LocationSays
  <2> QED  BY <1>3, <2>1, <2>2, <2>3, <2>4, Zenon
<1>13. d.allowed_methods = (LET said == Says(u, Body(u, j), "allowed_methods", <<>>)
                            IN  IF said = <<>> THEN Methods ELSE ToSet(said))
  <2>1. name = "allowed_methods" => Tail(q) # <<>>
    BY <1>1, Zenon DEF LocationTakes
  <2>2. d.allowed_methods =
          IF name = "allowed_methods" THEN ToSet(Tail(q)) ELSE c.allowed_methods
    BY <1>1, Zenon DEF LocationTakes
  <2>3. c.allowed_methods = (LET said == Says(t, Body(t, j), "allowed_methods", <<>>)
                             IN  IF said = <<>> THEN Methods ELSE ToSet(said))
    BY Zenon DEF LocationSays
  <2> QED  BY <1>4, <2>1, <2>2, <2>3, Zenon
<1>14. d.location = PathAt(u, j)
  <2>1. d.location = c.location /\ c.location = PathAt(t, j)
    BY Zenon DEF LocationTakes, LocationSays
  <2> QED  BY <2>1, AboveKept
<1> QED  BY <1>5, <1>6, <1>7, <1>8, <1>9, <1>10, <1>11, <1>12, <1>13, <1>14, Zenon DEF LocationSays

\* The fields of a location, by name.
LEMMA LocationFieldsAre ==
  DOMAIN NoLocation = {"location", "root", "index", "autoindex", "allowed_methods",
                       "return_target", "return_code", "cgi_extension", "cgi_path",
                       "upload_store", "upload_enable", "client_max_body_size", "error_pages"}
BY DEF NoLocation, LocationConfig

\* Fields no property speaks of.
Unspoken == {"return_target", "return_code", "error_pages"}

\* return and error_page set none of the fields that LocationSays is about.
LEMMA NothingTaken ==
  ASSUME NEW c, DOMAIN c = DOMAIN NoLocation, NEW d,
         \A other \in DOMAIN c : other \notin Unspoken => d[other] = c[other],
         NEW q, q[1][1] \in {"return", "error_page"}
  PROVE  LocationTakes(c, d, q)
<1>1. /\ d.location = c.location /\ d.root = c.root /\ d.index = c.index
      /\ d.upload_store = c.upload_store /\ d.cgi_extension = c.cgi_extension
      /\ d.cgi_path = c.cgi_path /\ d.autoindex = c.autoindex
      /\ d.upload_enable = c.upload_enable /\ d.allowed_methods = c.allowed_methods
      /\ d.client_max_body_size = c.client_max_body_size
  BY LocationFieldsAre DEF Unspoken
<1>2. PICK name : name = q[1][1] /\ (name = "return" \/ name = "error_page")
  OBVIOUS
<1> QED  BY <1>1, <1>2, Zenon DEF LocationTakes

\* A directive of a location that sets one field.
LEMMA OnlyLocation ==
  ASSUME NEW c, DOMAIN c = DOMAIN NoLocation, NEW d, NEW field, NEW value,
         Only(c, d, field, value), NEW q, q[1][1] = field, Tail(q) # <<>>,
         \/ /\ field \in {"root", "index", "upload_store", "cgi_extension", "cgi_path"}
            /\ value = Tail(q)[1]
         \/ field \in {"autoindex", "upload_enable"} /\ value = (Tail(q)[1] = <<"on">>)
         \/ field = "allowed_methods" /\ value = ToSet(Tail(q))
         \/ field = "client_max_body_size" /\ value = SizeOf(Tail(q)[1])
  PROVE  LocationTakes(c, d, q)
<1>1. PICK v, on, methods, size :
        v = Tail(q)[1] /\ on = (v = <<"on">>) /\ methods = ToSet(Tail(q)) /\ size = SizeOf(v)
  OBVIOUS
<1>2. d[field] = value /\ \A other \in DOMAIN c : other # field => d[other] = c[other]
  BY Zenon DEF Only
<1>3. \/ field \in {"root", "index", "upload_store", "cgi_extension", "cgi_path"} /\ value = v
      \/ field \in {"autoindex", "upload_enable"} /\ value = on
      \/ field = "allowed_methods" /\ value = methods
      \/ field = "client_max_body_size" /\ value = size
  BY <1>1, Zenon
<1>4. /\ d.location = c.location
      /\ d.root = IF field = "root" THEN v ELSE c.root
      /\ d.index = IF field = "index" THEN v ELSE c.index
      /\ d.upload_store = IF field = "upload_store" THEN v ELSE c.upload_store
      /\ d.cgi_extension = IF field = "cgi_extension" THEN v ELSE c.cgi_extension
      /\ d.cgi_path = IF field = "cgi_path" THEN v ELSE c.cgi_path
  BY <1>2, <1>3, LocationFieldsAre
<1>5. /\ d.autoindex = IF field = "autoindex" THEN on ELSE c.autoindex
      /\ d.upload_enable = IF field = "upload_enable" THEN on ELSE c.upload_enable
      /\ d.allowed_methods = IF field = "allowed_methods" THEN methods ELSE c.allowed_methods
      /\ d.client_max_body_size =
           IF field = "client_max_body_size" THEN size ELSE c.client_max_body_size
  BY <1>2, <1>3, LocationFieldsAre
<1> QED  BY <1>1, <1>4, <1>5, Zenon DEF LocationTakes

\* Every directive of a location does what its words say.
LEMMA LocationEffect ==
  ASSUME NEW c, DOMAIN c = DOMAIN NoLocation, NEW U, NEW q \in Seq(U),
         NEW d \in parseLocationDirective(c, q)
  PROVE  LocationTakes(c, d, q) /\ q[1][1] \in Directives
<1>1. DOMAIN c = {"location", "root", "index", "autoindex", "allowed_methods",
                  "return_target", "return_code", "cgi_extension", "cgi_path",
                  "upload_store", "upload_enable", "client_max_body_size", "error_pages"}
  BY LocationFieldsAre
<1>2. \/ q[1] = <<"root">> /\ d \in parseLocationRootDirective(c, q)
      \/ q[1] = <<"index">> /\ d \in parseIndexDirective(c, q)
      \/ q[1] = <<"autoindex">> /\ d \in parseAutoindexDirective(c, q)
      \/ q[1] = <<"allowed_methods">> /\ d \in parseAllowedMethodsDirective(c, q)
      \/ q[1] = <<"return">> /\ d \in parseReturnDirective(c, q)
      \/ q[1] = <<"cgi_extension">> /\ d \in parseCgiExtensionDirective(c, q)
      \/ q[1] = <<"cgi_path">> /\ d \in parseCgiPathDirective(c, q)
      \/ q[1] = <<"upload_store">> /\ d \in parseUploadStoreDirective(c, q)
      \/ q[1] = <<"upload_enable">> /\ d \in parseUploadEnableDirective(c, q)
      \/ q[1] = <<"client_max_body_size">> /\ d \in parseBodySizeDirective(c, q)
      \/ q[1] = <<"error_page">> /\ d \in parseErrorPageDirective(c, q)
  BY DEF parseLocationDirective
<1>3. \A name : <<name>>[1] = name
  OBVIOUS
<1>4. 2..2 = {2}
  OBVIOUS
<1>5. CASE q[1] = <<"root">> /\ d \in parseLocationRootDirective(c, q)
  <2>1. Len(q) = 2 /\ d \in LocationSetRoot(c, q[2])
    BY <1>4, <1>5 DEF parseLocationRootDirective, checkTokensSize
  <2>2. d = [c EXCEPT !["root"] = q[2]]
    BY <2>1, Zenon DEF LocationSetRoot, Accept
  <2>3. Only(c, d, "root", q[2])
    BY <1>1, <2>2, OnlyOne
  <2>4. q[1][1] = "root"
    BY <1>3, <1>5, Zenon
  <2>5. Tail(q) # <<>> /\ Tail(q)[1] = q[2]
    BY <2>1, OneValue
  <2> QED  BY <2>3, <2>4, <2>5, OnlyLocation DEF Directives
<1>6. CASE q[1] = <<"index">> /\ d \in parseIndexDirective(c, q)
  <2>1. Len(q) = 2 /\ d \in setIndex(c, q[2])
    BY <1>4, <1>6 DEF parseIndexDirective, checkTokensSize
  <2>2. d = [c EXCEPT !["index"] = q[2]]
    BY <2>1, Zenon DEF setIndex, Accept
  <2>3. Only(c, d, "index", q[2])
    BY <1>1, <2>2, OnlyOne
  <2>4. q[1][1] = "index"
    BY <1>3, <1>6, Zenon
  <2>5. Tail(q) # <<>> /\ Tail(q)[1] = q[2]
    BY <2>1, OneValue
  <2> QED  BY <2>3, <2>4, <2>5, OnlyLocation DEF Directives
<1>7. CASE q[1] = <<"autoindex">> /\ d \in parseAutoindexDirective(c, q)
  <2>1. Len(q) = 2 /\ \E on \in OnOrOff(q[2]) : d = [c EXCEPT !["autoindex"] = on]
    BY <1>4, <1>7 DEF parseAutoindexDirective, checkTokensSize
  <2>2. d = [c EXCEPT !["autoindex"] = (q[2] = <<"on">>)]
    BY <2>1 DEF OnOrOff
  <2>3. Only(c, d, "autoindex", q[2] = <<"on">>)
    BY <1>1, <2>2, OnlyOne
  <2>4. q[1][1] = "autoindex"
    BY <1>3, <1>7, Zenon
  <2>5. Tail(q) # <<>> /\ Tail(q)[1] = q[2]
    BY <2>1, OneValue
  <2> QED  BY <2>3, <2>4, <2>5, OnlyLocation DEF Directives
<1>8. CASE q[1] = <<"allowed_methods">> /\ d \in parseAllowedMethodsDirective(c, q)
  <2>1. Len(q) \in 2..4 /\ d \in setAllowedMethods(c, Tail(q))
    BY <1>8 DEF parseAllowedMethodsDirective, checkTokensSize
  <2>2. d = [c EXCEPT !["allowed_methods"] = ToSet(Tail(q))]
    BY <2>1, Zenon DEF setAllowedMethods, Accept
  <2>3. Only(c, d, "allowed_methods", ToSet(Tail(q)))
    BY <1>1, <2>2, OnlyOne
  <2>4. q[1][1] = "allowed_methods"
    BY <1>3, <1>8, Zenon
  <2>5. Tail(q) # <<>>
    <3>0. \A m \in 2..4 : m # 0 /\ m - 1 # 0
      OBVIOUS
    <3>1. Len(q) # 0 /\ Len(q) - 1 # 0
      BY <2>1, <3>0, Zenon
    <3>2. Len(<<>>) = 0
      OBVIOUS
    <3>3. Len(Tail(q)) = Len(q) - 1
      BY <3>1, <3>2, HeadTailProperties, Zenon
    <3> QED  BY <3>1, <3>2, <3>3, Zenon
  <2> QED  BY <2>3, <2>4, <2>5, OnlyLocation DEF Directives
<1>9. CASE q[1] = <<"return">> /\ d \in parseReturnDirective(c, q)
  <2>1. PICK n, target :
           \/ d \in setReturnCode(c, n)
           \/ \E e \in setReturnCode(c, n) : d \in setReturnTarget(e, target)
    <3> DEFINE coded == Len(q) = 3 \/ isInt(q[2])
               codes == IF coded THEN stringToInt(q[2]) ELSE {302}
               to == IF ~coded THEN q[2] ELSE IF Len(q) = 3 THEN q[3] ELSE <<>>
               withCode == UNION {setReturnCode(c, n) : n \in codes}
    <3>1. \/ d \in withCode
          \/ \E e \in withCode : d \in setReturnTarget(e, to)
      BY <1>9 DEF parseReturnDirective
    <3> HIDE DEF codes, to
    <3> QED  BY <3>1
  <2>2. ASSUME NEW e \in setReturnCode(c, n)
        PROVE  e = [c EXCEPT !["return_code"] = n]
    BY <2>2, Zenon DEF setReturnCode, Accept
  <2>3. ASSUME NEW e, d \in setReturnTarget(e, target)
        PROVE  d = [e EXCEPT !["return_target"] = target]
    BY <2>3, Zenon DEF setReturnTarget, Accept
  <2>4. \/ d = [c EXCEPT !["return_code"] = n]
        \/ d = [[c EXCEPT !["return_code"] = n] EXCEPT !["return_target"] = target]
    BY <2>1, <2>2, <2>3, Zenon
  <2>5. \A other \in DOMAIN c : other \notin Unspoken => d[other] = c[other]
    BY <1>1, <2>4 DEF Unspoken
  <2>6. q[1][1] = "return"
    BY <1>3, <1>9, Zenon
  <2> QED  BY <2>5, <2>6, NothingTaken DEF Directives
<1>10. CASE q[1] = <<"cgi_extension">> /\ d \in parseCgiExtensionDirective(c, q)
  <2>1. Len(q) = 2 /\ d \in setCgiExtension(c, q[2])
    BY <1>4, <1>10 DEF parseCgiExtensionDirective, checkTokensSize
  <2>2. d = [c EXCEPT !["cgi_extension"] = q[2]]
    BY <2>1, Zenon DEF setCgiExtension, Accept
  <2>3. Only(c, d, "cgi_extension", q[2])
    BY <1>1, <2>2, OnlyOne
  <2>4. q[1][1] = "cgi_extension"
    BY <1>3, <1>10, Zenon
  <2>5. Tail(q) # <<>> /\ Tail(q)[1] = q[2]
    BY <2>1, OneValue
  <2> QED  BY <2>3, <2>4, <2>5, OnlyLocation DEF Directives
<1>11. CASE q[1] = <<"cgi_path">> /\ d \in parseCgiPathDirective(c, q)
  <2>1. Len(q) = 2 /\ d \in setCgiPath(c, q[2])
    BY <1>4, <1>11 DEF parseCgiPathDirective, checkTokensSize
  <2>2. d = [c EXCEPT !["cgi_path"] = q[2]]
    BY <2>1, Zenon DEF setCgiPath, Accept
  <2>3. Only(c, d, "cgi_path", q[2])
    BY <1>1, <2>2, OnlyOne
  <2>4. q[1][1] = "cgi_path"
    BY <1>3, <1>11, Zenon
  <2>5. Tail(q) # <<>> /\ Tail(q)[1] = q[2]
    BY <2>1, OneValue
  <2> QED  BY <2>3, <2>4, <2>5, OnlyLocation DEF Directives
<1>12. CASE q[1] = <<"upload_store">> /\ d \in parseUploadStoreDirective(c, q)
  <2>1. Len(q) = 2 /\ d \in setUploadStore(c, q[2])
    BY <1>4, <1>12 DEF parseUploadStoreDirective, checkTokensSize
  <2>2. d = [c EXCEPT !["upload_store"] = q[2]]
    BY <2>1, Zenon DEF setUploadStore, Accept
  <2>3. Only(c, d, "upload_store", q[2])
    BY <1>1, <2>2, OnlyOne
  <2>4. q[1][1] = "upload_store"
    BY <1>3, <1>12, Zenon
  <2>5. Tail(q) # <<>> /\ Tail(q)[1] = q[2]
    BY <2>1, OneValue
  <2> QED  BY <2>3, <2>4, <2>5, OnlyLocation DEF Directives
<1>13. CASE q[1] = <<"upload_enable">> /\ d \in parseUploadEnableDirective(c, q)
  <2>1. Len(q) = 2 /\ \E on \in OnOrOff(q[2]) : d = [c EXCEPT !["upload_enable"] = on]
    BY <1>4, <1>13 DEF parseUploadEnableDirective, checkTokensSize
  <2>2. d = [c EXCEPT !["upload_enable"] = (q[2] = <<"on">>)]
    BY <2>1 DEF OnOrOff
  <2>3. Only(c, d, "upload_enable", q[2] = <<"on">>)
    BY <1>1, <2>2, OnlyOne
  <2>4. q[1][1] = "upload_enable"
    BY <1>3, <1>13, Zenon
  <2>5. Tail(q) # <<>> /\ Tail(q)[1] = q[2]
    BY <2>1, OneValue
  <2> QED  BY <2>3, <2>4, <2>5, OnlyLocation DEF Directives
<1>14. CASE q[1] = <<"client_max_body_size">> /\ d \in parseBodySizeDirective(c, q)
  <2>1. Len(q) = 2 /\ \E n \in convertBodySize(q[2]) : d \in setClientMaxBodySize(c, n)
    BY <1>4, <1>14 DEF parseBodySizeDirective, checkTokensSize
  <2>2. PICK n \in convertBodySize(q[2]) : d = [c EXCEPT !["client_max_body_size"] = n]
    BY <2>1, Zenon DEF setClientMaxBodySize, Accept
  <2>3. Only(c, d, "client_max_body_size", SizeOf(q[2]))
    BY <1>1, <2>2, OnlyOne, SizeIs
  <2>4. q[1][1] = "client_max_body_size"
    BY <1>3, <1>14, Zenon
  <2>5. Tail(q) # <<>> /\ Tail(q)[1] = q[2]
    BY <2>1, OneValue
  <2> QED  BY <2>3, <2>4, <2>5, OnlyLocation DEF Directives
<1>15. CASE q[1] = <<"error_page">> /\ d \in parseErrorPageDirective(c, q)
  <2>1. PICK v : d = [c EXCEPT !["error_pages"] = v]
    BY <1>15 DEF parseErrorPageDirective, addErrorPage, Accept
  <2>2. \A other \in DOMAIN c : other \notin Unspoken => d[other] = c[other]
    BY <1>1, <2>1 DEF Unspoken
  <2>3. q[1][1] = "error_page"
    BY <1>3, <1>15, Zenon
  <2> QED  BY <2>2, <2>3, NothingTaken DEF Directives
<1> QED  BY <1>2, <1>5, <1>6, <1>7, <1>8, <1>9, <1>10, <1>11, <1>12, <1>13, <1>14, <1>15, Zenon
-----------------------------------------------------------------------------
(* What has been written so far. *)

\* R is S with e as its last.
Ranks(e, S, R) ==
  /\ Cardinality(S) \in Nat /\ Cardinality(R) = Cardinality(S) + 1
  /\ Rank(e, R) = Cardinality(S) + 1
  /\ \A j \in S : Rank(j, R) = Rank(j, S) /\ Rank(j, S) \in 1..Cardinality(S)

\* The ranks do not change when a later one is added.
LEMMA RankMore ==
  ASSUME NEW e \in Nat, NEW S, S \subseteq 1..(e - 1), NEW R, R = S \cup {e}
  PROVE  Ranks(e, S, R)
<1>1. IsFiniteSet(1..(e - 1))
  BY FS_Interval
<1>2. IsFiniteSet(S) /\ Cardinality(S) \in Nat
  BY <1>1, FS_Subset, FS_CardinalityType, Zenon
<1>3. e \notin S /\ \A j \in S : j \in Nat /\ j < e
  OBVIOUS
<1>4. Cardinality(R) = Cardinality(S) + 1
  BY <1>2, <1>3, FS_AddElement
<1>5. {k \in R : k <= e} = R
  <2>1. \A k \in R : k <= e
    <3> TAKE k \in R
    <3>1. k \in S \/ k = e
      OBVIOUS
    <3> QED  BY <1>3, <3>1
  <2> QED  BY <2>1, Zenon
<1>6. ASSUME NEW j \in S
      PROVE  Rank(j, R) = Rank(j, S) /\ Rank(j, S) \in 1..Cardinality(S)
  <2> DEFINE B == {k \in S : k <= j}
  <2>1. {k \in R : k <= j} = B /\ B \in SUBSET S /\ j \in B
    BY <1>3
  <2> HIDE DEF B
  <2>2. IsFiniteSet(B) /\ Cardinality(B) \in Nat /\ Cardinality(B) <= Cardinality(S)
    BY <1>2, <2>1, FS_Subset, FS_CardinalityType
  <2>3. Cardinality(B) # 0
    BY <2>1, <2>2, FS_EmptySet
  <2>4. Rank(j, R) = Cardinality(B) /\ Rank(j, S) = Cardinality(B)
    BY <2>1, Zenon DEF Rank, B
  <2>5. Cardinality(B) \in 1..Cardinality(S)
    BY <1>2, <2>2, <2>3
  <2> QED  BY <2>4, <2>5, Zenon
<1>7. Rank(e, R) = Cardinality(S) + 1
  BY <1>4, <1>5, Zenon DEF Rank
<1> QED  BY <1>2, <1>4, <1>6, <1>7, Zenon DEF Ranks

\* A block that is open at the end of t.
InBlock(t, i, depth) ==
  /\ i \in 1..Len(t) /\ Depth(t, i) = depth
  /\ \A k \in i..Len(t) : Depth(t, k) >= depth

\* A block stays open as long as the depth is not below its own.
LEMMA BlockStays ==
  ASSUME NEW t, NEW u, NEW w, OneMore(t, u, w), NEW n, n = Len(t), NEW i, NEW depth,
         InBlock(t, i, depth), Depth(u, n + 1) >= depth
  PROVE  InBlock(u, i, depth)
<1>1. n \in Nat /\ Len(u) = n + 1
  BY Zenon DEF OneMore
<1>2. i \in 1..n /\ Depth(t, i) = depth /\ \A k \in i..n : Depth(t, k) >= depth
  BY Zenon DEF InBlock
<1>3. \A k \in 0..n : Depth(u, k) = Depth(t, k)
  BY DepthMore
<1>4. ASSUME NEW k \in i..(n + 1)
      PROVE  Depth(u, k) >= depth
  BY <1>1, <1>2, <1>3
<1>5. i \in 1..(n + 1) /\ Depth(u, i) = depth
  BY <1>1, <1>2, <1>3
<1> QED  BY <1>1, <1>4, <1>5, Zenon DEF InBlock

\* And ends at the line where it is.
LEMMA BlockCloses ==
  ASSUME NEW t, NEW u, NEW w, OneMore(t, u, w), NEW n, n = Len(t), NEW i, NEW depth,
         InBlock(t, i, depth), Depth(u, n + 1) < depth
  PROVE  EndsAt(u, i, n + 1) /\ UpTo(u, n + 1) = u /\ i \in Nat
<1>1. n \in Nat /\ Len(u) = n + 1 /\ UpTo(u, n + 1) = u
  BY Zenon DEF OneMore
<1>2. i \in 1..n /\ Depth(t, i) = depth /\ \A k \in i..n : Depth(t, k) >= depth
  BY Zenon DEF InBlock
<1>3. \A k \in 0..n : Depth(u, k) = Depth(t, k)
  BY DepthMore
<1>4. Depth(u, i) = depth /\ n + 1 \in (i + 1)..(n + 1) /\ n + 1 - 1 = n
  BY <1>1, <1>2, <1>3
<1>5. \A k \in (i + 1)..n : Depth(u, k) >= depth
  BY <1>1, <1>2, <1>3
<1> QED  BY <1>1, <1>2, <1>4, <1>5 DEF EndsAt

\* A block that opens at the last line has no lines yet.
LEMMA BlockOpens ==
  ASSUME NEW t, NEW u, NEW w, OneMore(t, u, w), NEW n, n = Len(t), Depth(u, n + 1) \in Nat
  PROVE  InBlock(u, n + 1, Depth(u, n + 1)) /\ Body(u, n + 1) = {}
<1>1. n \in Nat /\ Len(u) = n + 1
  BY Zenon DEF OneMore
<1>2. n + 1 \in 1..(n + 1) /\ (n + 1)..(n + 1) = {n + 1} /\ (n + 1 + 1)..(n + 1) = {}
      /\ Depth(u, n + 1) >= Depth(u, n + 1)
  BY <1>1
<1> QED  BY <1>1, <1>2 DEF InBlock, Body

\* One more line is one more server or location if it opens one.
LEMMA LinesMore ==
  ASSUME NEW t, NEW u, NEW w, OneMore(t, u, w), NEW n, n = Len(t)
  PROVE  /\ ServersAt(t) \subseteq 1..n
         /\ ServersAt(u) = ServersAt(t) \cup {k \in {n + 1} : w = ServerLine}
         /\ \A i \in 1..n :
              /\ LocationsAt(t, i) \subseteq i..n
              /\ LocationsAt(u, i) = LocationsAt(t, i) \cup {k \in {n + 1} : IsLocationLine(w)}
<1>1. n \in Nat /\ Len(u) = n + 1 /\ u[n + 1] = w /\ DOMAIN t = 1..n /\ DOMAIN u = 1..(n + 1)
      /\ \A k \in 1..n : u[k] = t[k]
  BY Zenon DEF OneMore
<1>2. ServersAt(t) = {k \in 1..n : t[k] = ServerLine}
      /\ ServersAt(u) = {k \in 1..(n + 1) : u[k] = ServerLine}
  BY <1>1, Zenon DEF ServersAt
<1>3. PICK line : line = ServerLine
  OBVIOUS
<1>4. 1..(n + 1) = (1..n) \cup {n + 1} /\ n + 1 \notin 1..n
  BY <1>1
<1>5. ServersAt(u) = ServersAt(t) \cup {k \in {n + 1} : w = ServerLine}
  BY <1>1, <1>2, <1>3, <1>4
<1>6. ASSUME NEW i \in 1..n
      PROVE  /\ LocationsAt(t, i) \subseteq i..n
             /\ LocationsAt(u, i) = LocationsAt(t, i) \cup {k \in {n + 1} : IsLocationLine(w)}
  <2>1. i..(n + 1) = (i..n) \cup {n + 1} /\ i..n \subseteq 1..n
    BY <1>1
  <2>2. LocationsAt(t, i) = {k \in i..n : IsLocationLine(t[k])}
        /\ LocationsAt(u, i) = {k \in i..(n + 1) : IsLocationLine(u[k])}
    BY <1>1, Zenon DEF LocationsAt
  <2> QED  BY <1>1, <2>1, <2>2
<1> QED  BY <1>2, <1>5, <1>6

\* Of the locations at J with one path, the first.
FirstOf(t, J) == {j \in J : \A k \in J : k < j => PathAt(t, k) # PathAt(t, j)}

LocationDone(t, l, i, j) == \E f \in Nat : EndsAt(t, j, f) /\ LocationSays(UpTo(t, f), l, i, j)

HasPath(s, path) == \E k \in DOMAIN s.locations : s.locations[k].location = path

\* The server s, whose block is opened at i, has got the locations at J.
LocationsWritten(t, s, i, J) ==
  LET first == FirstOf(t, J)
  IN  /\ Len(s.locations) = Cardinality(first)
      /\ \A j \in first : LocationDone(t, s.locations[Rank(j, first)], i, j)
      /\ \A path : HasPath(s, path) <=> \E j \in J : PathAt(t, j) = path

\* A location that has ended stays as it was read.
LEMMA DoneStays ==
  ASSUME NEW t, NEW u, NEW w, OneMore(t, u, w), NEW l, NEW i, NEW j \in Nat,
         LocationDone(t, l, i, j)
  PROVE  LocationDone(u, l, i, j)
<1>1. PICK f \in Nat : EndsAt(t, j, f) /\ LocationSays(UpTo(t, f), l, i, j)
  BY Zenon DEF LocationDone
<1>2. EndsAt(u, j, f) /\ UpTo(u, f) = UpTo(t, f)
  BY <1>1, BlockKept
<1> QED  BY <1>1, <1>2, Zenon DEF LocationDone

\* And so do the locations that were written.
LEMMA LocationsStay ==
  ASSUME NEW t, NEW u, NEW w, OneMore(t, u, w), NEW n, n = Len(t), NEW i, NEW J,
         J \subseteq 1..n, NEW s, LocationsWritten(t, s, i, J),
         NEW d, d.locations = s.locations
  PROVE  LocationsWritten(u, d, i, J)
<1>1. n \in Nat /\ \A k \in 1..n : u[k] = t[k]
  BY Zenon DEF OneMore
<1>2. \A k \in J : PathAt(u, k) = PathAt(t, k) /\ k \in Nat
  <2>1. \A k \in J : k \in 1..n /\ k \in Nat
    BY <1>1
  <2> QED  BY <1>1, <2>1, Zenon DEF PathAt
<1>3. PICK F : F = FirstOf(t, J)
  OBVIOUS
<1>4. FirstOf(u, J) = F /\ F \subseteq J
  BY <1>2, <1>3, Zenon DEF FirstOf
<1>5. /\ Len(d.locations) = Cardinality(F)
      /\ \A j \in F : LocationDone(t, d.locations[Rank(j, F)], i, j)
  BY <1>3, Zenon DEF LocationsWritten
<1>6. \A j \in F : LocationDone(u, d.locations[Rank(j, F)], i, j)
  <2> TAKE j \in F
  <2>1. PICK l : l = d.locations[Rank(j, F)]
    OBVIOUS
  <2>2. LocationDone(t, l, i, j) /\ j \in Nat
    BY <1>2, <1>4, <1>5, <2>1, Zenon
  <2> QED  BY <2>1, <2>2, DoneStays
<1>7. \A path : HasPath(d, path) <=> \E j \in J : PathAt(u, j) = path
  <2>1. \A path : HasPath(d, path) <=> HasPath(s, path)
    BY Zenon DEF HasPath
  <2>2. \A path : HasPath(s, path) <=> \E j \in J : PathAt(t, j) = path
    BY Zenon DEF LocationsWritten
  <2> QED  BY <1>2, <2>1, <2>2, Zenon
<1> QED  BY <1>4, <1>5, <1>6, <1>7, Zenon DEF LocationsWritten

\* A location that ends is added, unless there is one with its path.
LEMMA LocationAdded ==
  ASSUME NEW t, NEW i, NEW j \in Nat, NEW J, J \subseteq 1..(j - 1), NEW s, "locations" \in DOMAIN s,
         NEW U, s.locations \in Seq(U), LocationsWritten(t, s, i, J),
         NEW l, LocationDone(t, l, i, j), l.location = PathAt(t, j), NEW K, K = J \cup {j}
  PROVE  LocationsWritten(t, addLocation(s, l), i, K)
<1>1. PICK F : F = FirstOf(t, J)
  OBVIOUS
<1>2. PICK q \in Seq(U), m \in Nat : q = s.locations /\ m = Len(q) /\ DOMAIN q = 1..m
  <2>1. PICK q \in Seq(U) : q = s.locations
    BY Zenon
  <2>2. Len(q) \in Nat /\ DOMAIN q = 1..Len(q)
    BY <2>1
  <2> QED  BY <2>1, <2>2, Zenon
<1>3. /\ m = Cardinality(F) /\ \A k \in F : LocationDone(t, q[Rank(k, F)], i, k)
      /\ \A path : HasPath(s, path) <=> \E k \in J : PathAt(t, k) = path
  BY <1>1, <1>2, Zenon DEF LocationsWritten
<1>4. \A k \in J : k \in Nat /\ k < j /\ ~(j < k)
  OBVIOUS
<1>5. PICK p : p = l.location /\ p = PathAt(t, j)
  OBVIOUS
<1>6. F \subseteq J /\ F \subseteq 1..(j - 1)
  BY <1>1, Zenon DEF FirstOf
<1>7. CASE HasPath(s, p)
  <2>1. addLocation(s, l) = s
    BY <1>5, <1>7, Zenon DEF addLocation, HasPath
  <2>2. PICK k \in J : PathAt(t, k) = p
    BY <1>3, <1>7, Zenon
  <2>3. FirstOf(t, K) = F
    <3>1. ASSUME NEW x \in FirstOf(t, K)
          PROVE  x \in F
      <4>1. x \in K /\ \A y \in K : y < x => PathAt(t, y) # PathAt(t, x)
        BY Zenon DEF FirstOf
      <4>2. x # j
        BY <1>4, <1>5, <2>2, <4>1, Zenon
      <4>3. x \in J /\ \A y \in J : y \in K
        BY <4>1, <4>2
      <4> QED  BY <1>1, <4>1, <4>3, Zenon DEF FirstOf
    <3>2. ASSUME NEW x \in F
          PROVE  x \in FirstOf(t, K)
      <4>1. x \in J /\ \A y \in J : y < x => PathAt(t, y) # PathAt(t, x)
        BY <1>1, Zenon DEF FirstOf
      <4>2. \A y \in K : y \in J \/ y = j
        OBVIOUS
      <4> QED  BY <1>4, <4>1, <4>2, Zenon DEF FirstOf
    <3> QED  BY <3>1, <3>2
  <2>4. \A path : HasPath(s, path) <=> \E x \in K : PathAt(t, x) = path
    <3>1. \A x \in K : x \in J \/ x = j
      OBVIOUS
    <3> QED  BY <1>3, <1>5, <2>2, <3>1, Zenon
  <2> QED  BY <1>2, <1>3, <2>1, <2>3, <2>4, Zenon DEF LocationsWritten
<1>8. CASE ~HasPath(s, p)
  <2>1. PICK d, r : d = addLocation(s, l) /\ d = [s EXCEPT !.locations = Append(q, l)]
                    /\ r = Append(q, l)
    BY <1>2, <1>5, <1>8, Zenon DEF addLocation, HasPath
  <2>2. d.locations = r
    BY <2>1
  <2>3. DOMAIN r = 1..(m + 1) /\ Len(r) = m + 1 /\ r[m + 1] = l /\ \A k \in 1..m : r[k] = q[k]
    <3>1. PICK V : V = U \cup {l}
      OBVIOUS
    <3>2. q \in Seq(V) /\ l \in V
      BY <1>2, <3>1
    <3> QED  BY ONLY <1>2, <2>1, <3>2
  <2>4. PICK G : G = F \cup {j}
    OBVIOUS
  <2>5. FirstOf(t, K) = G
    <3>1. ASSUME NEW x \in FirstOf(t, K)
          PROVE  x \in G
      <4>1. x \in K /\ \A y \in K : y < x => PathAt(t, y) # PathAt(t, x)
        BY Zenon DEF FirstOf
      <4>2. CASE x = j
        BY <2>4, <4>2
      <4>3. CASE x # j
        <5>1. x \in J /\ \A y \in J : y \in K
          BY <4>1, <4>3
        <5> QED  BY <1>1, <2>4, <4>1, <5>1 DEF FirstOf
      <4> QED  BY <4>2, <4>3
    <3>2. ASSUME NEW x \in F
          PROVE  x \in FirstOf(t, K)
      <4>1. x \in J /\ \A y \in J : y < x => PathAt(t, y) # PathAt(t, x)
        BY <1>1, Zenon DEF FirstOf
      <4>2. \A y \in K : y \in J \/ y = j
        OBVIOUS
      <4> QED  BY <1>4, <4>1, <4>2, Zenon DEF FirstOf
    <3>3. j \in FirstOf(t, K)
      <4>1. \A y \in J : PathAt(t, y) # PathAt(t, j)
        BY <1>3, <1>5, <1>8, Zenon
      <4>2. ~(j < j) /\ j \in K /\ \A y \in K : y \in J \/ y = j
        OBVIOUS
      <4> QED  BY <4>1, <4>2, Zenon DEF FirstOf
    <3> QED  BY <2>4, <3>1, <3>2, <3>3
  <2>6. /\ Cardinality(G) = m + 1 /\ Rank(j, G) = m + 1
        /\ \A x \in F : Rank(x, G) = Rank(x, F) /\ Rank(x, F) \in 1..m
    <3>1. Ranks(j, F, G)
      BY <1>6, <2>4, RankMore, Zenon
    <3> QED  BY <1>3, <3>1, Zenon DEF Ranks
  <2>7. ASSUME NEW x \in G
        PROVE  LocationDone(t, r[Rank(x, G)], i, x)
    <3>1. CASE x \in F
      BY <1>3, <2>3, <2>6, <3>1, Zenon
    <3>2. CASE x = j
      BY <2>3, <2>6, <3>2, Zenon
    <3> QED  BY <2>4, <2>7, <3>1, <3>2
  <2>8. \A path : HasPath(d, path) <=> \E x \in K : PathAt(t, x) = path
    <3>1. \A path : HasPath(d, path) <=> HasPath(s, path) \/ path = p
      <4>1. 1..(m + 1) = (1..m) \cup {m + 1}
        BY <1>2
      <4>2. \A path : HasPath(d, path) <=> \E k \in 1..(m + 1) : r[k].location = path
        BY <2>2, <2>3, Zenon DEF HasPath
      <4>3. \A path : HasPath(s, path) <=> \E k \in 1..m : q[k].location = path
        BY <1>2, Zenon DEF HasPath
      <4>4. \A k \in 1..(m + 1) : k \in 1..m \/ k = m + 1
        BY <4>1
      <4>5. m + 1 \in 1..(m + 1) /\ \A k \in 1..m : k \in 1..(m + 1)
        BY <4>1
      <4> QED  BY <1>5, <2>3, <4>2, <4>3, <4>4, <4>5, Zenon
    <3>2. \A x : x \in K <=> x \in J \/ x = j
      OBVIOUS
    <3> QED  BY <1>3, <1>5, <3>1, <3>2, Zenon
  <2> QED  BY <2>1, <2>2, <2>3, <2>5, <2>6, <2>7, <2>8, Zenon DEF LocationsWritten
<1> QED  BY <1>7, <1>8

\* A block without lines leaves every default.
LEMMA NothingSaid ==
  /\ \A t, name, default : Says(t, {}, name, default) = default
  /\ \A t, name, default : Text(t, {}, name, default) = default
  /\ \A t, default : BodySize(t, {}, default) = default
<1>1. \A t, name, default : Says(t, {}, name, default) = default
  <2>1. \A t, name : {i \in {} : t[i] # <<>> /\ t[i][1] = name} = {}
    OBVIOUS
  <2> QED  BY <2>1, Zenon DEF Says
<1>2. \A default : <<default>>[1] = default
  OBVIOUS
<1> QED  BY <1>1, <1>2, Zenon DEF Text, BodySize

\* A server whose block begins.
LEMMA ServerBegins ==
  ASSUME NEW t, NEW i, Body(t, i) = {}
  PROVE  ServerSettings(t, ServerConfig, i) /\ LocationsWritten(t, ServerConfig, i, {})
<1>1. PICK c : c = ServerConfig
  OBVIOUS
<1>2. /\ c.host = <<>> /\ c.server_name = <<"localhost">> /\ c.locations = <<>>
      /\ c.client_max_body_size = Kilo * Kilo /\ c.listen = 80
  BY <1>1 DEF ServerConfig
<1>3. c.root = <<"www", "/">> /\ c.index = <<"index", ".", "html">>
  <2>1. \A h, n, p, r, x, m : [listen |-> 80, host |-> h, server_name |-> n,
                            error_pages |-> p, client_max_body_size |-> Kilo * Kilo,
                            root |-> r, index |-> x, allowed_methods |-> m,
                            locations |-> <<>>].root = r
    OBVIOUS
  <2>2. \A h, n, p, r, x, m : [listen |-> 80, host |-> h, server_name |-> n,
                            error_pages |-> p, client_max_body_size |-> Kilo * Kilo,
                            root |-> r, index |-> x, allowed_methods |-> m,
                            locations |-> <<>>].index = x
    OBVIOUS
  <2> QED  BY <1>1, <2>1, <2>2, Zenon DEF ServerConfig
<1>4. AsFolder(<<"www", "/">>) = <<"www", "/">>
  <2>1. \A x, y : Last(<<x, y>>) = y
    BY DEF Last
  <2> QED  BY <2>1, Zenon DEF AsFolder
<1>5. ServerSettings(t, c, i)
  <2>1. /\ Text(t, {}, "host", <<>>) = <<>>
        /\ Text(t, {}, "server_name", <<"localhost">>) = <<"localhost">>
        /\ Text(t, {}, "root", <<"www", "/">>) = <<"www", "/">>
        /\ Text(t, {}, "index", <<"index", ".", "html">>) = <<"index", ".", "html">>
    BY ONLY NothingSaid, Zenon
  <2>2. BodySize(t, {}, Kilo * Kilo) = Kilo * Kilo
    BY ONLY NothingSaid, Zenon
  <2>3. Says(t, {}, "listen", <<>>) = <<>>
    BY ONLY NothingSaid, Zenon
  <2> QED  BY <1>2, <1>3, <1>4, <2>1, <2>2, <2>3, Zenon DEF ServerSettings
<1>6. FirstOf(t, {}) = {} /\ Cardinality({}) = 0 /\ Len(<<>>) = 0 /\ DOMAIN <<>> = {}
  BY FS_EmptySet DEF FirstOf
<1>7. \A path : ~HasPath(c, path)
  BY <1>2, <1>6, Zenon DEF HasPath
<1>8. LocationsWritten(t, c, i, {})
  BY <1>2, <1>6, <1>7, Zenon DEF LocationsWritten
<1> QED  BY <1>1, <1>5, <1>8, Zenon

\* A location whose block begins, in the server s.
LEMMA LocationBegins ==
  ASSUME NEW t, NEW u, NEW w, OneMore(t, u, w), NEW n, n = Len(t), NEW i, NEW s,
         ServerSettings(t, s, i), Body(u, n + 1) = {},
         NEW l \in setLocation(LocationConfig(PathAt(u, n + 1), s.client_max_body_size),
                               PathAt(u, n + 1))
  PROVE  LocationSays(u, l, i, n + 1)
<1>1. PICK path, size, j : path = PathAt(u, j) /\ size = s.client_max_body_size /\ j = n + 1
  OBVIOUS
<1>2. Inherited(u, i, j) = size
  <2>1. j - 1 = n /\ UpTo(u, n) = t
    <3>1. n \in Nat /\ UpTo(t, n) = t /\ \A k \in 0..n : UpTo(u, k) = UpTo(t, k)
      BY Zenon DEF OneMore
    <3> QED  BY <1>1, <3>1
  <2>2. size = BodySize(t, Body(t, i), Kilo * Kilo)
    BY <1>1, Zenon DEF ServerSettings
  <2> QED  BY <2>1, <2>2, Zenon DEF Inherited
<1>3. l = [LocationConfig(path, size) EXCEPT !.location = path]
  BY <1>1, Zenon DEF setLocation, Accept
<1>4. /\ l.location = path /\ l.root = <<>> /\ l.index = <<>> /\ l.autoindex = FALSE
      /\ l.upload_enable = FALSE /\ l.upload_store = <<>>
      /\ l.cgi_extension = <<>> /\ l.cgi_path = <<>>
      /\ l.client_max_body_size = size
  BY <1>3 DEF LocationConfig
<1>5. l.allowed_methods = Methods
  BY <1>3 DEF LocationConfig
<1>6. <<>> # <<"on">>
  OBVIOUS
<1>7. Body(u, j) = {}
  BY <1>1
<1>8. /\ Text(u, {}, "root", <<>>) = <<>> /\ Text(u, {}, "index", <<>>) = <<>>
      /\ Text(u, {}, "upload_store", <<>>) = <<>> /\ Text(u, {}, "cgi_extension", <<>>) = <<>>
      /\ Text(u, {}, "cgi_path", <<>>) = <<>> /\ Text(u, {}, "autoindex", <<>>) = <<>>
      /\ Text(u, {}, "upload_enable", <<>>) = <<>>
  BY ONLY NothingSaid, Zenon
<1>9. l.autoindex = (Text(u, {}, "autoindex", <<>>) = <<"on">>)
      /\ l.upload_enable = (Text(u, {}, "upload_enable", <<>>) = <<"on">>)
  BY <1>4, <1>6, <1>8
<1>10. Says(u, {}, "allowed_methods", <<>>) = <<>> /\ BodySize(u, {}, size) = size
  BY ONLY NothingSaid, Zenon
<1>11. LocationSays(u, l, i, j)
  BY <1>1, <1>2, <1>4, <1>5, <1>7, <1>8, <1>9, <1>10, Zenon DEF LocationSays
<1> QED  BY <1>1, <1>11, Zenon

\* A server whose block has ended.
LEMMA ServerEnds ==
  ASSUME NEW t, Len(t) \in Nat, DOMAIN t = 1..Len(t), NEW s, NEW i \in Nat,
         ServerSettings(t, s, i), LocationsWritten(t, s, i, LocationsAt(t, i))
  PROVE  ServerSays(t, s, i)
<1>1. FirstAt(t, i) = FirstOf(t, LocationsAt(t, i))
  BY Zenon DEF FirstAt, FirstOf
<1>2. PICK F : F = FirstAt(t, i)
  OBVIOUS
<1>3. /\ Len(s.locations) = Cardinality(F)
      /\ \A j \in F : LocationDone(t, s.locations[Rank(j, F)], i, j)
  BY <1>1, <1>2, Zenon DEF LocationsWritten
<1>4. \A j \in F : j \in Nat
  <2>1. F \subseteq LocationsAt(t, i)
    BY <1>2, Zenon DEF FirstAt
  <2>2. LocationsAt(t, i) \subseteq Nat
    BY DEF LocationsAt
  <2> QED  BY <2>1, <2>2, Zenon
<1>5. ASSUME NEW j \in F
      PROVE  LocationSays(UpTo(t, EndOf(t, j)), s.locations[Rank(j, F)], i, j)
  <2>1. PICK f \in Nat : EndsAt(t, j, f) /\ LocationSays(UpTo(t, f), s.locations[Rank(j, F)], i, j)
    BY <1>3, Zenon DEF LocationDone
  <2>2. j \in Nat
    BY <1>4
  <2>3. EndOf(t, j) = f
    BY <2>1, <2>2, EndIs
  <2> QED  BY <2>1, <2>3, Zenon
<1> QED  BY <1>2, <1>3, <1>5, Zenon DEF ServerSays, ServerSettings

ServerDone(t, s, i) == \E f \in Nat : EndsAt(t, i, f) /\ ServerSays(UpTo(t, f), s, i)

\* The servers q are those whose blocks are opened at I.
ServersWritten(t, q, I) ==
  /\ Len(q) = Cardinality(I)
  /\ \A i \in I : ServerDone(t, q[Rank(i, I)], i)

\* Servers that were written stay.
LEMMA ServersStay ==
  ASSUME NEW t, NEW u, NEW w, OneMore(t, u, w), NEW I, I \subseteq Nat, NEW q,
         ServersWritten(t, q, I)
  PROVE  ServersWritten(u, q, I)
<1>1. ASSUME NEW i \in I
      PROVE  ServerDone(u, q[Rank(i, I)], i)
  <2>1. PICK f \in Nat : EndsAt(t, i, f) /\ ServerSays(UpTo(t, f), q[Rank(i, I)], i)
    BY Zenon DEF ServersWritten, ServerDone
  <2>2. i \in Nat
    OBVIOUS
  <2>3. EndsAt(u, i, f) /\ UpTo(u, f) = UpTo(t, f)
    BY <2>1, <2>2, BlockKept
  <2> QED  BY <2>1, <2>3, Zenon DEF ServerDone
<1> QED  BY <1>1, Zenon DEF ServersWritten

\* A server that ends is written after those above it.
LEMMA ServerAdded ==
  ASSUME NEW t, NEW i \in Nat, NEW I, I \subseteq 1..(i - 1), NEW U, NEW q \in Seq(U),
         ServersWritten(t, q, I), NEW s, ServerDone(t, s, i), NEW K, K = I \cup {i}
  PROVE  ServersWritten(t, Append(q, s), K)
<1>1. PICK m \in Nat : m = Len(q)
  OBVIOUS
<1>2. m = Cardinality(I) /\ \A k \in I : ServerDone(t, q[Rank(k, I)], k)
  BY <1>1, Zenon DEF ServersWritten
<1>3. PICK r : r = Append(q, s)
  OBVIOUS
<1>4. Len(r) = m + 1 /\ r[m + 1] = s /\ \A k \in 1..m : r[k] = q[k]
  <2>1. PICK V : V = U \cup {s}
    OBVIOUS
  <2>2. q \in Seq(V) /\ s \in V
    BY <2>1
  <2> QED  BY ONLY <1>1, <1>3, <2>2
<1>5. Ranks(i, I, K)
  BY RankMore, Zenon
<1>6. /\ Cardinality(K) = m + 1 /\ Rank(i, K) = m + 1
      /\ \A x \in I : Rank(x, K) = Rank(x, I) /\ Rank(x, I) \in 1..m
  BY <1>2, <1>5, Zenon DEF Ranks
<1>7. ASSUME NEW x \in K
      PROVE  ServerDone(t, r[Rank(x, K)], x)
  <2>1. CASE x \in I
    BY <1>2, <1>4, <1>6, <2>1, Zenon
  <2>2. CASE x = i
    BY <1>4, <1>6, <2>2, Zenon
  <2> QED  BY <1>7, <2>1, <2>2
<1> QED  BY <1>3, <1>4, <1>6, <1>7, Zenon DEF ServersWritten
-----------------------------------------------------------------------------
(* What has been read, line by line. *)

\* A line that neither opens nor ends a block.
Inner(w) == ~Opens(w) /\ w # BlockEnd

\* A line is of one kind.
LEMMA LineKinds ==
  ASSUME NEW w, LineOK(w)
  PROVE  /\ w = <<>> => Inner(w)
         /\ w = BlockEnd => ~Opens(w)
         /\ w = ServerLine => ~IsLocationLine(w) /\ w # BlockEnd
         /\ IsLocationLine(w) => w # ServerLine /\ w # BlockEnd
         /\ w # <<>> /\ words(w) # <<>> /\ words(w)[1][1] \in Directives => Inner(w)
<1>1. BlockEnd # <<>> /\ BlockEnd[1] = "}"
  BY DEF BlockEnd
<1>2. "}" # "location" /\ "}" # "server" /\ "server" # "location"
  OBVIOUS
<1>3. w \in Seq(STRING) /\ (IsLocationLine(w) => Sets(w, "location"))
  BY LocationLineIs, Zenon DEF LineOK
<1>4. Sets(ServerLine, "server") /\ ServerLine # BlockEnd
  BY ServerLineIs
<1>5. Opens(w) => Sets(w, "server") \/ Sets(w, "location")
  BY <1>3, <1>4, Zenon DEF Opens
<1>6. w = <<>> => Inner(w)
  BY <1>1, <1>5, Zenon DEF Inner, Sets
<1>7. w = BlockEnd => ~Opens(w)
  BY <1>1, <1>2, <1>5, Zenon DEF Sets
<1>8. IsLocationLine(w) => w # ServerLine /\ w # BlockEnd
  BY <1>1, <1>2, <1>3, <1>4, Zenon DEF Sets
<1>9. ASSUME w # <<>>, words(w) # <<>>, words(w)[1][1] \in Directives
      PROVE  Inner(w)
  <2>1. w[1] \in Directives
    BY <1>9, WordsBegin, Zenon
  <2>2. "}" \notin Directives
    BY Zenon DEF Directives
  <2>3. ~Opens(w)
    BY <1>5, <2>1, OpeningsAreNone, Zenon DEF Sets
  <2> QED  BY <1>1, <2>1, <2>2, <2>3, Zenon DEF Inner
<1> QED  BY <1>4, <1>6, <1>7, <1>8, <1>9, Zenon

\* The depth after each kind of line.
LEMMA DepthNext ==
  ASSUME NEW t, NEW u, NEW w, OneMore(t, u, w), NEW n, n = Len(t)
  PROVE  /\ Depth(t, n) \in Int
         /\ Inner(w) => Depth(u, n + 1) = Depth(t, n)
         /\ Opens(w) /\ w # BlockEnd => Depth(u, n + 1) = Depth(t, n) + 1
         /\ w = BlockEnd /\ ~Opens(w) => Depth(u, n + 1) = Depth(t, n) - 1
<1>1. n \in 0..n
  <2>1. n \in Nat
    BY Zenon DEF OneMore
  <2> QED  BY <2>1
<1>2. PICK a, b, opens, ends :
        a = Depth(t, n) /\ b = Depth(u, n + 1) /\ opens = Opens(w) /\ ends = (w = BlockEnd)
  OBVIOUS
<1>3. a \in Int /\ Depth(u, n + 1) = Depth(t, n) + OneIf(Opens(w)) - OneIf(w = BlockEnd)
  BY <1>1, <1>2, DepthMore
<1>4. OneIf(TRUE) = 1 /\ OneIf(FALSE) = 0
  BY DEF OneIf
<1>5. CASE Inner(w)
  <2>1. OneIf(Opens(w)) = 0 /\ OneIf(w = BlockEnd) = 0
    BY <1>5, Zenon DEF Inner, OneIf
  <2>2. b = a + 0 - 0
    BY <1>2, <1>3, <2>1, Zenon
  <2>3. b = a
    BY ONLY <1>3, <2>2
  <2> QED  BY <1>2, <1>3, <1>5, <2>3, Zenon DEF Inner
<1>6. CASE Opens(w) /\ w # BlockEnd
  <2>1. OneIf(Opens(w)) = 1 /\ OneIf(w = BlockEnd) = 0
    BY <1>6, Zenon DEF OneIf
  <2>2. b = a + 1 - 0
    BY <1>2, <1>3, <2>1, Zenon
  <2>3. b = a + 1
    BY ONLY <1>3, <2>2
  <2> QED  BY <1>2, <1>3, <1>6, <2>3, Zenon DEF Inner
<1>7. CASE w = BlockEnd /\ ~Opens(w)
  <2>1. OneIf(Opens(w)) = 0 /\ OneIf(w = BlockEnd) = 1
    BY <1>7, Zenon DEF OneIf
  <2>2. b = a + 0 - 1
    BY <1>2, <1>3, <2>1, Zenon
  <2>3. b = a - 1
    BY ONLY <1>3, <2>2
  <2> QED  BY <1>2, <1>3, <1>7, <2>3, Zenon DEF Inner
<1> QED  BY <1>2, <1>3, <1>5, <1>6, <1>7, Zenon

\* t ends in the server block opened at i; the servers above it are q.
InServer(t, q, s, i) ==
  /\ i \in ServersAt(t) /\ InBlock(t, i, 1) /\ ServersAt(t) \subseteq 1..i
  /\ ServersWritten(t, q, ServersAt(t) \ {i})
  /\ ServerSettings(t, s, i)

\* And in the location opened at j; the locations above it are those of s.
InLocation(t, s, l, i, j) ==
  /\ j \in LocationsAt(t, i) /\ InBlock(t, j, 2) /\ LocationsAt(t, i) \subseteq 1..j
  /\ LocationsWritten(t, s, i, LocationsAt(t, i) \ {j})
  /\ LocationSays(t, l, i, j)

FilePage(t, q) == Depth(t, Len(t)) = 0 /\ ServersWritten(t, q, ServersAt(t))

ServerPage(t, q, s) ==
  /\ Depth(t, Len(t)) = 1
  /\ \E i \in Nat : InServer(t, q, s, i) /\ LocationsWritten(t, s, i, LocationsAt(t, i))

LocationPage(t, q, s, l) ==
  /\ Depth(t, Len(t)) = 2
  /\ \E i, j \in Nat : InServer(t, q, s, i) /\ InLocation(t, s, l, i, j)

\* A line that does not open a block adds to none of the lists.
LEMMA SameBlocks ==
  ASSUME NEW t, NEW u, NEW w, OneMore(t, u, w), ~Opens(w)
  PROVE  /\ ServersAt(u) = ServersAt(t)
         /\ \A i \in 1..Len(t) : LocationsAt(u, i) = LocationsAt(t, i)
<1>1. PICK n : n = Len(t)
  OBVIOUS
<1>2. w # ServerLine /\ ~IsLocationLine(w)
  BY Zenon DEF Opens
<1>3. /\ ServersAt(u) = ServersAt(t) \cup {k \in {n + 1} : w = ServerLine}
      /\ \A i \in 1..n :
           LocationsAt(u, i) = LocationsAt(t, i) \cup {k \in {n + 1} : IsLocationLine(w)}
  BY <1>1, LinesMore
<1>4. {k \in {n + 1} : w = ServerLine} = {} /\ {k \in {n + 1} : IsLocationLine(w)} = {}
  BY <1>2, Zenon
<1>5. \A S : S \cup {} = S
  OBVIOUS
<1> QED  BY <1>1, <1>3, <1>4, <1>5, Zenon

\* A line that opens no server and does not end one leaves the server open.
LEMMA InServerStays ==
  ASSUME NEW t, NEW u, NEW w, OneMore(t, u, w), NEW n, n = Len(t), w # ServerLine,
         Depth(u, n + 1) >= 1, NEW q, NEW s, NEW i, InServer(t, q, s, i),
         NEW d, ServerSettings(u, d, i)
  PROVE  InServer(u, q, d, i)
<1>1. ServersAt(u) = ServersAt(t)
  <2>1. ServersAt(u) = ServersAt(t) \cup {k \in {n + 1} : w = ServerLine}
    BY LinesMore
  <2>2. {k \in {n + 1} : w = ServerLine} = {}
    BY Zenon
  <2> QED  BY <2>1, <2>2
<1>2. i \in ServersAt(t) /\ InBlock(t, i, 1) /\ ServersAt(t) \subseteq 1..i
      /\ ServersWritten(t, q, ServersAt(t) \ {i})
  BY Zenon DEF InServer
<1>3. InBlock(u, i, 1)
  BY <1>2, BlockStays
<1>4. PICK I : I = ServersAt(t) \ {i}
  OBVIOUS
<1>5. I \subseteq Nat
  BY <1>2, <1>4
<1>6. ServersWritten(u, q, I)
  BY <1>2, <1>4, <1>5, ServersStay
<1> QED  BY <1>1, <1>2, <1>3, <1>4, <1>6, Zenon DEF InServer

\* What holds of the places i and j.
LEMMA Places ==
  ASSUME NEW t, NEW n, n = Len(t), NEW q, NEW s, NEW i, InServer(t, q, s, i)
  PROVE  /\ i \in 1..n /\ Depth(t, i) = 1
         /\ \A l, j : InLocation(t, s, l, i, j) => j \in 1..n /\ Depth(t, j) = 2
BY Zenon DEF InServer, InLocation, InBlock

\* A line that says nothing.
LEMMA BlankKeeps ==
  ASSUME NEW t, NEW u, NEW w, OneMore(t, u, w), LineOK(w), w = <<>>, NEW q, NEW s, NEW l
  PROVE  /\ FilePage(t, q) => FilePage(u, q)
         /\ ServerPage(t, q, s) => ServerPage(u, q, s)
         /\ LocationPage(t, q, s, l) => LocationPage(u, q, s, l)
<1>1. PICK n \in Nat : n = Len(t) /\ Len(u) = n + 1
  BY Zenon DEF OneMore
<1>2. Inner(w) /\ ~Opens(w) /\ w # ServerLine
  BY LineKinds, Zenon DEF Inner, Opens
<1>3. Depth(u, n + 1) = Depth(t, n)
  BY <1>1, <1>2, DepthNext
<1>4. /\ ServersAt(u) = ServersAt(t)
      /\ \A i \in 1..n : LocationsAt(u, i) = LocationsAt(t, i)
  BY <1>1, <1>2, SameBlocks
<1>5. \A i \in 1..n : Silent(t, u, i)
  BY <1>1, LineIsSilent
<1>6. ServersAt(t) \subseteq Nat /\ \A i \in 1..n : LocationsAt(t, i) \subseteq 1..n
  <2>1. ServersAt(t) \subseteq 1..n /\ \A i \in 1..n : LocationsAt(t, i) \subseteq i..n
    BY <1>1, LinesMore
  <2> QED  BY <1>1, <2>1
<1>7. ASSUME FilePage(t, q)
      PROVE  FilePage(u, q)
  <2>1. ServersWritten(u, q, ServersAt(t))
    BY <1>6, <1>7, ServersStay DEF FilePage
  <2> QED  BY <1>1, <1>3, <1>4, <1>7, <2>1, Zenon DEF FilePage
<1>8. ASSUME NEW i, InServer(t, q, s, i), Depth(t, n) >= 1
      PROVE  InServer(u, q, s, i)
  <2>1. i \in 1..n
    BY <1>1, <1>8, Places
  <2>2. ServerSettings(u, s, i)
    BY <1>5, <1>8, <2>1, ServerUnsaid DEF InServer
  <2>3. Depth(u, n + 1) >= 1
    BY <1>3, <1>8
  <2> QED  BY <1>1, <1>2, <1>8, <2>2, <2>3, InServerStays
<1>9. ASSUME ServerPage(t, q, s)
      PROVE  ServerPage(u, q, s)
  <2>1. PICK i \in Nat : InServer(t, q, s, i) /\ LocationsWritten(t, s, i, LocationsAt(t, i))
    BY <1>9, Zenon DEF ServerPage
  <2>2. i \in 1..n
    BY <1>1, <2>1, Places
  <2>3. Depth(t, n) = 1
    BY <1>1, <1>9, Zenon DEF ServerPage
  <2>4. InServer(u, q, s, i)
    BY <1>8, <2>1, <2>3
  <2>5. PICK J : J = LocationsAt(t, i) /\ J \subseteq 1..n
    BY <1>6, <2>2
  <2>6. LocationsWritten(u, s, i, J)
    BY <1>1, <2>1, <2>5, LocationsStay
  <2> QED  BY <1>1, <1>3, <1>4, <2>2, <2>3, <2>4, <2>5, <2>6, Zenon DEF ServerPage
<1>10. ASSUME LocationPage(t, q, s, l)
       PROVE  LocationPage(u, q, s, l)
  <2>1. PICK i, j \in Nat : InServer(t, q, s, i) /\ InLocation(t, s, l, i, j)
    BY <1>10, Zenon DEF LocationPage
  <2>2. i \in 1..n /\ j \in 1..n
    BY <1>1, <2>1, Places
  <2>3. Depth(t, n) = 2
    BY <1>1, <1>10, Zenon DEF LocationPage
  <2>4. InServer(u, q, s, i)
    BY <1>8, <2>1, <2>3
  <2>5. PICK J : J = LocationsAt(t, i) /\ J \subseteq 1..n
    BY <1>6, <2>2
  <2>6. /\ j \in J /\ InBlock(t, j, 2) /\ J \subseteq 1..j
        /\ LocationsWritten(t, s, i, J \ {j}) /\ LocationSays(t, l, i, j)
    BY <2>1, <2>5, Zenon DEF InLocation
  <2>7. LocationsWritten(u, s, i, J \ {j})
    <3>1. PICK K : K = J \ {j} /\ K \subseteq 1..n
      BY <2>5
    <3> QED  BY <1>1, <2>6, <3>1, LocationsStay
  <2>8. LocationSays(u, l, i, j)
    BY <1>1, <1>5, <2>2, <2>6, LocationUnsaid
  <2>9. InBlock(u, j, 2)
    BY <1>1, <1>3, <2>3, <2>6, BlockStays
  <2>10. InLocation(u, s, l, i, j)
    BY <1>4, <2>2, <2>5, <2>6, <2>7, <2>8, <2>9, Zenon DEF InLocation
  <2> QED  BY <1>1, <1>3, <2>1, <2>3, <2>4, <2>10, Zenon DEF LocationPage
<1> QED  BY <1>7, <1>9, <1>10

\* A server begins.
LEMMA ServerOpens ==
  ASSUME NEW t, NEW u, NEW w, OneMore(t, u, w), LineOK(w), w = ServerLine, NEW q,
         FilePage(t, q)
  PROVE  ServerPage(u, q, ServerConfig)
<1>1. PICK n \in Nat : n = Len(t) /\ Len(u) = n + 1
  BY Zenon DEF OneMore
<1>2. Opens(w) /\ w # BlockEnd /\ ~IsLocationLine(w)
  BY LineKinds, Zenon DEF Opens
<1>3. Depth(u, n + 1) = 1
  <2>1. Depth(t, n) = 0
    BY <1>1, Zenon DEF FilePage
  <2>2. Depth(u, n + 1) = Depth(t, n) + 1
    BY <1>1, <1>2, DepthNext
  <2> QED  BY <2>1, <2>2
<1>4. PICK i \in Nat : i = n + 1 /\ i # 0
  BY <1>1
<1>5. InBlock(u, i, 1) /\ Body(u, i) = {}
  BY <1>1, <1>3, <1>4, BlockOpens
<1>6. ServersAt(t) \subseteq 1..n /\ ServersAt(u) = ServersAt(t) \cup {i}
  <2>1. ServersAt(u) = ServersAt(t) \cup {k \in {n + 1} : w = ServerLine}
        /\ ServersAt(t) \subseteq 1..n
    BY <1>1, LinesMore
  <2>2. {k \in {n + 1} : w = ServerLine} = {i}
    BY <1>4
  <2> QED  BY <2>1, <2>2
<1>7. PICK I : I = ServersAt(t)
  OBVIOUS
<1>8. i \in ServersAt(u) /\ ServersAt(u) \subseteq 1..i /\ ServersAt(u) \ {i} = I /\ I \subseteq Nat
  BY <1>1, <1>4, <1>6, <1>7
<1>9. ServersWritten(u, q, I)
  BY <1>7, <1>8, ServersStay DEF FilePage
<1>10. InServer(u, q, ServerConfig, i)
  BY <1>5, <1>8, <1>9, ServerBegins, Zenon DEF InServer
<1>11. LocationsAt(u, i) = {}
  <2>1. u[i] = w /\ i..Len(u) = {i}
    <3>1. u[n + 1] = w
      BY <1>1, Zenon DEF OneMore
    <3> QED  BY <1>1, <1>4, <3>1
  <2> QED  BY <1>2, <2>1 DEF LocationsAt
<1>12. LocationsWritten(u, ServerConfig, i, LocationsAt(u, i))
  BY <1>5, <1>11, ServerBegins, Zenon
<1> QED  BY <1>1, <1>3, <1>10, <1>12, Zenon DEF ServerPage

\* A server ends.
LEMMA ServerCloses ==
  ASSUME NEW t, NEW u, NEW w, OneMore(t, u, w), LineOK(w), w = BlockEnd,
         NEW U, NEW q \in Seq(U), NEW s, ServerPage(t, q, s)
  PROVE  FilePage(u, Append(q, s))
<1>1. PICK n \in Nat : n = Len(t) /\ Len(u) = n + 1 /\ DOMAIN u = 1..(n + 1)
  BY Zenon DEF OneMore
<1>2. ~Opens(w)
  BY LineKinds, Zenon
<1>3. Depth(u, n + 1) = 0
  <2>1. Depth(t, n) = 1
    BY <1>1, Zenon DEF ServerPage
  <2>2. Depth(u, n + 1) = Depth(t, n) - 1
    BY <1>1, <1>2, DepthNext
  <2> QED  BY <2>1, <2>2
<1>4. PICK i \in Nat : InServer(t, q, s, i) /\ LocationsWritten(t, s, i, LocationsAt(t, i))
  BY Zenon DEF ServerPage
<1>5. /\ i \in ServersAt(t) /\ InBlock(t, i, 1) /\ ServersAt(t) \subseteq 1..i
      /\ ServersWritten(t, q, ServersAt(t) \ {i})
      /\ ServerSettings(t, s, i)
  BY <1>4, Zenon DEF InServer
<1>6. i \in 1..n
  BY <1>1, <1>4, Places
<1>7. /\ ServersAt(u) = ServersAt(t) /\ LocationsAt(u, i) = LocationsAt(t, i)
  BY <1>1, <1>2, <1>6, SameBlocks
<1>8. EndsAt(u, i, n + 1) /\ UpTo(u, n + 1) = u
  BY <1>1, <1>3, <1>5, BlockCloses
<1>9. ServerSettings(u, s, i)
  <2>1. Silent(t, u, i)
    BY <1>1, <1>6, LineIsSilent
  <2> QED  BY <1>5, <2>1, ServerUnsaid
<1>10. PICK J : J = LocationsAt(t, i) /\ J \subseteq 1..n
  <2>1. LocationsAt(t, i) \subseteq i..n
    BY <1>1, <1>6, LinesMore
  <2> QED  BY <1>6, <2>1
<1>11. LocationsWritten(u, s, i, J)
  BY <1>1, <1>4, <1>10, LocationsStay
<1>12. ServerSays(u, s, i)
  BY <1>1, <1>7, <1>9, <1>10, <1>11, ServerEnds
<1>13. ServerDone(u, s, i)
  <2>1. n + 1 \in Nat
    OBVIOUS
  <2> QED  BY <1>8, <1>12, <2>1, Zenon DEF ServerDone
<1>14. PICK I : I = ServersAt(t) \ {i} /\ I \subseteq 1..(i - 1) /\ I \subseteq Nat
                /\ ServersAt(u) = I \cup {i}
  <2>1. PICK A, I : A = ServersAt(t) /\ I = A \ {i}
    OBVIOUS
  <2>2. i \in A /\ A \subseteq 1..i
    BY <1>5, <2>1, Zenon
  <2>3. I \subseteq 1..(i - 1) /\ I \subseteq Nat /\ A = I \cup {i}
    BY ONLY i \in Nat, <2>1, <2>2
  <2> QED  BY <1>7, <2>1, <2>3, Zenon
<1>15. ServersWritten(u, q, I)
  BY <1>5, <1>14, ServersStay
<1>16. ServersWritten(u, Append(q, s), ServersAt(u))
  BY <1>13, <1>14, <1>15, ServerAdded
<1> QED  BY <1>1, <1>3, <1>16, Zenon DEF FilePage

\* A location begins.
LEMMA LocationOpens ==
  ASSUME NEW t, NEW u, NEW w, OneMore(t, u, w), LineOK(w), IsLocationLine(w),
         NEW q, NEW s, ServerPage(t, q, s), NEW path, path = PathAt(u, Len(u)),
         NEW l \in setLocation(LocationConfig(path, s.client_max_body_size), path)
  PROVE  LocationPage(u, q, s, l)
<1>1. PICK n \in Nat : n = Len(t) /\ Len(u) = n + 1 /\ u[n + 1] = w
  BY Zenon DEF OneMore
<1>2. Opens(w) /\ w # ServerLine /\ w # BlockEnd
  BY LineKinds, Zenon DEF Opens
<1>3. Depth(t, n) = 1 /\ Depth(u, n + 1) = 2
  <2>1. Depth(t, n) = 1
    BY <1>1, Zenon DEF ServerPage
  <2>2. Depth(u, n + 1) = Depth(t, n) + 1
    BY <1>1, <1>2, DepthNext
  <2> QED  BY <2>1, <2>2
<1>4. PICK i \in Nat : InServer(t, q, s, i) /\ LocationsWritten(t, s, i, LocationsAt(t, i))
  BY Zenon DEF ServerPage
<1>5. i \in 1..n /\ Depth(t, i) = 1
  BY <1>1, <1>4, Places
<1>6. PICK j \in Nat : j = n + 1
  BY <1>1
<1>7. InServer(u, q, s, i)
  <2>1. Depth(u, n + 1) # Depth(t, i) /\ Depth(u, n + 1) >= 1
    BY <1>3, <1>5
  <2>2. Silent(t, u, i)
    BY <1>1, <1>5, <2>1, LineIsSilent
  <2>3. ServerSettings(u, s, i)
    BY <1>4, <2>2, ServerUnsaid DEF InServer
  <2> QED  BY <1>1, <1>2, <1>4, <2>1, <2>3, InServerStays
<1>8. InBlock(u, j, 2) /\ Body(u, j) = {}
  BY <1>1, <1>3, <1>6, BlockOpens
<1>9. PICK J, K : J = LocationsAt(t, i) /\ K = LocationsAt(u, i) /\ J \subseteq i..n /\ K = J \cup {j}
  <2>1. LocationsAt(u, i) = LocationsAt(t, i) \cup {k \in {n + 1} : IsLocationLine(w)}
        /\ LocationsAt(t, i) \subseteq i..n
    BY <1>1, <1>5, LinesMore
  <2>2. {k \in {n + 1} : IsLocationLine(w)} = {j}
    BY <1>6
  <2> QED  BY <2>1, <2>2, Zenon
<1>10. j \in K /\ K \subseteq 1..j /\ K \ {j} = J /\ J \subseteq 1..n
  BY <1>1, <1>5, <1>6, <1>9
<1>11. LocationsWritten(u, s, i, J)
  BY <1>1, <1>4, <1>9, <1>10, LocationsStay
<1>12. LocationSays(u, l, i, j)
  <2>1. PathAt(u, n + 1) = path
    BY <1>1, Zenon
  <2>2. l \in setLocation(LocationConfig(PathAt(u, n + 1), s.client_max_body_size),
                          PathAt(u, n + 1))
    BY <2>1, Zenon
  <2>3. ServerSettings(t, s, i) /\ Body(u, n + 1) = {}
    BY <1>4, <1>6, <1>8, Zenon DEF InServer
  <2>4. LocationSays(u, l, i, n + 1)
    BY <1>1, <2>2, <2>3, LocationBegins
  <2> QED  BY <1>6, <2>4, Zenon
<1>13. InLocation(u, s, l, i, j)
  BY <1>8, <1>9, <1>10, <1>11, <1>12, Zenon DEF InLocation
<1> QED  BY <1>1, <1>3, <1>7, <1>13, Zenon DEF LocationPage

\* A directive of the server.
LEMMA ServerReads ==
  ASSUME NEW t, NEW u, NEW w, OneMore(t, u, w), LineOK(w), w # <<>>, words(w) # <<>>,
         NEW q, NEW s, DOMAIN s = DOMAIN ServerConfig, ServerPage(t, q, s),
         NEW d \in parseServerDirective(s, words(w))
  PROVE  ServerPage(u, q, d)
<1>1. PICK n \in Nat : n = Len(t) /\ Len(u) = n + 1
  BY Zenon DEF OneMore
<1>2. ServerTakes(s, d, words(w)) /\ words(w)[1][1] \in Directives
  BY WordsBegin, ServerEffect
<1>3. Inner(w) /\ ~Opens(w) /\ w # ServerLine
  BY <1>2, LineKinds, Zenon DEF Inner, Opens
<1>4. Depth(t, n) = 1 /\ Depth(u, n + 1) = 1
  <2>1. Depth(t, n) = 1
    BY <1>1, Zenon DEF ServerPage
  <2>2. Depth(u, n + 1) = Depth(t, n)
    BY <1>1, <1>3, DepthNext
  <2> QED  BY <2>1, <2>2
<1>5. PICK i \in Nat : InServer(t, q, s, i) /\ LocationsWritten(t, s, i, LocationsAt(t, i))
  BY Zenon DEF ServerPage
<1>6. i \in 1..n /\ Depth(t, i) = 1
  BY <1>1, <1>5, Places
<1>7. InServer(u, q, d, i)
  <2>1. Depth(u, n + 1) = Depth(t, i) /\ Depth(u, n + 1) >= 1
    BY <1>4, <1>6
  <2>2. Said(t, u, i, words(w))
    BY <1>1, <1>6, <2>1, LineIsSaid
  <2>3. ServerSettings(t, s, i)
    BY <1>5, Zenon DEF InServer
  <2>4. ServerSettings(u, d, i)
    BY <1>2, <2>2, <2>3, ServerSaid
  <2> QED  BY <1>1, <1>3, <1>5, <2>1, <2>4, InServerStays
<1>8. PICK J : J = LocationsAt(t, i) /\ J = LocationsAt(u, i) /\ J \subseteq 1..n
  <2>1. LocationsAt(t, i) \subseteq i..n
    BY <1>1, <1>6, LinesMore
  <2>2. LocationsAt(u, i) = LocationsAt(t, i)
    BY <1>1, <1>3, <1>6, SameBlocks
  <2> QED  BY <1>6, <2>1, <2>2
<1>9. d.locations = s.locations
  BY <1>2, Zenon DEF ServerTakes
<1>10. LocationsWritten(u, d, i, J)
  BY <1>1, <1>5, <1>8, <1>9, LocationsStay
<1> QED  BY <1>1, <1>4, <1>7, <1>8, <1>10, Zenon DEF ServerPage

\* A directive of the location.
LEMMA LocationReads ==
  ASSUME NEW t, NEW u, NEW w, OneMore(t, u, w), LineOK(w), w # <<>>, words(w) # <<>>,
         NEW q, NEW s, NEW l, DOMAIN l = DOMAIN NoLocation, LocationPage(t, q, s, l),
         NEW d \in parseLocationDirective(l, words(w))
  PROVE  LocationPage(u, q, s, d)
<1>1. PICK n \in Nat : n = Len(t) /\ Len(u) = n + 1
  BY Zenon DEF OneMore
<1>2. LocationTakes(l, d, words(w)) /\ words(w)[1][1] \in Directives
  BY WordsBegin, LocationEffect
<1>3. Inner(w) /\ ~Opens(w) /\ w # ServerLine
  BY <1>2, LineKinds, Zenon DEF Inner, Opens
<1>4. Depth(t, n) = 2 /\ Depth(u, n + 1) = 2
  <2>1. Depth(t, n) = 2
    BY <1>1, Zenon DEF LocationPage
  <2>2. Depth(u, n + 1) = Depth(t, n)
    BY <1>1, <1>3, DepthNext
  <2> QED  BY <2>1, <2>2
<1>5. PICK i, j \in Nat : InServer(t, q, s, i) /\ InLocation(t, s, l, i, j)
  BY Zenon DEF LocationPage
<1>6. i \in 1..n /\ Depth(t, i) = 1 /\ j \in 1..n /\ Depth(t, j) = 2
  BY <1>1, <1>5, Places
<1>7. InServer(u, q, s, i)
  <2>1. Depth(u, n + 1) # Depth(t, i) /\ Depth(u, n + 1) >= 1
    BY <1>4, <1>6
  <2>2. Silent(t, u, i)
    BY <1>1, <1>6, <2>1, LineIsSilent
  <2>3. ServerSettings(u, s, i)
    BY <1>5, <2>2, ServerUnsaid DEF InServer
  <2> QED  BY <1>1, <1>3, <1>5, <2>1, <2>3, InServerStays
<1>8. PICK J : J = LocationsAt(t, i) /\ J = LocationsAt(u, i) /\ J \subseteq 1..n
  <2>1. LocationsAt(t, i) \subseteq i..n
    BY <1>1, <1>6, LinesMore
  <2>2. LocationsAt(u, i) = LocationsAt(t, i)
    BY <1>1, <1>3, <1>6, SameBlocks
  <2> QED  BY <1>6, <2>1, <2>2
<1>9. /\ j \in J /\ InBlock(t, j, 2) /\ J \subseteq 1..j
      /\ LocationsWritten(t, s, i, J \ {j}) /\ LocationSays(t, l, i, j)
  BY <1>5, <1>8, Zenon DEF InLocation
<1>10. LocationsWritten(u, s, i, J \ {j})
  <2>1. PICK K : K = J \ {j} /\ K \subseteq 1..n
    BY <1>8
  <2> QED  BY <1>1, <1>9, <2>1, LocationsStay
<1>11. LocationSays(u, d, i, j)
  <2>1. Said(t, u, j, words(w))
    BY <1>1, <1>4, <1>6, LineIsSaid
  <2> QED  BY <1>1, <1>2, <1>6, <1>9, <2>1, LocationSaid
<1>12. InBlock(u, j, 2)
  BY <1>1, <1>4, <1>9, BlockStays
<1>13. InLocation(u, s, d, i, j)
  BY <1>8, <1>9, <1>10, <1>11, <1>12, Zenon DEF InLocation
<1> QED  BY <1>1, <1>4, <1>5, <1>7, <1>13, Zenon DEF LocationPage

\* A location ends.
LEMMA LocationCloses ==
  ASSUME NEW t, NEW u, NEW w, OneMore(t, u, w), LineOK(w), w = BlockEnd,
         NEW q, NEW s, DOMAIN s = DOMAIN ServerConfig, NEW U, s.locations \in Seq(U),
         NEW l, LocationPage(t, q, s, l)
  PROVE  ServerPage(u, q, addLocation(s, l))
<1>1. PICK n \in Nat : n = Len(t) /\ Len(u) = n + 1 /\ DOMAIN u = 1..(n + 1)
  BY Zenon DEF OneMore
<1>2. ~Opens(w) /\ w # ServerLine
  BY LineKinds, Zenon DEF Opens
<1>3. Depth(t, n) = 2 /\ Depth(u, n + 1) = 1
  <2>1. Depth(t, n) = 2
    BY <1>1, Zenon DEF LocationPage
  <2>2. Depth(u, n + 1) = Depth(t, n) - 1
    BY <1>1, <1>2, DepthNext
  <2> QED  BY <2>1, <2>2
<1>4. PICK i, j \in Nat : InServer(t, q, s, i) /\ InLocation(t, s, l, i, j)
  BY Zenon DEF LocationPage
<1>5. i \in 1..n /\ j \in 1..n
  BY <1>1, <1>4, Places
<1>6. Silent(t, u, i) /\ Silent(t, u, j)
  BY <1>1, <1>5, LineIsSilent
<1>7. PICK J : J = LocationsAt(t, i) /\ J = LocationsAt(u, i) /\ J \subseteq 1..n
  <2>1. LocationsAt(t, i) \subseteq i..n
    BY <1>1, <1>5, LinesMore
  <2>2. LocationsAt(u, i) = LocationsAt(t, i)
    BY <1>1, <1>2, <1>5, SameBlocks
  <2> QED  BY <1>5, <2>1, <2>2
<1>8. /\ j \in J /\ InBlock(t, j, 2) /\ J \subseteq 1..j
      /\ LocationsWritten(t, s, i, J \ {j}) /\ LocationSays(t, l, i, j)
  BY <1>4, <1>7, Zenon DEF InLocation
<1>9. PICK K : K = J \ {j} /\ K \subseteq 1..n /\ K \subseteq 1..(j - 1) /\ J = K \cup {j}
  BY ONLY j \in Nat, <1>7, <1>8
<1>10. LocationsWritten(u, s, i, K)
  BY <1>1, <1>8, <1>9, LocationsStay
<1>11. EndsAt(u, j, n + 1) /\ UpTo(u, n + 1) = u
  BY <1>1, <1>3, <1>8, BlockCloses
<1>12. LocationSays(u, l, i, j)
  BY <1>1, <1>5, <1>6, <1>8, LocationUnsaid
<1>13. LocationDone(u, l, i, j)
  <2>1. n + 1 \in Nat
    OBVIOUS
  <2> QED  BY <1>11, <1>12, <2>1, Zenon DEF LocationDone
<1>14. "locations" \in DOMAIN s /\ l.location = PathAt(u, j)
  <2>1. "locations" \in DOMAIN s
    BY ServerFields
  <2> QED  BY <1>12, <2>1, Zenon DEF LocationSays
<1>15. PICK d : d = addLocation(s, l)
  OBVIOUS
<1>16. LocationsWritten(u, d, i, J)
  BY <1>9, <1>10, <1>13, <1>14, <1>15, LocationAdded
<1>17. ServerSettings(u, d, i)
  <2>1. ServerSettings(u, s, i)
    BY <1>4, <1>6, ServerUnsaid DEF InServer
  <2>2. \/ d = s
        \/ \E x : d = [s EXCEPT !.locations = x]
    BY <1>15, Zenon DEF addLocation
  <2>3. /\ d.host = s.host /\ d.server_name = s.server_name /\ d.root = s.root
        /\ d.index = s.index /\ d.client_max_body_size = s.client_max_body_size
        /\ d.listen = s.listen
    BY <2>2, ServerFields
  <2> QED  BY <2>1, <2>3, Zenon DEF ServerSettings
<1>18. InServer(u, q, d, i)
  <2>1. Depth(u, n + 1) >= 1
    BY <1>3
  <2> QED  BY <1>1, <1>2, <1>4, <1>17, <2>1, InServerStays
<1> QED  BY <1>1, <1>3, <1>7, <1>15, <1>16, <1>18, Zenon DEF ServerPage
-----------------------------------------------------------------------------
(* The parser keeps what it read. *)

\* The cleaned lines are a sequence.
LEMMA LinedIs ==
  ASSUME text \in Seq(Lines)
  PROVE  /\ \E S : /\ \A line \in Lines : clean[line] \in S
                   /\ Lined \in Seq(S)
         /\ Len(Lined) = Len(text) /\ DOMAIN Lined = 1..Len(text)
         /\ \A i \in 1..Len(text) : Lined[i] = clean[text[i]]
<1>1. PICK n \in Nat : n = Len(text) /\ DOMAIN text = 1..n /\ \A i \in 1..n : text[i] \in Lines
  OBVIOUS
<1>2. PICK S : S = {clean[line] : line \in Lines}
  OBVIOUS
<1>3. \A line \in Lines : clean[line] \in S
  BY <1>2, Zenon
<1>4. PICK t : t = Lined
  OBVIOUS
<1>5. t = [i \in 1..n |-> clean[text[i]]]
  BY <1>1, <1>4, Zenon DEF Lined
<1>6. \A i \in 1..n : t[i] = clean[text[i]] /\ t[i] \in S
  BY <1>1, <1>3, <1>5, Zenon
<1>7. t \in Seq(S) /\ Len(t) = n /\ DOMAIN t = 1..n
  <2>1. DOMAIN t = 1..n /\ t = [i \in 1..n |-> t[i]]
    BY <1>5
  <2> QED  BY ONLY <1>1, <1>6, <2>1
<1> QED  BY <1>1, <1>3, <1>4, <1>6, <1>7, Zenon

\* Reading a line is one cleaned line more.
LEMMA LineRead ==
  ASSUME text \in Seq(Lines), NEW line \in Lines, text' = Append(text, line)
  PROVE  /\ text' \in Seq(Lines)
         /\ OneMore(Lined, Lined', clean[line])
         /\ LineOK(clean[line])
         /\ PathAt(Lined', Len(Lined')) = split(clean[line], " ")[2]
<1>1. PICK t, u, w : t = Lined /\ u = Lined' /\ w = clean[line]
  OBVIOUS
<1>2. PICK n \in Nat : n = Len(text) /\ text' \in Seq(Lines) /\ Len(text') = n + 1
                       /\ text'[n + 1] = line /\ \A i \in 1..n : text'[i] = text[i]
  OBVIOUS
<1>3. PICK S : /\ \A x \in Lines : clean[x] \in S
               /\ t \in Seq(S) /\ Len(t) = n /\ DOMAIN t = 1..n
               /\ \A i \in 1..n : t[i] = clean[text[i]]
  BY <1>1, <1>2, LinedIs, Zenon
<1>4. w \in S
  BY <1>1, <1>3, Zenon
<1>5. u = [i \in 1..(n + 1) |-> clean[text'[i]]]
  <2>1. DOMAIN text' = 1..(n + 1)
    BY <1>2
  <2> QED  BY <1>1, <2>1, Zenon DEF Lined
<1>6. u[n + 1] = w /\ \A i \in 1..n : u[i] = t[i]
  <2>1. n + 1 \in 1..(n + 1) /\ \A i \in 1..n : i \in 1..(n + 1)
    BY <1>2
  <2>2. \A i \in 1..(n + 1) : u[i] = clean[text'[i]]
    BY <1>5, Zenon
  <2>3. u[n + 1] = w
    BY <1>1, <1>2, <2>1, <2>2, Zenon
  <2>4. ASSUME NEW i \in 1..n
        PROVE  u[i] = t[i]
    <3>1. u[i] = clean[text'[i]]
      BY <2>1, <2>2, Zenon
    <3> QED  BY <1>2, <1>3, <3>1, Zenon
  <2> QED  BY <2>3, <2>4, Zenon
<1>7. PICK a : a = Append(t, w)
  OBVIOUS
<1>8. DOMAIN a = 1..(n + 1) /\ Len(a) = n + 1 /\ a[n + 1] = w
      /\ (\A i \in 1..n : a[i] = t[i]) /\ a = [i \in 1..(n + 1) |-> a[i]]
  <2>1. a \in Seq(S) /\ Len(a) = n + 1 /\ a[n + 1] = w /\ (\A i \in 1..n : a[i] = t[i])
    BY ONLY <1>2, <1>3, <1>4, <1>7
  <2>2. DOMAIN a = 1..(n + 1)
    BY ONLY <2>1
  <2>3. a = [i \in 1..(n + 1) |-> a[i]]
    BY ONLY <2>1, <2>2
  <2> QED  BY <2>1, <2>2, <2>3, Zenon
<1>9. u = a
  <2>1. \A i \in 1..(n + 1) : i \in 1..n \/ i = n + 1
    BY <1>2
  <2>2. \A i \in 1..(n + 1) : u[i] = a[i]
    BY <1>6, <1>8, <2>1, Zenon
  <2>3. u = [i \in 1..(n + 1) |-> u[i]]
    BY <1>5
  <2> QED  BY <1>8, <2>2, <2>3, Zenon
<1>10. OneMore(t, u, w)
  BY <1>3, <1>4, <1>7, <1>9, OneMoreIs
<1>11. PathAt(u, Len(u)) = split(w, " ")[2]
  BY <1>8, <1>9, Zenon DEF PathAt
<1>12. LineOK(w)
  BY <1>1, CleanLine
<1> QED  BY <1>1, <1>2, <1>10, <1>11, <1>12, Zenon

PageOK ==
  \/ block = "file" /\ FilePage(Lined, servers)
  \/ block = "server" /\ ServerPage(Lined, servers, server)
  \/ block = "location" /\ LocationPage(Lined, servers, server, location)

\* The servers, and the open blocks, are what was read so far.
TextOK ==
  /\ text \in Seq(Lines)
  /\ pc = "parsing" => PageOK
  /\ pc = "parsed" => FilePage(Lined, servers)

\* What was read, by the block that is open.
LEMMA PageIs ==
  ASSUME PageOK
  PROVE  /\ block = "file" => FilePage(Lined, servers)
         /\ block = "server" => ServerPage(Lined, servers, server)
         /\ block = "location" => LocationPage(Lined, servers, server, location)
BY DEF PageOK

\* A blank line.
LEMMA BlankPage ==
  ASSUME PageOK, text \in Seq(Lines), NEW line \in Lines, BlankLine(line)
  PROVE  text' \in Seq(Lines) /\ PageOK'
<1>1. clean[line] = <<>> /\ text' = Append(text, line)
      /\ block' = block /\ server' = server /\ location' = location /\ servers' = servers
  BY DEF BlankLine, ReadLine
<1>2. PICK t, u, w, q, s, l : t = Lined /\ u = Lined' /\ w = clean[line] /\ q = servers
                              /\ s = server /\ l = location
  OBVIOUS
<1>3. text' \in Seq(Lines) /\ OneMore(t, u, w) /\ LineOK(w) /\ w = <<>>
  BY <1>1, <1>2, LineRead, Zenon
<1>4. /\ FilePage(t, q) => FilePage(u, q)
      /\ ServerPage(t, q, s) => ServerPage(u, q, s)
      /\ LocationPage(t, q, s, l) => LocationPage(u, q, s, l)
  BY <1>3, BlankKeeps
<1> QED  BY <1>1, <1>2, <1>3, <1>4, Zenon DEF PageOK

\* A line outside any block.
LEMMA FileLinePage ==
  ASSUME PageOK, text \in Seq(Lines), NEW line \in Lines, parseFile(line)
  PROVE  text' \in Seq(Lines) /\ (PageOK' \/ pc' = "caught")
<1>1. text' = Append(text, line) /\ block = "file"
  BY Zenon DEF parseFile, ReadLine
<1>2. PICK t, u, w, q : t = Lined /\ u = Lined' /\ w = clean[line] /\ q = servers
  OBVIOUS
<1>3. text' \in Seq(Lines) /\ OneMore(t, u, w) /\ LineOK(w)
  BY <1>1, <1>2, LineRead, Zenon
<1>4. \/ w = ServerLine /\ block' = "server" /\ server' = ServerConfig /\ servers' = servers
      \/ pc' = "caught"
  BY <1>2 DEF parseFile, Throw
<1>5. FilePage(t, q)
  BY <1>1, <1>2, PageIs, Zenon
<1>6. w = ServerLine => ServerPage(u, q, ServerConfig)
  BY <1>3, <1>5, ServerOpens
<1> QED  BY <1>2, <1>3, <1>4, <1>6, Zenon DEF PageOK

\* The end of a server, which is written.
LEMMA CloseServerPage ==
  ASSUME ParserOK, PageOK, text \in Seq(Lines), NEW line \in Lines, CloseServer(line)
  PROVE  text' \in Seq(Lines) /\ PageOK'
<1>1. /\ text' = Append(text, line) /\ block = "server" /\ clean[line] = BlockEnd
      /\ block' = "file" /\ servers' = Append(servers, server)
  BY Zenon DEF CloseServer, ReadLine
<1>2. PICK t, u, w, q, s, U : t = Lined /\ u = Lined' /\ w = clean[line] /\ q = servers
                              /\ s = server /\ U = ToSet(servers)
  OBVIOUS
<1>3. text' \in Seq(Lines) /\ OneMore(t, u, w) /\ LineOK(w) /\ w = BlockEnd
  BY <1>1, <1>2, LineRead, Zenon
<1>4. ServerPage(t, q, s)
  BY <1>1, <1>2, PageIs, Zenon
<1>5. q \in Seq(U)
  BY <1>2, Zenon DEF ParserOK, ServersOK, IsSequence
<1>6. FilePage(u, Append(q, s))
  BY <1>3, <1>4, <1>5, ServerCloses
<1> QED  BY <1>1, <1>2, <1>3, <1>6, Zenon DEF PageOK

\* The start of a location.
LEMMA LocationPageOpens ==
  ASSUME PageOK, text \in Seq(Lines), NEW line \in Lines, handleLocation(line)
  PROVE  text' \in Seq(Lines) /\ (PageOK' \/ pc' = "caught")
<1>1. text' = Append(text, line) /\ block = "server" /\ line \in LocationLines
  BY Zenon DEF handleLocation, ReadLine
<1>2. PICK t, u, w, q, s, path :
        t = Lined /\ u = Lined' /\ w = clean[line] /\ q = servers /\ s = server
        /\ path = split(w, " ")[2]
  OBVIOUS
<1>3. text' \in Seq(Lines) /\ OneMore(t, u, w) /\ LineOK(w) /\ path = PathAt(u, Len(u))
  BY <1>1, <1>2, LineRead, Zenon
<1>4. IsLocationLine(w)
  BY <1>1, <1>2, Zenon DEF LocationLines
<1>5. ServerPage(t, q, s)
  BY <1>1, <1>2, PageIs, Zenon
<1>6. \/ pc' = "caught"
      \/ /\ location' \in setLocation(LocationConfig(path, s.client_max_body_size), path)
         /\ block' = "location" /\ server' = server /\ servers' = servers
  <2>1. \A x, y, c : c \in (IF Len(x) # 3 THEN {} ELSE y) => c \in y
    OBVIOUS
  <2> QED  BY <1>2, <2>1, Zenon DEF handleLocation, Throw
<1>7. CASE location' \in setLocation(LocationConfig(path, s.client_max_body_size), path)
  <2>1. PICK l : l = location'
    OBVIOUS
  <2>2. l \in setLocation(LocationConfig(path, s.client_max_body_size), path)
    BY <1>7, <2>1, Zenon
  <2>3. LocationPage(u, q, s, l)
    BY ONLY <1>3, <1>4, <1>5, <2>2, LocationOpens
  <2> QED  BY <1>2, <1>3, <1>6, <2>1, <2>3, Zenon DEF PageOK
<1> QED  BY <1>3, <1>6, <1>7, Zenon

\* A line with words is not blank.
LEMMA WordsAre ==
  ASSUME NEW line \in Lines, tokensOf[line] # <<>>
  PROVE  clean[line] # <<>> /\ words(clean[line]) = tokensOf[line]
<1>1. tokensOf[line] = IF clean[line] = <<>> THEN <<>> ELSE words(clean[line])
  BY Zenon DEF tokensOf
<1> QED  BY <1>1, Zenon

\* A directive of the server.
LEMMA ServerLinePage ==
  ASSUME ParserOK, PageOK, text \in Seq(Lines), NEW line \in Lines,
         parseServerDirectiveLine(line)
  PROVE  text' \in Seq(Lines) /\ (PageOK' \/ pc' = "caught")
<1>1. text' = Append(text, line) /\ block = "server"
  BY Zenon DEF parseServerDirectiveLine, ReadLine
<1>2. PICK t, u, w, q, s, d :
        t = Lined /\ u = Lined' /\ w = clean[line] /\ q = servers /\ s = server /\ d = server'
  OBVIOUS
<1>3. text' \in Seq(Lines) /\ OneMore(t, u, w) /\ LineOK(w)
  BY <1>1, <1>2, LineRead, Zenon
<1>4. ServerPage(t, q, s)
  BY <1>1, <1>2, PageIs, Zenon
<1>5. \/ pc' = "caught"
      \/ /\ tokensOf[line] # <<>> /\ d \in parseServerDirective(s, tokensOf[line])
         /\ block' = block /\ servers' = servers
  <2>1. \/ pc' = "caught"
        \/ /\ d \in IF tokensOf[line] = <<>> THEN {} ELSE parseServerDirective(s, tokensOf[line])
           /\ block' = block /\ servers' = servers
    BY <1>2, Zenon DEF parseServerDirectiveLine, Throw
  <2>2. \A x, y, c : c \in (IF x = <<>> THEN {} ELSE y) => x # <<>> /\ c \in y
    OBVIOUS
  <2> QED  BY <2>1, <2>2, Zenon
<1>6. CASE tokensOf[line] # <<>> /\ d \in parseServerDirective(s, tokensOf[line])
  <2>1. w # <<>> /\ words(w) # <<>> /\ d \in parseServerDirective(s, words(w))
    BY <1>2, <1>6, WordsAre, Zenon
  <2>2. DOMAIN s = DOMAIN ServerConfig
    BY <1>2, Zenon DEF ParserOK, ServerOK
  <2>3. ServerPage(u, q, d)
    BY <1>3, <1>4, <2>1, <2>2, ServerReads
  <2> QED  BY <1>1, <1>2, <1>3, <1>5, <2>3, Zenon DEF PageOK
<1> QED  BY <1>3, <1>5, <1>6, Zenon

\* A directive of the location.
LEMMA LocationLinePage ==
  ASSUME ParserOK, PageOK, text \in Seq(Lines), NEW line \in Lines,
         parseLocationDirectiveLine(line)
  PROVE  text' \in Seq(Lines) /\ (PageOK' \/ pc' = "caught")
<1>1. text' = Append(text, line) /\ block = "location"
  BY Zenon DEF parseLocationDirectiveLine, ReadLine
<1>2. PICK t, u, w, q, s, l, d :
        t = Lined /\ u = Lined' /\ w = clean[line] /\ q = servers /\ s = server
        /\ l = location /\ d = location'
  OBVIOUS
<1>3. text' \in Seq(Lines) /\ OneMore(t, u, w) /\ LineOK(w)
  BY <1>1, <1>2, LineRead, Zenon
<1>4. LocationPage(t, q, s, l)
  BY <1>1, <1>2, PageIs, Zenon
<1>5. \/ pc' = "caught"
      \/ /\ tokensOf[line] # <<>> /\ d \in parseLocationDirective(l, tokensOf[line])
         /\ block' = block /\ server' = server /\ servers' = servers
  <2>1. \/ pc' = "caught"
        \/ /\ d \in IF tokensOf[line] = <<>> THEN {} ELSE parseLocationDirective(l, tokensOf[line])
           /\ block' = block /\ server' = server /\ servers' = servers
    BY <1>2, Zenon DEF parseLocationDirectiveLine, Throw
  <2>2. \A x, y, c : c \in (IF x = <<>> THEN {} ELSE y) => x # <<>> /\ c \in y
    OBVIOUS
  <2> QED  BY <2>1, <2>2, Zenon
<1>6. CASE tokensOf[line] # <<>> /\ d \in parseLocationDirective(l, tokensOf[line])
  <2>1. w # <<>> /\ words(w) # <<>> /\ d \in parseLocationDirective(l, words(w))
    BY <1>2, <1>6, WordsAre, Zenon
  <2>2. DOMAIN l = DOMAIN NoLocation
    BY <1>2, Zenon DEF ParserOK
  <2>3. LocationPage(u, q, s, d)
    BY <1>3, <1>4, <2>1, <2>2, LocationReads
  <2> QED  BY <1>1, <1>2, <1>3, <1>5, <2>3, Zenon DEF PageOK
<1> QED  BY <1>3, <1>5, <1>6, Zenon

\* The end of a location, which the server gets.
LEMMA CloseLocationPage ==
  ASSUME ParserOK, PageOK, text \in Seq(Lines), NEW line \in Lines, CloseLocation(line)
  PROVE  text' \in Seq(Lines) /\ (PageOK' \/ pc' = "caught")
<1>1. text' = Append(text, line) /\ block = "location" /\ clean[line] = BlockEnd
  BY Zenon DEF CloseLocation, ReadLine
<1>2. PICK t, u, w, q, s, l, U :
        t = Lined /\ u = Lined' /\ w = clean[line] /\ q = servers /\ s = server
        /\ l = location /\ U = ToSet(server.locations)
  OBVIOUS
<1>3. text' \in Seq(Lines) /\ OneMore(t, u, w) /\ LineOK(w) /\ w = BlockEnd
  BY <1>1, <1>2, LineRead, Zenon
<1>4. LocationPage(t, q, s, l)
  BY <1>1, <1>2, PageIs, Zenon
<1>5. DOMAIN s = DOMAIN ServerConfig /\ s.locations \in Seq(U)
  BY <1>2, Zenon DEF ParserOK, ServerOK, LocationsOK, IsSequence
<1>6. \/ pc' = "caught"
      \/ server' = addLocation(s, l) /\ block' = "server" /\ servers' = servers
  BY <1>2, Zenon DEF CloseLocation, Throw
<1>7. ServerPage(u, q, addLocation(s, l))
  BY <1>3, <1>4, <1>5, LocationCloses
<1> QED  BY <1>2, <1>3, <1>6, <1>7, Zenon DEF PageOK

\* The end of the file, which is accepted outside any block.
LEMMA EndOfFilePage ==
  ASSUME PageOK, text \in Seq(Lines), EndOfFile
  PROVE  text' \in Seq(Lines) /\ pc' # "parsing"
         /\ (pc' = "parsed" => FilePage(Lined, servers)')
<1>1. /\ text' = text
      /\ \/ block = "file" /\ pc' = "parsed" /\ servers' = servers
         \/ pc' = "caught"
  BY DEF EndOfFile, Throw
<1>2. Lined' = Lined
  BY <1>1, Zenon DEF Lined
<1>3. "parsed" # "parsing" /\ "caught" # "parsing" /\ "caught" # "parsed"
  OBVIOUS
<1> QED  BY <1>1, <1>2, <1>3, PageIs, Zenon

\* A step outside the parser leaves the text and the servers alone.
LEMMA TextStays ==
  ASSUME TextOK, UNCHANGED parserVars, pc' = pc \/ pc' \notin {"parsing", "parsed"}
  PROVE  TextOK'
<1>1. block' = block /\ server' = server /\ location' = location /\ servers' = servers
      /\ text' = text
  BY DEF parserVars
<1>2. Lined' = Lined
  BY <1>1, Zenon DEF Lined
<1>3. PageOK' <=> PageOK
  BY <1>1, <1>2, Zenon DEF PageOK
<1>4. pc' = pc \/ (pc' # "parsing" /\ pc' # "parsed")
  OBVIOUS
<1> QED  BY <1>1, <1>2, <1>3, <1>4, Zenon DEF TextOK

\* Every step of the parser.
LEMMA ParsePage ==
  ASSUME ParserOK, TextOK, Parse
  PROVE  TextOK'
<1>1. pc = "parsing" /\ PageOK /\ text \in Seq(Lines)
  BY Zenon DEF Parse, TextOK
<1>2. "parsing" # "parsed" /\ "caught" # "parsing" /\ "caught" # "parsed"
  OBVIOUS
<1>3. CASE EndOfFile
  <2>1. text' \in Seq(Lines) /\ pc' # "parsing"
        /\ (pc' = "parsed" => FilePage(Lined, servers)')
    BY <1>1, <1>3, EndOfFilePage
  <2> QED  BY <2>1, Zenon DEF TextOK
<1>4. ASSUME NEW line \in Lines,
             \/ BlankLine(line) \/ parseFile(line) \/ CloseServer(line) \/ handleLocation(line)
             \/ parseServerDirectiveLine(line) \/ CloseLocation(line)
             \/ parseLocationDirectiveLine(line)
      PROVE  TextOK'
  <2>1. text' \in Seq(Lines) /\ (PageOK' \/ pc' = "caught")
    <3>1. CASE BlankLine(line)
      BY <1>1, <3>1, BlankPage
    <3>2. CASE parseFile(line)
      BY <1>1, <3>2, FileLinePage
    <3>3. CASE CloseServer(line)
      BY <1>1, <3>3, CloseServerPage
    <3>4. CASE handleLocation(line)
      BY <1>1, <3>4, LocationPageOpens
    <3>5. CASE parseServerDirectiveLine(line)
      BY <1>1, <3>5, ServerLinePage
    <3>6. CASE CloseLocation(line)
      BY <1>1, <3>6, CloseLocationPage
    <3>7. CASE parseLocationDirectiveLine(line)
      BY <1>1, <3>7, LocationLinePage
    <3> QED  BY <1>4, <3>1, <3>2, <3>3, <3>4, <3>5, <3>6, <3>7, Zenon
  <2>2. pc' = pc \/ pc' = "caught"
    BY <1>4, Zenon DEF BlankLine, parseFile, CloseServer, handleLocation,
       parseServerDirectiveLine, CloseLocation, parseLocationDirectiveLine, Throw
  <2> QED  BY <1>1, <1>2, <2>1, <2>2, Zenon DEF TextOK
<1> QED  BY <1>3, <1>4, Zenon DEF Parse

\* The invariant of the text, at the start.
LEMMA TextAtStart == StartInit => TextOK
<1> SUFFICES ASSUME StartInit  PROVE TextOK
  OBVIOUS
<1>1. pc = "parsing" /\ block = "file" /\ servers = <<>> /\ text = <<>>
  BY DEF StartInit, Init
<1>2. text \in Seq(Lines) /\ Len(text) = 0 /\ Len(servers) = 0 /\ "parsing" # "parsed"
  BY <1>1
<1>3. Len(Lined) = 0 /\ DOMAIN Lined = {}
  BY <1>2, LinedIs
<1>4. ServersAt(Lined) = {} /\ Cardinality({}) = 0 /\ Depth(Lined, 0) = 0
  BY <1>3, DepthOfNone, FS_EmptySet DEF ServersAt
<1>5. FilePage(Lined, servers)
  BY <1>2, <1>3, <1>4, Zenon DEF FilePage, ServersWritten
<1> QED  BY <1>1, <1>2, <1>5, Zenon DEF TextOK, PageOK

\* And after every step.
LEMMA TextStep == IInv /\ TextOK /\ [Next]_vars => TextOK'
<1> SUFFICES ASSUME IInv, TextOK, [Next]_vars  PROVE TextOK'
  OBVIOUS
<1>1. CASE UNCHANGED vars
  BY <1>1, TextStays DEF vars, parserVars
<1>2. CASE ReadConfig
  BY <1>2, ParsePage DEF ReadConfig, IInv
<1>3. CASE NoFile
  BY <1>3, TextStays DEF NoFile
<1>4. CASE checkServers
  <2>1. pc' \notin {"parsing", "parsed"} /\ UNCHANGED parserVars
    BY <1>4 DEF checkServers
  <2> QED  BY <2>1, TextStays
<1>5. CASE OpenSocket
  <2>1. pc' \notin {"parsing", "parsed"} /\ UNCHANGED parserVars
    BY <1>5 DEF OpenSocket
  <2> QED  BY <2>1, TextStays
<1>6. CASE Bind
  <2>1. pc' \notin {"parsing", "parsed"} /\ UNCHANGED parserVars
    BY <1>6 DEF Bind
  <2> QED  BY <2>1, TextStays
<1>7. CASE Listen
  <2>1. pc' \notin {"parsing", "parsed"} /\ UNCHANGED parserVars
    BY <1>7 DEF Listen
  <2> QED  BY <2>1, TextStays
<1>8. CASE Exit
  BY <1>8, TextStays DEF Exit
<1>9. CASE OtherProgram
  BY <1>9, TextStays DEF OtherProgram
<1> QED  BY <1>1, <1>2, <1>3, <1>4, <1>5, <1>6, <1>7, <1>8, <1>9 DEF Next

\* Whatever lines a file holds and however many: when it is accepted there is
\* one server per server block, with the locations written in the block (of
\* two with one path, the first), each setting but error_page and return is
\* that of the last line of its own block that sets it, and a location without a
\* body size has what its server's lines above it say.
THEOREM FileIsObeyed == Spec => []SaysWhatTheFileSays
<1>1. TextOK => SaysWhatTheFileSays
  <2> SUFFICES ASSUME TextOK, pc = "parsed"  PROVE SaysWhatTheFileSays
    BY Zenon DEF SaysWhatTheFileSays
  <2>1. PICK t, q : t = Lined /\ q = servers
    OBVIOUS
  <2>2. FilePage(t, q) /\ text \in Seq(Lines)
    BY <2>1, Zenon DEF TextOK
  <2>3. Len(t) \in Nat /\ DOMAIN t = 1..Len(t)
    BY <2>1, <2>2, LinedIs
  <2>4. PICK I : I = ServersAt(t) /\ I \subseteq Nat
    <3>1. ServersAt(t) \subseteq 1..Len(t)
      BY <2>3, Zenon DEF ServersAt
    <3> QED  BY <3>1
  <2>5. Len(q) = Cardinality(I) /\ \A i \in I : ServerDone(t, q[Rank(i, I)], i)
    BY <2>2, <2>4, Zenon DEF FilePage, ServersWritten
  <2>6. ASSUME NEW i \in I
        PROVE  ServerSays(UpTo(t, EndOf(t, i)), q[Rank(i, I)], i)
    <3>1. PICK f \in Nat : EndsAt(t, i, f) /\ ServerSays(UpTo(t, f), q[Rank(i, I)], i)
      BY <2>5, Zenon DEF ServerDone
    <3>2. i \in Nat
      BY <2>4
    <3>3. EndOf(t, i) = f
      BY <2>3, <3>1, <3>2, EndIs
    <3> QED  BY <3>1, <3>3, Zenon
  <2> QED  BY <2>1, <2>4, <2>5, <2>6, Zenon DEF SaysWhatTheFileSays
<1>2. StartInit => TextOK
  BY TextAtStart
<1>3. IInv /\ TextOK /\ [Next]_vars => TextOK'
  BY TextStep
<1>4. Spec => []IInv
  BY Invariance
<1> QED  BY <1>1, <1>2, <1>3, <1>4, PTL DEF Spec
=============================================================================
