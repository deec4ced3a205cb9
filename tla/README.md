# Verification of webserv

webserv is an HTTP/1.1 server in C++98: one process, one thread, one `poll()`
loop. This directory holds TLA+ modules translated from its source, the TLC
configurations that check them on small instances, and proofs for TLAPS.
Paths below are relative to the repository (`src/network/...`,
`include/...`).

## 1. Inventory

| component | source | state | operations | modelled by |
|---|---|---|---|---|
| Event loop | `network/NetworkHandler.cpp` | `g_running`, loop index, copy of the current entry | `run`, `acceptNewConnection`, `processClientEvent`, `cleanup`, `signalHandler` | `NetworkHandler` |
| Poller | `network/Poller.cpp` | vector of `pollfd` | `addFd`, `removeFd`, `poll` (`setEvents` has no caller) | `Poller` |
| Connection table | `network/ConnectionManager.cpp` | map fd -> `Client` | `addClient`, `getClient`, `removeClient` | `NetworkHandler` |
| Client, reading | `network/Client.cpp` | `request_buffer`, `request_complete`, `content_length`, `content_parsed` | `readRequest`, `decodeChunkedBody`, `parseContentLength` | `Client` (bytes), `NetworkHandler` (amounts) |
| Client, writing | `network/Client.cpp` | `response_buffer`, `response_offset`, `response_sent` | `writeResponse` | `NetworkHandler` |
| CGI | `cgi/CgiHandler.cpp` | two pipes, a child process, a clock | `execute` | `CgiHandler` |
| Sessions, cookies | `cookies/*.cpp` | map id -> `Session` | create, look up, validate, expire, clean, track | `Sessions` |
| Dispatch | `http/HttpHandler.cpp`, `http/HttpUtils.cpp` | none | `processHttpRequest`, `checkConfig` and its checks, error pages, `handleGetRequest`, `handlePostRequest`, `handleDeleteRequest`, `handleCgiRequest` | `HttpHandler`, `HttpUtils` |
| Uploads, files | `http/HttpHandler.cpp`, `utils/fileUtils.cpp` | the file system | `handleUpload`, `makeUniqueFilename`, `writeStringToFile`, delete | `FileUtils`, `HttpHandler` |
| Request parser | `http/HttpRequest.cpp` | the parsed request | start line, query, headers, cookies, body | `HttpRequest` |
| Configuration | `config/*` | `ServerConfig`, `LocationConfig` | block parsers, setters with checks, inheritance | `ConfigParser`, `Config` |
| Start-up | `main.cpp`, `WebServer.cpp`, `network/Server*.cpp` | list of servers, listening sockets | unique ports, socket, bind, listen, the catch of `main` | `Startup` |
| Responses | `http/HttpResponse.cpp` | status, headers, body | `buildOk`, `buildError`, ... | `HttpHandler` (status, type, body), cookies in `Sessions` |
| Strings, exceptions | `utils/stringUtils.cpp`, `utils/throwError.cpp` | - | `trim`, `split`, `getline`; throwing | `Strings`, `ConfigParser` |

### How they interact

`run` owns everything. `poll` fills `revents` of all entries; the `for` loop
walks the vector by index and calls `acceptNewConnection` or
`processClientEvent`, which change that same vector (`push_back`, `erase`) and
the client map, and open and close descriptors. One event of a client reads
once, generates a response if the request is complete, and writes once.
Generating a response is a plain call into `httpHandler`, which may run a CGI
script: nothing else is served meanwhile. The only asynchronous caller is
SIGINT. The concurrency is therefore between the server's system calls and its
peers: what a socket, a pipe or the descriptor table is when a call is made
differs from what it was at `poll` time.

### What is hard, and what makes each component correct

* Event loop: erasing under the index, descriptors that come back with the
  next `accept`, stale `revents`, partial writes, pipelined requests, resets,
  running out of descriptors, SIGINT and SIGPIPE at any point. Correct means:
  vector, map and descriptor table agree; a client object is that of the
  connection behind its descriptor; every whole request is answered once and
  in full or its peer has gone; shutdown closes everything.
* Framing: bytes cut anywhere, chunks, lengths beyond `int`, what follows a
  request. Correct means: complete exactly with the last byte, the body as it
  was sent, the rest kept.
* CGI: two pipes with blocking ends, a script that may die, stay silent, write
  for ever or close its output. Correct means: `execute` returns, closes what
  it opened, reaps its child, and calls an answer complete only if it is.
* Sessions: cookie set against cookie read back, expiry against use, cleaning
  that happens only when the loop is awake.
* Configuration and start-up: what a directive affects depends on its position;
  duplicates are dropped silently; any of socket, bind and listen may fail for
  any server. Correct means: an accepted file means what its lines say; every
  server listens as configured when the loop starts; a failure leaves no
  half-made socket.
* Dispatch and files: four checks in a row, a location chosen by the path as it
  was sent and a file named by the decoded path, names made unique by looking
  first and writing afterwards, a disk that fills up, content cut out of a
  multipart body. Correct means: no request changes what a file holds, files
  come and go only as the request's own location allows, what was uploaded
  under a name is served and deleted by that name, and a script is given the
  request as it was sent.

`PROJECT.json` lists these hazards with their lines and the properties on
them.

## 2. Modules

| module | what it is |
|---|---|
| `Poller` | pure operators on the sequence of `pollfd` records |
| `NetworkHandler` | the loop, the client table, the kernel's sockets, the peers |
| `ConnectionLife` | abstract: what the server promises a peer; `NetworkHandler` implements it |
| `Client` | framing of requests, on sequences of tokens |
| `CgiHandler` | `execute` against a script and a clock |
| `Sessions` | the session map, the cookie functions, browsers |
| `Strings` | `std::string` and `stringUtils`, on sequences of pieces |
| `Config` | the configuration's data, its setters and directives |
| `ConfigParser` | reading the file, a line at a time |
| `Startup` | `main` and `WebServer`: reading, checking, opening the sockets |
| `HttpRequest` | `HttpRequest::parse`, as an operator |
| `HttpUtils` | locations, resource paths, multipart bodies, the checks |
| `FileUtils` | the file system and `fileUtils` |
| `FileStore` | abstract: what the files promise; `HttpHandler` implements it |
| `HttpHandler` | `processHttpRequest` with its effects |
| `MC*` | constants of the instances TLC checks |
| `NetworkHandlerProofs`, `ConnectionProofs` | theorems about the loop; the second about what it does for each connection |
| `ClientProofs`, `CgiHandlerProofs`, `SessionsProofs`, `StartupProofs`, `HttpHandlerProofs` | theorems about the module of that name |
| `Recursion` | lemmas about recursive functions, and with them about the operators of `Strings`, for the proofs of texts |

Definitions marked `Slip:` are plausible mistakes. No specification uses them;
putting one in place of the definition that follows it must break the property
it was written for, and `PROJECT.json` ("mutants") says which.

### NetworkHandler

`pc` is the place in `run`; each system call, and each stretch of code between
two of them, is one action, so that peers and the signal may act in between.

| state | code |
|---|---|
| `fds`, `i`, `cur` | `poller.fds`, the loop's index (from 1), the by-value `pollfd` parameter |
| `clients` | `connectionManager.clients`; a record per `Client`, buffers as amounts |
| `running` | `g_running` |
| `fdtab`, `listening`, `conn` | kernel: what each descriptor is, the open listeners, each connection's buffers and flags |

| action | code |
|---|---|
| `addListeningSocketsToPoller`, `CheckRunning`, `EnterPoll`, `PollReturns`, `PollThrows` | `run` up to the return of `poll` |
| `Skip`, `acceptNewConnection`, `BeginClientEvent`, `EndOfRound` | the body and the end of the `for` loop |
| `ReadData`, `ReadFails` | `readClientRequest` |
| `generateClientResponse`, `NothingToGenerate` | the second `if` of `processClientEvent` |
| `WriteLater`, `WriteSome`, `WriteError`, `WriteKills` | `writeClientResponse` and `writeResponse`: POLLOUT missing, written, reset, SIGPIPE |
| `cleanup`, `signalHandler` | the functions of these names |
| `Connect`, `Send`, `ShutDown`, `Reset`, `Receive` | peers |

Data is counted in units: a request is `Need` units, a response one of
`RespSizes`, a socket holds `Window`. `response_sent` is left out, since the
step that sets it also erases the client. `sent`, `wrote`, `owed`, `why` and
`abort` of a connection are history, for the properties only. Descriptors are
handed out lowest first, as POSIX demands, and each connection is used once;
descriptors are used again.

`generateClientResponse` stands for all of `httpHandler` and is atomic: the
thread does nothing else meanwhile. That it returns is an assumption here;
`CgiHandler` is about when it does.

### Client

A byte stream is a sequence of tokens (CRLF, hexadecimal digits, header lines,
text). `readRequest` and the part of `processClientEvent` that erases the
request are translated branch by branch, with `std::string::npos` and the
conversions of `atoi` and `size_t` (3 and 6 bits stand for 32 and 64). The
stream is a request, encoded as a peer would, and possibly a second one right
behind it. A chunk is announced by a line with its length in hexadecimal,
leading zeros and an extension (";" and more) included. `handed` is the buffer
the handler was given, as a sequence of none or one.

### CgiHandler

`execute` from `pipe` to `waitpid`, as a process with a program counter; the
script as an environment that reads, writes, closes its output or exits at any
time; pipes of `PipeCap` units; a clock that is looked at where the code looks
at it. A failed `fork` leaks its four ends, as the code does. SIGPIPE ends the
server.

### Sessions

| state | code |
|---|---|
| `sessions` | `SessionManager::sessions`; of the data, the address and agent a session is bound to; the counters as the set of addresses they count |
| `seed`, `drawn` | `srand` and how often an id was drawn since; with the time they determine the id |
| `last_session_cleanup`, `inRound`, `now` | the loop's variable, whether `poll` has returned, `time(NULL)` |
| `jar`, `users` | environment: each browser's cookie, its address and agent |
| `roundEnd`, `restarts`, `served`, and `replacement` in a session | history, for the properties |

| action | code |
|---|---|
| `processHttpRequest` | what a request does to sessions: `getOrCreateSession`, the comparison of address and agent, replacement of a session that is somebody else's, the counters, `Set-Cookie`; the response may be lost |
| `PollReturns`, `EndOfRound` | the loop, with the cleaning every five minutes |
| `Tick`, `Change`, `Restart` | time, a browser that moves to another network, a new process |

A browser applies the `Set-Cookie` headers of a response in their order and
sends its cookie until its `Max-Age` is over, or longer if its clock is late.
What a browser does is external to the repository. Requests with an id the
server never issued are left out.

### Strings, Config, ConfigParser, Startup

A string is a sequence of pieces: a character that some code looks for is a
piece of its own ("/", ".", ";", a blank), a run of characters that nothing
looks into is one piece. `find`, `substr`, `getline` and `split` are then
operators on sequences. Sizes are scaled: `Kilo` stands for 1024.
A numeral is one piece: `IntOf` is what `strtol` and `atoi` make of it, `Digits`
how many digits it has (`setHost` takes three at most), and `Octal` what
`inet_addr` makes of one that begins with 0.

A setter, and the directive that calls it, is the set of configurations it can
leave: one, or none if it refuses and the parser throws. `ConfigParser` reads
the file line by line; the three parsers that call one another are one
`block` variable (`"file"`, `"server"`, `"location"`), since a nested call ends
exactly where its block does. The file is not fixed beforehand: each step reads
any line out of `Lines`, so that all files up to the bound are covered.

| action | code |
|---|---|
| `parseFile`, `BlankLine`, `EndOfFile` | `ConfigParser::parseFile`, and the loops of the two block parsers |
| `parseServerDirectiveLine`, `handleLocation`, `CloseServer` | `serverBlockParser` |
| `parseLocationDirectiveLine`, `CloseLocation` | `locationBlockParser`, with `checkCgi` |
| `NoFile`, `checkServers`, `Exit` | `main`, `WebServer::WebServer`, the catch |
| `OpenSocket`, `Bind`, `Listen` | `ServerSocket::initSocketFd` |
| `OtherProgram` | another program takes or frees a port |

`SO_REUSEADDR` is why a port that nobody listens on can be bound at once.

### HttpRequest, HttpUtils, FileUtils, HttpHandler

`HttpHandler` takes a request in one step, as the single thread does, and gives
the response back in the next (`Return`); between requests the disk may fill up
or be cleared (`Disk`). Requests are what a browser sends, encoded piece by
piece and parsed again by `HttpRequest!parse`: `Multipart` and `Encode` are the
browser, everything else is the server.

| state | code |
|---|---|
| `files`, `dirs`, `full` | the file system below the working directory, which is taken for its root |
| `config` | the `ServerConfig` of the server |
| `stats` | the counters in each browser's session |
| `alive` | the process has not died |
| `exchange` | the request that was taken and its response |

| action | code |
|---|---|
| `BadRequest` | `HttpRequest::parse` fails |
| `Segfault` | `buildResourcePath` through a location that is `NULL` |
| `Refuse` | `checkConfig`: method, size, redirection |
| `handleCgiRequest` | CGI, with every outcome of `CgiHandler::execute` |
| `handleGetRequest`, `handlePostRequest` (with `handleUpload`), `handleDeleteRequest` | the functions of these names |

A path is put together by the server as text and taken apart by the kernel:
`Components` enters its names one after the other, ".." behind a directory
leading back out of it (`resolved`), so that `buildResourcePath`, which takes no
".." out, is followed where it goes.

The refinement `IsAFileStore` maps `files` to the only variable of `FileStore`.

Things the translation brought to light; the first contradicts a test fixture,
the others no document:

* `setIndex` tests the root instead of the index, so that any index is accepted,
  although `tests/fixtures/test2.conf` calls one with a "/" an error (lines 10
  and 32). No run is about it.
* `cgi_path` is passed to the script as its first argument and is otherwise not
  used: the script itself is executed.
* The root of a location gets no "/" at its end as that of a server does
  (`ServerConfig::setRoot`), so that `root /var/www/html` in a location makes
  `/var/www/htmlindex.html`.
* `ServerConfig::index` is not used by any request; `server_name` only reaches
  the CGI environment.
* A CGI script that does not exist answers 200 with the line the child writes
  before `execve`.
* `DELETE` of a folder's URL deletes its index file, or the folder when empty.
* Methods other than the three can never reach the last branch of
  `processHttpRequest`: no configuration allows them, so 405 comes earlier.

## 3. Runs

| run | instance | shows |
|---|---|---|
| `loop_safety` | 3 connections, 2 descriptors, 1 listener | `TypeOK`, `FdAgreement`, `ShutdownClosesAll` |
| `loop_answers` | 2 connections, 2 descriptors, 2 listeners, pipelined requests, responses of 1 and 2 units, window 1 | `ClientIsItsConnection`, `WriteHasRoom`, `AnsweredInFull`, `PassesOverOnlyAfterDrop`, refinement `KeepsPromise` |
| `loop_liveness` | 2 connections, requests of 2 units read one at a time, responses that fit | `RequestsAreAnswered`, `SigintStops`, under `FairSpec` |
| `loop_stall` | 1 connection with one request, a response twice the window | violation of `LifeCycleCompletes` |
| `client_framing` | every request of `MCRequests`, every cut | `TypeOK`, `CompleteWithLastByte`, `BodyIsReassembled`, `RestIsKept` |
| `client_rest` | the same | violation of `KeepRestOfBuffer` |
| `cgi_execute` | 2 calls, bodies of 0, 2 and 4 units, pipes of 2, deadline 2 | `TypeOK`, `CleansUp`, `AnswerIsWhole`, `ExecuteReturns`, under `LivelySpec` |
| `cgi_timeout` | 1 call, a script that may stay silent | violation of `TimeoutIsEnforced` |
| `sessions` | 2 browsers, 3 users, life 1 s, cleaning interval 1 s, times 0..3, 2 ids drawn, 1 restart, any number of requests that draw none | `TypeOK`, `KeepsItsCookie`, `CountsOneUser`, `IdsAreApart`, `CleanedInTime`, `EndsForAReason` |
| `startup` | files of up to 7 lines, 2 of them settings, out of 22 good and 25 bad directives; one port others may take | `TypeOK`, `SaysWhatTheFileSays`, `PagesAndReturnsAreSaid`, `ListensAsConfigured`, `NoHalfOpenSocket` |
| `http` | 1 browser, 43 requests, two configurations, disk full or not, 2 counted operations | `TypeOK`, `IsAFileStore` (refinement), `KeptWhenPlain`, `CountsAreTrue`, `DiesOnlyUnmatched`, `MethodsAreObeyed`, `PlacesAreObeyed`, `DeletesTheNamed`, `NamedFileIsServed`, `ParsedAsSent`, `ScriptTalksToPeer` |
| `http_created` | the same | violation of `CreatedIsStored` |

Bounds, and why they are enough. Three connections on two descriptors make
`accept` fail and make a descriptor come back while an older client is still
there; erasing shows its effect with two clients in the vector. `MaxSend` is
one request for the descriptor questions and two for the pipelining ones. A
response of two units over a window of one is the smallest partial write. In
`Client`, lengths go up to and beyond the largest `int`, bodies contain CRLF
and `0 CRLF CRLF`, and `ReadMax` is 16, so that a read is anything from one
token to nearly all of a request. In `CgiHandler` one body exceeds the pipe,
and the descriptors last for one leak and then for none. In `Sessions`, times
reach past a life and an interval together. `MaxDrawn` bounds the requests that
draw an id and no others: the second draw is the replacement of a refused
session, which then takes requests like any other, so that one more address is
counted in it before it is bound and a third is refused; the users differ in
the address alone or in the agent too. In `Startup`, two
servers, or a server with two locations, fit into `MaxLines`, and with
`MaxPlain` = 2 every pair of settings occurs in every order, in one block or in
two: two error pages of one status, a return code and a return target among
them. One host has an octet behind a zero and one a dot at its end. Lines that
are always refused end a file wherever they stand. `OtherProgram` is left out
until a server has been read, when a port of its own can matter. In
`HttpHandler`, `MaxCount` = 2 lets each request that changes something be
followed by each other one (the same name uploaded twice, an upload deleted or
read back, an upload after its folder was deleted), and refused requests come
in any number; content is of 0 to 7 pieces against a limit of 26 for the body,
and `BufferSize` lies between the two. A deletion climbs out of its location by
"..", as the index of "/" does; some requests have no path, or a URL in its
place. With one browser "in no other session" of `CountsAreTrue` is empty; the
theorem is for any browsers. Names contain a blank and a plus sign, which
`encodeURIComponent` changes. The configurations are that of
`config/server.conf` and one without a location "/". Symmetry is used over
connections and browsers in safety runs only.

Deadlock is not checked: `Startup` ends, a dead process in `HttpHandler` takes
no request, a server may sleep in `poll` for ever when no peer
comes, a stream ends, the calls are used up, and a CGI call may truly hang
(which `ExecuteReturns` is about).

Fairness. `run` is weakly fair: the process is scheduled, and every state of
the loop other than waiting has an enabled step. The steps by which it dies
(`poll` throws, SIGPIPE) are never due. `Receive` is weakly fair for
each peer in the loop's liveness runs: a peer that never reads cannot be
answered. Peers are not obliged to send, shut down or reset, and no signal is
obliged to come. In `CgiHandler`, `execute` and the clock are weakly fair; the
script is so in `LivelySpec` only, where "lively" includes writing for ever.

### What the runs show

* A round passes over a ready client only right behind one that was dropped,
  and that client is served in a later round (`RequestsAreAnswered`).
* `POLLOUT` is tested on old `revents`, but between two polls only the server
  itself fills a socket and it does so once, so that `write` finds room.
* `SigintStops` is weaker than one would like: a signal between the test of
  `g_running` and `poll(-1)` stays unnoticed until a peer wakes the loop.
* `AnsweredInFull` guarantees that no RST destroys the response only for a peer
  that sent exactly one request: with more bytes unread the close resets.
* `CompleteWithLastByte` and `BodyIsReassembled` are stated for requests that
  are `Understood`: a length that is an `int`, and no `0 CRLF CRLF` before the
  last chunk. `Host: localhost:8080` as last header violates the latter.

* A client that neither sent nor is owed anything keeps the loop busy: it is
  registered for `POLLOUT`, for which an idle socket is always ready, so `poll`
  returns at once. Nothing breaks, and it hides the fact that cleaning happens
  only when `poll` returns: `CleanedInTime` speaks of the end of a round and
  not of the time of day.
* `replaceCookies` expires `WEBSERVER_SESSION` where the cookie that was set is
  `WEBSERV_SESSION`. `KeepsItsCookie` holds nevertheless, because the cookie of
  the new session follows and overwrites the old one; with the names corrected
  the order of the two headers would matter, as the mutant shows.
* The replacement of a refused session is not bound to its user before the next
  request: in between, one more address may be counted (`CountsOneUser`).
* Session ids repeat after a restart in the second of the start (`IdsAreApart`):
  the generator is seeded with the time.
* `KeptWhenPlain` is as much as can be said of an upload: content that neither
  ends with a line end nor holds a line end followed by "--", on a disk with
  room. On a full disk an upload that fits into the stream's buffer is answered
  201 and stored empty, because `good()` is asked before the file is closed.
  A location that redirects with 201 is not an upload.
* `MethodsAreObeyed`: a path that no location matches is governed by the
  server's own methods, and `ServerConfig` allows DELETE unless the file says
  otherwise: without a location "/", files below the root can be deleted.
* `DiesOnlyUnmatched`: a request for a folder that no location matches ends the
  process (`HttpUtils.cpp:132`). Without a location "/" that is any folder
  outside the others; with one it still is a request whose path does not begin
  with "/", since the parser takes any word for a target: `?q`, `foo/` and
  `http://host/` belong to no location.
* `PlacesAreObeyed`: uploads come into their store whatever their names, but
  what a deletion takes is below its location's root only if the path put
  together has no "..": nothing in `buildResourcePath` looks for one, although
  the setters refuse it in roots.
* `ListensAsConfigured`: a server without `host` listens at `INADDR_NONE`, which
  is accepted by `bind` and reached by nobody. The address is otherwise that of
  the host only if no octet has a zero before it: `setHost` reads an octet in
  decimal, `inet_addr` in octal, so that 127.0.0.010 passes as 127.0.0.10 and
  is bound as 127.0.0.8.
* `PagesAndReturnsAreSaid`: `return` lines of one block mix. A line with a code
  alone leaves the target of an earlier one, a line with a target alone sets the
  code to 302.
* `ScriptTalksToPeer`: a body that came in chunks reaches the script without
  a `CONTENT_LENGTH`. The end of a script's headers is sought as CRLF CRLF
  first: of a script that ends its lines with LF and has CRLF CRLF in its body
  the body is cut there. `ScriptIsHeard` leaves such scripts out
  (`EndsWhereSought`); the instance has one.
* `CountsAreTrue`: an upload that fails half-way leaves a file that no counter
  knows of; it is the only way.
* A cookie's `Max-Age` is set once and never renewed, so that a browser drops an
  active session after an hour; `isExpired` is then only seen by browsers whose
  clock is late.

### Findings

1. `loop_stall`: only `POLLIN` starts an event (`NetworkHandler.cpp:193`). A
   response larger than the socket's buffer stays unfinished for a peer that
   just waits; if the peer shuts down its side, the rest is dropped. The
   comment at line 112 promises "life cycle of a client (read, process,
   write)".
2. `client_rest`: "Keep rest of buffer" (line 149) is not what happens to a
   chunked request: its buffer was decoded in place, `find` yields `npos`, the
   sum wraps around, and part of the body stays as the start of the next
   request.
3. `cgi_timeout`: `TIMEOUT_SECONDS` is not enforced for a script that stays
   silent, or that closes its output and goes on: `read` and `waitpid` block.
4. `http_created`: `extractFileContentFromMultipartBody` ends the content before
   the line end of the boundary and then removes a line end once more. A text
   file loses its last one; `script.js` reports a successful upload.

## 4. Proofs

Every theorem holds for all values of the constants that satisfy the named
assumptions; TLC evaluates those assumptions on each instance. Each safety
proof has the same shape: an inductive invariant, that `Init` gives it and that
every action keeps it (one lemma or step per action), and from it the
properties.

### The event loop

`NetworkHandlerProofs`, from `ConstantsAssumption`: `Invariance`,
`TypeCorrectness`, `Agreement` (`FdAgreement`), `ClientsAreFound` (`getClient`
never throws), `RoundsKeepOrder` (`PassesOverOnlyAfterDrop`). They rest on what
`addFd` and `removeFd` do to a sequence of entries with distinct descriptors
(`AddFdLemma`, `RemoveFdLemma`).

`IInv` is `TypeOK`, `FdAgreement`, and two conjuncts that make them inductive.
`CountsOK` bounds each client's and connection's counters (a complete request
has `Need` units in the buffer, an offset is below its response's size, a
flight is within the window), without which `TypeOK` is lost by the
subtractions. `NothingOpenYet` says that before the loop starts there is no
descriptor and no client, without which `FdAgreement`, which says nothing of
that moment, could not be established by `addListeningSocketsToPoller`. The
interesting steps are `acceptNewConnection` (the new descriptor is not in the
vector because the vector's descriptors are the open ones) and the three
actions that `Drop` (erasing the one entry of a descriptor shifts later entries
but never the listeners, which come first).

`ConnectionProofs`, from the same assumption: `ClientsKeepTheirConnection`
(`ClientIsItsConnection`), `RoomToWrite` (`WriteHasRoom`), `AnswersInFull`
(`AnsweredInFull`), `ShutdownIsClean` (`ShutdownClosesAll`), and the refinement
`LoopKeepsPromise` (`KeepsPromise`: the loop implements `ConnectionLife`).
`JInv` adds to `IInv` what none of these can do without:

* `Holders`: open descriptors and open connections correspond one to one, so
  that closing a descriptor closes one connection and leaves no other;
* `DownIsDown`: after `cleanup`, or a throw, or SIGPIPE, nothing is open;
* `Pairs`: a client's buffers and its connection's history account for the same
  units (what was read, is buffered or was answered is what was sent);
* `ConnsOK`: a connection that was not accepted has nothing written to it, and
  one closed as answered got all of it;
* `ReportsLast`: what `poll` reported of an entry at or behind the index is
  still true, because between two polls only the server reads from its sockets
  and writes to them. This is why a `write` on old `revents` finds room;
* `EventOK`: where `processClientEvent` is, of the client that it works on.

The refinement maps each connection to what its peer sees of it. Each action is
shown to change one connection, and that change to be a step of
`ConnectionLife` for it, or none; those that close every connection at once are
its shutdown. `ClientFds` is assumed finite: `accept` returns the lowest free
descriptor, below `RLIMIT_NOFILE`.

### Client

`ClientProofs`, from `ClientAssumption` (what peers send: see `RequestOK`; a
read takes at least one token; an `int` is narrower than a `size_t`) and
`PowersAssumption` (facts about powers of two that the provers do not have):
`CompleteInTime` (`CompleteWithLastByte`), `KeepsTheRest` (`RestIsKept`),
`BodyIsWhole` (`BodyIsReassembled`) and `TypeCorrectness` (`TypeOK`).

`FInv` says what the buffer is at every moment: while bytes are missing, the
prefix of the stream that was read (`Reading`), and, if a length was parsed, it
is the one that the headers mean; then that prefix again, or the headers with
the body put together (`Reassembled`, `Complete`); and once the request was
handed over, what follows it. `TypeOK` holds of requests the code
misunderstands, too, and has an invariant of its own for them (`Bounded`):
nothing makes the buffer longer than what was read. The
lemmas are about `find` on prefixes of a stream: the end of the headers is
found in a prefix if and only if the prefix holds it (`FoundInPrefix`), and the
headers of a prefix say what those of the request say (`HeadersSay`), so that
no cut makes the code look at something else.

That `decodeChunkedBody` undoes the encoding (`DecodesToBody`) is proved for
any number of chunks of any length, of any bytes, with anything behind the last
one. The decoder is a recursive function, and so are the folds `strtoul` and
`FlattenSeq` are built from; of such a function one must first know that it
exists (`WalkExists`, `ValuesExist`, `FlatExists`), and the library's induction
theorems cannot be used. The proofs argue by the first number at which
something fails instead: what holds at 0 and is handed on below n holds up to n
(`Reaches`, from the well-foundedness of the numbers). Along the chunks:
the line of the k-th chunk is found where it was put (`CrlfFrom`, `SizeLine`:
there is no CRLF in it), its digits make its length (`StrtoulFacts`), the
decoder takes as many bytes whatever they are, two more, and is at the next
line (`OneChunk`); at the last one it stops (`TheLastChunk`), since its digits
make 0 and those of no other do.

### CgiHandler

`CgiHandlerProofs`, from `CgiAssumption`: `TypeCorrectness`, `Cleanup`
(`CleansUp`) and `WholeAnswers` (`AnswerIsWhole`), whatever the script does.

`IInv` is `TypeOK` with `ServerEnds` (the ends the server has open at each
point of `execute`; at `fork`, that there is room to leak all four),
`ScriptEnds` (the script, and its ends, exist inside a call only), `Pipes`
(the pipe is empty before the script's first line; at `waitpid` it is empty
and its writing end closed) and `Results`. `AnswerIsWhole` speaks of the
moment of the return only, `Pipes` of the steps before.

### Sessions

`SessionsProofs`, from `SessionsAssumption` and `NoCookieAssumption` (no cookie
is none), for any browsers, users, life time, interval and bounds:
`SessionsTypeCorrectness`, `IdleSessionsGo` (`CleanedInTime`), `CookiesAreKept`
(`KeepsItsCookie`), `SessionsCountOneUser` (`CountsOneUser`), `IdsStayApart`
(`IdsAreApart`), `SessionsEndForAReason` (`EndsForAReason`).

`SInv` adds `CleaningOK` to `TypeOK`: at the last cleaning no session that is
still there was older than `MaxAge`, and at the end of the last round the next
cleaning was not yet due. The sum of the two is `CleanedInTime`, which is not
inductive without them. The lemmas go through `getOrCreateSession` and
`sessionOf`: each leaves every session as old as it was or used now.

`UInv` adds whom sessions and cookies belong to. `RunIds`: the sessions in the
map have ids drawn by this process. `JarIds`: an id that some browser still
holds was drawn before, so that no later draw repeats it, unless a restart fell
into the second of the start. `CountsOK`: who may be counted in a session, a
replacement being nobody's until its second request. Without the first two a
new id could be that of a session in the map, and every property would be lost
with it.

### Configuration and start-up

`StartupProofs`, from `ConfigAssumption`, `ParserAssumption` and
`StartupAssumption` (the machine's own addresses are well-formed, and nobody
listens on port 0), for any lines, ports, addresses and numbers of servers:
`TypeCorrectness`, `Listening` (`ListensAsConfigured`), `CleanFailure`
(`NoHalfOpenSocket`), and `FileIsObeyed` (`SaysWhatTheFileSays`).

The invariant of the first three has two parts. `ParserOK`: the server that is
being read and all that were read are in order, and a location that is being
read has a size in range already, since it inherits its server's; it is kept by
the directives one by one (`ServerDirectiveLemma`, `LocationDirectiveLemma`,
`AddLocationLemma`). `SocketsOK`: the k-th socket belongs to the k-th server,
all but the last are placed and listening, and the last is so except at `bind`
and `listen`. None of the three properties is inductive without it:
`ListensAsConfigured` speaks of `running` only, when all sockets were placed
many steps ago.

`SaysWhatTheFileSays` speaks of the end of the file only, and of the text by
its nesting: a line belongs to the blocks whose depth it has. The parser knows
nothing of depths; it has one server and one location in its hands. Its
invariant `TextOK` ties the two together at every line. In `FilePage`,
`ServerPage` and `LocationPage`, for the three values of `block`: the depth is
0, 1 or 2; the servers read so far are those whose blocks have ended
(`ServersWritten`); the server in hand is what the lines of its block say so
far (`ServerSettings`), with the locations that have ended in it, without the
repeated ones (`LocationsWritten`); and the location in hand is what its lines
say (`LocationSays`). A line is appended to the text, and each definition is
shown to change as the parser does: `SaysNext` (what a block says after one
more line), `ServerEffect` and `LocationEffect` (every directive does what the
words of its line say, and is no line that opens a block), `BlockKept` and
`EndIs` (a block that has ended stays as it is), `RankMore` (the ranks of the
servers and locations above do not change). That a directive is found again by
the first word of its line rests on `split`, `trim` and
`removeTrailingSemicolon` of `Strings` (`FirstWord`, `TrimFacts`,
`WordsBegin`); its first word being a directive's, it does not have the form of
a line that opens a block (`LineKinds`), so that the depth is unchanged.

### HttpHandler

`HttpHandlerProofs`, from `HttpAssumption` (files and directories form a finite
tree at the start; a location's path begins with "/" and is that of no other, a
server's root ends in "/", as the setters see to; requests are `RequestOK`:
texts are sequences of strings, and the name of a file in a form has no quote
and no line end, which browsers escape; what scripts print is `OutputOK`: a
type of one line and any body) and `RequestAssumption` (requests are
`WellFormed`: a request line of words, or one without a target, headers in
lines, none of them empty, and a length only as the browser adds it). A path
need not begin with "/", and may hold "..". The first two of the theorems below
use `HttpAssumption` only.

* `TypeCorrectness`, and the refinement `FilesAreNeverChanged`
  (`IsAFileStore`). `IInv` is `TypeOK` with `FilesOK` and `StatsOK` (files and
  counters are functions, so that an update changes one of them) and
  `FatalRequest`. An upload adds a file because `makeUniqueFilename` found its
  name free (`NamesAreFree`, `WrittenAdds`).
* `DiesOnlyWithoutLocation` (`DiesOnlyUnmatched`). `FatalRequest` keeps the
  request that ended the process: it is for a folder, and belongs to no
  location, so that its path does not begin with "/" where that is one.
* `MethodsObeyed` (`MethodsAreObeyed`), an action property. What the code
  computes by a loop over the locations is compared with `Owner` and `Rules`,
  read off the configuration: the location that was found matches, and every
  other that matches is a prefix of it (`LongestIsFound`, `RulesOfTheFound`;
  matching prefixes of one path are nested, `PrefixesNest`). What the checks
  let through, those rules allow (`AllowedByRules`).
* `UploadsAreKept` (`KeptWhenPlain`). A multipart body is five sequences one
  behind the other, and every position in it is known (`FiveJoined`,
  `BodyIsLaidOut`). The first empty line is the one before the content, since
  no name of a file holds a line end (`HeadersEnd`); the first line end with
  dashes behind it is the one after the content, since the content is plain
  (`ContentEnds`); so what is cut out is the content (`PlainIsExtracted`). Only
  an upload that was written answers 201 (`NotCreatedByChecks`,
  `NotCreatedByCgi`, `NotCreatedByOthers`).

* `RequestsParsed` (`ReadAsSent`: method, path, query and body of what `parse`
  returns are those that were sent). What `parse` returns is a value computed
  by loops over a text of any length, `std::getline` above all, and the lemmas
  about `Strings` in `Recursion` say of each loop what it does with two texts
  one behind the other (`PartsOfConcat`, `WithoutConcat`). With them: the first
  empty line is the one before the body (`InLines`, `LinesJoin`), so that what
  is read up to it is the headers; the first line is the request line
  (`FirstLine`), and its words are the three that were sent; and the query
  starts at the first "?", which no path holds (`FoundBetween`).
* `HeadersAreRead` (`ParsedAsSent`), under `HeadersAreUsual` (a request says a
  host and a session). What a text of headers or cookies says is defined by
  positions: the fields between its line ends or ";" (`Field`, `Starts`), those
  whose name is the one asked for (`Naming`), and the value of the last of them
  (`Given`). The map that `parseHeaders` and `parseCookies` fill, one part after
  the other, has that value (`MapGives`), or none where no field has the name
  (`MapSilent`): the parts are the fields (`PartsAreFields`, `LastNamed`). The
  line with the length is the last one, and no other gives one (`LengthFound`).
* `ScriptsAreServed` (`ScriptTalksToPeer`), under `ScriptsAreNamed` (a request
  to a location with scripts says the script's extension, and no line end in the
  script's name). Towards the script: its extension is found in the path, not at
  the start, and what follows is `PATH_INFO` (`PathInfoFollows`). Back to the
  peer: the server prints "./" and the script's name on a line of its own before
  the script prints anything, so the first empty line is still the script's own
  (`OutputEnds`), if it ends where the code seeks it (`EndsWhereSought`), and
  the type is found on the second line (`TwoLinesRead`, `TypeIsHeard`). The
  name is that of a file, and the path that leads to it ends in its name
  whatever ".." are on the way (`LastIsEntered`), so that the child does change
  into its directory (`ScriptIsRead`). Nobody but `handleCgiRequest` answers
  with a script (`SilentChecks`, `SilentFiles`).
* `PlacesObeyed` (`PlacesAreObeyed`), under two hypotheses: roots end in "/"
  (`RootsAreFolders`), and what `std::ostringstream` prints of a number has no
  "/" (`NumeralsHaveNoSlash`). A path of the file system is put together from a
  root and a part of the URL, and taken apart again at every "/": its names are
  those of the root followed by those of the part. Where no ".." is among them
  each is entered (`ResolvedPlain`), so that the file lies below the root
  (`BelowRoot`). An upload's name has no "/", and is no ".." when anything is
  written, because that would be a directory: it is entered last, whatever the
  store's own path is (`WrittenInStore`), and `makeUniqueFilename` changes only
  it.
* `NamedIsServed` (`NamedFileIsServed`) and `NamedIsDeleted`
  (`DeletesTheNamed`), under `RootsAreFolders` and `NamesAreEncoded` (a request
  that names a file has a location for it and says the name behind that
  location, as `encodeURIComponent` writes it):
  `urlDecode` undoes that whatever the pieces (`DecodesEncoded`), hence the
  path that the handler looks up is the one that was named (`NamedIsFound`).
* `CountsAreKept` (`CountsAreTrue`), an action property: what a session's
  counters gain is what appeared in the file system, and no other session's
  change. The invariant is `IInv` with `Finite`, since a number of files
  is compared with. An upload adds exactly one because its name was free
  (`ThingsGrow`), DELETE takes at most one (`ThingsShrink`), and nothing else
  touches either (`NothingMoves`).

`MCHttpHandler` assumes `RootsAreFolders`, `NamesAreEncoded`, `HeadersAreUsual`
and `ScriptsAreNamed` of its instance (`HypothesesAssumption`), so that TLC
evaluates them.

### Only model-checked

* Liveness (`RequestsAreAnswered`, `SigintStops`, `ExecuteReturns`): it needs
  `ENABLED`, which the prover does not have.
* `PagesAndReturnsAreSaid`: of a block's lines several together make the pages
  and the return, which the invariant of `FileIsObeyed`, made for the last line
  of each name, does not follow.
* The violations under "Findings".

## 5. Plan

Models: `HttpHandler` composed with `Sessions`, so that a counter is checked
across a replaced session; the loop with a `generateClientResponse` that may
block in `CgiHandler`, for the liveness of the other connections.

Proofs: every invariant, action property and refinement of the passing runs is
proved, but `PagesAndReturnsAreSaid`: for it `TextOK` needs a conjunct for the
pages and returns of the blocks in hand.

## 6. Not modelled

Wording and layout of responses and error messages, logging, the `HTTP_*`
variables of the CGI environment, `inet_ntoa`, failures of `fcntl`, and memory
exhaustion. File permissions, symbolic links, and what lies outside the working
directory: it is taken for the root of the file system, above which ".." does
not lead.
A "\n\n" inside a multipart header block that ends in "\r\n\r\n". A limit on
what is buffered before the checks does not exist, so that there is nothing to
check. That a slow script delays other connections follows from the
composition: `generateClientResponse` is one step of the loop and `execute`
what it waits for.
