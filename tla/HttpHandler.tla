---------------------------- MODULE HttpHandler ----------------------------
(***************************************************************************)
(* httpHandler::processHttpRequest on the requests that browsers send, one *)
(* after the other as the event loop runs it: the checks against the       *)
(* configuration, and GET, POST, DELETE and CGI with what they do to the   *)
(* files and to the session's counters.  The disk may fill up and be       *)
(* cleared.  The session itself is found by module Sessions, CGI processes *)
(* are run by module CgiHandler: here a browser keeps its session, and a   *)
(* script prints what it likes, fails or runs out of time.                 *)
(***************************************************************************)
EXTENDS HttpUtils

CONSTANTS
  Browsers,
  Servers,      \* the configurations, one of which is the server's
  Requests,     \* what browsers send: see RequestOK
  FirstFiles, FirstDirs,   \* the file system at the start
  Outputs,      \* what scripts print: see OutputOK
  Numeral,      \* the numeral for each length of a body
  MaxCount,     \* BOUND: of the counters of a session together
  MaxFiles      \* BOUND: of the files, when an upload begins

\* method, path, query and headers: of the request.  kind: "form", a file
\* in a multipart body; "raw", a body that is content and nothing else, and
\* "chunked", one that was sent in chunks; "none", no body.  file and content
\* are the file's.  named: the file in the upload store that it names by its
\* encodeURIComponent, or <<>>.  Browsers escape quotes and line ends in the
\* name of a file.
RequestOK(q) ==
  /\ q.kind \in {"form", "raw", "chunked", "none"}
  /\ q.kind = "none" => q.content = <<>>
  /\ {q.path, q.file, q.content, q.named} \subseteq Seq(STRING)
  /\ ToSet(q.file) \cap {"CRLF", "LF", "CR", "QUOTE"} = {}

\* A script prints a body behind a line with its type, and behind no such line
\* if type is <<>>.  end: how it ends its lines.
OutputOK(o) ==
  /\ {o.type, o.body} \subseteq Seq(STRING) /\ o.end \in {"LF", "CRLF"}
  /\ ToSet(o.type) \cap LineEnds = {}
  /\ o.type # <<>> => o.type[1] \notin Blank /\ Last(o.type) \notin Blank

\* At the start, files and directories form a finite tree; a server's locations
\* are locations, each of a path of its own (addLocation) that begins with "/"
\* (setLocation), and its root ends in "/".
ASSUME HttpAssumption ==
  /\ \A q \in ToSet(Requests) : RequestOK(q)
  /\ FirstFiles = [n \in DOMAIN FirstFiles |-> FirstFiles[n]]
  /\ DOMAIN FirstFiles \cap FirstDirs = {} /\ IsFiniteSet(DOMAIN FirstFiles \cup FirstDirs)
  /\ \A n \in DOMAIN FirstFiles \cup FirstDirs : Front(n) \in FirstDirs
  /\ \A o \in Outputs : OutputOK(o)
  /\ \A e \in DOMAIN Escapes : Escapes[e] \in Seq(STRING)
  /\ \A s \in Servers :
       /\ s.root \in Seq(STRING) /\ s.root # <<>> /\ Last(s.root) = "/"
       /\ \A l \in ToSet(s.locations) :
            /\ l # NULL /\ {l.location, l.root, l.index, l.upload_store} \subseteq Seq(STRING)
            /\ l.location # <<>> /\ l.location[1] = "/"
       /\ \A l, k \in ToSet(s.locations) : l.location = k.location => l = k
  /\ MaxCount \in Nat /\ MaxFiles \in Nat /\ BufferSize \in Nat

VARIABLES
  config,     \* the server's configuration
  alive,      \* the process runs
  stats,      \* the counters in each browser's session
  exchange    \* the request that was taken and its response, until the
              \* event loop has it

vars == <<files, dirs, full, config, alive, stats, exchange>>

NoStats == [page_views |-> 0, upload_count |-> 0, delete_count |-> 0,
            cgi_count |-> 0, last_upload |-> <<>>]

\* The bound leaves room for one more in some counter.
Countable(b) ==
  stats[b].page_views + stats[b].upload_count + stats[b].delete_count
    + stats[b].cgi_count < MaxCount
-----------------------------------------------------------------------------
(* The requests as browsers send them. *)

Multipart(q) ==
  <<"--", "boundary", "CRLF", "disposition", "filename=", "QUOTE">> \o q.file
    \o <<"QUOTE", "CRLF", "type", "CRLF", "CRLF">> \o q.content
    \o <<"CRLF", "--", "boundary", "--", "CRLF">>

BodyOf(q) == IF q.kind = "form" THEN Multipart(q) ELSE q.content

\* The headers of q, and its length unless it is chunked.
HeadersOf(q) ==
  q.headers \o (IF q.kind \in {"form", "raw"}
                THEN <<"Content-Length", ":", " ", Numeral[Len(BodyOf(q))], "CRLF">>
                ELSE <<>>)

\* With its body, which module Client has already put together again.
Encode(q) ==
  LET target == q.path \o (IF q.query = <<>> THEN <<>> ELSE <<"?">> \o q.query)
  IN  q.method \o <<" ">> \o target \o <<" ", "HTTP", "CRLF">>
        \o HeadersOf(q) \o <<"CRLF">> \o BodyOf(q)

\* The fields of a text stand between pieces of D, and a field gives, behind the
\* first c, the value of a name: by where they start, those that give name one;
\* and the last such value.
Field(s, D, i) ==
  SubSeq(s, i, Min({j \in i..(Len(s) + 1) : j > Len(s) \/ s[j] \in D}) - 1)
Starts(s, D) == {i \in 1..Len(s) : i = 1 \/ s[i - 1] \in D}
Naming(s, D, c, name) ==
  {i \in Starts(s, D) : /\ Find(Field(s, D, i), <<c>>) # npos
                        /\ nameOf(Field(s, D, i), c) = name}
Given(s, D, c, name) == valueOf(Field(s, D, Max(Naming(s, D, c, name))), c)
Says(s, D, c, name, value) ==
  Naming(s, D, c, name) # {} /\ Given(s, D, c, name) = value

\* What is sent: a request line of words, or one without a target, and headers
\* each on a line of its own, where a number is one piece, and given only as the
\* length that the body has.
WellFormed(q) ==
  /\ {q.method, q.query, q.headers} \subseteq Seq(STRING)
  /\ q.method # <<>> /\ "?" \notin ToSet(q.path)
  /\ \A w \in {q.method, q.path, q.query} : ToSet(w) \cap Blank = {}
  /\ q.headers # <<>> => q.headers[1] \notin LineEnds /\ Last(q.headers) \in LineEnds
  /\ \A i \in 2..Len(q.headers) :
       q.headers[i] \in LineEnds => q.headers[i - 1] \notin LineEnds
  /\ Numeral[Len(BodyOf(q))] \in STRING \ Blank
  /\ Naming(q.headers, LineEnds, ":", <<"Content-Length">>) = {}

ASSUME RequestAssumption == \A q \in ToSet(Requests) : WellFormed(q)

\* From here on q is a position in Requests.
request == [q \in DOMAIN Requests |-> parse(Encode(Requests[q]))]

located == [s \in Servers |-> [q \in DOMAIN Requests |->
  IF request[q].ok THEN findLocationForPathRequest(s, request[q].path) ELSE NULL]]
-----------------------------------------------------------------------------
(* Responses (HttpResponse). *)

NoScript == [env |-> <<>>, stdin |-> <<>>, printed |-> <<>>]

Response(status, type, body) ==
  [status |-> status, type |-> type, body |-> body, target |-> <<>>,
   stats |-> NoStats, script |-> NoScript]

html == <<"text/html">>
buildPage(code) == Response(code, html, <<"page", ToString(code)>>)
buildBadRequest == buildPage(400)
buildForbidden == buildPage(403)
buildNotFound == buildPage(404)
buildMethodNotAllowed == buildPage(405)
buildPayloadTooLarge == buildPage(413)
buildInternalServerError == buildPage(500)
buildCreated == buildPage(201)
buildNoContent == buildPage(204)
buildError(code) == buildPage(code)

buildOk(content, mime) == Response(200, IF mime = <<>> THEN html ELSE mime, content)

buildRedirect(l) ==
  [buildPage(l.return_code) EXCEPT !.target = l.return_target]

\* A page of the location, else one of the server, if its file is there.
customErrorPages(code, l) ==
  LET path(c) == <<"www">> \o c.error_pages[code]
      has(c) == code \in DOMAIN c.error_pages /\ isFileExisting(path(c))
  IN  IF l # NULL /\ has(l) THEN {path(l)}
      ELSE IF has(config) THEN {path(config)} ELSE {}

defaultPage(code) ==
  CASE code = 400 -> buildBadRequest [] code = 403 -> buildForbidden
    [] code = 404 -> buildNotFound [] code = 405 -> buildMethodNotAllowed
    [] code = 413 -> buildPayloadTooLarge [] OTHER -> buildInternalServerError

handleError(code, l) ==
  LET custom == customErrorPages(code, l)
  IN  IF custom = {} THEN defaultPage(code)
      ELSE Response(code, html, extractFileInString(CHOOSE p \in custom : TRUE))
-----------------------------------------------------------------------------
(* The session's counters (cookieUtils). *)

trackPageView(s) == [s EXCEPT !.page_views = @ + 1]

\* Slip: counted twice.
TrackTwice(s, filename) == [s EXCEPT !.upload_count = @ + 2, !.last_upload = filename]

trackFileUpload(s, filename) ==
  [s EXCEPT !.upload_count = @ + 1, !.last_upload = filename]

trackFileDelete(s) == [s EXCEPT !.delete_count = @ + 1]
trackCgiExecution(s) == [s EXCEPT !.cgi_count = @ + 1]

\* The counters that are shown are those of the session.
getSessionStatsJson(s) == s
-----------------------------------------------------------------------------
(* CGI (CgiHandler). *)

\* What the script is given: its environment, and the body on its stdin.
setupEnvironment(r, s, script_path, path_info) ==
  [REQUEST_METHOD |-> r.method, SCRIPT_NAME |-> script_path,
   PATH_INFO |-> path_info, REQUEST_URI |-> r.path,
   QUERY_STRING |-> r.query_string,
   CONTENT_LENGTH |-> valueOr(r.headers, <<"Content-Length">>),
   CONTENT_TYPE |-> valueOr(r.headers, <<"Content-Type">>),
   HTTP_HOST |-> valueOr(r.headers, <<"Host">>),
   SERVER_NAME |-> s.server_name, SERVER_PORT |-> s.listen]

\* Slip: GET's body is sent as well.
AnyBody(r) == r.body

stdinOf(r) == IF r.method = <<"POST">> THEN r.body ELSE <<>>

PrintedBy(o) ==
  IF o.type = <<>> THEN o.body
  ELSE <<"Content-Type:", " ">> \o o.type \o <<o.end, o.end>> \o o.body

\* The child writes the script's name before it becomes the script; a script
\* that cannot be run prints nothing more.
CgiOutput(script_path, o) ==
  LET banner == <<"./">> \o Last(Components(script_path)) \o <<"LF">>
  IN  IF Front(Components(script_path)) \notin dirs THEN <<>>
      ELSE IF ~isFile(script_path) THEN banner
      ELSE banner \o PrintedBy(o)

extractCgiContentType(out) ==
  LET end == endOfHeaders(out)
      headers == IF end = npos THEN <<>> ELSE linesAndBody(Before(out, end)).lines
      types == {i \in DOMAIN headers : StartsWith(headers[i], <<"Content-Type:">>)}
  IN  [type |-> IF types = {} THEN html ELSE trim(Tail(headers[Min(types)])),
       body |-> IF end = npos THEN out ELSE From(out, end + 2)]
-----------------------------------------------------------------------------
(* processHttpRequest. *)

NoExchange == [browser |-> NULL, sent |-> NULL, response |-> NULL, full |-> FALSE]

Init ==
  /\ files = FirstFiles /\ dirs = FirstDirs /\ full = FALSE
  /\ config \in Servers
  /\ alive = TRUE
  /\ stats = [b \in Browsers |-> NoStats]
  /\ exchange = NoExchange

locationConfig(q) == located[config][q]

resource_path(q) ==
  buildResourcePath(config, locationConfig(q), request[q].path)

Answer(b, q, response) ==
  exchange' = [browser |-> b, sent |-> q, response |-> response, full |-> full]

BadRequest(b, q) ==
  /\ alive /\ ~request[q].ok
  /\ Answer(b, q, buildBadRequest)
  /\ UNCHANGED <<files, dirs, full, config, alive, stats>>

\* buildResourcePath, before anything is checked.
Segfault(b, q) ==
  /\ alive /\ request[q].ok
  /\ dereferencesNull(locationConfig(q), request[q].path)
  /\ alive' = FALSE
  /\ Answer(b, q, NULL)
  /\ UNCHANGED <<files, dirs, full, config, stats>>

Parsed(q) ==
  alive /\ request[q].ok /\ ~dereferencesNull(locationConfig(q), request[q].path)

\* The first checks of checkConfig, as the set of the answers that refuse.
refusal(l, r) ==
  IF ~checkMethodAllowed(config, l, r) THEN {handleError(405, l)}
  ELSE IF ~checkBodySize(config, l, r) THEN {handleError(413, l)}
  ELSE IF checkRedirection(l) THEN {buildRedirect(l)}
  ELSE {}

Refuse(b, q) ==
  /\ Parsed(q)
  /\ \E response \in refusal(locationConfig(q), request[q]) : Answer(b, q, response)
  /\ UNCHANGED <<files, dirs, full, config, alive, stats>>

Allowed(q) == Parsed(q) /\ refusal(locationConfig(q), request[q]) = {}

scriptOf(q) == extractCgiScriptPath(resource_path(q), cgiExtension(locationConfig(q)))

isCgi(q) == checkCgiRequest(cgiExtension(locationConfig(q)), scriptOf(q))

\* The script's answer; a failure; or the time-out, which has no custom page.
cgiResponses(l, script) ==
  {[Response(200, extractCgiContentType(CgiOutput(script, o)).type,
             extractCgiContentType(CgiOutput(script, o)).body)
      EXCEPT !.script = [NoScript EXCEPT !.printed = o]] : o \in Outputs}
    \cup {handleError(500, l), buildError(504)}

handleCgiRequest(b, q) ==
  LET l == locationConfig(q)
      r == request[q]
      given(response) ==
        [response EXCEPT
           !.script.env = setupEnvironment(r, config, scriptOf(q),
                            extractCgiPathInfo(r.path, cgiExtension(l))),
           !.script.stdin = stdinOf(r)]
  IN  /\ Allowed(q) /\ isCgi(q)
      /\ \/ /\ r.method \in {<<"GET">>, <<"POST">>}
            /\ Countable(b)
            /\ \E response \in cgiResponses(l, scriptOf(q)) :
                 /\ Answer(b, q, given(response))
                 /\ stats' = [stats EXCEPT ![b] = IF response.status = 200
                                                  THEN trackCgiExecution(@) ELSE @]
         \/ /\ r.method \notin {<<"GET">>, <<"POST">>}
            /\ Answer(b, q, handleError(405, l))
            /\ UNCHANGED stats
      /\ UNCHANGED <<files, dirs, full, config, alive>>

Handled(q, method) ==
  request[q].ok /\ request[q].method = method /\ Allowed(q) /\ ~isCgi(q)

SessionStats == <<"/", "api", "/", "session-stats">>

\* generateAutoindexHtml: the names in the directory.
generateAutoindexHtml(p) == <<{Last(n) : n \in Inside(Components(p))}>>

getResponse(l, p, counters) ==
  IF Find(p, SessionStats) # npos
  THEN [buildOk(<<>>, <<"application/json">>) EXCEPT
          !.stats = getSessionStatsJson(counters)]
  ELSE IF isDirectory(p)
  THEN IF l # NULL /\ l.autoindex THEN buildOk(generateAutoindexHtml(p), html)
       ELSE handleError(403, l)
  ELSE IF ~isFileExisting(p) THEN handleError(404, l)
  ELSE buildOk(extractFileInString(p), getMimeType(p))

\* The page view is counted before it is known whether there is a page.
handleGetRequest(b, q) ==
  /\ Handled(q, <<"GET">>)
  /\ Countable(b)
  /\ stats' = [stats EXCEPT ![b] = trackPageView(@)]
  /\ Answer(b, q, getResponse(locationConfig(q), resource_path(q), stats'[b]))
  /\ UNCHANGED <<files, dirs, full, config, alive>>

\* The name an upload gets: what its path and its form say, made unique.
uploadNames(l, r) ==
  LET filename == extractFilenameFromPath(
                    r.path \o extractFilenameFromMultipartBody(r.body))
  IN  IF isFileExisting(l.upload_store \o <<"/">> \o filename)
      THEN makeUniqueFilename(l.upload_store, filename) ELSE {filename}

handleUpload(b, q) ==
  LET l == locationConfig(q)
      content == extractFileContentFromMultipartBody(request[q].body)
  IN  /\ Handled(q, <<"POST">>) /\ checkUploadAllowed(l)
      /\ Countable(b) /\ Cardinality(DOMAIN files) < MaxFiles
      /\ \E filename \in uploadNames(l, request[q]) :
           LET filepath == l.upload_store \o <<"/">> \o filename
               ok == writeStringToFile(filepath, content)
           IN  /\ files' = IF writable(filepath) THEN written(filepath, content) ELSE files
               /\ stats' = IF ok THEN [stats EXCEPT ![b] = trackFileUpload(@, filename)]
                           ELSE stats
               /\ Answer(b, q, IF ok THEN buildCreated ELSE handleError(500, l))
      /\ UNCHANGED <<dirs, full, config, alive>>

handlePostRequest(b, q) ==
  \/ handleUpload(b, q)
  \/ /\ Handled(q, <<"POST">>) /\ ~checkUploadAllowed(locationConfig(q))
     /\ Answer(b, q, handleError(400, locationConfig(q)))
     /\ UNCHANGED <<files, dirs, full, config, alive, stats>>

handleDeleteRequest(b, q) ==
  LET l == locationConfig(q)
      p == resource_path(q)
  IN  /\ Handled(q, <<"DELETE">>)
      /\ Countable(b)
      /\ IF isFileExisting(p) /\ removable(p)
         THEN /\ files' = Restrict(files, DOMAIN files \ {Components(p)})
              /\ dirs' = dirs \ {Components(p)}
              /\ stats' = [stats EXCEPT ![b] = trackFileDelete(@)]
              /\ Answer(b, q, buildNoContent)
         ELSE /\ Answer(b, q, handleError(IF isFileExisting(p) THEN 500 ELSE 404, l))
              /\ UNCHANGED <<files, dirs, stats>>
      /\ UNCHANGED <<full, config, alive>>

processHttpRequest(b, q) ==
  /\ exchange = NoExchange
  /\ \/ BadRequest(b, q) \/ Segfault(b, q) \/ Refuse(b, q)
     \/ handleCgiRequest(b, q)
     \/ handleGetRequest(b, q) \/ handlePostRequest(b, q) \/ handleDeleteRequest(b, q)

\* The response goes back to the event loop, which may then take a request.
Return ==
  /\ alive /\ exchange # NoExchange
  /\ exchange' = NoExchange
  /\ UNCHANGED <<files, dirs, full, config, alive, stats>>

\* The disk fills up, or somebody makes room.
Disk ==
  /\ alive /\ exchange = NoExchange
  /\ full' = ~full
  /\ UNCHANGED <<files, dirs, config, alive, stats, exchange>>

Next == \/ \E b \in Browsers, q \in DOMAIN Requests : processHttpRequest(b, q)
        \/ Return \/ Disk

Spec == Init /\ [][Next]_vars
-----------------------------------------------------------------------------
(* Properties. *)

\* Files and directories form a tree; counters stay in their bounds; a dead
\* process has answered nothing.
TypeOK ==
  /\ DOMAIN files \cap dirs = {}
  /\ \A n \in DOMAIN files \cup dirs : Front(n) \in dirs
  /\ full \in BOOLEAN /\ alive \in BOOLEAN /\ config \in Servers
  /\ \A b \in Browsers :
       \A c \in {"page_views", "upload_count", "delete_count", "cgi_count"} :
         stats[b][c] \in 0..MaxCount
  /\ ~alive => exchange.response = NULL

\* Whatever is asked, in whatever order, and even on a full disk: no request
\* changes what a file holds.  In particular two uploads of one name give two
\* files (handleUpload and makeUniqueFilename look first and write later).
Store == INSTANCE FileStore WITH store <- files
IsAFileStore == Store!Spec

sent == Requests[exchange.sent]
answered == exchange.sent # NULL /\ exchange.response # NULL
status == exchange.response.status

\* The location a request belongs to, read off the configuration.
OwnerIn(s, path) ==
  {l \in ToSet(s.locations) :
     /\ StartsWith(path, l.location)
     /\ \A k \in ToSet(s.locations) :
          StartsWith(path, k.location) => IsPrefix(k.location, l.location)}
Owner(path) == OwnerIn(config, path)

UploadStores == {l.upload_store : l \in ToSet(config.locations)} \ {<<>>}

\* A file name a browser sends in a form: no directories in it.
AFileName(w) == w # <<>> /\ "/" \notin ToSet(w)

\* Content in which nothing looks like a boundary, and that which
\* extractFileContentFromMultipartBody returns as it is.
WithoutBoundary(content) ==
  Find(content, <<"CRLF", "--">>) = npos /\ Find(content, <<"LF", "--">>) = npos
Plain(content) ==
  /\ content # <<>> => Last(content) \notin {"CRLF", "LF", "CR"}
  /\ WithoutBoundary(content)

Stored(content) ==
  \E d \in UploadStores :
    LET n == Components(d \o <<"/">> \o stats[exchange.browser].last_upload)
    IN  n \in DOMAIN files /\ files[n] = content

\* A location may redirect with any status, 201 among them.
Uploaded ==
  /\ answered /\ status = 201 /\ sent.kind = "form" /\ AFileName(sent.file)
  /\ \A l \in Owner(sent.path) : l.return_code = 0

\* An upload that is answered 201 is in the store, complete, under the name
\* the session shows, if the disk had room and the content neither ends with
\* a line end nor looks like a boundary inside.
KeptWhenPlain ==
  Uploaded /\ ~exchange.full /\ Plain(sent.content) => Stored(sent.content)

\* What script.js tells the user on any 2xx answer: the upload succeeded.
\* extractFileContentFromMultipartBody does not keep it of text files.
CreatedIsStored ==
  Uploaded /\ ~exchange.full /\ WithoutBoundary(sent.content) => Stored(sent.content)

\* What appears and disappears is counted, one by one, in the session that
\* asked for it and in no other: only an upload that is answered 500 may leave
\* a file uncounted.
Net(b) == stats[b].upload_count - stats[b].delete_count
Things == Cardinality(DOMAIN files \cup dirs)
CountsAreTrue ==
  [][\E b \in Browsers :
       /\ exchange'.browser = b /\ \A d \in Browsers \ {b} : stats'[d] = stats[d]
       /\ \/ Things' - Things = Net(b)' - Net(b)
          \/ status' = 500 /\ Things' = Things + 1 /\ Net(b)' = Net(b)]_<<files, dirs, stats>>

\* The path is put behind the root as it is: only a root that ends in "/"
\* keeps what is served from it apart from its neighbours (behind "www",
\* "wwwx" would be one of its files).
RootsAreFolders ==
  \A s \in Servers : \A l \in ToSet(s.locations) : l.root # <<>> => Last(l.root) = "/"

\* What encodeURIComponent makes of w: each piece or its escape.
Encodes(e, w) ==
  /\ Len(e) = Len(w)
  /\ \A i \in DOMAIN e : IF e[i] \in DOMAIN Escapes THEN Escapes[e[i]] = <<w[i]>>
                          ELSE e[i] = w[i] /\ e[i] # "+"

\* A request that names a file says its name behind the location it belongs to,
\* and that location is one for files.
NamesAreEncoded ==
  \A q \in DOMAIN Requests : Requests[q].named # <<>> =>
    /\ Requests[q].path # <<>>
    /\ AFileName(Requests[q].named) /\ Requests[q].named \notin {<<".">>, Up}
    /\ \A s \in Servers :
         /\ Requests[q].method = <<"DELETE">> => OwnerIn(s, Requests[q].path) # {}
         /\ \A l \in OwnerIn(s, Requests[q].path) :
              /\ Encodes(Requests[q].path, l.location \o Requests[q].named)
              /\ l.return_code = 0 /\ l.cgi_extension = <<>>
              /\ Len(BodyOf(Requests[q])) <= l.client_max_body_size
              /\ Find(rootOf(s, l) \o Requests[q].named, SessionStats) = npos

\* Only a request for a folder that belongs to no location ends the process:
\* where "/" is a location, one whose path does not begin with a "/", which the
\* parser accepts ("?query" alone and "http://host/" among them).
DiesOnlyUnmatched ==
  ~alive =>
    /\ Owner(sent.path) = {}
    /\ urlDecode(sent.path) # <<>> => Last(urlDecode(sent.path)) = "/"
    /\ \A l \in ToSet(config.locations) :
         l.location = <<"/">> => sent.path = <<>> \/ sent.path[1] # "/"

\* The rules for a path: its location's, or the server's where none matches.
Rules(path) == IF Owner(path) = {} THEN {config} ELSE Owner(path)

\* Files come and go only by a POST or DELETE that the rules for the request's
\* own path allow, no longer than their limit: an upload only where a location
\* has uploads on, and nothing where it redirects.
MethodsAreObeyed ==
  [][<<files, dirs>>' # <<files, dirs>> =>
       \E l \in Rules(sent'.path) :
         /\ sent'.method \in l.allowed_methods
         /\ Len(BodyOf(sent')) <= l.client_max_body_size
         /\ l \in Owner(sent'.path) => l.return_code = 0
         /\ \/ sent'.method = <<"DELETE">>
            \/ sent'.method = <<"POST">> /\ l \in Owner(sent'.path) /\ l.upload_enable]_vars

\* The path that is put together for a request has a "..": buildResourcePath
\* takes none out, neither of the request's path nor of the index.
Climbs(q) == Up \in ToSet(namesOf(resource_path(q)))

\* ... and only where they say: an upload, whatever its name, comes into the
\* store of its location; what a deletion takes was below the root, unless the
\* path that was put together climbs.
PlacesAreObeyed ==
  [][<<files, dirs>>' # <<files, dirs>> =>
       \E l \in Rules(sent'.path) :
         /\ \A n \in DOMAIN files' \ DOMAIN files : Front(n) = Components(l.upload_store)
         /\ \A n \in (DOMAIN files \cup dirs) \ (DOMAIN files' \cup dirs') :
              \/ IsPrefix(Components(IF l.root = <<>> THEN config.root ELSE l.root), n)
              \/ Climbs(exchange'.sent)]_vars

\* Where the file is that a request names by its encodeURIComponent.
NamedFile(q) ==
  UNION {{Components(rootOf(config, l)) \o <<q.named>>} : l \in Owner(q.path)}

\* Deleting by name, as script.js does with what the listing shows, removes
\* the file of that name and nothing else: whatever characters it has, and
\* every time there is such a file.
DeletesTheNamed ==
  [][exchange'.response # NULL /\ sent'.method = <<"DELETE">>
       /\ sent'.named # <<>> /\ status' # 405 =>
       /\ DOMAIN files' = DOMAIN files \ NamedFile(sent')
       /\ NamedFile(sent') \cap DOMAIN files # {} =>
            status' = 204]_vars

\* Getting a file by its name returns what was stored under it.
NamedFileIsServed ==
  answered /\ sent.method = <<"GET">> /\ sent.named # <<>> /\ status \notin {405, 504} =>
    \A n \in NamedFile(sent) :
      /\ n \in DOMAIN files => status = 200 /\ exchange.response.body = files[n]
      /\ n \notin DOMAIN files \cup dirs => status = 404

\* Every request says the host and the session that ParsedAsSent is about.
HeadersAreUsual ==
  \A r \in ToSet(Requests) : r.path # <<>> \/ r.query # <<>> =>
    /\ Says(HeadersOf(r), LineEnds, ":", <<"Host">>, <<"localhost", ":", "8080">>)
    /\ Naming(HeadersOf(r), LineEnds, ":", <<"Cookie">>) # {}
    /\ Says(Given(HeadersOf(r), LineEnds, ":", <<"Cookie">>), {";"}, "=",
            <<"WEBSERV_SESSION">>, <<"sess_", "1">>)

\* The parser finds in a request what the browser put there, whatever ends
\* its lines and surrounds its values.
ParsedAsSent ==
  answered /\ request[exchange.sent].ok =>
    LET r == request[exchange.sent]
    IN  /\ r.method = sent.method /\ r.path = sent.path
        /\ r.query_string = sent.query /\ r.body = BodyOf(sent)
        /\ r.headers[<<"Host">>] = <<"localhost", ":", "8080">>
        /\ r.cookies[<<"WEBSERV_SESSION">>] = <<"sess_", "1">>
        /\ sent.kind \in {"form", "raw"} =>
             r.headers[<<"Content-Length">>] = <<Numeral[Len(r.body)]>>

\* A request to a location with scripts says the script's extension, and what
\* names the script has no line end.
ScriptsAreNamed ==
  \A q \in ToSet(Requests), s \in Servers : \A l \in OwnerIn(s, q.path) :
    l.cgi_extension # <<>> =>
      /\ l.cgi_extension \in Seq(STRING) /\ l.cgi_extension[1] # "/"
      /\ Find(q.path, l.cgi_extension) # npos
      /\ ToSet(rootOf(s, l)) \cap LineEnds = {} /\ ToSet(urlDecode(q.path)) \cap LineEnds = {}

\* A script runs with the request as it was sent: its query, what follows the
\* script in its path, a POST's body, and that body's length unless it came
\* in chunks, when no length is given.
ScriptGetsItsRequest ==
  answered /\ exchange.response.script # NoScript =>
    LET env == exchange.response.script.env
        in == exchange.response.script.stdin
    IN  /\ env.REQUEST_METHOD = sent.method /\ env.QUERY_STRING = sent.query
        /\ \E i \in DOMAIN sent.path, l \in Owner(sent.path) :
             /\ sent.path = SubSeq(sent.path, 1, i) \o env.PATH_INFO /\ i > 1
             /\ SubSeq(sent.path, i - Len(l.cgi_extension) + 1, i) = l.cgi_extension
        /\ in = (IF sent.method = <<"POST">> THEN BodyOf(sent) ELSE <<>>)
        /\ env.CONTENT_LENGTH =
             (IF sent.kind \in {"form", "raw"} THEN <<Numeral[Len(BodyOf(sent))]>> ELSE <<>>)

\* Its headers end where CgiHandler looks for their end: at the first CRLF
\* CRLF, and only if there is none at the first LF LF.
EndsWhereSought(o) == o.end = "CRLF" \/ Find(o.body, <<"CRLF", "CRLF">>) = npos

\* A script that prints its headers is passed on with its type and with
\* exactly its body, although the server writes a line before it; but for one
\* that ends its lines with LF and has CRLF CRLF in its body.
ScriptIsHeard ==
  answered /\ exchange.response.script # NoScript /\ status = 200 =>
    LET o == exchange.response.script.printed
    IN  o # <<>> /\ o.type # <<>> /\ EndsWhereSought(o) =>
          \/ exchange.response.type = o.type /\ exchange.response.body = o.body
          \/ ~isFile(scriptOf(exchange.sent))

\* Nothing is lost between the peer and such a script, in either direction.
ScriptTalksToPeer == ScriptGetsItsRequest /\ ScriptIsHeard
=============================================================================
