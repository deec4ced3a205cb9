--------------------------- MODULE MCHttpHandler ---------------------------
(***************************************************************************)
(* An instance of HttpHandler for TLC: the locations of config/server.conf *)
(* and, as a second server, some of them without "/".                      *)
(***************************************************************************)
EXTENDS HttpHandler

MCIntOf == "0" :> 0
MCExisting == {}
MCEscapes == "%20" :> <<" ">> @@ "%2B" :> <<"+">> @@ "%" :> <<>>
MCNumeral == [n \in 0..60 |-> ToString(n)]

www == <<"www", "/">>
At(name) == <<"/", name, "/">>
Index == <<"index", ".", "html">>
Location(path) == LocationConfig(path, Kilo * Kilo)

UploadLocation ==
  [Location(At("upload")) EXCEPT
     !.root = www \o <<"uploads", "/">>, !.allowed_methods = {<<"GET">>, <<"POST">>},
     !.upload_enable = TRUE, !.upload_store = www \o <<"uploads">>,
     !.client_max_body_size = 26]

DisplayLocation ==
  [Location(At("display-upload")) EXCEPT
     !.root = www \o <<"uploads", "/">>, !.autoindex = TRUE,
     !.allowed_methods = {<<"GET">>}]

DeleteLocation ==
  [Location(At("delete-file")) EXCEPT
     !.root = www \o <<"uploads", "/">>, !.allowed_methods = {<<"DELETE">>}]

CgiLocation(methods) ==
  [Location(At("cgi-bin")) EXCEPT
     !.root = www \o <<"cgi-bin", "/">>, !.allowed_methods = methods,
     !.cgi_extension = <<".", "py">>,
     !.cgi_path = <<"/", "usr", "/", "bin", "/", "python3">>]

RedirectLocation ==
  [Location(At("redirect")) EXCEPT
     !.return_code = 301, !.return_target = <<"http", "target">>]

RootLocation ==
  [Location(<<"/">>) EXCEPT !.index = <<"errors", "/", ".", ".", "/", "html", "/">> \o Index,
     !.error_pages = 404 :> <<"/", "errors", "/", "404", ".", "html">>
                       @@ 403 :> <<"/", "errors", "/", "none">>]

MCServers ==
  {[ServerConfig EXCEPT
      !.error_pages = 405 :> <<"/", "errors", "/", "404", ".", "html">>,
      !.locations = <<RootLocation, UploadLocation, DisplayLocation, DeleteLocation,
                      CgiLocation({<<"GET">>, <<"POST">>}), RedirectLocation>>],
   [ServerConfig EXCEPT
      !.locations = <<UploadLocation, DeleteLocation, CgiLocation(Methods)>>]}

Dir(names) == [i \in DOMAIN names |-> <<names[i]>>]
MCFirstDirs ==
  {<<>>, Dir(<<"www">>), Dir(<<"www", "uploads">>), Dir(<<"www", "html">>),
   Dir(<<"www", "errors">>), Dir(<<"www", "cgi-bin">>)}
MCFirstFiles ==
  (Dir(<<"www", "html">>) \o <<Index>>) :> <<"welcome">>
    @@ (Dir(<<"www", "errors">>) \o <<<<"404", ".", "html">>>>) :> <<"lost">>
    @@ (Dir(<<"www", "cgi-bin">>) \o <<<<"script", ".", "py">>>>) :> <<"code">>

MCOutputs ==
  {[type |-> <<"text/plain">>, end |-> "LF", body |-> <<"hello", "LF", "LF", "you">>],
   [type |-> <<"text/plain">>, end |-> "LF", body |-> <<"part", "CRLF", "CRLF", "part">>],
   [type |-> <<"text/html">>, end |-> "CRLF", body |-> <<>>],
   [type |-> <<>>, end |-> "LF", body |-> <<"hello">>]}
-----------------------------------------------------------------------------
(* Requests. *)

Host == <<"Host", ":", " ", "localhost", ":", "8080", "CRLF">>
Cookie == <<"Cookie", ":", "x", "=", "1", ";", " ", "WEBSERV_SESSION", "=", "sess_", "1">>
Usual == Host \o Cookie \o <<"CRLF">>
Unusual == <<"no", "colon", "LF", "Host", ":", "other", "CRLF">> \o Cookie
             \o <<" ", "TAB", "LF", "Host", "TAB", ":", "TAB", "localhost", ":", "8080", "LF">>

R(method, path) ==
  [method |-> <<method>>, path |-> path, query |-> <<>>, headers |-> Usual,
   kind |-> "none", file |-> <<>>, content |-> <<>>, named |-> <<>>]

\* encodeURIComponent
Encoded(name) ==
  LET escape(c) == {e \in DOMAIN MCEscapes : MCEscapes[e] = <<c>>}
  IN  [i \in DOMAIN name |-> IF escape(name[i]) = {} THEN name[i]
                             ELSE CHOOSE e \in escape(name[i]) : TRUE]

Upload(file, content) ==
  [R("POST", At("upload")) EXCEPT !.kind = "form", !.file = file, !.content = content]

Named(method, location, name) ==
  [R(method, At(location) \o Encoded(name)) EXCEPT !.named = name]

A == <<"a", ".", "txt">>
Names == <<A, <<"a", "_1", ".", "txt">>, <<"b", " ", "+">>, Index>>
AllNamed(method, location) ==
  [i \in DOMAIN Names |-> Named(method, location, Names[i])]

Gets ==
  AllNamed("GET", "display-upload") \o
  <<R("GET", <<"/">>), R("GET", <<"/", "html">>), R("GET", <<"/", "none">>),
    R("GET", <<"/", "nothing", "/">>), R("GET", At("display-upload")),
    R("GET", At("redirect")), R("GET", <<"/", "api", "/", "session-stats">>),
    [R("GET", <<"/">>) EXCEPT !.headers = Unusual]>>

Posts ==
  <<Upload(A, <<"x">>), Upload(A, <<"x", "LF">>), Upload(A, <<"x", "CRLF", "--", "y">>),
    Upload(A, <<"x", "y", "z">>), Upload(A, <<"x", "y", "z", "x", "y", "z", "x">>),
    Upload(<<"b", " ", "+">>, <<"x">>), Upload(Index, <<"x">>), Upload(<<>>, <<"x">>),
    [R("POST", <<"/", "html">>) EXCEPT !.kind = "raw", !.content = <<"x">>],
    [R("POST", At("upload")) EXCEPT !.kind = "chunked", !.content = <<"x">>]>>

Deletes ==
  AllNamed("DELETE", "delete-file") \o
  <<R("DELETE", At("delete-file")), R("DELETE", At("delete-file") \o <<".">>),
    R("DELETE", At("upload")), R("DELETE", <<"/">>),
    R("DELETE", At("html") \o Index), R("DELETE", At("delete-file") \o <<"html", "/">> \o Index),
    R("DELETE", At("delete-file") \o Up \o At("html") \o Index),
    R("DELETE", At("cgi-bin") \o <<"script", ".", "py">>)>>

Script(method, kind, path) ==
  [R(method, At("cgi-bin") \o path) EXCEPT
     !.query = <<"q", "=", "1">>, !.kind = kind,
     !.content = IF kind = "none" THEN <<>> ELSE <<"x", "y">>]

Scripts ==
  LET more == <<"script", ".", "py", "/", "more">>
  IN  <<Script("GET", "none", more), Script("POST", "raw", more),
        Script("POST", "chunked", more), Script("GET", "raw", more),
        Script("GET", "none", <<"gone", ".", "py">>)>>

\* Without a path, and with a URL in its place.
Others ==
  <<R("PUT", <<"/">>), [R("GET", <<>>) EXCEPT !.headers = <<>>],
    [R("GET", <<>>) EXCEPT !.query = <<"q">>],
    R("GET", <<"http", ":", "/", "/", "localhost", "/">>)>>

MCRequests == Gets \o Posts \o Deletes \o Scripts \o Others

\* What some theorems take as a hypothesis.
ASSUME HypothesesAssumption ==
  RootsAreFolders /\ NamesAreEncoded /\ HeadersAreUsual /\ ScriptsAreNamed
=============================================================================
