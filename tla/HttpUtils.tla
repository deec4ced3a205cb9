----------------------------- MODULE HttpUtils -----------------------------
(***************************************************************************)
(* Namespace httpUtils: which location a request belongs to, which file it *)
(* names, what an upload's body holds, and what the configuration allows.  *)
(* s is a ServerConfig, l a LocationConfig or NULL, both as in Config; r   *)
(* is a request as HttpRequest's parse returns it.                         *)
(***************************************************************************)
EXTENDS Config, HttpRequest, FileUtils

CONSTANTS
  NULL,
  Escapes    \* what each %XX of a URL, one piece, is decoded to

\* Slip: a location is for its own path only.
ExactLocation(s, path) ==
  LET same == {i \in DOMAIN s.locations : s.locations[i].location = path}
  IN  IF same = {} THEN NULL ELSE s.locations[Min(same)]

\* The longest location that the path, as it was sent, begins with.
findLocationForPathRequest(s, path) ==
  LET matching == {i \in DOMAIN s.locations : StartsWith(path, s.locations[i].location)}
      length(i) == Len(s.locations[i].location)
  IN  IF matching = {} THEN NULL
      ELSE s.locations[CHOOSE i \in matching :
                         \A j \in matching : length(j) <= length(i)]

\* Slip: the path is taken as it came.
Undecoded(w) == w

urlDecode(w) ==
  LET piece(c) == IF c \in DOMAIN Escapes THEN Escapes[c]
                  ELSE IF c = "+" THEN <<" ">> ELSE <<c>>
      from[i \in Nat \ {0}] ==
        IF i > Len(w) THEN <<>> ELSE piece(w[i]) \o from[i + 1]
  IN  from[1]
-----------------------------------------------------------------------------
(* buildResourcePath. *)

rootOf(s, l) == IF l # NULL /\ l.root # <<>> THEN l.root ELSE s.root

\* Slip: the prefix stays.
WholePath(l, path) == urlDecode(path)

\* The decoded path without the location's prefix, if it still has it.
belowLocation(l, path) ==
  LET prefix == IF l = NULL THEN <<"/">> ELSE l.location
      decoded == urlDecode(path)
  IN  IF StartsWith(decoded, prefix) THEN From(decoded, Len(prefix) + 1) ELSE decoded

namesFolder(w) == w # <<>> => Last(w) = "/"

\* A folder without a location: the location's CGI extension is read through
\* a null pointer.
dereferencesNull(l, path) == l = NULL /\ namesFolder(belowLocation(l, path))

indexOf(l) == IF l.index # <<>> THEN l.index ELSE <<"index", ".", "html">>

\* Slip: a location's own root is not looked at.
BelowServerRoot(s, l, path) == s.root \o belowLocation(l, path)

buildResourcePath(s, l, path) ==
  LET root == rootOf(s, l)
      below == belowLocation(l, path)
      indexed == IF /\ namesFolder(below)
                    /\ l.cgi_extension = <<>>
                    /\ isFileExisting(root \o below \o indexOf(l))
                 THEN below \o indexOf(l) ELSE below
  IN  IF root # <<>> /\ Last(root) = "/" /\ indexed # <<>> /\ indexed[1] = "/"
      THEN root \o Tail(indexed)
      ELSE root \o indexed
-----------------------------------------------------------------------------
(* An uploaded file in its multipart body. *)

endOfHeaders(body) ==
  IF Find(body, <<"CRLF", "CRLF">>) # npos THEN Find(body, <<"CRLF", "CRLF">>)
  ELSE Find(body, <<"LF", "LF">>)

\* Slip: the boundary at the end is not looked for.
RestOfBody(body) ==
  IF endOfHeaders(body) = npos THEN <<>> ELSE From(body, endOfHeaders(body) + 2)

\* The content ends at what looks like a boundary; of its own bytes a last
\* line end is lost, as if it stood before the boundary.
extractFileContentFromMultipartBody(body) ==
  LET start == endOfHeaders(body) + 2
      crlf == FindFrom(body, <<"CRLF", "--">>, start)
      lf == FindFrom(body, <<"LF", "--">>, start)
      content == SubSeq(body, start, IF crlf # npos THEN crlf - 1
                                     ELSE IF lf # npos THEN lf - 1 ELSE Len(body))
  IN  IF endOfHeaders(body) = npos THEN <<>>
      ELSE IF content # <<>> /\ Last(content) \in {"CRLF", "LF", "CR"}
      THEN Front(content)
      ELSE content

extractFilenameFromMultipartBody(body) ==
  LET key == Find(body, <<"filename=", "QUOTE">>)
      end == FindFrom(body, <<"QUOTE">>, key + 2)
  IN  IF key = npos \/ end = npos THEN <<>> ELSE SubSeq(body, key + 2, end - 1)

extractFilenameFromPath(path) ==
  LET slash == FindLast(path, <<"/">>)
  IN  IF slash # npos /\ slash < Len(path) THEN From(path, slash + 1)
      ELSE <<"upload", ".", "data">>

MimeTypes ==
  [html |-> "text/html", htm |-> "text/html", css |-> "text/css",
   js |-> "application/javascript", json |-> "application/json",
   png |-> "image/png", jpg |-> "image/jpeg", jpeg |-> "image/jpeg",
   gif |-> "image/gif", svg |-> "image/svg+xml", ico |-> "image/x-icon",
   txt |-> "text/plain", pdf |-> "application/pdf",
   zip |-> "application/zip", tar |-> "application/x-tar"]

getMimeType(path) ==
  LET ext == From(path, FindLast(path, <<".">>) + 1)
  IN  IF Find(path, <<".">>) # npos /\ Len(ext) = 1 /\ ext[1] \in DOMAIN MimeTypes
      THEN <<MimeTypes[ext[1]]>> ELSE <<"application/octet-stream">>
-----------------------------------------------------------------------------
(* What the configuration allows. *)

methodsOf(s, l) == IF l = NULL THEN s.allowed_methods ELSE l.allowed_methods

\* Slip: the server's methods are asked.
ServerAllows(s, l, r) == r.method \in s.allowed_methods

checkMethodAllowed(s, l, r) == r.method \in methodsOf(s, l)

checkBodySize(s, l, r) ==
  Len(r.body) <= (IF l = NULL THEN s.client_max_body_size ELSE l.client_max_body_size)

checkRedirection(l) == l # NULL /\ l.return_code # 0

checkUploadAllowed(l) == l # NULL /\ l.upload_enable /\ l.upload_store # <<>>

cgiExtension(l) == IF l = NULL THEN <<>> ELSE l.cgi_extension

\* The first place of the extension, and the position behind it.
afterExtension(path, ext) == Find(path, ext) + Len(ext)

checkCgiRequest(ext, path) ==
  LET after == afterExtension(path, ext)
  IN  /\ ext # <<>> /\ path # <<>>
      /\ Find(path, ext) # npos
      /\ after <= Len(path) => path[after] = "/"

extractCgiScriptPath(path, ext) ==
  IF Find(path, ext) = npos THEN path
  ELSE SubSeq(path, 1, afterExtension(path, ext) - 1)

extractCgiPathInfo(path, ext) ==
  IF Find(path, ext) = npos THEN <<>> ELSE From(path, afterExtension(path, ext))
=============================================================================
