-------------------------- MODULE HttpHandlerProofs --------------------------
(***************************************************************************)
(* processHttpRequest, the parser and the files: for any configurations,   *)
(* requests and scripts, whatever the disk holds at the start and however  *)
(* full it is, the handler implements FileStore; and, for requests as      *)
(* browsers send them, what was sent is what is parsed, headers and        *)
(* cookies included, a request ends the process only where no location     *)
(* matches, files come and go when and where the rules say, are served and *)
(* deleted by their names, uploads are kept, and scripts talk to the peer. *)
(***************************************************************************)
EXTENDS HttpHandler, Recursion, FiniteSetTheorems

\* files is a function, and a session has its counters.
FilesOK == files = [n \in DOMAIN files |-> files[n]]

Counters == {"page_views", "upload_count", "delete_count", "cgi_count"}

IsStats(s) ==
  s = [page_views |-> s.page_views, upload_count |-> s.upload_count,
       delete_count |-> s.delete_count, cgi_count |-> s.cgi_count,
       last_upload |-> s.last_upload]

StatsOK ==
  /\ stats = [b \in Browsers |-> stats[b]]
  /\ \A b \in Browsers : IsStats(stats[b])

\* What ended the process is the request it took last, for a folder that
\* belongs to no location.
FatalRequest ==
  ~alive => LET q == exchange.sent
            IN  /\ q \in DOMAIN Requests /\ request[q].ok
                /\ dereferencesNull(locationConfig(q), request[q].path)

\* The inductive invariant.
IInv == TypeOK /\ FilesOK /\ StatsOK /\ FatalRequest
-----------------------------------------------------------------------------
(* The effects of the handlers. *)

\* The parts of TypeOK.
Tree ==
  /\ DOMAIN files \cap dirs = {}
  /\ \A n \in DOMAIN files \cup dirs : Front(n) \in dirs

Counted ==
  \A b \in Browsers : \A c \in Counters : stats[b][c] \in 0..MaxCount

LEMMA TypeParts ==
  TypeOK <=> /\ Tree /\ Counted
             /\ full \in BOOLEAN /\ alive \in BOOLEAN /\ config \in Servers
             /\ ~alive => exchange.response = NULL
BY Zenon DEF TypeOK, Tree, Counted, Counters

LEMMA TypePartsNext ==
  TypeOK' <=> /\ Tree' /\ Counted'
              /\ full' \in BOOLEAN /\ alive' \in BOOLEAN /\ config' \in Servers
              /\ ~alive' => exchange'.response = NULL
BY Zenon DEF TypeOK, Tree, Counted, Counters

\* FileStore counts as this module does.
LEMMA Sizes == \A n : Store!Cardinality({n}) = 1
<1>1. \A n : Cardinality({n}) = 1
  BY FS_Singleton
<1>2. \A S : Cardinality(S) = Store!Cardinality(S)
  BY Zenon DEF Cardinality, Store!Cardinality, IsFiniteSet, Store!IsFiniteSet
<1> QED  BY <1>1, <1>2

\* A new file fits into the tree: its directory is there, and it is none.
LEMMA WrittenKeepsTree ==
  ASSUME NEW p, NEW content, Tree, FilesOK, writable(p),
         files' = written(p, content), dirs' = dirs
  PROVE  Tree' /\ FilesOK'
<1> DEFINE n == Components(p)
<1>1. Front(n) \in dirs /\ n \notin dirs
  BY DEF writable, isDirectory
<1> DEFINE value == IF full THEN <<>> ELSE content
<1>3. files' = [m \in DOMAIN files \cup {n} |-> IF m # n THEN files[m] ELSE value]
  BY Zenon DEF written
<1> HIDE DEF n, value
<1>4. DOMAIN files' = DOMAIN files \cup {n}
  BY <1>3
<1> QED  BY <1>1, <1>3, <1>4 DEF Tree, FilesOK

\* A name that exists is never written to, so that a file is added.
LEMMA WrittenAdds ==
  ASSUME NEW p, NEW content, FilesOK, writable(p),
         ~isFileExisting(p), files' = written(p, content)
  PROVE  Store!Add
<1> DEFINE n == Components(p)
<1>1. n \notin DOMAIN files
  BY DEF writable, isFileExisting, isFile, isDirectory
<1> DEFINE value == IF full THEN <<>> ELSE content
<1>3. files' = [m \in DOMAIN files \cup {n} |-> IF m # n THEN files[m] ELSE value]
  BY Zenon DEF written
<1> HIDE DEF n, value
<1>4. DOMAIN files' \ DOMAIN files = {n}
  BY <1>1, <1>3
<1>5. Store!Restrict(files', DOMAIN files) = files
  BY <1>1, <1>3 DEF Store!Restrict, FilesOK
<1> QED  BY <1>4, <1>5, Sizes DEF Store!Add

\* What can be removed leaves a tree behind.
LEMMA RemovedKeepsTree ==
  ASSUME NEW p, Tree, FilesOK, removable(p),
         files' = Restrict(files, DOMAIN files \ {Components(p)}),
         dirs' = dirs \ {Components(p)}
  PROVE  Tree' /\ FilesOK'
<1> DEFINE n == Components(p)
<1>1. \/ n \in DOMAIN files
      \/ n \in dirs /\ n # <<>> /\ \A m \in DOMAIN files \cup dirs : m # <<>> => Front(m) # n
  BY DEF removable, isFile, isDirectory, Inside
<1>2. Front(<<>>) = <<>>
  BY DEF Front
<1> HIDE DEF n
<1>3. files' = [m \in DOMAIN files \ {n} |-> files[m]] /\ dirs' = dirs \ {n}
  BY DEF Restrict, n
<1>4. DOMAIN files' = DOMAIN files \ {n}
  BY <1>3
<1>5. ASSUME NEW m \in DOMAIN files \cup dirs, m # n
      PROVE  Front(m) \in dirs \ {n}
  <2>1. Front(m) \in dirs
    BY <1>5 DEF Tree
  <2> QED  BY <1>1, <1>2, <2>1 DEF Tree
<1>6. Tree'
  BY <1>3, <1>4, <1>5 DEF Tree
<1>7. FilesOK'
  BY <1>3, <1>4 DEF FilesOK
<1> QED  BY <1>6, <1>7

\* It removes one file or, if it was a directory, none.
LEMMA RemovedRemoves ==
  ASSUME NEW p, Tree, FilesOK, removable(p),
         files' = Restrict(files, DOMAIN files \ {Components(p)})
  PROVE  Store!Remove \/ files' = files
<1> DEFINE n == Components(p)
<1> HIDE DEF n
<1>1. files' = [m \in DOMAIN files \ {n} |-> files[m]]
  BY DEF Restrict, n
<1>2. CASE n \in DOMAIN files
  <2>1. DOMAIN files \ DOMAIN files' = {n}
    BY <1>1, <1>2
  <2>2. Store!Restrict(files, DOMAIN files') = files'
    BY <1>1 DEF Store!Restrict
  <2> QED  BY <2>1, <2>2, Sizes DEF Store!Remove
<1>3. CASE n \notin DOMAIN files
  BY <1>1, <1>3 DEF FilesOK
<1> QED  BY <1>2, <1>3

\* Whatever name an upload gets, it is free.
LEMMA NamesAreFree ==
  ASSUME NEW l, NEW r, NEW filename \in uploadNames(l, r)
  PROVE  ~isFileExisting(l.upload_store \o <<"/">> \o filename)
<1> DEFINE asked == extractFilenameFromPath(
                      r.path \o extractFilenameFromMultipartBody(r.body))
           path(f) == l.upload_store \o <<"/">> \o f
<1>1. filename \in IF isFileExisting(path(asked))
                   THEN makeUniqueFilename(l.upload_store, asked) ELSE {asked}
  BY DEF uploadNames
<1>2. CASE filename \in makeUniqueFilename(l.upload_store, asked)
  <2> DEFINE free(f) == ~isFileExisting(l.upload_store \o <<"/">> \o f)
  <2>1. PICK name : name = asked
    OBVIOUS
  <2>2. filename \in makeUniqueFilename(l.upload_store, name)
    BY <1>2, <2>1, Zenon
  <2>3. free(filename)
    BY ONLY <2>2, Zenon DEF makeUniqueFilename
  <2> QED  BY <2>3
<1>3. CASE ~isFileExisting(path(asked)) /\ filename = asked
  BY <1>3
<1> QED  BY <1>1, <1>2, <1>3

\* Each of the four counts one thing.
LEMMA Tracked ==
  ASSUME NEW t, IsStats(t), NEW f,
         NEW s \in {trackPageView(t), trackFileDelete(t), trackCgiExecution(t),
                    trackFileUpload(t, f)}
  PROVE  /\ IsStats(s)
         /\ \A c \in Counters : s[c] = t[c] \/ s[c] = t[c] + 1
<1>1. CASE s = trackPageView(t)
  BY <1>1 DEF IsStats, Counters, trackPageView
<1>2. CASE s = trackFileDelete(t)
  BY <1>2 DEF IsStats, Counters, trackFileDelete
<1>3. CASE s = trackCgiExecution(t)
  BY <1>3 DEF IsStats, Counters, trackCgiExecution
<1>4. CASE s = trackFileUpload(t, f)
  BY <1>4 DEF IsStats, Counters, trackFileUpload
<1>5. \/ s = trackPageView(t) \/ s = trackFileDelete(t)
      \/ s = trackCgiExecution(t) \/ s = trackFileUpload(t, f)
  BY Zenon
<1> QED  BY <1>1, <1>2, <1>3, <1>4, <1>5, Zenon

LEMMA Bounds == MaxCount \in Nat
BY HttpAssumption, Zenon

\* One more in one counter, while there is room, stays in bounds.
LEMMA OneMore ==
  ASSUME NEW b \in Browsers, StatsOK, Counted, Countable(b), NEW s, IsStats(s),
         \A c \in Counters : s[c] = stats[b][c] \/ s[c] = stats[b][c] + 1,
         stats' = [stats EXCEPT ![b] = s]
  PROVE  StatsOK' /\ Counted'
<1>1. \A c \in Counters : stats[b][c] \in Nat
  BY Bounds DEF Counted
<1>2. /\ stats[b].page_views \in Nat /\ stats[b].upload_count \in Nat
      /\ stats[b].delete_count \in Nat /\ stats[b].cgi_count \in Nat
  BY <1>1 DEF Counters
<1>3. \A c \in Counters : stats[b][c] + 1 \in 0..MaxCount
  BY <1>2, Bounds DEF Countable, Counters
<1>6. stats' = [d \in Browsers |-> IF d = b THEN s ELSE stats[d]]
  BY DEF StatsOK
<1>7. StatsOK'
  BY <1>6 DEF StatsOK
<1>8. Counted'
  BY <1>3, <1>6 DEF Counted
<1> QED  BY <1>7, <1>8

\* A request took its answer: which one, and for whom.
Answered(b, q, response) ==
  /\ exchange'.browser = b /\ exchange'.sent = q
  /\ exchange'.response = response /\ exchange'.full = full

LEMMA AnswerParts ==
  ASSUME NEW b, NEW q, NEW response, Answer(b, q, response)
  PROVE  Answered(b, q, response)
BY DEF Answer, Answered

\* Each request that is taken is the exchange's, and changes no configuration.
LEMMA Takes ==
  ASSUME NEW b \in Browsers, NEW q \in DOMAIN Requests, processHttpRequest(b, q)
  PROVE  exchange'.sent = q /\ config' = config
<1> DEFINE Took == exchange'.sent = q /\ config' = config
<1>0. ASSUME NEW response, Answer(b, q, response) PROVE exchange'.sent = q
  BY <1>0, AnswerParts DEF Answered
<1>1. BadRequest(b, q) => Took
  BY <1>0, Zenon DEF BadRequest
<1>2. Segfault(b, q) => Took
  BY <1>0, Zenon DEF Segfault
<1>3. Refuse(b, q) => Took
  BY <1>0, Zenon DEF Refuse
<1>4. handleCgiRequest(b, q) => Took
  BY <1>0, Zenon DEF handleCgiRequest
<1>5. handleGetRequest(b, q) => Took
  BY <1>0, Zenon DEF handleGetRequest
<1>6. handlePostRequest(b, q) => Took
  BY <1>0, Zenon DEF handlePostRequest, handleUpload
<1>7. handleDeleteRequest(b, q) => Took
  <2>1. ASSUME handleDeleteRequest(b, q) PROVE Took
    <3>1. PICK response : Answer(b, q, response)
      BY <2>1, Zenon DEF handleDeleteRequest
    <3>2. config' = config
      BY <2>1, Zenon DEF handleDeleteRequest
    <3> QED  BY <1>0, <3>1, <3>2
  <2> QED  BY <2>1
<1> HIDE DEF Took
<1> QED  BY <1>1, <1>2, <1>3, <1>4, <1>5, <1>6, <1>7, Zenon DEF processHttpRequest, Took
-----------------------------------------------------------------------------
(* The invariant. *)

LEMMA InitInvariant == Init => IInv
<1> SUFFICES ASSUME Init PROVE IInv
  OBVIOUS
<1>1. Tree /\ FilesOK
  BY HttpAssumption, Zenon DEF Init, Tree, FilesOK
<1>2. StatsOK
  BY DEF Init, StatsOK, IsStats, NoStats
<1>3. Counted
  BY Bounds DEF Init, Counted, Counters, NoStats
<1>4. full \in BOOLEAN /\ alive \in BOOLEAN /\ config \in Servers /\ alive
  BY DEF Init
<1> QED  BY <1>1, <1>2, <1>3, <1>4, TypeParts DEF IInv, FatalRequest

\* A request that touches no file and counts nothing.
LEMMA Untouched ==
  ASSUME IInv, alive, alive' = TRUE,
         UNCHANGED <<files, dirs, config, stats>>, full' \in BOOLEAN
  PROVE  IInv'
<1>1. Tree' /\ FilesOK' /\ StatsOK' /\ Counted' /\ config' \in Servers
  BY TypeParts DEF IInv, Tree, FilesOK, StatsOK, Counted
<1> QED  BY <1>1, TypePartsNext, Zenon DEF IInv, FatalRequest

Keeps == IInv' /\ (Store!Next \/ files' = files)

LEMMA SegfaultStep ==
  ASSUME IInv, NEW b \in Browsers, NEW q \in DOMAIN Requests, Segfault(b, q)
  PROVE  Keeps
<1>1. Tree' /\ FilesOK' /\ StatsOK' /\ Counted' /\ config' \in Servers
  BY TypeParts DEF IInv, Tree, FilesOK, StatsOK, Counted, Segfault
<1>2. full' \in BOOLEAN /\ alive' = FALSE /\ files' = files /\ config' = config
  BY TypeParts DEF IInv, Segfault
<1>3. exchange'.response = NULL /\ exchange'.sent = q
  BY DEF Segfault, Answer
<1>4. request[q].ok /\ dereferencesNull(locationConfig(q), request[q].path)
  BY Zenon DEF Segfault
<1>5. FatalRequest'
  <2>1. locationConfig(exchange.sent)' = locationConfig(q)
    BY <1>2, <1>3, Zenon DEF locationConfig
  <2> QED  BY <1>3, <1>4, <2>1, Zenon DEF FatalRequest
<1> QED  BY <1>1, <1>2, <1>3, <1>5, TypePartsNext, Zenon DEF IInv, Keeps

\* A request that only counts.
LEMMA CountingStep ==
  ASSUME IInv, alive, alive' = TRUE, UNCHANGED <<files, dirs, full, config>>,
         NEW b \in Browsers, Countable(b), NEW s,
         s \in {trackPageView(stats[b]), trackCgiExecution(stats[b])},
         stats' = [stats EXCEPT ![b] = s]
  PROVE  Keeps
<1>1. IsStats(stats[b]) /\ Counted /\ StatsOK
  BY TypeParts DEF IInv, StatsOK
<1>2. s \in {trackPageView(stats[b]), trackFileDelete(stats[b]),
             trackCgiExecution(stats[b]), trackFileUpload(stats[b], NULL)}
  BY Zenon
<1>3. IsStats(s) /\ \A c \in Counters : s[c] = stats[b][c] \/ s[c] = stats[b][c] + 1
  BY <1>1, <1>2, Tracked
<1>4. StatsOK' /\ Counted'
  BY <1>1, <1>3, OneMore
<1>5. Tree' /\ FilesOK' /\ config' \in Servers /\ full' \in BOOLEAN
  BY TypeParts DEF IInv, Tree, FilesOK
<1> QED  BY <1>4, <1>5, TypePartsNext, Zenon DEF IInv, FatalRequest, Keeps

LEMMA CgiStep ==
  ASSUME IInv, NEW b \in Browsers, NEW q \in DOMAIN Requests, handleCgiRequest(b, q)
  PROVE  Keeps
<1>1. alive /\ alive' = TRUE /\ UNCHANGED <<files, dirs, full, config>> /\ full' \in BOOLEAN
  <2>1. alive /\ UNCHANGED <<files, dirs, full, config, alive>>
    BY Zenon DEF handleCgiRequest, Allowed, Parsed
  <2>2. full \in BOOLEAN
    BY TypeParts DEF IInv
  <2> QED  BY <2>1, <2>2
<1>2. CASE UNCHANGED stats
  BY <1>1, <1>2, Untouched DEF Keeps
<1>3. ASSUME Countable(b), NEW response,
             stats' = [stats EXCEPT ![b] = IF response.status = 200
                                           THEN trackCgiExecution(@) ELSE @]
      PROVE  Keeps
  <2>1. CASE response.status = 200
    <3>1. PICK s : s = trackCgiExecution(stats[b])
      OBVIOUS
    <3>2. stats' = [stats EXCEPT ![b] = s]
      BY <1>3, <2>1, <3>1
    <3>3. s \in {trackPageView(stats[b]), trackCgiExecution(stats[b])}
      BY <3>1, Zenon
    <3> QED  BY <1>1, <1>3, <3>2, <3>3, CountingStep, Zenon
  <2>2. CASE response.status # 200
    <3>1. stats' = [stats EXCEPT ![b] = stats[b]]
      BY <1>3, <2>2
    <3>2. stats' = stats
      BY <3>1 DEF IInv, StatsOK
    <3> QED  BY <1>2, <3>2
  <2> QED  BY <2>1, <2>2
<1> QED  BY <1>2, <1>3, Zenon DEF handleCgiRequest

LEMMA GetStep ==
  ASSUME IInv, NEW b \in Browsers, NEW q \in DOMAIN Requests, handleGetRequest(b, q)
  PROVE  Keeps
<1>1. alive /\ alive' = TRUE /\ UNCHANGED <<files, dirs, full, config>>
  BY DEF IInv, handleGetRequest, Handled, Allowed, Parsed, TypeOK
<1>2. Countable(b) /\ stats' = [stats EXCEPT ![b] = trackPageView(stats[b])]
  BY DEF handleGetRequest
<1> QED  BY <1>1, <1>2, CountingStep

\* An upload adds a file under a name that was free, or adds none.
LEMMA UploadStep ==
  ASSUME IInv, NEW b \in Browsers, NEW q \in DOMAIN Requests, handleUpload(b, q)
  PROVE  Keeps
<1> DEFINE l == locationConfig(q)
           content == extractFileContentFromMultipartBody(request[q].body)
           path(f) == l.upload_store \o <<"/">> \o f
<1>1. alive /\ alive' = TRUE /\ UNCHANGED <<dirs, full, config>> /\ Countable(b)
  BY DEF IInv, handleUpload, Handled, Allowed, Parsed, TypeOK
<1>2. PICK filename \in uploadNames(l, request[q]) :
        /\ files' = IF writable(path(filename)) THEN written(path(filename), content)
                    ELSE files
        /\ stats' = IF writeStringToFile(path(filename), content)
                    THEN [stats EXCEPT ![b] = trackFileUpload(@, filename)] ELSE stats
  BY Zenon DEF handleUpload
<1>3. ~isFileExisting(path(filename))
  BY NamesAreFree
<1>4. PICK p : p = path(filename)
  OBVIOUS
<1> HIDE DEF l, content, path
<1>5. Tree /\ FilesOK /\ StatsOK /\ Counted /\ full \in BOOLEAN /\ config \in Servers
  BY TypeParts DEF IInv
<1>6. Tree' /\ FilesOK' /\ (Store!Next \/ files' = files)
  <2>1. CASE writable(p)
    <3>1. files' = written(p, content) /\ dirs' = dirs
      BY <1>1, <1>2, <1>4, <2>1
    <3>2. Tree' /\ FilesOK'
      BY <1>5, <2>1, <3>1, WrittenKeepsTree
    <3>3. Store!Add
      BY <1>3, <1>4, <1>5, <2>1, <3>1, WrittenAdds
    <3> QED  BY <3>2, <3>3, Zenon DEF Store!Next
  <2>2. CASE ~writable(p)
    BY <1>1, <1>2, <1>4, <1>5, <2>2 DEF Tree, FilesOK
  <2> QED  BY <2>1, <2>2
<1>7. StatsOK' /\ Counted'
  <2>1. CASE writeStringToFile(p, content)
    <3>1. stats' = [stats EXCEPT ![b] = trackFileUpload(stats[b], filename)]
      BY <1>2, <1>4, <2>1
    <3>2. IsStats(stats[b])
      BY <1>5 DEF StatsOK
    <3>3. PICK s : s = trackFileUpload(stats[b], filename)
      OBVIOUS
    <3>4. IsStats(s) /\ \A c \in Counters : s[c] = stats[b][c] \/ s[c] = stats[b][c] + 1
      BY <3>2, <3>3, Tracked
    <3> QED  BY <1>1, <1>5, <3>1, <3>3, <3>4, OneMore
  <2>2. CASE ~writeStringToFile(p, content)
    BY <1>2, <1>4, <1>5, <2>2 DEF StatsOK, Counted
  <2> QED  BY <2>1, <2>2
<1> QED  BY <1>1, <1>5, <1>6, <1>7, TypePartsNext, Zenon DEF IInv, FatalRequest, Keeps

\* A deletion removes one file, an empty directory, or nothing.
LEMMA DeleteStep ==
  ASSUME IInv, NEW b \in Browsers, NEW q \in DOMAIN Requests, handleDeleteRequest(b, q)
  PROVE  Keeps
<1>1. PICK p : p = resource_path(q)
  OBVIOUS
<1>2. alive /\ alive' = TRUE /\ UNCHANGED <<full, config>> /\ Countable(b)
  BY DEF IInv, handleDeleteRequest, Handled, Allowed, Parsed, TypeOK
<1>3. Tree /\ FilesOK /\ StatsOK /\ Counted /\ full \in BOOLEAN /\ config \in Servers
  BY TypeParts DEF IInv
<1>4. \/ /\ removable(p)
         /\ files' = Restrict(files, DOMAIN files \ {Components(p)})
         /\ dirs' = dirs \ {Components(p)}
         /\ stats' = [stats EXCEPT ![b] = trackFileDelete(stats[b])]
      \/ UNCHANGED <<files, dirs, stats>>
  BY <1>1, Zenon DEF handleDeleteRequest
<1>5. CASE UNCHANGED <<files, dirs, stats>>
  BY <1>2, <1>3, <1>5, Untouched DEF Keeps
<1>6. CASE /\ removable(p)
           /\ files' = Restrict(files, DOMAIN files \ {Components(p)})
           /\ dirs' = dirs \ {Components(p)}
           /\ stats' = [stats EXCEPT ![b] = trackFileDelete(stats[b])]
  <2>1. Tree' /\ FilesOK'
    BY <1>3, <1>6, RemovedKeepsTree
  <2>2. Store!Remove \/ files' = files
    BY <1>3, <1>6, RemovedRemoves
  <2>3. IsStats(stats[b])
    BY <1>3 DEF StatsOK
  <2>4. PICK s : s = trackFileDelete(stats[b])
    OBVIOUS
  <2>5. IsStats(s) /\ \A c \in Counters : s[c] = stats[b][c] \/ s[c] = stats[b][c] + 1
    BY <2>3, <2>4, Tracked
  <2>6. StatsOK' /\ Counted'
    BY <1>2, <1>3, <1>6, <2>4, <2>5, OneMore
  <2> QED  BY <1>2, <1>3, <2>1, <2>2, <2>6, TypePartsNext, Zenon
              DEF IInv, FatalRequest, Keeps, Store!Next
<1> QED  BY <1>4, <1>5, <1>6

\* Each step keeps the invariant, and adds a file, removes one or leaves all.
LEMMA EachStep == IInv /\ [Next]_vars => Keeps
<1> SUFFICES ASSUME IInv, [Next]_vars PROVE Keeps
  OBVIOUS
<1>0. full \in BOOLEAN
  BY TypeParts DEF IInv
<1>1. ASSUME NEW b \in Browsers, NEW q \in DOMAIN Requests, BadRequest(b, q)
      PROVE  Keeps
  BY <1>0, <1>1, Untouched DEF Keeps, BadRequest
<1>2. ASSUME NEW b \in Browsers, NEW q \in DOMAIN Requests, Refuse(b, q)
      PROVE  Keeps
  BY <1>0, <1>2, Untouched DEF Keeps, Refuse, Parsed
<1>3. ASSUME NEW b \in Browsers, NEW q \in DOMAIN Requests, handlePostRequest(b, q)
      PROVE  Keeps
  <2>1. CASE handleUpload(b, q)
    BY <2>1, UploadStep
  <2>2. CASE alive /\ UNCHANGED <<files, dirs, full, config, alive, stats>>
    BY <1>0, <2>2, Untouched DEF Keeps
  <2> QED  BY <1>3, <2>1, <2>2, Zenon DEF handlePostRequest, Handled, Allowed, Parsed
<1>4. ASSUME NEW b \in Browsers, NEW q \in DOMAIN Requests, processHttpRequest(b, q)
      PROVE  Keeps
  BY <1>1, <1>2, <1>3, <1>4, SegfaultStep, CgiStep, GetStep, DeleteStep, Zenon
     DEF processHttpRequest
<1>5. CASE Return
  BY <1>0, <1>5, Untouched DEF Return, Keeps
<1>6. CASE Disk
  BY <1>0, <1>6, Untouched DEF Disk, Keeps
<1>7. CASE UNCHANGED vars
  <2>1. TypeOK'
    BY <1>7 DEF vars, TypeOK, IInv
  <2>2. FilesOK' /\ StatsOK' /\ FatalRequest'
    BY <1>7 DEF vars, IInv, FilesOK, StatsOK, FatalRequest, locationConfig
  <2> QED  BY <1>7, <2>1, <2>2 DEF IInv, Keeps, vars
<1> QED  BY <1>4, <1>5, <1>6, <1>7, Zenon DEF Next
-----------------------------------------------------------------------------
(* Types, and the refinement. *)

\* The strengthened invariant.
THEOREM Invariance == Spec => []IInv
<1>1. IInv /\ [Next]_vars => IInv'
  BY EachStep DEF Keeps
<1> QED  BY InitInvariant, <1>1, PTL DEF Spec

\* Files and directories stay a tree, and the counters in their bounds,
\* whatever is uploaded, deleted and counted.
THEOREM TypeCorrectness == Spec => []TypeOK
<1>1. IInv => TypeOK
  BY DEF IInv
<1> QED  BY Invariance, <1>1, PTL

\* Refinement: no request changes what a file holds, and each adds or removes
\* at most one.  handleUpload finds a free name before it writes, and nothing
\* comes in between.
THEOREM FilesAreNeverChanged == Spec => IsAFileStore
<1>1. IInv /\ [Next]_vars => [Store!Next]_files
  BY EachStep DEF Keeps
<1> QED  BY Invariance, <1>1, PTL DEF Spec, IsAFileStore, Store!Spec
-----------------------------------------------------------------------------
(* The names on a path. *)

LEMMA PartsOfPath ==
  ASSUME NEW T, NEW x \in Seq(T)
  PROVE  \E ps \in Seq(Seq(T)) : ps = getlines(x, "/")
<1>1. PICK f : PartsFrom(f, x, {"/"}) /\ Parts(x, {"/"}) = f[1]
  BY PartsExist, Zenon
<1>2. AreTexts(f, T, x, {"/"})
  BY <1>1, PartsAreTexts, Zenon
<1>3. 1 \in Pos
  BY DEF Pos
<1> QED  BY <1>1, <1>2, <1>3, Zenon DEF AreTexts, getlines

\* Past a "/" a path goes on as it would start.
LEMMA NamesOfPath ==
  ASSUME NEW T, NEW x \in Seq(T), NEW y \in Seq(T), x # <<>>, Last(x) = "/"
  PROVE  namesOf(x \o y) = namesOf(x) \o namesOf(y)
<1>1. Len(x) > 0 /\ x[Len(x)] \in {"/"}
  BY EmptySeq DEF Last
<1>2. PartsSplit(x, y, {"/"})
  BY <1>1, PartsOfConcat, Zenon
<1>3. PICK a, b \in Seq(Seq(T)) : a = getlines(x, "/") /\ b = getlines(y, "/")
  BY PartsOfPath, Zenon
<1>4. getlines(x \o y, "/") = a \o b
  BY <1>2, <1>3, Zenon DEF PartsSplit, getlines
<1>5. WithoutSplit(a, b, {<<>>, <<".">>})
  BY WithoutConcat, Zenon
<1> QED  BY <1>3, <1>4, <1>5, Zenon DEF WithoutSplit, namesOf

\* A "/" at its end changes nothing about what it names.
LEMMA NamesClosed ==
  ASSUME NEW T, "/" \in T, NEW x \in Seq(T), x # <<>>
  PROVE  namesOf(x \o <<"/">>) = namesOf(x)
<1>1. <<"/">> \in Seq(T) /\ x[Len(x)] = Last(x)
  <2>1. x[Len(x)] = Last(x)
    BY DEF Last
  <2> QED  BY <2>1
<1>2. CASE Last(x) = "/"
  <2>1. namesOf(x \o <<"/">>) = namesOf(x) \o namesOf(<<"/">>)
    BY <1>1, <1>2, NamesOfPath, Zenon
  <2>2. namesOf(<<"/">>) = <<>>
    <3>1. getlines(<<"/">>, "/") = <<<<>>>>
      BY DelimiterAlone, Zenon DEF getlines
    <3>2. Without(<<<<>>>>, {<<>>, <<".">>}) = <<>>
      <4>1. <<>> \in {<<>>, <<".">>}
        OBVIOUS
      <4>2. \A w : w \in {<<>>, <<".">>} => Without(<<w>>, {<<>>, <<".">>}) = <<>>
        BY WithoutOne, Zenon
      <4> QED  BY <4>1, <4>2, Zenon
    <3> QED  BY <3>1, <3>2, Zenon DEF namesOf
  <2>3. PICK ps \in Seq(Seq(T)) : ps = getlines(x, "/")
    BY PartsOfPath, Zenon
  <2>4. namesOf(x) \in Seq(Seq(T))
    <3>1. PICK f : IsWithout(f, Seq(T), ps, {<<>>, <<".">>})
      BY WithoutExists, Zenon
    <3>2. 1 \in Pos
      BY DEF Pos
    <3> QED  BY <2>3, <3>1, <3>2, Zenon DEF IsWithout, namesOf
  <2>5. \A t \in Seq(Seq(T)) : t \o <<>> = t
    BY ConcatEmptySeq
  <2> QED  BY <2>1, <2>2, <2>4, <2>5, Zenon
<1>3. CASE Last(x) # "/"
  <2>1. x[Len(x)] \notin {"/"} /\ "/" \in {"/"}
    BY <1>1, <1>3
  <2>2. Parts(x \o <<"/">>, {"/"}) = Parts(x, {"/"})
    BY <2>1, PartsClosed, Zenon
  <2> QED  BY <2>2, Zenon DEF namesOf, getlines
<1> QED  BY <1>2, <1>3, Zenon

\* A file's name is its only name.
IsName(T, w) == w \in Seq(T) /\ w # <<>> /\ w # <<".">> /\ \A i \in 1..Len(w) : w[i] # "/"

LEMMA NamesOfName ==
  ASSUME NEW T, NEW w, IsName(T, w)
  PROVE  namesOf(w) = <<w>>
<1>1. w \in Seq(T) /\ w # <<>> /\ w # <<".">> /\ \A i \in 1..Len(w) : w[i] \notin {"/"}
  BY DEF IsName
<1>2. Parts(w, {"/"}) = <<w>>
  BY <1>1, OnePart, Zenon
<1>3. Without(<<w>>, {<<>>, <<".">>}) = <<w>>
  <2>1. w \notin {<<>>, <<".">>}
    BY <1>1
  <2> QED  BY <2>1, WithoutOne, Zenon
<1> QED  BY <1>2, <1>3, Zenon DEF namesOf, getlines

\* The path of a name in a folder.
LEMMA NamesOfNamed ==
  ASSUME NEW T, "/" \in T, NEW x \in Seq(T), x # <<>>, NEW w, IsName(T, w)
  PROVE  /\ namesOf((x \o <<"/">>) \o w) = namesOf(x) \o <<w>>
         /\ Last(x) = "/" => namesOf(x \o w) = namesOf(x) \o <<w>>
<1>1. w \in Seq(T) /\ namesOf(w) = <<w>>
  BY NamesOfName DEF IsName
<1>2. x \o <<"/">> \in Seq(T) /\ x \o <<"/">> # <<>> /\ Last(x \o <<"/">>) = "/"
  <2>1. <<"/">> \in Seq(T) /\ Len(<<"/">>) = 1 /\ <<"/">>[1] = "/" /\ 1 \in 1..1
    OBVIOUS
  <2>2. PICK s \in Seq(T) : s = x \o <<"/">> /\ Joint(s, x, <<"/">>)
    BY <2>1, JointConcat, Zenon
  <2>3. Len(s) = Len(x) + 1 /\ s[Len(x) + 1] = "/"
    BY <2>1, <2>2, Zenon DEF Joint
  <2>4. s # <<>> /\ Last(s) = "/"
    BY <2>3 DEF Last
  <2> QED  BY <2>2, <2>4, Zenon
<1>3. namesOf((x \o <<"/">>) \o w) = namesOf(x \o <<"/">>) \o namesOf(w)
  BY <1>1, <1>2, NamesOfPath, Zenon
<1>4. Last(x) = "/" => namesOf(x \o w) = namesOf(x) \o namesOf(w)
  BY <1>1, NamesOfPath, Zenon
<1> QED  BY <1>1, <1>3, <1>4, NamesClosed, Zenon
-----------------------------------------------------------------------------
(* Where names lead. *)

Entered(D, d, n) == IF n = Up /\ d \in D THEN Front(d) ELSE Append(d, n)

\* Up to the kth name.
Climb(w, D, names, k) ==
  w = [i \in 0..k |-> IF i = 0 THEN <<>> ELSE Entered(D, w[i - 1], names[i])]

LEMMA ClimbExists ==
  ASSUME NEW T, NEW names \in Seq(T), NEW D
  PROVE  \E w : Climb(w, D, names, Len(names)) /\ resolved(D, names) = w[Len(names)]
<1>1. PICK n \in Nat : n = Len(names)
  OBVIOUS
<1> DEFINE S == {k \in Nat : \E w : Climb(w, D, names, k)}
<1>2. 0 \in S
  <2> DEFINE w == [i \in 0..0 |-> <<>>]
  <2>1. Climb(w, D, names, 0)
    BY DEF Climb
  <2> QED  BY <2>1
<1>3. ASSUME NEW k \in Nat, k \in S PROVE k + 1 \in S
  <2>1. PICK w : Climb(w, D, names, k)
    BY <1>3
  <2> DEFINE v == [i \in 0..(k + 1) |-> IF i = k + 1 THEN Entered(D, w[k], names[k + 1]) ELSE w[i]]
  <2>2. \A i \in 0..k : w[i] = IF i = 0 THEN <<>> ELSE Entered(D, w[i - 1], names[i])
    BY <2>1, Zenon DEF Climb
  <2>3. /\ k + 1 # 0 /\ (k + 1) - 1 = k /\ k \in 0..k /\ k + 1 \in 0..(k + 1) /\ k + 1 \notin 0..k
        /\ \A i \in 0..(k + 1) : i = k + 1 \/ i \in 0..k
        /\ \A i \in 0..k : i \in 0..(k + 1) /\ (i # 0 => i - 1 \in 0..k)
    OBVIOUS
  <2>4. \A i \in 0..k : v[i] = w[i]
    BY <2>3, Zenon
  <2>5. v[k + 1] = Entered(D, w[k], names[k + 1])
    BY <2>3, Zenon
  <2> HIDE DEF v
  <2>6. ASSUME NEW i \in 0..(k + 1)
        PROVE  v[i] = IF i = 0 THEN <<>> ELSE Entered(D, v[i - 1], names[i])
    <3>1. CASE i = k + 1
      BY <2>3, <2>4, <2>5, <3>1, Zenon
    <3>2. CASE i \in 0..k
      BY <2>2, <2>3, <2>4, <3>2, Zenon
    <3> QED  BY <2>3, <2>6, <3>1, <3>2, Zenon
  <2>7. v = [i \in 0..(k + 1) |-> v[i]]
    BY Zenon DEF v
  <2>8. [i \in 0..(k + 1) |-> v[i]]
          = [i \in 0..(k + 1) |-> IF i = 0 THEN <<>> ELSE Entered(D, v[i - 1], names[i])]
    BY <2>6, Zenon
  <2>9. Climb(v, D, names, k + 1)
    BY <2>7, <2>8, Zenon DEF Climb
  <2>10. k + 1 \in Nat
    OBVIOUS
  <2> QED  BY <2>9, <2>10, Zenon
<1>4. n \in S
  <2>1. \A i \in Nat : i \in S /\ i < n => i + 1 \in S
    BY <1>3, Zenon
  <2>2. n \in 0..n
    OBVIOUS
  <2> HIDE DEF S
  <2> QED  BY <1>2, <2>1, <2>2, Reaches, Zenon
<1>5. PICK w : Climb(w, D, names, n)
  BY <1>4
<1>6. PICK g : g = CHOOSE h : Climb(h, D, names, n)
  OBVIOUS
<1>7. Climb(g, D, names, n)
  BY <1>5, <1>6, Zenon
<1>8. resolved(D, names) = g[n]
  BY <1>1, <1>6, Zenon DEF resolved, Climb, Entered
<1> QED  BY <1>1, <1>7, <1>8, Zenon

\* They lead to a sequence of names.
LEMMA ResolvedIsText ==
  ASSUME NEW T, NEW names \in Seq(T), NEW D
  PROVE  resolved(D, names) \in Seq(T)
<1>1. PICK n \in Nat : n = Len(names)
  OBVIOUS
<1>2. PICK w : Climb(w, D, names, n) /\ resolved(D, names) = w[n]
  BY <1>1, ClimbExists, Zenon
<1>3. \A i \in 0..n : w[i] = IF i = 0 THEN <<>> ELSE Entered(D, w[i - 1], names[i])
  BY <1>2, Zenon DEF Climb
<1> DEFINE S == {i \in Nat : i > n \/ w[i] \in Seq(T)}
<1>4. 0 \in S
  <2>1. 0 \in 0..n /\ <<>> \in Seq(T)
    OBVIOUS
  <2> QED  BY <1>3, <2>1, Zenon
<1>5. ASSUME NEW i \in Nat, i \in S, i < n PROVE i + 1 \in S
  <2>1. i + 1 \in 0..n /\ i + 1 # 0 /\ (i + 1) - 1 = i /\ i + 1 \in 1..Len(names) /\ ~(i > n)
    BY <1>1, <1>5
  <2>2. PICK d \in Seq(T) : d = w[i]
    BY <1>5, <2>1
  <2>3. PICK m \in T : m = names[i + 1]
    BY <2>1
  <2>4. Append(d, m) \in Seq(T)
    OBVIOUS
  <2>5. Front(d) \in Seq(T)
    <3>1. \A j \in 1..(Len(d) - 1) : d[j] \in T
      OBVIOUS
    <3> QED  BY <3>1, SubSeqProperties DEF Front
  <2>6. w[i + 1] = Entered(D, d, m)
    BY <1>3, <2>1, <2>2, <2>3, Zenon
  <2>7. w[i + 1] \in Seq(T)
    BY <2>4, <2>5, <2>6, Zenon DEF Entered
  <2> QED  BY <2>7
<1>6. \A i \in 0..n : w[i] \in Seq(T)
  <2>1. \A i \in 0..n : i \in S
    <3> HIDE DEF S
    <3>1. \A i \in Nat : i \in S /\ i < n => i + 1 \in S
      BY <1>5, Zenon
    <3> QED  BY <1>4, <3>1, Reaches, Zenon
  <2> QED  BY <2>1
<1>7. n \in 0..n
  OBVIOUS
<1> QED  BY <1>2, <1>6, <1>7, Zenon

\* The last one is entered from where the others lead.
EntersLast(D, names, m) ==
  resolved(D, names \o <<m>>) = Entered(D, resolved(D, names), m)

LEMMA LastIsEntered ==
  ASSUME NEW T, NEW names \in Seq(T), NEW D, NEW m \in T
  PROVE  EntersLast(D, names, m)
<1>1. PICK n \in Nat : n = Len(names)
  OBVIOUS
<1>2. PICK more : more = names \o <<m>>
  OBVIOUS
<1>3. /\ more \in Seq(T) /\ Len(more) = n + 1 /\ more[n + 1] = m
       /\ \A i \in 1..n : more[i] = names[i]
  BY <1>1, <1>2
<1>4. PICK w : Climb(w, D, names, n) /\ resolved(D, names) = w[n]
  BY <1>1, ClimbExists, Zenon
<1>5. PICK v : Climb(v, D, more, n + 1) /\ resolved(D, more) = v[n + 1]
  BY <1>2, <1>3, ClimbExists, Zenon
<1>6. \A i \in 0..n : w[i] = IF i = 0 THEN <<>> ELSE Entered(D, w[i - 1], names[i])
  BY <1>4, Zenon DEF Climb
<1>7. \A i \in 0..(n + 1) : v[i] = IF i = 0 THEN <<>> ELSE Entered(D, v[i - 1], more[i])
  BY <1>5, Zenon DEF Climb
<1> DEFINE S == {i \in Nat : i > n \/ v[i] = w[i]}
<1>8. 0 \in S
  <2>1. 0 \in 0..n /\ 0 \in 0..(n + 1)
    OBVIOUS
  <2> QED  BY <1>6, <1>7, <2>1, Zenon
<1>9. ASSUME NEW i \in Nat, i \in S, i < n PROVE i + 1 \in S
  <2>1. /\ i + 1 \in 0..n /\ i + 1 \in 0..(n + 1) /\ i + 1 # 0 /\ (i + 1) - 1 = i
        /\ i + 1 \in 1..n /\ ~(i > n)
    BY <1>9
  <2>2. v[i] = w[i]
    BY <1>9, <2>1
  <2>3. v[i + 1] = w[i + 1]
    BY <1>3, <1>6, <1>7, <2>1, <2>2, Zenon
  <2> QED  BY <2>3
<1>10. n \in S
  <2>1. n \in 0..n
    OBVIOUS
  <2> HIDE DEF S
  <2>2. \A i \in Nat : i \in S /\ i < n => i + 1 \in S
    BY <1>9, Zenon
  <2> QED  BY <1>8, <2>1, <2>2, Reaches, Zenon
<1>11. v[n] = w[n]
  BY <1>10
<1>12. n + 1 \in 0..(n + 1) /\ n + 1 # 0 /\ (n + 1) - 1 = n
  OBVIOUS
<1>13. v[n + 1] = Entered(D, w[n], m)
  BY <1>3, <1>7, <1>11, <1>12, Zenon
<1> QED  BY <1>2, <1>4, <1>5, <1>13, Zenon DEF EntersLast

\* Without a ".." they lead where they say.
LEMMA ResolvedPlain ==
  ASSUME NEW T, NEW names \in Seq(T), NEW D, Up \notin ToSet(names)
  PROVE  resolved(D, names) = names
<1>1. PICK n \in Nat : n = Len(names)
  OBVIOUS
<1>2. PICK w : Climb(w, D, names, n) /\ resolved(D, names) = w[n]
  BY <1>1, ClimbExists, Zenon
<1>3. \A i \in 0..n : w[i] = IF i = 0 THEN <<>> ELSE Entered(D, w[i - 1], names[i])
  BY <1>2, Zenon DEF Climb
<1>4. \A i \in 1..n : names[i] # Up
  BY <1>1 DEF ToSet
<1> DEFINE S == {i \in Nat : i > n \/ w[i] = SubSeq(names, 1, i)}
<1>5. 0 \in S
  <2>1. 0 \in 0..n /\ SubSeq(names, 1, 0) = <<>>
    BY SubSeqEmpty
  <2> QED  BY <1>3, <2>1, Zenon
<1>6. ASSUME NEW i \in Nat, i \in S, i < n PROVE i + 1 \in S
  <2>1. i + 1 \in 0..n /\ i + 1 # 0 /\ (i + 1) - 1 = i /\ i + 1 \in 1..n /\ ~(i > n)
    BY <1>6
  <2>2. w[i] = SubSeq(names, 1, i)
    BY <1>6, <2>1
  <2>3. w[i + 1] = Append(SubSeq(names, 1, i), names[i + 1])
    BY <1>3, <1>4, <2>1, <2>2, Zenon DEF Entered
  <2>4. SubSeq(names, 1, i + 1) = Append(SubSeq(names, 1, i), names[i + 1])
    BY <1>1, <2>1
  <2> QED  BY <2>3, <2>4
<1>7. n \in S
  <2>1. n \in 0..n
    OBVIOUS
  <2> HIDE DEF S
  <2>2. \A i \in Nat : i \in S /\ i < n => i + 1 \in S
    BY <1>6, Zenon
  <2> QED  BY <1>5, <2>1, <2>2, Reaches, Zenon
<1>8. w[n] = SubSeq(names, 1, n)
  BY <1>7
<1>9. SubSeq(names, 1, n) = names
  BY <1>1, SubSeqFull, Zenon
<1> QED  BY <1>2, <1>8, <1>9, Zenon

\* So namesOf and Components are texts.
LEMMA NamesAreTexts ==
  ASSUME NEW T, NEW x \in Seq(T)
  PROVE  namesOf(x) \in Seq(Seq(T))
<1>1. PICK ps \in Seq(Seq(T)) : ps = getlines(x, "/")
  BY PartsOfPath, Zenon
<1>2. PICK f : IsWithout(f, Seq(T), ps, {<<>>, <<".">>})
  BY WithoutExists, Zenon
<1>3. 1 \in Pos
  BY DEF Pos
<1> QED  BY <1>1, <1>2, <1>3, Zenon DEF IsWithout, namesOf

LEMMA ComponentsAreNames ==
  ASSUME NEW T, NEW x \in Seq(T)
  PROVE  Components(x) \in Seq(Seq(T))
<1>1. PICK ns \in Seq(Seq(T)) : ns = namesOf(x)
  BY NamesAreTexts, Zenon
<1> QED  BY <1>1, ResolvedIsText, Zenon DEF Components

\* A path without a ".." is the sequence of its names.
LEMMA PlainComponents ==
  ASSUME NEW T, NEW x \in Seq(T), Up \notin ToSet(namesOf(x))
  PROVE  Components(x) = namesOf(x)
<1>1. PICK ns \in Seq(Seq(T)) : ns = namesOf(x)
  BY NamesAreTexts, Zenon
<1> QED  BY <1>1, ResolvedPlain, Zenon DEF Components

\* A name is entered in the folder before it, ".." too.
LEMMA ComponentsOfNamed ==
  ASSUME NEW T, "/" \in T, NEW x \in Seq(T), x # <<>>, NEW w, IsName(T, w)
  PROVE  /\ Components((x \o <<"/">>) \o w) = Entered(dirs, Components(x), w)
         /\ Last(x) = "/" => Components(x \o w) = Entered(dirs, Components(x), w)
<1>1. PICK ns \in Seq(Seq(T)) : ns = namesOf(x)
  BY NamesAreTexts, Zenon
<1>2. w \in Seq(T)
  BY Zenon DEF IsName
<1>3. EntersLast(dirs, ns, w)
  BY <1>1, <1>2, LastIsEntered, Zenon
<1>4. /\ namesOf((x \o <<"/">>) \o w) = ns \o <<w>>
      /\ Last(x) = "/" => namesOf(x \o w) = ns \o <<w>>
  BY <1>1, NamesOfNamed, Zenon
<1> QED  BY <1>1, <1>3, <1>4, Zenon DEF EntersLast, Components
-----------------------------------------------------------------------------
(* A multipart body. *)


\* u is s and then t, of m and n elements.
Joins(u, s, t, m, n) ==
  /\ Len(u) = m + n
  /\ \A i \in 1..m : u[i] = s[i]
  /\ \A i \in 1..n : u[m + i] = t[i]

LEMMA Joined ==
  ASSUME NEW S, NEW s \in Seq(S), NEW t \in Seq(S)
  PROVE  s \o t \in Seq(S) /\ Joins(s \o t, s, t, Len(s), Len(t))
<1>1. \A i \in 1..Len(s) : (s \o t)[i] = s[i]
  BY ConcatProperties
<1>2. \A i \in 1..Len(t) : (s \o t)[Len(s) + i] = t[i]
  BY ConcatProperties
<1>3. s \o t \in Seq(S) /\ Len(s \o t) = Len(s) + Len(t)
  BY ConcatProperties
<1> QED  BY <1>1, <1>2, <1>3 DEF Joins

\* u is the pieces of a multipart body in their order, of a, f, b, c and e
\* elements.
LaidOut(u, opening, file, behind, content, closing, a, f, b, c, e) ==
  /\ Len(u) = a + f + b + c + e
  /\ \A i \in 1..a : u[i] = opening[i]
  /\ \A i \in 1..f : u[a + i] = file[i]
  /\ \A i \in 1..b : u[a + f + i] = behind[i]
  /\ \A i \in 1..c : u[a + f + b + i] = content[i]
  /\ \A i \in 1..e : u[a + f + b + c + i] = closing[i]

LEMMA Positions ==
  ASSUME NEW o, NEW x, NEW h, NEW y, NEW z, NEW A, NEW B, NEW C, NEW u,
         NEW a \in Nat, NEW f \in Nat, NEW b \in Nat, NEW c \in Nat, NEW e \in Nat,
         Joins(A, o, x, a, f), Joins(B, A, h, a + f, b), Joins(C, B, y, a + f + b, c),
         Joins(u, C, z, a + f + b + c, e)
  PROVE  LaidOut(u, o, x, h, y, z, a, f, b, c, e)
<1>1. \A i \in 1..a : u[i] = o[i]
  <2>1. \A i \in 1..a : i \in 1..(a + f) /\ i \in 1..(a + f + b) /\ i \in 1..(a + f + b + c)
    OBVIOUS
  <2> QED  BY <2>1, Zenon DEF Joins
<1>2. \A i \in 1..f : u[a + i] = x[i]
  <2>1. \A i \in 1..f : /\ a + i \in 1..(a + f) /\ a + i \in 1..(a + f + b)
                        /\ a + i \in 1..(a + f + b + c)
    OBVIOUS
  <2> QED  BY <2>1, Zenon DEF Joins
<1>3. \A i \in 1..b : u[a + f + i] = h[i]
  <2>1. \A i \in 1..b : a + f + i \in 1..(a + f + b) /\ a + f + i \in 1..(a + f + b + c)
    OBVIOUS
  <2> QED  BY <2>1, Zenon DEF Joins
<1>4. \A i \in 1..c : u[a + f + b + i] = y[i]
  <2>1. \A i \in 1..c : a + f + b + i \in 1..(a + f + b + c)
    OBVIOUS
  <2> QED  BY <2>1, Zenon DEF Joins
<1> QED  BY <1>1, <1>2, <1>3, <1>4, Zenon DEF Joins, LaidOut

LEMMA FiveJoined ==
  ASSUME NEW S, NEW o \in Seq(S), NEW x \in Seq(S), NEW h \in Seq(S), NEW y \in Seq(S),
         NEW z \in Seq(S)
  PROVE  /\ o \o x \o h \o y \o z \in Seq(S)
         /\ LaidOut(o \o x \o h \o y \o z, o, x, h, y, z,
                    Len(o), Len(x), Len(h), Len(y), Len(z))
<1>1. PICK A : A = o \o x
  OBVIOUS
<1>2. PICK B : B = A \o h
  OBVIOUS
<1>3. PICK C : C = B \o y
  OBVIOUS
<1>4. PICK u : u = C \o z
  OBVIOUS
<1>5. A \in Seq(S) /\ Joins(A, o, x, Len(o), Len(x))
  BY <1>1, Joined, Zenon
<1>6. B \in Seq(S) /\ Joins(B, A, h, Len(A), Len(h))
  BY <1>2, <1>5, Joined, Zenon
<1>7. C \in Seq(S) /\ Joins(C, B, y, Len(B), Len(y))
  BY <1>3, <1>6, Joined, Zenon
<1>8. u \in Seq(S) /\ Joins(u, C, z, Len(C), Len(z))
  BY <1>4, <1>7, Joined, Zenon
<1>9. Len(A) = Len(o) + Len(x) /\ Len(B) = Len(A) + Len(h) /\ Len(C) = Len(B) + Len(y)
  BY <1>5, <1>6, <1>7, Zenon DEF Joins
<1>10. /\ Joins(B, A, h, Len(o) + Len(x), Len(h))
       /\ Joins(C, B, y, Len(o) + Len(x) + Len(h), Len(y))
       /\ Joins(u, C, z, Len(o) + Len(x) + Len(h) + Len(y), Len(z))
  BY <1>6, <1>7, <1>8, <1>9, Zenon
<1>11. /\ Len(o) \in Nat /\ Len(x) \in Nat /\ Len(h) \in Nat
       /\ Len(y) \in Nat /\ Len(z) \in Nat
  BY LenProperties
<1>12. LaidOut(u, o, x, h, y, z, Len(o), Len(x), Len(h), Len(y), Len(z))
  BY <1>5, <1>10, <1>11, Positions, Zenon
<1>13. u = o \o x \o h \o y \o z
  BY <1>1, <1>2, <1>3, <1>4, Zenon
<1> QED  BY <1>8, <1>12, <1>13, Zenon

Piece == STRING \cup {"--", "boundary", "CRLF", "disposition", "filename=", "QUOTE", "type"}

Opening == <<"--", "boundary", "CRLF", "disposition", "filename=", "QUOTE">>
Behind == <<"QUOTE", "CRLF", "type", "CRLF", "CRLF">>
Closing == <<"CRLF", "--", "boundary", "--", "CRLF">>

LEMMA BodyIsLaidOut ==
  ASSUME NEW q, q.file \in Seq(STRING), q.content \in Seq(STRING)
  PROVE  /\ Multipart(q) \in Seq(Piece)
         /\ LaidOut(Multipart(q), Opening, q.file, Behind, q.content, Closing,
                    6, Len(q.file), 5, Len(q.content), 5)
<1>1. /\ Opening \in Seq(Piece) /\ Len(Opening) = 6
      /\ Behind \in Seq(Piece) /\ Len(Behind) = 5
      /\ Closing \in Seq(Piece) /\ Len(Closing) = 5
  BY DEF Opening, Behind, Closing, Piece
<1>2. q.file \in Seq(Piece) /\ q.content \in Seq(Piece)
  BY DEF Piece
<1>3. PICK u : u = Opening \o q.file \o Behind \o q.content \o Closing
  OBVIOUS
<1>4. u = Multipart(q)
  BY <1>3, Zenon DEF Multipart, Opening, Behind, Closing
<1>5. u \in Seq(Piece)
      /\ LaidOut(u, Opening, q.file, Behind, q.content, Closing,
                 Len(Opening), Len(q.file), Len(Behind), Len(q.content), Len(Closing))
  BY <1>1, <1>2, <1>3, FiveJoined, Zenon
<1> QED  BY <1>1, <1>4, <1>5, Zenon

\* What texts are made of.
Sign == Piece \cup {"/", " ", ".", "_", "index", "html", "upload", "data"}
               \cup {ToString(k) : k \in Nat}

LEMMA Signs ==
  /\ STRING \subseteq Sign /\ Piece \subseteq Sign /\ \A k \in Nat : ToString(k) \in Sign
  /\ {"/", " ", ".", "_", "index", "html", "upload", "data"} \subseteq Sign
BY Zenon DEF Sign, Piece

LEMMA SeqMonotone ==
  ASSUME NEW S, NEW T, S \subseteq T
  PROVE  \A s \in Seq(S) : s \in Seq(T)
OBVIOUS

LEMMA OneSign ==
  ASSUME NEW T, NEW c \in T
  PROVE  <<c>> \in Seq(T)
OBVIOUS

LEMMA TextsOfSigns == \A s \in Seq(STRING) : s \in Seq(Sign)
<1>1. STRING \subseteq Sign
  BY Signs, Zenon
<1> QED  BY <1>1, SeqMonotone, Zenon

LEMMA BodyIsText ==
  ASSUME NEW q \in DOMAIN Requests
  PROVE  BodyOf(Requests[q]) \in Seq(Sign) /\ Requests[q].path \in Seq(STRING)
<1>1. PICK r : r = Requests[q] /\ r \in ToSet(Requests)
  BY DEF ToSet
<1>2. r.path \in Seq(STRING) /\ r.file \in Seq(STRING) /\ r.content \in Seq(STRING)
  BY <1>1, HttpAssumption DEF RequestOK
<1>3. Multipart(r) \in Seq(Piece)
  BY <1>2, BodyIsLaidOut, Zenon
<1>4. Multipart(r) \in Seq(Sign) /\ r.content \in Seq(Sign)
  BY <1>2, <1>3, Signs, SeqMonotone, Zenon
<1> QED  BY <1>1, <1>2, <1>4, Zenon DEF BodyOf

LEMMA ConcatHasPrefix ==
  ASSUME NEW T, NEW x \in Seq(T), NEW y \in Seq(T)
  PROVE  IsPrefix(x, x \o y)
<1>1. PICK s \in Seq(T) : s = x \o y /\ Joint(s, x, y)
  BY JointConcat, Zenon
<1>2. Len(x) \in Nat /\ Len(y) \in Nat /\ Len(s) = Len(x) + Len(y) /\ \A i \in 1..Len(x) : s[i] = x[i]
  <2>1. Len(x) \in Nat /\ Len(y) \in Nat
    OBVIOUS
  <2> QED  BY <1>1, <2>1, Zenon DEF Joint
<1>3. SameText(s, 1, Len(x), x, 1, Len(x))
  <2>1. /\ 0 \in Nat /\ 1 \in Nat /\ Len(x) \in Int /\ 1 <= 1 /\ Len(x) <= Len(x) /\ 1 <= Len(x) + 1
        /\ Len(x) + 0 <= Len(s) /\ 1 + 0 = 1 /\ Len(x) + 0 = Len(x)
    BY <1>2
  <2>2. \A i \in 1..Len(x) : i + 0 = i
    OBVIOUS
  <2>3. \A i \in 1..Len(x) : s[i + 0] = x[i]
    BY <1>2, <2>2, Zenon
  <2>4. SameText(s, 1 + 0, Len(x) + 0, x, 1, Len(x))
    BY <2>1, <2>3, SameElements, Zenon
  <2> QED  BY <2>1, <2>4, Zenon
<1>4. Len(x) <= Len(s)
  BY <1>2
<1> QED  BY <1>1, <1>3, <1>4, Zenon DEF SameText, IsPrefix

\* What stands behind a text that starts another.
LEMMA BehindItsStart ==
  ASSUME NEW T, NEW x \in Seq(T), NEW y \in Seq(T)
  PROVE  StartsWith(x \o y, x) /\ From(x \o y, Len(x) + 1) = y
<1>1. PICK s \in Seq(T) : s = x \o y /\ Joint(s, x, y)
  BY JointConcat, Zenon
<1>2. PICK m, n \in Nat : m = Len(x) /\ n = Len(y) /\ Len(s) = m + n
  BY <1>1 DEF Joint
<1>3. SubSeq(s, 1, m) = x
  <2>1. IsPrefix(x, s)
    BY <1>1, ConcatHasPrefix, Zenon
  <2>2. SubSeq(x, 1, m) = x
    BY <1>2, SubSeqFull, Zenon
  <2> QED  BY <1>2, <2>1, <2>2, Zenon DEF IsPrefix
<1>4. SubSeq(s, m + 1, Len(s)) = y
  <2>1. /\ 1 \in Nat /\ n \in Int /\ 1 <= 1 /\ n <= Len(y) /\ 1 <= n + 1 /\ n + m <= Len(s)
        /\ 1 + m = m + 1 /\ n + m = Len(s)
    BY <1>2
  <2>2. \A i \in 1..n : s[i + m] = y[i]
    <3>1. \A i \in 1..n : i + m = m + i
      OBVIOUS
    <3> QED  BY <1>1, <1>2, <3>1, Zenon DEF Joint
  <2>3. SameText(s, 1 + m, n + m, y, 1, n)
    BY <2>1, <2>2, SameElements, Zenon
  <2>4. SubSeq(y, 1, n) = y
    BY <1>2, SubSeqFull, Zenon
  <2> QED  BY <2>1, <2>3, <2>4, Zenon DEF SameText
<1>5. StartsWith(s, x)
  <2> DEFINE hits == Within(s, x, 1)
  <2>1. hits \subseteq Nat /\ \A k \in hits : 1 <= k
    BY <1>2 DEF Within
  <2>2. 1 \in hits
    <3>1. 1 \in 1..(Len(s) - Len(x) + 1) /\ 1 + Len(x) - 1 = m
      BY <1>2
    <3> QED  BY <1>3, <3>1, Zenon DEF Within
  <2> HIDE DEF hits
  <2>3. PICK k : k = Min(hits)
    OBVIOUS
  <2>4. k \in hits /\ k <= 1
    BY <2>1, <2>2, <2>3, Smallest, Zenon
  <2>5. k = 1
    BY <2>1, <2>4
  <2> QED  BY <2>2, <2>3, <2>5 DEF hits, StartsWith, Find, FindFrom
<1> QED  BY <1>1, <1>2, <1>4, <1>5, Zenon DEF From
-----------------------------------------------------------------------------
(* The parser. *)

\* Where a piece is found.
LEMMA Hits ==
  ASSUME NEW T, NEW s \in Seq(T), NEW c
  PROVE  Within(s, <<c>>, 1) = {i \in 1..Len(s) : s[i] = c}
<1>1. Len(s) \in Nat /\ Len(<<c>>) = 1
  OBVIOUS
<1>2. \A i \in 1..Len(s) : SubSeq(s, i, i + 1 - 1) = <<s[i]>>
  <2> TAKE i \in 1..Len(s)
  <2>1. PICK d, w : d = s[i] /\ w = SubSeq(s, i, i)
    OBVIOUS
  <2>2. w \in Seq(T) /\ Len(w) = 1 /\ w[1] = d
    BY <2>1
  <2>3. w = <<d>>
    BY <2>2
  <2>4. i + 1 - 1 = i
    OBVIOUS
  <2> QED  BY <2>1, <2>3, <2>4, Zenon
<1>3. \A i \in 1..Len(s) : SubSeq(s, i, i + 1 - 1) = <<c>> <=> s[i] = c
  <2> TAKE i \in 1..Len(s)
  <2>1. PICK d : d = s[i]
    OBVIOUS
  <2>2. <<d>> = <<c>> <=> d = c
    <3>1. <<d>>[1] = d /\ <<c>>[1] = c
      OBVIOUS
    <3> QED  BY <3>1, Zenon
  <2> QED  BY <1>2, <2>1, <2>2, Zenon
<1>4. Within(s, <<c>>, 1) = {i \in 1..(Len(s) - 1 + 1) : SubSeq(s, i, i + 1 - 1) = <<c>>}
  BY <1>1, Zenon DEF Within
<1>5. Len(s) - 1 + 1 = Len(s)
  BY <1>1
<1> QED  BY <1>3, <1>4, <1>5, Zenon

LEMMA FoundNowhere ==
  ASSUME NEW T, NEW s \in Seq(T), NEW c, \A i \in 1..Len(s) : s[i] # c
  PROVE  Find(s, <<c>>) = npos
<1>1. Within(s, <<c>>, 1) = {}
  <2>1. Within(s, <<c>>, 1) = {i \in 1..Len(s) : s[i] = c}
    BY Hits, Zenon
  <2> QED  BY <2>1, Zenon
<1> QED  BY <1>1, Zenon DEF Find, FindFrom

\* x, then c, then y.
SplitAt(T, s, x, c, y) ==
  /\ s \in Seq(T) /\ Len(s) = (Len(x) + 1) + Len(y)
  /\ s[Len(x) + 1] = c /\ \A i \in 1..Len(x) : s[i] = x[i]
  /\ SubSeq(s, 1, (Len(x) + 1) - 1) = x /\ From(s, (Len(x) + 1) + 1) = y

LEMMA Split ==
  ASSUME NEW T, NEW x \in Seq(T), NEW y \in Seq(T), NEW c \in T
  PROVE  SplitAt(T, (x \o <<c>>) \o y, x, c, y)
<1>1. PICK xc \in Seq(T) : xc = x \o <<c>> /\ Joint(xc, x, <<c>>)
  <2>1. <<c>> \in Seq(T)
    BY OneSign, Zenon
  <2> QED  BY <2>1, JointConcat, Zenon
<1>2. PICK s \in Seq(T) : s = xc \o y /\ Joint(s, xc, y)
  BY JointConcat, Zenon
<1>3. PICK m, n \in Nat : m = Len(x) /\ n = Len(y)
  OBVIOUS
<1>4. Len(xc) = m + 1 /\ xc[m + 1] = c /\ (\A i \in 1..m : xc[i] = x[i]) /\ Len(s) = (m + 1) + n
  <2>1. Len(<<c>>) = 1 /\ <<c>>[1] = c /\ 1 \in 1..1
    OBVIOUS
  <2> QED  BY <1>1, <1>2, <1>3, <2>1, Zenon DEF Joint
<1>5. s[m + 1] = c /\ \A i \in 1..m : s[i] = x[i]
  <2>1. m + 1 \in 1..(m + 1) /\ \A i \in 1..m : i \in 1..(m + 1)
    BY <1>3
  <2> QED  BY <1>2, <1>4, <2>1, Zenon DEF Joint
<1>6. SubSeq(s, 1, (m + 1) - 1) = x
  <2>1. x = SubSeq(x, 1, m)
    BY <1>3, SubSeqFull, Zenon
  <2>2. /\ 0 \in Nat /\ 1 \in Nat /\ m \in Int /\ 1 <= 1 /\ m <= Len(x) /\ 1 <= m + 1
        /\ m + 0 <= Len(s) /\ 1 + 0 = 1 /\ m + 0 = (m + 1) - 1
    BY <1>3, <1>4
  <2>3. \A i \in 1..m : s[i + 0] = x[i]
    BY <1>5
  <2>4. SameText(s, 1 + 0, m + 0, x, 1, m)
    BY <2>2, <2>3, SameElements, Zenon
  <2> QED  BY <2>1, <2>2, <2>4, Zenon DEF SameText
<1>7. From(s, (m + 1) + 1) = y
  <2>1. From(xc \o y, Len(xc) + 1) = y
    BY BehindItsStart, Zenon
  <2> QED  BY <1>2, <1>4, <2>1, Zenon
<1> QED  BY <1>1, <1>2, <1>3, <1>4, <1>5, <1>6, <1>7, Zenon DEF SplitAt

\* The first c of a text, what is before it and what behind it.
Divides(s, c, x, y) ==
  LET k == Find(s, <<c>>)
  IN  k # npos /\ Before(s, k) = x /\ From(s, k + 1) = y

LEMMA FoundBetween ==
  ASSUME NEW T, NEW x \in Seq(T), NEW y \in Seq(T), NEW c \in T,
         \A i \in 1..Len(x) : x[i] # c
  PROVE  Divides((x \o <<c>>) \o y, c, x, y)
<1>1. PICK s : s = (x \o <<c>>) \o y /\ SplitAt(T, s, x, c, y)
  BY Split, Zenon
<1>2. PICK m, n \in Nat : m = Len(x) /\ n = Len(y)
  OBVIOUS
<1>3. /\ s \in Seq(T) /\ Len(s) = (m + 1) + n /\ s[m + 1] = c /\ \A i \in 1..m : s[i] = x[i]
      /\ SubSeq(s, 1, (m + 1) - 1) = x /\ From(s, (m + 1) + 1) = y
  BY <1>1, <1>2, Zenon DEF SplitAt
<1>4. Find(s, <<c>>) = m + 1
  <2>1. PICK hits : hits = Within(s, <<c>>, 1)
    OBVIOUS
  <2>2. hits = {i \in 1..Len(s) : s[i] = c}
    BY ONLY <1>3, <2>1, Hits
  <2>3. m + 1 \in hits /\ hits \subseteq Nat /\ \A i \in hits : ~(i \in 1..m) /\ i >= 1
    BY <1>2, <1>3, <2>2
  <2>4. PICK k : k = Min(hits) /\ k \in hits /\ \A i \in hits : k <= i
    BY <2>3, Smallest
  <2>5. k = m + 1
    BY <1>2, <2>3, <2>4
  <2> QED  BY <2>1, <2>3, <2>4, <2>5 DEF Find, FindFrom
<1>5. m + 1 # npos
  BY <1>2 DEF npos
<1> QED  BY <1>1, <1>3, <1>4, <1>5, Zenon DEF Divides, Before

\* Lines that are not empty, each with its end.
InLines(x) ==
  /\ x # <<>> /\ x[1] \notin LineEnds /\ x[Len(x)] \in LineEnds
  /\ \A i \in 2..Len(x) : x[i] \in LineEnds => x[i - 1] \notin LineEnds

\* The empty line behind such lines ends the headers.
CutsAt(s, x, y) == linesAndBody(s) = [lines |-> Parts(x, LineEnds), body |-> y]

LEMMA CutPieces ==
  ASSUME NEW T, NEW x \in Seq(T), NEW y \in Seq(T), NEW e \in T, e \in LineEnds, InLines(x)
  PROVE  CutsAt((x \o <<e>>) \o y, x, y)
<1>1. PICK s : s = (x \o <<e>>) \o y /\ SplitAt(T, s, x, e, y)
  BY Split, Zenon
<1>2. PICK m, n \in Nat : m = Len(x) /\ n = Len(y) /\ m > 0
  BY EmptySeq DEF InLines
<1>3. /\ s \in Seq(T) /\ Len(s) = (m + 1) + n /\ s[m + 1] = e /\ \A i \in 1..m : s[i] = x[i]
      /\ SubSeq(s, 1, (m + 1) - 1) = x /\ From(s, (m + 1) + 1) = y
  BY <1>1, <1>2, Zenon DEF SplitAt
<1>4. PICK ends : ends = {i \in DOMAIN s : s[i] \in LineEnds}
  OBVIOUS
<1>5. PICK blank : blank = {i \in ends : i - 1 \in ends}
  OBVIOUS
<1>6. m + 1 \in blank
  <2>1. m \in DOMAIN s /\ m + 1 \in DOMAIN s /\ (m + 1) - 1 = m /\ m \in 1..m
    BY <1>2, <1>3
  <2>2. s[m] \in LineEnds /\ s[m + 1] \in LineEnds
    BY <1>2, <1>3, <2>1, Zenon DEF InLines
  <2> QED  BY <1>4, <1>5, <2>1, <2>2, Zenon
<1>7. blank \subseteq Nat
  <2>1. DOMAIN s \subseteq Nat
    BY <1>3
  <2> QED  BY <1>4, <1>5, <2>1, Zenon
<1>8. ASSUME NEW i \in blank, i <= m PROVE FALSE
  <2>1. /\ i \in DOMAIN s /\ i - 1 \in DOMAIN s
        /\ s[i] \in LineEnds /\ s[i - 1] \in LineEnds
    BY <1>4, <1>5, Zenon
  <2>2. i \in 1..m /\ i - 1 \in 1..m /\ i \in 2..m
    BY <1>2, <1>3, <1>7, <1>8, <2>1
  <2>3. x[i] \in LineEnds /\ x[i - 1] \in LineEnds
    BY <1>3, <2>1, <2>2, Zenon
  <2> QED  BY <1>2, <2>2, <2>3, Zenon DEF InLines
<1>9. PICK k : k = Min(blank) /\ k \in blank /\ \A i \in blank : k <= i
  BY <1>6, <1>7, Smallest
<1>10. k = m + 1
  BY <1>2, <1>6, <1>7, <1>8, <1>9
<1>11. blank # {} /\ Before(s, k) = x /\ From(s, k + 1) = y
  <2>1. m + 1 # npos
    BY <1>2 DEF npos
  <2> QED  BY <1>3, <1>6, <1>10, <2>1, Zenon DEF Before
<1>12. linesAndBody(s) = [lines |-> Parts(Before(s, k), LineEnds), body |-> From(s, k + 1)]
  BY <1>4, <1>5, <1>9, <1>11, Zenon DEF linesAndBody
<1> QED  BY <1>1, <1>11, <1>12, Zenon DEF CutsAt

LEMMA LinesJoin ==
  ASSUME NEW T, NEW x \in Seq(T), NEW y \in Seq(T), InLines(x), InLines(y) \/ y = <<>>
  PROVE  InLines(x \o y)
<1>1. CASE y = <<>>
  <2>1. x \o y = x
    BY <1>1, ConcatEmptySeq
  <2> QED  BY <2>1, Zenon
<1>2. CASE InLines(y)
  <2>1. PICK s \in Seq(T) : s = x \o y /\ Joint(s, x, y)
    BY JointConcat, Zenon
  <2>2. PICK m, n \in Nat : m = Len(x) /\ n = Len(y) /\ m > 0 /\ n > 0
    BY <1>2, EmptySeq DEF InLines
  <2>3. /\ Len(s) = m + n /\ (\A i \in 1..m : s[i] = x[i]) /\ \A i \in 1..n : s[m + i] = y[i]
    BY <2>1, <2>2, Zenon DEF Joint
  <2>4. s # <<>>
    BY <2>2, <2>3
  <2>5. s[1] \notin LineEnds
    <3>1. 1 \in 1..m
      BY <2>2
    <3> QED  BY <2>3, <3>1, Zenon DEF InLines
  <2>6. s[Len(s)] \in LineEnds
    <3>1. n \in 1..n
      BY <2>2
    <3> QED  BY <1>2, <2>2, <2>3, <3>1, Zenon DEF InLines
  <2>7. ASSUME NEW i \in 2..Len(s), s[i] \in LineEnds PROVE s[i - 1] \notin LineEnds
    <3>1. CASE i <= m
      <4>1. i \in 2..m /\ i \in 1..m /\ i - 1 \in 1..m
        BY <2>2, <3>1
      <4> QED  BY <2>2, <2>3, <2>7, <4>1, Zenon DEF InLines
    <3>2. CASE i = m + 1
      <4>1. 1 \in 1..n
        BY <2>2
      <4>2. s[m + 1] = y[1]
        BY <2>3, <4>1, Zenon
      <4> QED  BY <1>2, <2>7, <3>2, <4>2, Zenon DEF InLines
    <3>3. CASE i > m + 1
      <4>0. i - m \in Nat
        BY <2>2, <2>3, <3>3
      <4>1. PICK j \in Nat : j = i - m
        BY <4>0, Zenon
      <4>2. j \in 2..n /\ j \in 1..n /\ j - 1 \in 1..n /\ i = m + j /\ i - 1 = m + (j - 1)
        BY <2>2, <2>3, <3>3, <4>1
      <4>3. s[i] = y[j] /\ s[i - 1] = y[j - 1]
        BY <2>3, <4>2, Zenon
      <4> QED  BY <1>2, <2>2, <2>7, <4>2, <4>3, Zenon DEF InLines
    <3> QED  BY <2>2, <2>3, <3>1, <3>2, <3>3
  <2> QED  BY <2>1, <2>4, <2>5, <2>6, <2>7, Zenon DEF InLines
<1> QED  BY <1>1, <1>2, Zenon

\* A line and its end.
OnALine(w) == \A i \in 1..Len(w) : w[i] \notin LineEnds

LEMMA OneLine ==
  ASSUME NEW T, NEW w \in Seq(T), w # <<>>, OnALine(w), NEW e \in T, e \in LineEnds
  PROVE  InLines(w \o <<e>>) /\ Parts(w \o <<e>>, LineEnds) = <<w>>
<1>1. PICK s \in Seq(T) : s = w \o <<e>> /\ Joint(s, w, <<e>>)
  <2>1. <<e>> \in Seq(T)
    BY OneSign, Zenon
  <2> QED  BY <2>1, JointConcat, Zenon
<1>2. PICK m \in Nat : m = Len(w) /\ m > 0
  BY EmptySeq
<1>3. Len(s) = m + 1 /\ s[m + 1] = e /\ \A i \in 1..m : s[i] = w[i]
  <2>1. Len(<<e>>) = 1 /\ <<e>>[1] = e /\ 1 \in 1..1
    OBVIOUS
  <2> QED  BY <1>1, <1>2, <2>1, Zenon DEF Joint
<1>4. s # <<>> /\ s[Len(s)] \in LineEnds /\ \A i \in 1..m : s[i] \notin LineEnds
  <2>1. s # <<>>
    BY <1>2, <1>3
  <2> QED  BY <1>2, <1>3, <2>1, Zenon DEF OnALine
<1>5. 1 \in 1..m /\ m \in 1..m /\ \A i \in 2..Len(s) : i - 1 \in 1..m
  BY <1>2, <1>3
<1>6. InLines(s)
  BY <1>4, <1>5, Zenon DEF InLines
<1>7. w[Len(w)] \notin LineEnds
  BY <1>2, <1>5, Zenon DEF OnALine
<1>8. Parts(s, LineEnds) = Parts(w, LineEnds)
  BY <1>1, <1>7, PartsClosed, Zenon
<1>9. Parts(w, LineEnds) = <<w>>
  BY OnePart, Zenon DEF OnALine
<1> QED  BY <1>1, <1>6, <1>8, <1>9, Zenon

LEMMA TailBehind ==
  ASSUME NEW U, NEW w \in U, NEW ps \in Seq(U)
  PROVE  Tail(<<w>> \o ps) = ps
<1>1. PICK all \in Seq(U) : all = <<w>> \o ps /\ Joint(all, <<w>>, ps)
  BY OneSign, JointConcat, Zenon
<1>2. Len(<<w>>) = 1
  OBVIOUS
<1>3. PICK n \in Nat : n = Len(ps)
  OBVIOUS
<1>4. Len(all) = 1 + n /\ \A i \in 1..n : all[1 + i] = ps[i]
  BY <1>1, <1>2, <1>3, Zenon DEF Joint
<1>5. PICK t \in Seq(U) : t = Tail(all) /\ Len(t) = n /\ \A i \in 1..n : t[i] = all[i + 1]
  <2>1. all # <<>>
    BY <1>3, <1>4
  <2> QED  BY <1>3, <1>4, <2>1, HeadTailProperties
<1>6. \A i \in 1..n : t[i] = ps[i]
  BY <1>3, <1>4, <1>5
<1>7. t = ps
  BY ONLY <1>3, <1>5, <1>6, t \in Seq(U), ps \in Seq(U)
<1> QED  BY <1>1, <1>5, <1>7, Zenon

\* The first line of several.
BeginsWithLine(s, w, y) ==
  /\ Parts(s, LineEnds) # <<>> /\ Parts(s, LineEnds)[1] = w
  /\ Tail(Parts(s, LineEnds)) = Parts(y, LineEnds)

LEMMA FirstLine ==
  ASSUME NEW T, NEW w \in Seq(T), w # <<>>, OnALine(w), NEW e \in T, e \in LineEnds,
         NEW y \in Seq(T)
  PROVE  BeginsWithLine((w \o <<e>>) \o y, w, y)
<1>1. PICK x : x = w \o <<e>> /\ InLines(x) /\ Parts(x, LineEnds) = <<w>>
  BY OneLine, Zenon
<1>2. <<e>> \in Seq(T)
  BY OneSign, Zenon
<1>3. x \in Seq(T)
  BY <1>1, <1>2, JointConcat, Zenon
<1>4. Len(x) > 0 /\ x[Len(x)] \in LineEnds
  BY <1>1, <1>3, EmptySeq DEF InLines
<1>5. PartsSplit(x, y, LineEnds)
  BY <1>3, <1>4, PartsOfConcat, Zenon
<1>6. PICK U, ps : U = Seq(T) /\ ps = Parts(y, LineEnds) /\ ps \in Seq(U)
  <2>1. PICK f : PartsFrom(f, y, LineEnds) /\ Parts(y, LineEnds) = f[1]
    BY PartsExist, Zenon
  <2>2. 1 \in Pos
    BY DEF Pos
  <2>3. f[1] \in Seq(Seq(T))
    BY <2>1, <2>2, PartsAreTexts, Zenon DEF AreTexts
  <2> QED  BY <2>1, <2>3, Zenon
<1>7. <<w>> \in Seq(U)
  BY <1>6, OneSign, Zenon
<1>8. PICK all \in Seq(U) : all = <<w>> \o ps /\ Joint(all, <<w>>, ps)
  BY <1>6, <1>7, JointConcat, Zenon
<1>9. Len(<<w>>) = 1 /\ <<w>>[1] = w /\ 1 \in 1..1
  OBVIOUS
<1>10. all[1] = w /\ Len(all) = 1 + Len(ps)
  BY <1>8, <1>9, Zenon DEF Joint
<1>11. all # <<>>
  BY <1>6, <1>8, <1>10
<1>12. Tail(all) = ps
  BY <1>6, <1>8, TailBehind, Zenon
<1> QED  BY <1>1, <1>5, <1>6, <1>8, <1>10, <1>11, <1>12, Zenon DEF PartsSplit, BeginsWithLine

\* Texts without blanks.
OneWord(w) == \A i \in 1..Len(w) : w[i] \notin Blank

LEMMA Listed ==
  ASSUME NEW a, NEW b, NEW c
  PROVE  <<a>> \o (<<b>> \o <<c>>) = <<a, b, c>> /\ <<a>> \o (<<>> \o <<c>>) = <<a, c>>
<1>1. PICK T : T = {a, b, c}
  OBVIOUS
<1>2. <<a>> \in Seq(T) /\ <<b>> \in Seq(T) /\ <<c>> \in Seq(T) /\ <<>> \in Seq(T)
  BY <1>1
<1>3. \A x : Len(<<x>>) = 1 /\ <<x>>[1] = x
  OBVIOUS
<1>4. <<>> \o <<c>> = <<c>>
  BY <1>2, ConcatEmptySeq
<1>5. PICK p \in Seq(T) : p = <<b>> \o <<c>> /\ Joint(p, <<b>>, <<c>>)
  BY <1>2, JointConcat, Zenon
<1>6. 1 \in 1..1
  OBVIOUS
<1>7. Len(p) = 1 + 1 /\ p[1] = b /\ p[1 + 1] = c
  BY <1>3, <1>5, <1>6, Zenon DEF Joint
<1>8. PICK s \in Seq(T) : s = <<a>> \o p /\ Joint(s, <<a>>, p)
  BY <1>2, <1>5, JointConcat, Zenon
<1>9. 1 \in 1..(1 + 1) /\ 1 + 1 \in 1..(1 + 1)
  OBVIOUS
<1>10. Len(s) = 1 + (1 + 1) /\ s[1] = a /\ s[1 + 1] = b /\ s[1 + (1 + 1)] = c
  BY <1>3, <1>6, <1>7, <1>8, <1>9, Zenon DEF Joint
<1>11. s = <<a, b, c>>
  BY ONLY <1>10, s \in Seq(T)
<1>12. PICK r \in Seq(T) : r = <<a>> \o <<c>> /\ Joint(r, <<a>>, <<c>>)
  BY <1>2, JointConcat, Zenon
<1>13. Len(r) = 1 + 1 /\ r[1] = a /\ r[1 + 1] = c
  BY <1>3, <1>6, <1>12, Zenon DEF Joint
<1>14. r = <<a, c>>
  BY ONLY <1>13, r \in Seq(T)
<1> QED  BY <1>4, <1>5, <1>8, <1>11, <1>12, <1>14, Zenon

\* The words of a request line; of one without a target there are two.
LineOf(d, v, m, t) == (m \o <<d>>) \o ((t \o <<d>>) \o <<v>>)
WordsAre(s, d, m, t, v) ==
  split(s, d) = IF t = <<>> THEN <<m, <<v>>>> ELSE <<m, t, <<v>>>>

LEMMA LineSplit ==
  ASSUME NEW T, NEW m \in Seq(T), NEW t \in Seq(T), NEW v \in T, v \notin Blank, NEW d \in T, d \in Blank,
         m # <<>>, OneWord(m), OneWord(t)
  PROVE  WordsAre(LineOf(d, v, m, t), d, m, t, v)
<1> DEFINE D == {d}
<1>1. d \in D
  OBVIOUS
<1>2. PICK mb \in Seq(T) : mb = m \o <<d>> /\ Joint(mb, m, <<d>>)
  BY OneSign, JointConcat, Zenon
<1>3. PICK tb \in Seq(T) : tb = t \o <<d>> /\ Joint(tb, t, <<d>>)
  BY OneSign, JointConcat, Zenon
<1>4. PICK w : w = <<v>>
  OBVIOUS
<1>5. w \in Seq(T) /\ w # <<>> /\ OneWord(w)
  <2>1. w \in Seq(T) /\ Len(w) = 1 /\ w[1] = v
    BY <1>4
  <2>2. w # <<>>
    <3>1. <<v>> # <<>>
      OBVIOUS
    <3> QED  BY <1>4, <3>1, Zenon
  <2>3. \A i \in 1..Len(w) : i = 1
    BY <2>1
  <2> QED  BY <2>1, <2>2, <2>3, Zenon DEF OneWord
<1>6. Len(mb) > 0 /\ mb[Len(mb)] \in D
  <2>1. Len(<<d>>) = 1 /\ <<d>>[1] = d /\ 1 \in 1..1 /\ Len(m) \in Nat
    OBVIOUS
  <2>2. Len(mb) = Len(m) + 1 /\ mb[Len(m) + 1] = d
    BY <1>2, <2>1, Zenon DEF Joint
  <2>3. Len(mb) > 0
    BY <2>1, <2>2
  <2> QED  BY <2>2, <2>3, Zenon
<1>7. Len(tb) > 0 /\ tb[Len(tb)] \in D
  <2>1. Len(<<d>>) = 1 /\ <<d>>[1] = d /\ 1 \in 1..1 /\ Len(t) \in Nat
    OBVIOUS
  <2>2. Len(tb) = Len(t) + 1 /\ tb[Len(t) + 1] = d
    BY <1>3, <2>1, Zenon DEF Joint
  <2>3. Len(tb) > 0
    BY <2>1, <2>2
  <2> QED  BY <2>2, <2>3, Zenon
<1>8. \A x : OneWord(x) => \A i \in 1..Len(x) : x[i] \notin D
  BY <1>1, Zenon DEF OneWord
<1>9. ASSUME NEW x \in Seq(T), x # <<>>, OneWord(x)
      PROVE  Parts(x, D) = <<x>> /\ Parts(x \o <<d>>, D) = <<x>>
  <2>1. Parts(x, D) = <<x>>
    BY <1>8, <1>9, OnePart, Zenon
  <2>2. x[Len(x)] \notin D
    <3>1. Len(x) \in 1..Len(x)
      BY <1>9, EmptySeq
    <3> QED  BY <1>8, <1>9, <3>1, Zenon
  <2>3. Parts(x \o <<d>>, D) = Parts(x, D)
    BY <1>1, <1>9, <2>2, PartsClosed, Zenon
  <2> QED  BY <2>1, <2>3, Zenon
<1>10. Parts(mb, D) = <<m>> /\ Parts(w, D) = <<w>>
  BY <1>2, <1>5, <1>9, Zenon
<1>11. Parts(tb, D) = <<t>>
  <2>1. CASE t = <<>>
    <3>1. tb = <<d>>
      BY <1>3, <2>1
    <3> QED  BY <1>1, <2>1, <3>1, DelimiterAlone, Zenon
  <2>2. CASE t # <<>>
    BY <1>3, <1>9, <2>2, Zenon
  <2> QED  BY <2>1, <2>2, Zenon
<1>12. PICK U : U = Seq(T)
  OBVIOUS
<1>13. PICK s : s = mb \o (tb \o w)
  OBVIOUS
<1>14. Parts(s, D) = <<m>> \o (<<t>> \o <<w>>)
  <2>1. PICK r \in Seq(T) : r = tb \o w
    BY <1>5, JointConcat, Zenon
  <2>2. PartsSplit(mb, r, D)
    BY <1>6, PartsOfConcat, Zenon
  <2>3. PartsSplit(tb, w, D)
    BY <1>5, <1>7, PartsOfConcat, Zenon
  <2> QED  BY <1>10, <1>11, <1>13, <2>1, <2>2, <2>3, Zenon DEF PartsSplit
<1>15. <<m>> \o (<<t>> \o <<w>>) = <<m, t, w>> /\ <<m>> \o (<<>> \o <<w>>) = <<m, w>>
  BY Listed, Zenon
<1>16. PICK ps : ps = <<m, t, w>>
  OBVIOUS
<1>17. trim(m) = m /\ trim(t) = t /\ trim(w) = w
  BY <1>5, Trimmed, Zenon DEF OneWord
<1>18. [i \in DOMAIN ps |-> trim(ps[i])] = ps
  <2>1. DOMAIN ps = {1, 2, 3} /\ ps[1] = m /\ ps[2] = t /\ ps[3] = w
    BY <1>16
  <2>2. \A i \in DOMAIN ps : trim(ps[i]) = ps[i]
    BY <1>17, <2>1, Zenon
  <2>3. ps = [i \in DOMAIN ps |-> ps[i]]
    BY <1>16
  <2> QED  BY <2>2, <2>3, Zenon
<1>19. split(s, d) = Without(ps, {<<>>})
  BY <1>14, <1>15, <1>16, <1>18, Zenon DEF split, getlines
<1> DEFINE W == {<<>>}
<1>20. Without(ps, W) = Without(<<m>>, W) \o (Without(<<t>>, W) \o Without(<<w>>, W))
  <2>1. m \in U /\ t \in U /\ w \in U
    BY <1>5, <1>12, Zenon
  <2>2. <<m>> \in Seq(U) /\ <<t>> \in Seq(U) /\ <<w>> \in Seq(U)
    BY <2>1, OneSign, Zenon
  <2>3. PICK r \in Seq(U) : r = <<t>> \o <<w>>
    BY <2>2, JointConcat, Zenon
  <2>4. WithoutSplit(<<m>>, r, W)
    BY <2>2, WithoutConcat, Zenon
  <2>5. WithoutSplit(<<t>>, <<w>>, W)
    BY <2>2, WithoutConcat, Zenon
  <2> QED  BY <1>15, <1>16, <2>3, <2>4, <2>5, Zenon DEF WithoutSplit
<1>21. m \notin W /\ w \notin W /\ (t \in W <=> t = <<>>)
  BY <1>5, Zenon
<1>22. Without(<<m>>, W) = <<m>> /\ Without(<<w>>, W) = <<w>>
  BY <1>21, WithoutOne, Zenon
<1>23. t = <<>> => split(s, d) = <<m, <<v>>>>
  <2> HAVE t = <<>>
  <2>1. Without(<<t>>, W) = <<>>
    BY <1>21, WithoutOne, Zenon
  <2>2. split(s, d) = <<m, w>>
    BY <1>15, <1>19, <1>20, <1>22, <2>1, Zenon
  <2> QED  BY <1>4, <2>2, Zenon
<1>24. t # <<>> => split(s, d) = <<m, t, <<v>>>>
  <2> HAVE t # <<>>
  <2>1. Without(<<t>>, W) = <<t>>
    BY <1>21, WithoutOne, Zenon
  <2>2. split(s, d) = <<m, t, w>>
    BY <1>15, <1>19, <1>20, <1>22, <2>1, Zenon
  <2> QED  BY <1>4, <2>2, Zenon
<1>25. s = LineOf(d, v, m, t)
  BY <1>2, <1>3, <1>4, <1>13, Zenon DEF LineOf
<1> QED  BY <1>23, <1>24, <1>25, Zenon DEF WordsAre

\* The path and the query of a target.
Target(r) == r.path \o (IF r.query = <<>> THEN <<>> ELSE <<"?">> \o r.query)

LEMMA TargetParts ==
  ASSUME NEW T, NEW p \in Seq(T), NEW u \in Seq(T), "?" \in T, NEW t,
         \A i \in 1..Len(p) : p[i] # "?",
         t = p \o (IF u = <<>> THEN <<>> ELSE <<"?">> \o u)
  PROVE  extractQueryString(t) = [path |-> p, query |-> u]
<1>1. CASE u = <<>>
  <2>1. t = p
    BY <1>1, ConcatEmptySeq
  <2>2. Find(t, <<"?">>) = npos
    BY <2>1, FoundNowhere, Zenon
  <2> QED  BY <1>1, <2>1, <2>2, Zenon DEF extractQueryString, Before
<1>2. CASE u # <<>>
  <2>1. t = p \o (<<"?">> \o u)
    BY <1>2, Zenon
  <2>2. <<"?">> \in Seq(T)
    BY OneSign, Zenon
  <2>3. t = (p \o <<"?">>) \o u
    <3>1. Assoc(T, p, <<"?">>, u)
      BY <2>2, Associates, Zenon
    <3> QED  BY <2>1, <3>1, Zenon DEF Assoc
  <2>4. Divides(t, "?", p, u)
    BY <2>3, FoundBetween, Zenon
  <2> QED  BY <2>4, Zenon DEF Divides, extractQueryString
<1> QED  BY <1>1, <1>2, Zenon

IsRequestLine(P, T, d, v, e, m, t) ==
  /\ ((m \o <<d>>) \o t) \o <<d, v, e>> = P \o <<e>>
  /\ P \in Seq(T) /\ P # <<>> /\ OnALine(P)

LEMMA RequestLine ==
  ASSUME NEW T, NEW d \in T, d \notin LineEnds, NEW v \in T, v \notin LineEnds, NEW e \in T,
         NEW m \in Seq(T), NEW t \in Seq(T), m # <<>>, OnALine(m), OnALine(t)
  PROVE  IsRequestLine(LineOf(d, v, m, t), T, d, v, e, m, t)
<1>1. PICK N : N = T \ LineEnds
  OBVIOUS
<1>2. d \in N /\ v \in N /\ N \subseteq T
  BY <1>1
<1>3. m \in Seq(N) /\ t \in Seq(N)
  BY <1>1 DEF OnALine
<1>4. PICK b, w, z : b = <<d>> /\ w = <<v>> /\ z = <<e>>
  OBVIOUS
<1>5. b \in Seq(N) /\ w \in Seq(N) /\ b \in Seq(T) /\ w \in Seq(T) /\ z \in Seq(T)
  BY <1>2, <1>4, OneSign, Zenon
<1>6. PICK M \in Seq(N) : M = m \o b /\ Joint(M, m, b)
  BY <1>3, <1>5, JointConcat, Zenon
<1>7. PICK B \in Seq(N) : B = t \o b
  BY <1>3, <1>5, JointConcat, Zenon
<1>8. PICK R \in Seq(N) : R = B \o w
  BY <1>5, <1>7, JointConcat, Zenon
<1>9. PICK P \in Seq(N) : P = M \o R /\ Joint(P, M, R)
  BY <1>6, <1>8, JointConcat, Zenon
<1>10. P = LineOf(d, v, m, t)
  BY <1>4, <1>6, <1>7, <1>8, <1>9, Zenon DEF LineOf
<1>11. P \in Seq(T) /\ M \in Seq(T) /\ B \in Seq(T) /\ R \in Seq(T)
  BY <1>2, SeqMonotone, Zenon
<1>12. P # <<>>
  <2>1. Len(M) = Len(m) + Len(b) /\ Len(P) = Len(M) + Len(R)
    BY <1>6, <1>9, Zenon DEF Joint
  <2>2. Len(m) > 0 /\ Len(m) \in Nat
    BY EmptySeq
  <2>3. Len(b) = 1
    BY <1>4
  <2>4. Len(R) \in Nat
    BY <1>8
  <2>5. Len(P) > 0
    BY <2>1, <2>2, <2>3, <2>4
  <2> QED  BY <2>5
<1>13. OnALine(P)
  <2>1. \A i \in 1..Len(P) : P[i] \in N
    BY <1>9
  <2> QED  BY <1>1, <2>1, Zenon DEF OnALine
<1>14. (M \o t) \o (b \o (w \o z)) = P \o z
  <2>1. PICK wz \in Seq(T) : wz = w \o z
    BY <1>5, JointConcat, Zenon
  <2>2. PICK bwz \in Seq(T) : bwz = b \o wz
    BY <1>5, <2>1, JointConcat, Zenon
  <2>3. (M \o t) \o bwz = M \o (t \o bwz)
    <3>1. Assoc(T, M, t, bwz)
      BY <1>11, Associates, Zenon
    <3> QED  BY <3>1, Zenon DEF Assoc
  <2>4. t \o bwz = B \o wz
    <3>1. Assoc(T, t, b, wz)
      BY <1>5, Associates, Zenon
    <3> QED  BY <1>7, <2>2, <3>1, Zenon DEF Assoc
  <2>5. B \o wz = R \o z
    <3>1. Assoc(T, B, w, z)
      BY <1>5, <1>11, Associates, Zenon
    <3> QED  BY <1>8, <2>1, <3>1, Zenon DEF Assoc
  <2>6. M \o (R \o z) = P \o z
    <3>1. Assoc(T, M, R, z)
      BY <1>5, <1>11, Associates, Zenon
    <3> QED  BY <1>9, <3>1, Zenon DEF Assoc
  <2> QED  BY <2>1, <2>2, <2>3, <2>4, <2>5, <2>6, Zenon
<1>15. b \o (w \o z) = <<d, v, e>>
  BY <1>4, Listed, Zenon
<1>16. ((m \o <<d>>) \o t) \o <<d, v, e>> = P \o <<e>>
  BY <1>4, <1>6, <1>14, <1>15, Zenon
<1> QED  BY <1>10, <1>11, <1>12, <1>13, <1>16, Zenon DEF IsRequestLine

\* What linesAndBody and parseRequestLine take out of a request.
TakesApart(raw, d, v, m, t, h, y) ==
  LET cut == linesAndBody(raw)
  IN  /\ cut.lines # <<>> /\ cut.body = y
      /\ WordsAre(cut.lines[1], d, m, t, v)
      /\ Tail(cut.lines) = Parts(h, LineEnds)

LEMMA RequestApart ==
  ASSUME NEW T, NEW d \in T, d \in Blank, d \notin LineEnds, NEW v \in T, v \notin Blank,
         NEW e \in T, e \in LineEnds, NEW m \in Seq(T), NEW t \in Seq(T),
         m # <<>>, OneWord(m), OneWord(t),
         NEW h \in Seq(T), InLines(h) \/ h = <<>>, NEW y \in Seq(T)
  PROVE  TakesApart((((((m \o <<d>>) \o t) \o <<d, v, e>>) \o h) \o <<e>>) \o y,
                    d, v, m, t, h, y)
<1>1. LineEnds \subseteq Blank
  BY Zenon DEF LineEnds, Blank
<1>2. v \notin LineEnds /\ OnALine(m) /\ OnALine(t)
  BY <1>1, Zenon DEF OneWord, OnALine
<1>3. PICK P \in Seq(T) :
        /\ P = LineOf(d, v, m, t) /\ P # <<>> /\ OnALine(P)
        /\ ((m \o <<d>>) \o t) \o <<d, v, e>> = P \o <<e>>
  <2>1. IsRequestLine(LineOf(d, v, m, t), T, d, v, e, m, t)
    BY <1>2, RequestLine, Zenon
  <2> QED  BY <2>1, Zenon DEF IsRequestLine
<1>4. PICK X : X = P \o <<e>> /\ InLines(X)
  BY <1>3, OneLine, Zenon
<1>5. X \in Seq(T)
  BY <1>4, OneSign, JointConcat, Zenon
<1>7. PICK x \in Seq(T) : x = X \o h /\ InLines(x)
  <2>1. X \o h \in Seq(T)
    BY <1>5, JointConcat, Zenon
  <2>2. InLines(X \o h)
    BY <1>4, <1>5, LinesJoin, Zenon
  <2> QED  BY <2>1, <2>2, Zenon
<1>10. PICK lines :
         /\ lines = Parts(x, LineEnds) /\ lines # <<>> /\ lines[1] = P
         /\ Tail(lines) = Parts(h, LineEnds)
  <2>1. BeginsWithLine((P \o <<e>>) \o h, P, h)
    BY <1>3, FirstLine, Zenon
  <2> QED  BY <1>4, <1>7, <2>1, Zenon DEF BeginsWithLine
<1>11. PICK s : s = (x \o <<e>>) \o y /\ CutsAt(s, x, y)
  BY <1>7, CutPieces, Zenon
<1>12. linesAndBody(s) = [lines |-> lines, body |-> y]
  BY <1>10, <1>11, Zenon DEF CutsAt
<1>13. WordsAre(P, d, m, t, v)
  BY <1>3, LineSplit, Zenon
<1>14. s = (((((m \o <<d>>) \o t) \o <<d, v, e>>) \o h) \o <<e>>) \o y
  BY <1>3, <1>4, <1>7, <1>11, Zenon
<1>15. TakesApart(s, d, v, m, t, h, y)
  <2>1. PICK cut : cut = linesAndBody(s)
    OBVIOUS
  <2>2. cut.lines = lines /\ cut.body = y
    BY ONLY <1>12, <2>1
  <2>3. cut.lines # <<>> /\ cut.lines[1] = P /\ Tail(cut.lines) = Parts(h, LineEnds)
    BY <1>10, <2>2, Zenon
  <2> QED  BY <1>13, <2>1, <2>2, <2>3, Zenon DEF TakesApart
<1> QED  BY <1>14, <1>15, Zenon

\* The pieces of requests.
Char == Sign \cup {"HTTP", "Content-Length", ":", "?"}

LEMMA Chars ==
  /\ STRING \subseteq Char /\ Sign \subseteq Char
  /\ {" ", "CRLF", "HTTP", "Content-Length", ":", "?"} \subseteq Char
  /\ " " \in Blank /\ " " \notin LineEnds /\ "CRLF" \in LineEnds
  /\ "HTTP" \notin Blank /\ "?" \notin Blank
  /\ "Content-Length" \notin LineEnds /\ ":" \notin LineEnds
BY Signs, Zenon DEF Char, Sign, Piece, Blank, LineEnds

LEMMA LengthLine ==
  ASSUME NEW T, NEW a \in T, NEW b \in T, NEW c \in T, NEW n \in T, NEW e \in T,
         a \notin LineEnds, b \notin LineEnds, c \notin LineEnds, n \notin LineEnds,
         e \in LineEnds
  PROVE  <<a, b, c, n, e>> \in Seq(T) /\ InLines(<<a, b, c, n, e>>)
<1>1. PICK s : s = <<a, b, c, n, e>>
  OBVIOUS
<1>2. /\ s \in Seq(T) /\ Len(s) = 5 /\ s # <<>>
      /\ s[1] = a /\ s[2] = b /\ s[3] = c /\ s[4] = n /\ s[5] = e
  BY <1>1
<1>3. \A i \in 2..5 : i - 1 \in {1, 2, 3, 4}
  OBVIOUS
<1>4. \A i \in {1, 2, 3, 4} : s[i] \notin LineEnds
  BY <1>2, Zenon
<1> QED  BY <1>1, <1>2, <1>3, <1>4, Zenon DEF InLines

LEMMA WordOf ==
  ASSUME NEW T, NEW w \in Seq(T), OneWord(w)
  PROVE  w \in Seq(T \ Blank)
BY DEF OneWord

TargetFacts(T, t, p, u) ==
  /\ t \in Seq(T) /\ OneWord(t)
  /\ t # <<>> <=> p # <<>> \/ u # <<>>

LEMMA TargetIsAWord ==
  ASSUME NEW T, NEW p \in Seq(T), NEW u \in Seq(T), NEW c \in T, c \notin Blank,
         OneWord(p), OneWord(u), NEW t, t = p \o (IF u = <<>> THEN <<>> ELSE <<c>> \o u)
  PROVE  TargetFacts(T, t, p, u)
<1>1. PICK N : N = T \ Blank
  OBVIOUS
<1>2. c \in N /\ N \subseteq T
  BY <1>1
<1>3. p \in Seq(N) /\ u \in Seq(N)
  BY <1>1, WordOf, Zenon
<1>4. PICK z \in Seq(N) : z = IF u = <<>> THEN <<>> ELSE <<c>> \o u
  <2>1. <<>> \in Seq(N)
    OBVIOUS
  <2>2. <<c>> \o u \in Seq(N)
    BY <1>2, <1>3, OneSign, JointConcat, Zenon
  <2> QED  BY <2>1, <2>2, Zenon
<1>5. t \in Seq(N) /\ Joint(t, p, z)
  BY <1>3, <1>4, JointConcat, Zenon
<1>6. t \in Seq(T)
  BY <1>2, <1>5, SeqMonotone, Zenon
<1>7. OneWord(t)
  <2>1. \A i \in 1..Len(t) : t[i] \in N
    BY <1>5
  <2> QED  BY <1>1, <2>1, Zenon DEF OneWord
<1>8. p # <<>> \/ u # <<>> => t # <<>>
  <2>1. Len(t) = Len(p) + Len(z)
    BY <1>5, Zenon DEF Joint
  <2>2. Len(z) \in Nat /\ Len(p) \in Nat /\ (p # <<>> => Len(p) > 0)
    BY <1>4, EmptySeq
  <2>3. u # <<>> => Len(z) > 0
    BY <1>3, <1>4
  <2>4. p # <<>> \/ u # <<>> => Len(t) > 0
    BY <2>1, <2>2, <2>3
  <2> QED  BY <2>4
<1>9. p = <<>> /\ u = <<>> => t = <<>>
  <2>1. p = <<>> /\ u = <<>> => t = <<>> \o <<>>
    BY Zenon
  <2>2. <<>> \o <<>> = <<>>
    OBVIOUS
  <2> QED  BY <2>1, <2>2, Zenon
<1> QED  BY <1>6, <1>7, <1>8, <1>9, Zenon DEF TargetFacts

\* What parse makes of such a request.
ReadAs(r, m, t, h, y) ==
  /\ r.ok <=> t # <<>>
  /\ r.ok => /\ r.method = m /\ r.body = y
             /\ [path |-> r.path, query |-> r.query_string] = extractQueryString(t)
             /\ r.headers = parseHeaders(Parts(h, LineEnds))
             /\ r.cookies = parseCookies(r.headers)

LEMMA ParseFacts ==
  ASSUME NEW raw, NEW v, NEW m, NEW t, NEW h, NEW y, TakesApart(raw, " ", v, m, t, h, y)
  PROVE  ReadAs(parse(raw), m, t, h, y)
<1>1. PICK cut : cut = linesAndBody(raw)
  BY Zenon
<1>2. PICK words : words = parseRequestLine(cut.lines)
  BY Zenon
<1>3. cut.body = y /\ words = IF t = <<>> THEN <<m, <<v>>>> ELSE <<m, t, <<v>>>>
  BY <1>1, <1>2, Zenon DEF TakesApart, WordsAre, parseRequestLine
<1>4. PICK target : target = extractQueryString(words[2])
  BY Zenon
<1>5. target = [path |-> target.path, query |-> target.query]
  BY <1>4, Zenon DEF extractQueryString
<1>6. PICK hs, cs : hs = parseHeaders(Tail(cut.lines)) /\ cs = parseCookies(hs)
  BY Zenon
<1>7. parse(raw) = IF Len(words) < 3 THEN NotARequest
                   ELSE [ok |-> TRUE, method |-> words[1], version |-> words[3],
                         path |-> target.path, query_string |-> target.query,
                         headers |-> hs, cookies |-> cs, body |-> cut.body]
  BY <1>1, <1>2, <1>4, <1>6, Zenon DEF parse
<1>8. CASE t = <<>>
  <2>1. Len(words) < 3
    BY ONLY <1>3, <1>8
  <2>2. parse(raw) = [ok |-> FALSE]
    BY <1>7, <2>1, Zenon DEF NotARequest
  <2>3. PICK r : r = parse(raw)
    BY Zenon
  <2>4. r.ok = FALSE
    BY ONLY <2>2, <2>3
  <2> QED  BY <1>8, <2>3, <2>4, Zenon DEF ReadAs
<1>9. CASE t # <<>>
  <2>1. ~(Len(words) < 3) /\ words[1] = m /\ words[2] = t
    BY ONLY <1>3, <1>9
  <2>2. PICK r : r = parse(raw)
    BY Zenon
  <2>3. r = [ok |-> TRUE, method |-> m, version |-> words[3],
             path |-> target.path, query_string |-> target.query,
             headers |-> hs, cookies |-> cs, body |-> y]
    BY <1>3, <1>7, <2>1, <2>2, Zenon
  <2>4. /\ r.ok = TRUE /\ r.method = m /\ r.body = y
        /\ r.path = target.path /\ r.query_string = target.query
        /\ r.headers = hs /\ r.cookies = cs
    BY ONLY <2>3
  <2>6. hs = parseHeaders(Parts(h, LineEnds)) /\ cs = parseCookies(hs)
    BY <1>1, <1>6, Zenon DEF TakesApart
  <2>5. [path |-> r.path, query |-> r.query_string] = extractQueryString(t)
    BY <1>4, <1>5, <2>1, <2>4, Zenon
  <2> QED  BY <1>9, <2>2, <2>4, <2>5, <2>6, Zenon DEF ReadAs
<1> QED  BY <1>8, <1>9, Zenon

\* What is sent is parsed, unless it has neither path nor query, and then
\* method, path, query and body are found as they were sent.
ReadAsSent(q) ==
  /\ request[q].ok <=> Requests[q].path # <<>> \/ Requests[q].query # <<>>
  /\ request[q].ok =>
       /\ request[q].method = Requests[q].method
       /\ request[q].path = Requests[q].path
       /\ request[q].query_string = Requests[q].query
       /\ request[q].body = BodyOf(Requests[q])

\* Its headers are a map of its lines, and its cookies one of a header.
HeadersRead(q) ==
  request[q].ok =>
    /\ request[q].headers = parseHeaders(Parts(HeadersOf(Requests[q]), LineEnds))
    /\ request[q].cookies = parseCookies(request[q].headers)

LEMMA BeginsWithSlash ==
  ASSUME NEW T, NEW p \in Seq(T), p # <<>>, NEW c, p[1] = c
  PROVE  StartsWith(p, <<c>>)
<1>1. PICK hits : hits = Within(p, <<c>>, 1)
  OBVIOUS
<1>2. hits = {i \in 1..Len(p) : p[i] = c}
  BY ONLY p \in Seq(T), <1>1, Hits
<1>3. 1 \in 1..Len(p)
  BY EmptySeq
<1>4. 1 \in hits /\ hits \subseteq Nat /\ \A i \in hits : i >= 1
  BY <1>2, <1>3
<1>5. PICK k : k = Min(hits) /\ k \in hits /\ k <= 1
  BY <1>4, Smallest
<1>6. k = 1
  BY <1>4, <1>5
<1> QED  BY <1>1, <1>4, <1>5, <1>6 DEF StartsWith, Find, FindFrom

LEMMA SentText ==
  ASSUME NEW r \in ToSet(Requests)
  PROVE  /\ {r.method, r.path, r.query, r.headers, r.file, r.content} \subseteq Seq(Char)
         /\ BodyOf(r) \in Seq(Char)
         /\ r.method # <<>> /\ OneWord(r.method) /\ OneWord(r.path) /\ OneWord(r.query)
         /\ \A i \in 1..Len(r.path) : r.path[i] # "?"
         /\ r.headers = <<>> \/ InLines(r.headers)
<1>1. RequestOK(r) /\ WellFormed(r)
  BY HttpAssumption, RequestAssumption, Zenon
<1>2. \A w : w \in Seq(STRING) => w \in Seq(Char)
  BY Chars, SeqMonotone, Zenon
<1>3. {r.method, r.path, r.query, r.headers, r.file, r.content} \subseteq Seq(STRING)
  BY <1>1, Zenon DEF RequestOK, WellFormed
<1>4. \A w : w \in Seq(Sign) => w \in Seq(Char)
  BY Chars, SeqMonotone, Zenon
<1>5. BodyOf(r) \in Seq(Char)
  <2>1. PICK q \in DOMAIN Requests : r = Requests[q]
    BY DEF ToSet
  <2> QED  BY <1>4, <2>1, BodyIsText, Zenon
<1>6. OneWord(r.method) /\ OneWord(r.path) /\ OneWord(r.query)
  <2>1. \A w \in {r.method, r.path, r.query} : w \in Seq(Char) /\ ToSet(w) \cap Blank = {}
    BY <1>1, <1>2, <1>3, Zenon DEF RequestOK, WellFormed
  <2>2. ASSUME NEW w \in Seq(Char), ToSet(w) \cap Blank = {} PROVE OneWord(w)
    BY <2>2 DEF ToSet, OneWord
  <2> QED  BY <2>1, <2>2, Zenon
<1>7. r.method # <<>>
  BY <1>1, Zenon DEF RequestOK, WellFormed
<1>8. \A i \in 1..Len(r.path) : r.path[i] # "?"
  <2>1. PICK p \in Seq(Char) : p = r.path
    BY <1>2, <1>3, Zenon
  <2>2. PICK c : c = "?"
    BY Zenon
  <2>3. c \notin ToSet(p)
    BY <1>1, <2>1, <2>2, Zenon DEF RequestOK, WellFormed
  <2>4. \A i \in 1..Len(p) : p[i] # c
    BY <2>3 DEF ToSet
  <2> QED  BY <2>1, <2>2, <2>4, Zenon
<1>10. r.headers = <<>> \/ InLines(r.headers)
  <2>1. PICK h : h = r.headers
    BY Zenon
  <2>2. /\ h # <<>> => h[1] \notin LineEnds /\ Last(h) \in LineEnds
        /\ \A i \in 2..Len(h) : h[i] \in LineEnds => h[i - 1] \notin LineEnds
    BY <1>1, <2>1, Zenon DEF RequestOK, WellFormed
  <2> QED  BY <2>1, <2>2, Zenon DEF InLines, Last
<1> QED  BY <1>2, <1>3, <1>5, <1>6, <1>7, <1>8, <1>10, Zenon

LEMMA HeadersInLines ==
  ASSUME NEW r \in ToSet(Requests)
  PROVE  HeadersOf(r) \in Seq(Char) /\ (HeadersOf(r) = <<>> \/ InLines(HeadersOf(r)))
<1>5. PICK h \in Seq(Char) : h = r.headers /\ (InLines(h) \/ h = <<>>)
  BY SentText, Zenon
<1>7. PICK n \in Seq(Char) :
        /\ n = IF r.kind \in {"form", "raw"}
               THEN <<"Content-Length", ":", " ", Numeral[Len(BodyOf(r))], "CRLF">>
               ELSE <<>>
        /\ InLines(n) \/ n = <<>>
  <2>1. PICK k : k = Numeral[Len(BodyOf(r))] /\ k \in STRING \ LineEnds
    BY RequestAssumption, Zenon DEF WellFormed, Blank, LineEnds
  <2>2. PICK w : w = <<"Content-Length", ":", " ", k, "CRLF">>
    BY Zenon
  <2>3. w \in Seq(Char) /\ InLines(w)
    BY <2>1, <2>2, Chars, LengthLine, Zenon
  <2>4. <<>> \in Seq(Char)
    OBVIOUS
  <2> QED  BY <2>1, <2>2, <2>3, <2>4, Zenon
<1>8. h \o n = HeadersOf(r)
  BY <1>5, <1>7, Zenon DEF HeadersOf
<1>9. h \o n \in Seq(Char)
  BY JointConcat, Zenon
<1>10. CASE InLines(h)
  <2>1. InLines(h \o n)
    BY <1>7, <1>10, LinesJoin, Zenon
  <2> QED  BY <1>8, <1>9, <2>1, Zenon
<1>11. CASE h = <<>>
  <2>1. h \o n = n
    BY <1>11, ConcatEmptySeq
  <2> QED  BY <1>7, <1>8, <1>9, <2>1, Zenon
<1> QED  BY <1>5, <1>10, <1>11, Zenon

LEMMA RequestsRead ==
  ASSUME NEW q \in DOMAIN Requests
  PROVE  ReadAsSent(q) /\ HeadersRead(q)
<1>1. PICK r : r = Requests[q] /\ r \in ToSet(Requests)
  BY Zenon DEF ToSet
<1>2. PICK m \in Seq(Char) : m = r.method /\ m # <<>> /\ OneWord(m)
  BY <1>1, SentText, Zenon
<1>3. PICK p \in Seq(Char) : p = r.path /\ OneWord(p) /\ \A i \in 1..Len(p) : p[i] # "?"
  BY <1>1, SentText, Zenon
<1>4. PICK u \in Seq(Char) : u = r.query /\ OneWord(u)
  BY <1>1, SentText, Zenon
<1>5. PICK h \in Seq(Char) : h = HeadersOf(r) /\ (InLines(h) \/ h = <<>>)
  BY <1>1, HeadersInLines, Zenon
<1>6. PICK y \in Seq(Char) : y = BodyOf(r)
  BY <1>1, SentText, Zenon
<1>8. PICK t : t = p \o (IF u = <<>> THEN <<>> ELSE <<"?">> \o u)
  BY Zenon
<1>9. TargetFacts(Char, t, p, u)
  <2>1. "?" \in Char /\ "?" \notin Blank
    BY Chars, Zenon
  <2> QED  BY <1>3, <1>4, <1>8, <2>1, TargetIsAWord, Zenon
<1>10. t \in Seq(Char) /\ OneWord(t)
  BY <1>9, Zenon DEF TargetFacts
<1>11. PICK raw : raw = Encode(r)
  BY Zenon
<1>12. raw = (((((m \o <<" ">>) \o t) \o <<" ", "HTTP", "CRLF">>) \o h) \o <<"CRLF">>) \o y
  BY <1>2, <1>3, <1>4, <1>5, <1>6, <1>8, <1>11, Zenon DEF Encode
<1>13. TakesApart(raw, " ", "HTTP", m, t, h, y)
  <2>1. /\ " " \in Char /\ " " \in Blank /\ " " \notin LineEnds
        /\ "HTTP" \in Char /\ "HTTP" \notin Blank /\ "CRLF" \in Char /\ "CRLF" \in LineEnds
    BY Chars, Zenon
  <2>2. PICK d, v, e : d = " " /\ v = "HTTP" /\ e = "CRLF"
    BY Zenon
  <2>3. TakesApart((((((m \o <<d>>) \o t) \o <<d, v, e>>) \o h) \o <<e>>) \o y,
                   d, v, m, t, h, y)
    BY <1>2, <1>5, <1>10, <2>1, <2>2, RequestApart, Zenon
  <2> QED  BY <1>12, <2>2, <2>3, Zenon
<1>14. PICK s : s = parse(raw) /\ ReadAs(s, m, t, h, y)
  BY <1>13, ParseFacts, Zenon
<1>15. s = request[q]
  BY <1>1, <1>11, <1>14, Zenon DEF request
<1>16. extractQueryString(t) = [path |-> p, query |-> u]
  <2>1. "?" \in Char
    BY Chars, Zenon
  <2> QED  BY <1>3, <1>8, <2>1, TargetParts, Zenon
<1>17. s.ok <=> p # <<>> \/ u # <<>>
  BY <1>9, <1>14, Zenon DEF ReadAs, TargetFacts
<1>18. s.ok => s.method = m /\ s.body = y /\ s.path = p /\ s.query_string = u
  <2>1. s.ok => s.method = m /\ s.body = y
                /\ [path |-> s.path, query |-> s.query_string] = [path |-> p, query |-> u]
    BY <1>14, <1>16, Zenon DEF ReadAs
  <2>2. \A a, b : [path |-> a, query |-> b] = [path |-> p, query |-> u] => a = p /\ b = u
    OBVIOUS
  <2> QED  BY <2>1, <2>2, Zenon
<1>20. HeadersRead(q)
  BY <1>1, <1>5, <1>14, <1>15, Zenon DEF ReadAs, HeadersRead
<1>21. ReadAsSent(q)
  BY <1>1, <1>2, <1>3, <1>4, <1>6, <1>15, <1>17, <1>18, Zenon DEF ReadAsSent
<1> QED  BY <1>20, <1>21, Zenon

\* HttpRequest::parse undoes what a browser does: the line end before the body
\* is the first empty line, the request line has its three words, and the
\* first "?" of the target ends the path.
THEOREM RequestsParsed ==
  ASSUME NEW q \in DOMAIN Requests
  PROVE  ReadAsSent(q)
BY RequestsRead, Zenon
-----------------------------------------------------------------------------
(* Headers and cookies. *)

\* Fields, each one the part that starts where it does.
FieldsFrom(ps, s, D, p) ==
  \A k \in 1..Len(ps) : \E m \in Starts(s, D) : m >= p /\ ps[k] = Field(s, D, m)

LEMMA FieldIsPart ==
  ASSUME NEW s, NEW D, NEW i
  PROVE  Field(s, D, i) = SubSeq(s, i, Cut(s, D, i) - 1)
BY Zenon DEF Field, Cut

\* What follows the part that starts at p.
Follows(f, T, s, D, p) ==
  \E n \in Pos : /\ n > p
                 /\ n \in Starts(s, D) \/ n > Len(s)
                 /\ f[p] = <<Field(s, D, p)>> \o f[n]
                 /\ \A i \in Starts(s, D) : i > p => i >= n /\ n \in Starts(s, D)

LEMMA NextField ==
  ASSUME NEW T, NEW s \in Seq(T), NEW D, NEW f, PartsFrom(f, s, D), NEW p \in Starts(s, D)
  PROVE  Follows(f, T, s, D, p)
<1>1. p \in Pos /\ p <= Len(s) /\ Len(s) \in Nat
  BY DEF Starts, Pos
<1>2. PICK c : c = Cut(s, D, p)
  OBVIOUS
<1>3. PartEnds(s, D, p, c) /\ IsPart(T, s, D, p)
  BY <1>1, <1>2, CutFacts, PartFacts, Zenon
<1>4. /\ c \in Nat /\ p <= c /\ c <= Len(s) + 1 /\ (c <= Len(s) => s[c] \in D)
      /\ \A j \in p..(c - 1) : s[j] \notin D
  BY <1>3, Zenon DEF PartEnds
<1>5. c + 1 \in Pos /\ c + 1 > p /\ (c + 1) - 1 = c
  BY <1>1, <1>4 DEF Pos
<1>6. AreTexts(f, T, s, D)
  BY PartsAreTexts, Zenon
<1>7. f[p] = <<Field(s, D, p)>> \o f[c + 1]
  BY <1>1, <1>2, <1>6, FieldIsPart, Zenon DEF AreTexts
<1>8. c + 1 <= Len(s) => c + 1 \in Starts(s, D)
  <2> HAVE c + 1 <= Len(s)
  <2>1. c + 1 \in 1..Len(s) /\ c <= Len(s)
    BY <1>1, <1>4
  <2> QED  BY <1>4, <1>5, <2>1, Zenon DEF Starts
<1>9. ASSUME NEW i \in Starts(s, D), i > p PROVE i >= c + 1 /\ c + 1 <= Len(s)
  <2>1. i \in 1..Len(s) /\ (i = 1 \/ s[i - 1] \in D)
    BY Zenon DEF Starts
  <2>2. s[i - 1] \in D
    BY <1>1, <1>9, <2>1 DEF Pos
  <2>3. i - 1 \notin p..(c - 1)
    BY <1>4, <2>2, Zenon
  <2> QED  BY <1>1, <1>4, <1>9, <2>1, <2>3 DEF Pos
<1>10. c + 1 <= Len(s) \/ c + 1 > Len(s)
  BY <1>1, <1>4
<1> QED  BY <1>5, <1>7, <1>8, <1>9, <1>10, Zenon DEF Follows

AreFields(f, s, D) ==
  \A p \in Pos : p \in Starts(s, D) \/ p > Len(s) => FieldsFrom(f[p], s, D, p)

LEMMA PartsAreFields ==
  ASSUME NEW T, NEW s \in Seq(T), NEW D, NEW f, PartsFrom(f, s, D)
  PROVE  AreFields(f, s, D)
<1>1. AreTexts(f, T, s, D)
  BY PartsAreTexts, Zenon
<1>2. PICK n \in Nat : n = Len(s)
  OBVIOUS
<1> DEFINE S == {p \in Pos : p \in Starts(s, D) \/ p > n => FieldsFrom(f[p], s, D, p)}
<1>3. ASSUME NEW p \in Pos, p > n PROVE p \in S
  <2>1. f[p] = <<>>
    BY <1>1, <1>2, <1>3, Zenon DEF AreTexts
  <2>2. Len(f[p]) = 0 /\ 1..0 = {}
    BY <2>1
  <2>3. 1..Len(f[p]) = {}
    BY <2>2, Zenon
  <2> QED  BY <2>3, Zenon DEF FieldsFrom
<1>4. ASSUME NEW p \in Pos, \A q \in Pos : q > p => q \in S PROVE p \in S
  <2>1. CASE p \notin Starts(s, D)
    BY <1>3, <2>1, Zenon
  <2>2. CASE p \in Starts(s, D)
    <3>1. PICK m \in Pos : /\ m > p
                           /\ m \in Starts(s, D) \/ m > Len(s)
                           /\ f[p] = <<Field(s, D, p)>> \o f[m]
      <4>1. Follows(f, T, s, D, p)
        BY <2>2, NextField, Zenon
      <4> QED  BY <4>1, Zenon DEF Follows
    <3>2. m > p
      BY <3>1
    <3>3. FieldsFrom(f[m], s, D, m)
      BY <1>2, <1>4, <3>1, <3>2, Zenon
    <3>4. PICK w, y : w = Field(s, D, p) /\ y = f[m]
      OBVIOUS
    <3>5. y \in Seq(Seq(T)) /\ w \in Seq(T)
      <4>1. y \in Seq(Seq(T))
        BY <1>1, <3>1, <3>4, Zenon DEF AreTexts
      <4>2. p <= Len(s)
        BY <2>2 DEF Starts
      <4>3. IsPart(T, s, D, p)
        BY <4>2, PartFacts, Zenon
      <4> QED  BY <3>4, <4>1, <4>3, FieldIsPart, Zenon DEF IsPart
    <3>6. PICK ps : ps = <<w>> \o y /\ Joint(ps, <<w>>, y)
      BY <3>5, OneSign, JointConcat, Zenon
    <3>7. Len(<<w>>) = 1 /\ <<w>>[1] = w /\ 1 \in 1..1
      OBVIOUS
    <3>8. Len(ps) = 1 + Len(y) /\ ps[1] = w /\ \A k \in 1..Len(y) : ps[1 + k] = y[k]
      BY <3>6, <3>7, Zenon DEF Joint
    <3>9. ASSUME NEW k \in 1..Len(ps)
          PROVE  \E i \in Starts(s, D) : i >= p /\ ps[k] = Field(s, D, i)
      <4>1. CASE k = 1
        <5>1. p >= p
          BY DEF Pos
        <5> QED  BY <2>2, <3>4, <3>8, <4>1, <5>1, Zenon
      <4>2. CASE k # 1
        <5>1. PICK j \in 1..Len(y) : k = 1 + j
          <6>1. k - 1 \in 1..Len(y) /\ k = 1 + (k - 1)
            BY <3>5, <3>8, <4>2
          <6> QED  BY <6>1, Zenon
        <5>2. PICK i \in Starts(s, D) : i >= m /\ y[j] = Field(s, D, i)
          BY <3>3, <3>4, <5>1, Zenon DEF FieldsFrom
        <5>3. i >= p
          BY <3>2, <5>2 DEF Starts, Pos
        <5> QED  BY <3>8, <5>1, <5>2, <5>3, Zenon
      <4> QED  BY <4>1, <4>2
    <3>10. ps = f[p]
      BY <3>1, <3>4, <3>6, Zenon
    <3>11. FieldsFrom(f[p], s, D, p)
      BY <3>9, <3>10, Zenon DEF FieldsFrom
    <3> QED  BY <3>11, Zenon
  <2> QED  BY <2>1, <2>2, Zenon
<1>5. \A p \in Pos : p \in S
  <2> HIDE DEF S
  <2> QED  BY <1>2, <1>3, <1>4, Backwards, Zenon
<1> QED  BY <1>2, <1>5, Zenon DEF AreFields

\* Every field is reached.
Reaching(f, T, q, p) == \E pre \in Seq(Seq(T)) : f[q] = pre \o f[p]

LEMMA FieldsReached ==
  ASSUME NEW T, NEW s \in Seq(T), NEW D, NEW f, PartsFrom(f, s, D), NEW p \in Starts(s, D)
  PROVE  Reaching(f, T, 1, p)
<1>1. PICK n \in Nat : n = Len(s)
  OBVIOUS
<1>2. AreTexts(f, T, s, D)
  BY PartsAreTexts, Zenon
<1>3. \A q \in Starts(s, D) : q \in Pos /\ q \in Nat /\ q <= n
  BY <1>1 DEF Starts, Pos
<1> DEFINE S == {q \in Pos : q \in Starts(s, D) /\ q <= p => Reaching(f, T, q, p)}
<1>4. ASSUME NEW q \in Pos, \A r \in Pos : r > q => r \in S PROVE q \in S
  <2> SUFFICES ASSUME q \in Starts(s, D), q <= p PROVE Reaching(f, T, q, p)
    BY Zenon
  <2>0. f[p] \in Seq(Seq(T))
    BY <1>2, <1>3, Zenon DEF AreTexts
  <2>1. CASE q = p
    <3>1. <<>> \in Seq(Seq(T)) /\ <<>> \o f[p] = f[p]
      BY <2>0, ConcatEmptySeq
    <3> QED  BY <2>1, <3>1, Zenon DEF Reaching
  <2>2. CASE q # p
    <3>1. q < p /\ p > q
      BY <1>3, <2>2
    <3>2. PICK m \in Pos : /\ m > q /\ f[q] = <<Field(s, D, q)>> \o f[m]
                           /\ p >= m /\ m \in Starts(s, D)
      <4>1. Follows(f, T, s, D, q)
        BY NextField, Zenon
      <4> QED  BY <3>1, <4>1, Zenon DEF Follows
    <3>3. m <= p
      BY <1>3, <3>2
    <3>4. Reaching(f, T, m, p)
      BY <1>4, <3>2, <3>3, Zenon
    <3>5. PICK pre \in Seq(Seq(T)) : f[m] = pre \o f[p]
      BY <3>4, Zenon DEF Reaching
    <3>6. PICK w \in Seq(Seq(T)) : w = <<Field(s, D, q)>>
      <4>1. q <= Len(s)
        BY <1>1, <1>3
      <4>2. IsPart(T, s, D, q)
        BY <4>1, PartFacts, Zenon
      <4> QED  BY <4>2, FieldIsPart, OneSign, Zenon DEF IsPart
    <3>7. f[q] = (w \o pre) \o f[p]
      <4>1. Assoc(Seq(T), w, pre, f[p])
        BY <2>0, Associates, Zenon
      <4> QED  BY <3>2, <3>5, <3>6, <4>1, Zenon DEF Assoc
    <3>8. w \o pre \in Seq(Seq(T))
      BY JointConcat, Zenon
    <3> QED  BY <3>7, <3>8, Zenon DEF Reaching
  <2> QED  BY <2>1, <2>2
<1>5. ASSUME NEW q \in Pos, q > n PROVE q \in S
  <2>1. q \notin Starts(s, D)
    BY <1>1, <1>5 DEF Starts
  <2> QED  BY <2>1, Zenon
<1>6. \A q \in Pos : q \in S
  <2> HIDE DEF S
  <2> QED  BY <1>4, <1>5, Backwards, Zenon
<1>7. 1 \in Pos /\ 1 \in Starts(s, D) /\ 1 <= p
  BY <1>1, <1>3 DEF Starts, Pos
<1> QED  BY <1>6, <1>7, Zenon

\* The last field that names something, what is before it and what behind it.
LastOf(T, s, D, c, name, i, ps, pre, post) ==
  /\ i = Max(Naming(s, D, c, name)) /\ i \in Naming(s, D, c, name)
  /\ pre \in Seq(Seq(T)) /\ post \in Seq(Seq(T)) /\ Field(s, D, i) \in Seq(T)
  /\ ps = Parts(s, D) /\ ps = pre \o (<<Field(s, D, i)>> \o post)
  /\ \A k \in 1..Len(post) : \E m \in Starts(s, D) :
       m \notin Naming(s, D, c, name) /\ post[k] = Field(s, D, m)

LEMMA LastNamed ==
  ASSUME NEW T, NEW s \in Seq(T), NEW D, NEW c, NEW name, Naming(s, D, c, name) # {}
  PROVE  \E i, ps, pre, post : LastOf(T, s, D, c, name, i, ps, pre, post)
<1>1. PICK n \in Nat : n = Len(s)
  OBVIOUS
<1>2. PICK I : I = Naming(s, D, c, name)
  OBVIOUS
<1>3. I \subseteq Starts(s, D) /\ I # {}
  BY <1>2, Zenon DEF Naming
<1>4. Starts(s, D) \subseteq 0..n /\ Starts(s, D) \subseteq Nat
  BY <1>1 DEF Starts
<1>5. PICK i : i = Max(I) /\ i \in I /\ \A m \in I : m <= i
  <2>1. I \subseteq 0..n
    BY <1>3, <1>4, Zenon
  <2> QED  BY <1>3, <2>1, Largest, Zenon
<1>6. i \in Starts(s, D)
  BY <1>3, <1>5, Zenon
<1>7. PICK f : PartsFrom(f, s, D) /\ Parts(s, D) = f[1]
  BY PartsExist, Zenon
<1>8. PICK pre \in Seq(Seq(T)) : f[1] = pre \o f[i]
  <2>1. Reaching(f, T, 1, i)
    BY <1>6, <1>7, FieldsReached, Zenon
  <2> QED  BY <2>1, Zenon DEF Reaching
<1>9. PICK m \in Pos : /\ m > i
                       /\ m \in Starts(s, D) \/ m > Len(s)
                       /\ f[i] = <<Field(s, D, i)>> \o f[m]
  <2>1. Follows(f, T, s, D, i)
    BY <1>6, <1>7, NextField, Zenon
  <2> QED  BY <2>1, Zenon DEF Follows
<1>10. PICK post \in Seq(Seq(T)) : post = f[m]
  <2>1. AreTexts(f, T, s, D)
    BY <1>7, PartsAreTexts, Zenon
  <2> QED  BY <2>1, Zenon DEF AreTexts
<1>11. FieldsFrom(post, s, D, m)
  <2>1. AreFields(f, s, D)
    BY <1>7, PartsAreFields, Zenon
  <2> QED  BY <1>9, <1>10, <2>1, Zenon DEF AreFields
<1>12. \A k \in 1..Len(post) : \E j \in Starts(s, D) : j \notin I /\ post[k] = Field(s, D, j)
  <2> SUFFICES ASSUME NEW k \in 1..Len(post)
               PROVE  \E j \in Starts(s, D) : j \notin I /\ post[k] = Field(s, D, j)
    OBVIOUS
  <2>1. PICK j \in Starts(s, D) : j >= m /\ post[k] = Field(s, D, j)
    BY <1>11, Zenon DEF FieldsFrom
  <2>2. ~(j <= i)
    BY <1>4, <1>6, <1>9, <2>1 DEF Pos
  <2>3. j \notin I
    BY <1>5, <2>2, Zenon
  <2> QED  BY <2>1, <2>3, Zenon
<1>13. Field(s, D, i) \in Seq(T)
  <2>1. i \in Pos /\ i <= Len(s)
    BY <1>6 DEF Starts, Pos
  <2>2. IsPart(T, s, D, i)
    BY <2>1, PartFacts, Zenon
  <2> QED  BY <2>2, FieldIsPart, Zenon DEF IsPart
<1>14. f[1] = pre \o (<<Field(s, D, i)>> \o post)
  BY <1>8, <1>9, <1>10, Zenon
<1>15. PICK ps : ps = f[1]
  OBVIOUS
<1>16. LastOf(T, s, D, c, name, i, ps, pre, post)
  BY <1>2, <1>5, <1>7, <1>12, <1>13, <1>14, <1>15, Zenon DEF LastOf
<1> QED  BY <1>16, Zenon

\* The positions in such a list.
PlacedAt(U, ps, k, w, post) ==
  /\ ps \in Seq(U) /\ k \in 1..Len(ps) /\ ps[k] = w
  /\ \A j \in 1..Len(ps) : j <= k \/ \E h \in 1..Len(post) : ps[j] = post[h]

LEMMA PlaceOf ==
  ASSUME NEW U, NEW pre \in Seq(U), NEW w \in U, NEW post \in Seq(U)
  PROVE  \E k \in Nat : PlacedAt(U, pre \o (<<w>> \o post), k, w, post)
<1>1. PICK y \in Seq(U) : y = <<w>> \o post /\ Joint(y, <<w>>, post)
  BY OneSign, JointConcat, Zenon
<1>2. PICK ps \in Seq(U) : ps = pre \o y /\ Joint(ps, pre, y)
  BY JointConcat, Zenon
<1>3. PICK a, b \in Nat : a = Len(pre) /\ b = Len(post)
  OBVIOUS
<1>4. Len(<<w>>) = 1 /\ <<w>>[1] = w /\ 1 \in 1..1
  OBVIOUS
<1>5. Len(y) = 1 + b /\ y[1] = w /\ \A h \in 1..b : y[1 + h] = post[h]
  BY <1>1, <1>3, <1>4, Zenon DEF Joint
<1>6. Len(ps) = a + (1 + b) /\ \A h \in 1..(1 + b) : ps[a + h] = y[h]
  BY <1>2, <1>3, <1>5, Zenon DEF Joint
<1>7. 1 \in 1..(1 + b) /\ a + 1 \in 1..Len(ps) /\ a + 1 \in Nat
  BY <1>3, <1>6
<1>8. ps[a + 1] = w
  BY <1>5, <1>6, <1>7, Zenon
<1>9. ASSUME NEW j \in 1..Len(ps), ~(j <= a + 1)
      PROVE  \E h \in 1..b : ps[j] = post[h]
  <2>1. /\ j - a - 1 \in 1..b /\ 1 + (j - a - 1) \in 1..(1 + b)
        /\ a + (1 + (j - a - 1)) = j
    BY <1>3, <1>6, <1>9
  <2>2. ps[j] = post[j - a - 1]
    BY <1>5, <1>6, <2>1, Zenon
  <2> QED  BY <2>1, <2>2, Zenon
<1>10. PlacedAt(U, ps, a + 1, w, post)
  BY <1>2, <1>3, <1>7, <1>8, <1>9, Zenon DEF PlacedAt
<1> QED  BY <1>1, <1>2, <1>7, <1>10, Zenon

\* The positions that mapOf looks at for one name.
Places(ps, c, name) == {j \in named(ps, c) : nameOf(ps[j], c) = name}

LEMMA MapFacts ==
  ASSUME NEW ps, NEW c, NEW name
  PROVE  /\ Places(ps, c, name) # {} =>
              valueOr(mapOf(ps, c), name) = valueOf(ps[Max(Places(ps, c, name))], c)
         /\ name \in DOMAIN mapOf(ps, c) <=> Places(ps, c, name) # {}
<1>1. DOMAIN mapOf(ps, c) = {nameOf(ps[i], c) : i \in named(ps, c)}
  BY Zenon DEF mapOf
<1>2. name \in DOMAIN mapOf(ps, c) <=> Places(ps, c, name) # {}
  BY <1>1, Zenon DEF Places
<1>3. name \in DOMAIN mapOf(ps, c) =>
        mapOf(ps, c)[name] = valueOf(ps[Max(Places(ps, c, name))], c)
  BY <1>1, Zenon DEF mapOf, Places
<1> QED  BY <1>2, <1>3, Zenon DEF valueOr

\* A map of the parts of a text has what the text says last.
Reads(m, name, value) == name \in DOMAIN m /\ m[name] = value /\ valueOr(m, name) = value

LEMMA MapGives ==
  ASSUME NEW T, NEW s \in Seq(T), NEW D, NEW c, NEW name, Naming(s, D, c, name) # {}
  PROVE  Reads(mapOf(Parts(s, D), c), name, Given(s, D, c, name))
<1>1. PICK i, ps, pre, post : LastOf(T, s, D, c, name, i, ps, pre, post)
  BY LastNamed, Zenon
<1>2. PICK w : w = Field(s, D, i)
  OBVIOUS
<1>3. PICK U : U = Seq(T)
  OBVIOUS
<1>4. /\ pre \in Seq(U) /\ post \in Seq(U) /\ w \in U
      /\ ps = Parts(s, D) /\ ps = pre \o (<<w>> \o post)
  BY <1>1, <1>2, <1>3, Zenon DEF LastOf
<1>5. PICK k \in Nat : /\ ps \in Seq(U) /\ k \in 1..Len(ps) /\ ps[k] = w
                       /\ \A j \in 1..Len(ps) :
                            j <= k \/ \E h \in 1..Len(post) : ps[j] = post[h]
  <2>1. \E k \in Nat : PlacedAt(U, pre \o (<<w>> \o post), k, w, post)
    BY <1>4, PlaceOf, Zenon
  <2>2. PICK k \in Nat : PlacedAt(U, ps, k, w, post)
    BY <1>4, <2>1, Zenon
  <2> QED  BY <2>2, Zenon DEF PlacedAt
<1>6. PICK K : K = Places(ps, c, name)
  OBVIOUS
<1>7. \A j : j \in K <=> /\ j \in DOMAIN ps /\ Find(ps[j], <<c>>) # npos
                         /\ nameOf(ps[j], c) = name
  BY <1>6, Zenon DEF Places, named
<1>8. DOMAIN ps = 1..Len(ps) /\ Len(ps) \in Nat
  BY <1>5
<1>9. k \in K
  <2>1. Find(w, <<c>>) # npos /\ nameOf(w, c) = name
    BY <1>1, <1>2, Zenon DEF LastOf, Naming
  <2> QED  BY <1>5, <1>7, <1>8, <2>1, Zenon
<1>10. ASSUME NEW j \in K PROVE j <= k
  <2> SUFFICES ASSUME NEW h \in 1..Len(post), ps[j] = post[h] PROVE FALSE
    BY <1>5, <1>7, <1>8, Zenon
  <2>1. PICK m \in Starts(s, D) : m \notin Naming(s, D, c, name) /\ post[h] = Field(s, D, m)
    BY <1>1, Zenon DEF LastOf
  <2> QED  BY <1>7, <2>1, Zenon DEF Naming
<1>11. Max(K) = k
  <2>1. K \subseteq 0..Len(ps)
    BY <1>7, <1>8
  <2>2. PICK x : x = Max(K)
    OBVIOUS
  <2>3. x \in K /\ \A y \in K : y <= x
    BY <1>8, <1>9, <2>1, <2>2, Largest, Zenon
  <2>4. x <= k /\ k <= x
    BY <1>9, <1>10, <2>3, Zenon
  <2>5. x \in Nat
    BY <2>1, <2>3
  <2> QED  BY <2>2, <2>4, <2>5
<1>12. Given(s, D, c, name) = valueOf(w, c)
  BY <1>1, <1>2, Zenon DEF Given, LastOf
<1>13. name \in DOMAIN mapOf(ps, c) /\ valueOr(mapOf(ps, c), name) = valueOf(w, c)
  BY <1>5, <1>6, <1>9, <1>11, MapFacts, Zenon
<1>14. mapOf(ps, c)[name] = valueOf(w, c)
  BY <1>13, Zenon DEF valueOr
<1> QED  BY <1>4, <1>12, <1>13, <1>14, Zenon DEF Reads

\* ... and nothing of what the text does not name.
LEMMA MapSilent ==
  ASSUME NEW T, NEW s \in Seq(T), NEW D, NEW c, NEW name, Naming(s, D, c, name) = {}
  PROVE  valueOr(mapOf(Parts(s, D), c), name) = <<>>
<1>1. PICK f : PartsFrom(f, s, D) /\ Parts(s, D) = f[1]
  BY PartsExist, Zenon
<1>2. PICK ps \in Seq(Seq(T)) : ps = f[1]
  <2>1. AreTexts(f, T, s, D)
    BY <1>1, PartsAreTexts, Zenon
  <2>2. 1 \in Pos
    BY DEF Pos
  <2> QED  BY <2>1, <2>2, Zenon DEF AreTexts
<1>3. FieldsFrom(ps, s, D, 1)
  <2>1. 1 \in Pos /\ (1 \in Starts(s, D) \/ 1 > Len(s))
    BY DEF Starts, Pos
  <2>2. AreFields(f, s, D)
    BY <1>1, PartsAreFields, Zenon
  <2> QED  BY <1>2, <2>1, <2>2, Zenon DEF AreFields
<1>4. DOMAIN ps = 1..Len(ps)
  OBVIOUS
<1>5. ASSUME NEW j \in Places(ps, c, name) PROVE FALSE
  <2>1. j \in 1..Len(ps) /\ Find(ps[j], <<c>>) # npos /\ nameOf(ps[j], c) = name
    BY <1>4, Zenon DEF Places, named
  <2>2. PICK m \in Starts(s, D) : ps[j] = Field(s, D, m)
    BY <1>3, <2>1, Zenon DEF FieldsFrom
  <2>3. m \in Naming(s, D, c, name)
    BY <2>1, <2>2, Zenon DEF Naming
  <2> QED  BY <2>3, Zenon
<1>6. Places(ps, c, name) = {}
  BY <1>5, Zenon
<1> QED  BY <1>1, <1>2, <1>6, MapFacts, Zenon DEF valueOr

\* A field at the end of a text, closed.
LastField(s, D, i, w) ==
  i \in Starts(s, D) /\ Field(s, D, i) = w /\ \A m \in Starts(s, D) : m <= i

LEMMA FieldAtTheEnd ==
  ASSUME NEW T, NEW D, NEW h \in Seq(T), h = <<>> \/ h[Len(h)] \in D,
         NEW w \in Seq(T), w # <<>>, \A i \in 1..Len(w) : w[i] \notin D,
         NEW e \in T, e \in D
  PROVE  LastField(h \o (w \o <<e>>), D, Len(h) + 1, w)
<1>1. PICK we \in Seq(T) : we = w \o <<e>> /\ Joint(we, w, <<e>>)
  BY OneSign, JointConcat, Zenon
<1>2. PICK s \in Seq(T) : s = h \o we /\ Joint(s, h, we)
  BY JointConcat, Zenon
<1>3. PICK a, b \in Nat : a = Len(h) /\ b = Len(w) /\ b > 0
  BY EmptySeq
<1>4. Len(we) = b + 1 /\ (\A i \in 1..b : we[i] = w[i]) /\ we[b + 1] = e
  <2>1. Len(<<e>>) = 1 /\ <<e>>[1] = e /\ 1 \in 1..1
    OBVIOUS
  <2> QED  BY <1>1, <1>3, <2>1, Zenon DEF Joint
<1>5. /\ Len(s) = a + (b + 1) /\ (\A i \in 1..a : s[i] = h[i])
      /\ \A i \in 1..(b + 1) : s[a + i] = we[i]
  BY <1>2, <1>3, <1>4, Zenon DEF Joint
<1>6. (\A i \in 1..b : s[a + i] = w[i]) /\ s[a + (b + 1)] = e
  <2>1. b + 1 \in 1..(b + 1) /\ \A i \in 1..b : i \in 1..(b + 1)
    BY <1>3
  <2> QED  BY <1>4, <1>5, <2>1, Zenon
<1>7. PICK i \in Nat : i = a + 1
  BY <1>3
<1>8. i \in Starts(s, D)
  <2>1. i \in 1..Len(s) /\ i - 1 = a
    BY <1>3, <1>5, <1>7
  <2>2. CASE a = 0
    BY <1>7, <2>1, <2>2 DEF Starts
  <2>3. CASE a # 0
    <3>1. a \in 1..a /\ h # <<>>
      BY <1>3, <2>3
    <3>2. s[a] \in D
      BY <1>3, <1>5, <3>1, Zenon
    <3> QED  BY <2>1, <3>2, Zenon DEF Starts
  <2> QED  BY <2>2, <2>3
<1>9. \A j \in i..(a + b) : s[j] \notin D
  <2> TAKE j \in i..(a + b)
  <2>1. j - a \in 1..b /\ a + (j - a) = j
    BY <1>3, <1>7
  <2> QED  BY <1>3, <1>6, <2>1, Zenon
<1>10. ASSUME NEW m \in Starts(s, D) PROVE m <= i
  <2>1. m \in 1..Len(s) /\ (m = 1 \/ s[m - 1] \in D)
    BY Zenon DEF Starts
  <2>2. m - 1 \notin i..(a + b)
    <3>1. s[m - 1] \in D => m - 1 \notin i..(a + b)
      BY <1>9, Zenon
    <3>2. m = 1 => m - 1 \notin i..(a + b)
      BY <1>3, <1>7
    <3> QED  BY <2>1, <3>1, <3>2, Zenon
  <2> QED  BY <1>3, <1>5, <1>7, <2>1, <2>2
<1>11. Field(s, D, i) = w
  <2>1. PICK c : c = a + (b + 1)
    OBVIOUS
  <2>2. /\ c \in Nat /\ i <= c /\ c <= Len(s) + 1 /\ c - 1 = a + b
        /\ i \in Pos /\ i <= Len(s)
    BY <1>3, <1>5, <1>7, <2>1 DEF Pos
  <2>3. PartEnds(s, D, i, c)
    BY <1>6, <1>9, <2>1, <2>2, Zenon DEF PartEnds
  <2>4. Cut(s, D, i) = c
    BY <2>2, <2>3, CutIs, Zenon
  <2>5. /\ 1 \in Nat /\ b \in Int /\ 1 <= 1 /\ b <= Len(w) /\ 1 <= b + 1 /\ b + a <= Len(s)
        /\ 1 + a = i /\ b + a = a + b
    BY <1>3, <1>5, <1>7
  <2>6. \A j \in 1..b : s[j + a] = w[j]
    <3>1. \A j \in 1..b : j + a = a + j
      BY <1>3
    <3> QED  BY <1>6, <3>1, Zenon
  <2>7. SameText(s, 1 + a, b + a, w, 1, b)
    BY <1>3, <2>5, <2>6, SameElements, Zenon
  <2>8. SubSeq(s, i, a + b) = SubSeq(w, 1, b)
    BY <2>5, <2>7, Zenon DEF SameText
  <2>9. SubSeq(w, 1, b) = w
    BY <1>3, SubSeqFull, Zenon
  <2> QED  BY <2>2, <2>4, <2>8, <2>9, FieldIsPart, Zenon
<1> QED  BY <1>1, <1>2, <1>3, <1>7, <1>8, <1>10, <1>11, Zenon DEF LastField

\* Blanks before a text are trimmed.
LEMMA TrimmedBehind ==
  ASSUME NEW T, NEW b \in T, b \in Blank, NEW t \in Seq(T), t # <<>>,
         t[1] \notin Blank, t[Len(t)] \notin Blank
  PROVE  trim(<<b>> \o t) = t
<1>1. PICK s \in Seq(T) : s = <<b>> \o t /\ Joint(s, <<b>>, t)
  BY OneSign, JointConcat, Zenon
<1>2. PICK n \in Nat : n = Len(t) /\ n > 0
  BY EmptySeq
<1>3. Len(s) = 1 + n /\ s[1] = b /\ \A i \in 1..n : s[1 + i] = t[i]
  <2>1. Len(<<b>>) = 1 /\ <<b>>[1] = b /\ 1 \in 1..1
    OBVIOUS
  <2> QED  BY <1>1, <1>2, <2>1, Zenon DEF Joint
<1>4. PICK ink : ink = {i \in DOMAIN s : s[i] \notin Blank}
  OBVIOUS
<1>5. 1 \in 1..n /\ n \in 1..n /\ DOMAIN s = 1..(1 + n) /\ 1 + 1 \in 1..(1 + n) /\ 1 + n \in 1..(1 + n)
  BY <1>2, <1>3
<1>6. 1 + 1 \in ink /\ 1 + n \in ink /\ 1 \notin ink
  BY <1>2, <1>3, <1>4, <1>5, Zenon
<1>7. ink \subseteq 1..(1 + n)
  BY <1>4, <1>5, Zenon
<1>8. PICK p, q : p = Min(ink) /\ q = Max(ink)
  OBVIOUS
<1>9. ink \subseteq Nat /\ ink \subseteq 0..(1 + n) /\ 1 + n \in Nat
  BY <1>2, <1>7
<1>10. p \in ink /\ (\A y \in ink : p <= y) /\ q \in ink /\ (\A y \in ink : y <= q)
  BY <1>6, <1>8, <1>9, Smallest, Largest, Zenon
<1>11. p = 1 + 1 /\ q = n + 1
  <2>1. p <= 1 + 1 /\ 1 + n <= q /\ p # 1
    BY <1>6, <1>10, Zenon
  <2> QED  BY <1>2, <1>7, <1>10, <2>1
<1>12. trim(s) = SubSeq(s, 1 + 1, n + 1)
  BY <1>4, <1>6, <1>8, <1>11, Zenon DEF trim
<1>13. SubSeq(s, 1 + 1, n + 1) = SubSeq(t, 1, n)
  <2>1. 1 \in Nat /\ n \in Int /\ 1 <= 1 /\ n <= Len(t) /\ 1 <= n + 1 /\ n + 1 <= Len(s)
    BY <1>2, <1>3
  <2>2. \A i \in 1..n : s[i + 1] = t[i]
    <3>1. \A i \in 1..n : i + 1 = 1 + i
      OBVIOUS
    <3> QED  BY <1>3, <3>1, Zenon
  <2>3. SameText(s, 1 + 1, n + 1, t, 1, n)
    BY <2>1, <2>2, SameElements, Zenon
  <2> QED  BY <2>3, Zenon DEF SameText
<1> QED  BY <1>1, <1>2, <1>12, <1>13, SubSeqFull, Zenon

\* The line that tells the length of a body.
LEMMA LengthSaid ==
  ASSUME NEW T, NEW D, NEW h \in Seq(T), h = <<>> \/ h[Len(h)] \in D,
         NEW a \in T, NEW b \in T, NEW c \in T, NEW k \in T, NEW e \in T,
         a \notin D, b \notin D, c \notin D, k \notin D, e \in D,
         a # b, a \notin Blank, c \in Blank, k \notin Blank
  PROVE  Says(h \o <<a, b, c, k, e>>, D, b, <<a>>, <<k>>)
<1>1. PICK x, y, v \in Seq(T) : x = <<a>> /\ y = <<c, k>> /\ v = <<k>>
  <2>1. <<a>> \in Seq(T) /\ <<k>> \in Seq(T)
    BY OneSign, Zenon
  <2>2. <<c, k>> \in Seq(T)
    BY ONLY c \in T, k \in T
  <2> QED  BY <2>1, <2>2, Zenon
<1>2. PICK w \in Seq(T) : w = <<a, b, c, k>>
  <2>1. <<a, b, c, k>> \in Seq(T)
    BY ONLY a \in T, b \in T, c \in T, k \in T
  <2> QED  BY <2>1, Zenon
<1>3. w # <<>> /\ \A i \in 1..Len(w) : w[i] \notin D
  BY <1>2
<1>4. w \o <<e>> = <<a, b, c, k, e>>
  <2>1. PICK z \in Seq(T) : z = w \o <<e>> /\ Joint(z, w, <<e>>)
    BY OneSign, JointConcat, Zenon
  <2>2. Len(<<e>>) = 1 /\ <<e>>[1] = e /\ 1 \in 1..1 /\ Len(w) = 4
    BY <1>2
  <2>3. Len(z) = 4 + 1 /\ (\A i \in 1..4 : z[i] = w[i]) /\ z[4 + 1] = e
    BY <2>1, <2>2, Zenon DEF Joint
  <2>4. z = <<a, b, c, k, e>>
    BY <1>2, <2>3
  <2> QED  BY <2>1, <2>4, Zenon
<1>5. PICK s, i : s = h \o <<a, b, c, k, e>> /\ i = Len(h) + 1 /\ LastField(s, D, i, w)
  BY <1>3, <1>4, FieldAtTheEnd, Zenon
<1>6. (x \o <<b>>) \o y = w
  <2>1. PICK xb \in Seq(T) : xb = x \o <<b>> /\ Joint(xb, x, <<b>>)
    BY OneSign, JointConcat, Zenon
  <2>2. PICK z \in Seq(T) : z = xb \o y /\ Joint(z, xb, y)
    BY JointConcat, Zenon
  <2>3. /\ Len(<<b>>) = 1 /\ <<b>>[1] = b /\ 1 \in 1..1 /\ Len(x) = 1 /\ x[1] = a
        /\ Len(y) = 2 /\ y[1] = c /\ y[2] = k /\ 1 \in 1..2 /\ 2 \in 1..2
    BY <1>1
  <2>4. Len(xb) = 1 + 1 /\ xb[1] = a /\ xb[1 + 1] = b
    BY <2>1, <2>3, Zenon DEF Joint
  <2>5. 1 \in 1..(1 + 1) /\ 1 + 1 \in 1..(1 + 1)
    OBVIOUS
  <2>6. /\ Len(z) = 1 + 1 + 2 /\ z[1] = a /\ z[1 + 1] = b /\ z[1 + 1 + 1] = c /\ z[1 + 1 + 2] = k
    BY <2>2, <2>3, <2>4, <2>5, Zenon DEF Joint
  <2>7. z = w
    <3>1. z = <<a, b, c, k>>
      BY ONLY z \in Seq(T), <2>6
    <3> QED  BY <1>2, <3>1, Zenon
  <2> QED  BY <2>1, <2>2, <2>7, Zenon
<1>7. Divides(w, b, x, y)
  <2>1. \A j \in 1..Len(x) : x[j] # b
    BY <1>1
  <2> QED  BY <1>6, <2>1, FoundBetween, Zenon
<1>8. trim(x) = x
  <2>1. \A j \in 1..Len(x) : x[j] \notin Blank
    BY <1>1
  <2> QED  BY <2>1, Trimmed, Zenon
<1>9. trim(y) = v
  <2>1. v # <<>> /\ v[1] \notin Blank /\ v[Len(v)] \notin Blank
    BY <1>1
  <2>2. y = <<c>> \o v
    <3>1. <<c>> \o (<<>> \o <<k>>) = <<c, k>>
      BY Listed, Zenon
    <3>2. <<>> \o <<k>> = <<k>>
      BY <1>1, ConcatEmptySeq
    <3>3. <<c>> \o <<k>> = <<c, k>>
      BY <3>1, <3>2, Zenon
    <3> QED  BY <1>1, <3>3, Zenon
  <2> QED  BY <2>1, <2>2, TrimmedBehind, Zenon
<1>10. Find(w, <<b>>) # npos /\ nameOf(w, b) = x /\ valueOf(w, b) = v
  BY <1>7, <1>8, <1>9, Zenon DEF Divides, nameOf, valueOf
<1>11. PICK I : I = Naming(s, D, b, x)
  OBVIOUS
<1>12. i \in I /\ \A m \in I : m <= i
  BY <1>5, <1>10, <1>11, Zenon DEF LastField, Naming
<1>13. Max(I) = i
  <2>1. I \subseteq 0..Len(s)
    BY <1>11 DEF Naming, Starts
  <2>2. Len(s) \in Nat
    <3>1. h \in Seq(T) /\ <<a, b, c, k, e>> \in Seq(T)
      OBVIOUS
    <3>2. s \in Seq(T)
      BY <1>5, <3>1, JointConcat, Zenon
    <3> QED  BY <3>2
  <2>3. PICK j : j = Max(I)
    OBVIOUS
  <2>4. j \in I /\ \A y_ \in I : y_ <= j
    BY <1>12, <2>1, <2>2, <2>3, Largest, Zenon
  <2>5. j <= i /\ i <= j
    BY <1>12, <2>4, Zenon
  <2>6. j \in Nat /\ i \in Nat
    BY <1>12, <2>1, <2>4
  <2> QED  BY <2>3, <2>5, <2>6
<1>14. Given(s, D, b, x) = v
  BY <1>5, <1>10, <1>11, <1>13, Zenon DEF Given, LastField
<1> QED  BY <1>1, <1>5, <1>11, <1>12, <1>14, Zenon DEF Says

\* What a text says is a text.
LEMMA GivenIsText ==
  ASSUME NEW T, NEW s \in Seq(T), NEW D, NEW c, NEW name, Naming(s, D, c, name) # {}
  PROVE  Given(s, D, c, name) \in Seq(T)
<1>1. PICK w \in Seq(T) : w = Field(s, D, Max(Naming(s, D, c, name)))
  <2>1. \E i, ps, pre, post : LastOf(T, s, D, c, name, i, ps, pre, post)
    BY LastNamed, Zenon
  <2> QED  BY <2>1, Zenon DEF LastOf
<1>2. PICK n \in Nat : n = Len(w)
  OBVIOUS
<1>3. PICK k : k = Find(w, <<c>>)
  OBVIOUS
<1>4. k \in Nat
  <2>1. PICK hits : hits = Within(w, <<c>>, 1)
    OBVIOUS
  <2>2. hits \subseteq Nat
    BY <2>1 DEF Within
  <2>3. k = IF hits = {} THEN 0 ELSE Min(hits)
    BY <1>3, <2>1, Zenon DEF Find, FindFrom, npos
  <2> QED  BY <2>2, <2>3, Smallest
<1>5. PICK v \in Seq(T) : v = From(w, k + 1)
  <2>1. SubSeq(w, k + 1, n) \in Seq(T)
    BY <1>2, <1>4
  <2> QED  BY <1>2, <2>1, Zenon DEF From
<1>6. TrimmedFrom(T, v, trim(v))
  BY TrimFacts, Zenon
<1> QED  BY <1>1, <1>3, <1>5, <1>6, Zenon DEF TrimmedFrom, Given, valueOf

\* What is read from the headers of a request.
HeadersGive(r) ==
  /\ Reads(r.headers, <<"Host">>, <<"localhost", ":", "8080">>)
  /\ Reads(r.cookies, <<"WEBSERV_SESSION">>, <<"sess_", "1">>)

LEMMA HeadersFound ==
  ASSUME HeadersAreUsual, NEW q \in DOMAIN Requests, request[q].ok
  PROVE  HeadersGive(request[q])
<1>1. PICK r : r = Requests[q] /\ r \in ToSet(Requests)
  BY Zenon DEF ToSet
<1>2. PICK s \in Seq(Char) : s = HeadersOf(r)
  BY <1>1, HeadersInLines, Zenon
<1>3. PICK hs : hs = request[q].headers /\ hs = parseHeaders(Parts(s, LineEnds))
  BY <1>1, <1>2, RequestsRead, Zenon DEF HeadersRead
<1>4. r.path # <<>> \/ r.query # <<>>
  BY <1>1, RequestsRead, Zenon DEF ReadAsSent
<1>5. PICK c, e, a, u : c = ":" /\ e = "=" /\ a = ";" /\ u = "Cookie"
  BY Zenon
<1>6. PICK h, v, k, i : /\ h = <<"Host">> /\ v = <<"localhost", ":", "8080">>
                        /\ k = <<"WEBSERV_SESSION">> /\ i = <<"sess_", "1">>
  BY Zenon
<1>7. Says(s, LineEnds, c, h, v) /\ Naming(s, LineEnds, c, <<u>>) # {}
  BY <1>1, <1>2, <1>4, <1>5, <1>6, Zenon DEF HeadersAreUsual
<1>8. PICK t : t = Given(s, LineEnds, c, <<u>>) /\ Says(t, {a}, e, k, i)
  BY <1>1, <1>2, <1>4, <1>5, <1>6, Zenon DEF HeadersAreUsual
<1>9. t \in Seq(Char)
  BY <1>7, <1>8, GivenIsText, Zenon
<1>10. hs = mapOf(Parts(s, LineEnds), c)
  BY <1>3, <1>5, Zenon DEF parseHeaders
<1>11. Reads(hs, h, v)
  <2>1. Reads(hs, h, Given(s, LineEnds, c, h))
    BY <1>7, <1>10, MapGives, Zenon DEF Says
  <2> QED  BY <1>7, <2>1, Zenon DEF Says
<1>12. valueOr(hs, <<u>>) = t
  <2>1. Reads(hs, <<u>>, t)
    BY <1>7, <1>8, <1>10, MapGives, Zenon
  <2> QED  BY <2>1, Zenon DEF Reads
<1>13. PICK cs : cs = request[q].cookies /\ cs = parseCookies(hs)
  BY <1>3, RequestsRead, Zenon DEF HeadersRead
<1>14. cs = mapOf(Parts(t, {a}), e)
  BY <1>5, <1>12, <1>13, Zenon DEF parseCookies, getlines
<1>15. Reads(cs, k, i)
  <2>1. Reads(cs, k, Given(t, {a}, e, k))
    BY <1>8, <1>9, <1>14, MapGives, Zenon DEF Says
  <2> QED  BY <1>8, <2>1, Zenon DEF Says
<1> QED  BY <1>3, <1>6, <1>11, <1>13, <1>15, Zenon DEF HeadersGive

\* The length of a body is read from the line that the browser adds, and is not
\* found where it adds none.
LengthRead(r, q) ==
  IF r.kind \in {"form", "raw"}
  THEN Reads(request[q].headers, <<"Content-Length">>, <<Numeral[Len(BodyOf(r))]>>)
  ELSE valueOr(request[q].headers, <<"Content-Length">>) = <<>>

LEMMA LengthFound ==
  ASSUME NEW q \in DOMAIN Requests, request[q].ok
  PROVE  LengthRead(Requests[q], q)
<1>1. PICK r : r = Requests[q] /\ r \in ToSet(Requests)
  BY Zenon DEF ToSet
<1>2. PICK s \in Seq(Char) : s = HeadersOf(r)
  BY <1>1, HeadersInLines, Zenon
<1>3. PICK hs : hs = request[q].headers /\ hs = parseHeaders(Parts(s, LineEnds))
  BY <1>1, <1>2, RequestsRead, Zenon DEF HeadersRead
<1>4. PICK c, a, b, e : c = ":" /\ a = "Content-Length" /\ b = " " /\ e = "CRLF"
  BY Zenon
<1>5. PICK h \in Seq(Char) : h = r.headers /\ (h = <<>> \/ InLines(h))
  BY <1>1, SentText, Zenon
<1>6. Naming(h, LineEnds, c, <<a>>) = {}
  BY <1>1, <1>4, <1>5, RequestAssumption, Zenon DEF WellFormed
<1>7. PICK k : k = Numeral[Len(BodyOf(r))] /\ k \in STRING \ Blank
  BY <1>1, RequestAssumption, Zenon DEF WellFormed
<1>8. hs = mapOf(Parts(s, LineEnds), c)
  BY <1>3, <1>4, Zenon DEF parseHeaders
<1>9. CASE r.kind \in {"form", "raw"}
  <2>1. s = h \o <<a, c, b, k, e>>
    BY <1>2, <1>4, <1>5, <1>7, <1>9, Zenon DEF HeadersOf
  <2>2. /\ a \in Char /\ c \in Char /\ b \in Char /\ k \in Char /\ e \in Char
        /\ a \notin LineEnds /\ c \notin LineEnds /\ b \notin LineEnds /\ e \in LineEnds
        /\ b \in Blank
    BY <1>4, <1>7, Chars, Zenon
  <2>3. k \notin LineEnds /\ k \notin Blank
    BY <1>7, Zenon DEF Blank, LineEnds
  <2>4. a # c /\ a \notin Blank
    BY <1>4, Zenon DEF Blank
  <2>5. h = <<>> \/ h[Len(h)] \in LineEnds
    BY <1>5, Zenon DEF InLines
  <2>6. Says(s, LineEnds, c, <<a>>, <<k>>)
    BY <2>1, <2>2, <2>3, <2>4, <2>5, LengthSaid, Zenon
  <2>7. Reads(hs, <<a>>, Given(s, LineEnds, c, <<a>>))
    BY <1>8, <2>6, MapGives, Zenon DEF Says
  <2>8. Reads(hs, <<a>>, <<k>>)
    BY <2>6, <2>7, Zenon DEF Says
  <2> QED  BY <1>1, <1>3, <1>4, <1>7, <1>9, <2>8, Zenon DEF LengthRead
<1>10. CASE r.kind \notin {"form", "raw"}
  <2>1. s = h \o <<>>
    BY <1>2, <1>5, <1>10, Zenon DEF HeadersOf
  <2>2. s = h
    BY <2>1, ConcatEmptySeq
  <2>3. valueOr(hs, <<a>>) = <<>>
    BY <1>6, <1>8, <2>2, MapSilent, Zenon
  <2> QED  BY <1>1, <1>3, <1>4, <1>10, <2>3, Zenon DEF LengthRead
<1> QED  BY <1>9, <1>10, Zenon

\* What ParsedAsSent says of an answered request.
FoundAsSent(q) ==
  request[q].ok =>
    LET r == request[q]
    IN  /\ r.method = Requests[q].method /\ r.path = Requests[q].path
        /\ r.query_string = Requests[q].query /\ r.body = BodyOf(Requests[q])
        /\ r.headers[<<"Host">>] = <<"localhost", ":", "8080">>
        /\ r.cookies[<<"WEBSERV_SESSION">>] = <<"sess_", "1">>
        /\ Requests[q].kind \in {"form", "raw"} =>
             r.headers[<<"Content-Length">>] = <<Numeral[Len(r.body)]>>

LEMMA RequestIsFound ==
  ASSUME HeadersAreUsual, NEW q \in DOMAIN Requests
  PROVE  FoundAsSent(q)
<1>1. CASE ~request[q].ok
  BY <1>1, Zenon DEF FoundAsSent
<1>2. CASE request[q].ok
  <2>1. ReadAsSent(q) /\ HeadersGive(request[q]) /\ LengthRead(Requests[q], q)
    BY <1>2, RequestsRead, HeadersFound, LengthFound, Zenon
  <2> QED  BY <1>2, <2>1, Zenon DEF FoundAsSent, ReadAsSent, HeadersGive, LengthRead, Reads
<1> QED  BY <1>1, <1>2, Zenon

\* Where requests say a host and a session, the handler works with what the
\* browser put there: the last line with a name gives the header, the last
\* part with a name the cookie, and the length is the one of the body that
\* is read.
THEOREM HeadersAreRead ==
  ASSUME HeadersAreUsual
  PROVE  Spec => []ParsedAsSent
<1>1. Init => ParsedAsSent
  <2>1. Init => ~answered
    BY DEF Init, NoExchange, answered
  <2> QED  BY <2>1, Zenon DEF ParsedAsSent
<1>2. ASSUME ParsedAsSent, [Next]_vars PROVE ParsedAsSent'
  <2>1. ASSUME NEW b \in Browsers, NEW q \in DOMAIN Requests, processHttpRequest(b, q)
        PROVE  ParsedAsSent'
    <3>1. exchange'.sent = q
      BY <2>1, Takes
    <3>2. sent' = Requests[q]
      BY <3>1, Zenon DEF sent
    <3> QED  BY <3>1, <3>2, RequestIsFound, Zenon DEF ParsedAsSent, FoundAsSent
  <2>2. CASE Return \/ Disk
    <3>1. ~answered'
      BY ONLY <2>2 DEF Return, Disk, NoExchange, answered
    <3> QED  BY <3>1, Zenon DEF ParsedAsSent
  <2>3. CASE UNCHANGED vars
    BY <1>2, <2>3, Zenon DEF vars, ParsedAsSent, answered, sent
  <2> QED  BY <1>2, <2>1, <2>2, <2>3, Zenon DEF Next
<1> QED  BY <1>1, <1>2, PTL DEF Spec
-----------------------------------------------------------------------------
(* Locations. *)

\* What a text starts with is no longer than the text.
LEMMA PrefixFacts ==
  ASSUME NEW s \in Seq(STRING), NEW p \in Seq(STRING), StartsWith(s, p)
  PROVE  Len(p) <= Len(s) /\ SubSeq(s, 1, Len(p)) = p
<1> DEFINE hits == Within(s, p, 1)
<1>1. hits \subseteq Nat /\ \A k \in hits : k <= Len(s) - Len(p) + 1
  BY DEF Within
<1>2. hits # {} /\ Min(hits) = 1
  BY DEF StartsWith, Find, FindFrom, npos
<1>4. \A k \in hits : SubSeq(s, k, k + Len(p) - 1) = p
  BY DEF Within
<1> HIDE DEF hits
<1>3. 1 \in hits
  BY <1>1, <1>2, Smallest
<1>5. 1 + Len(p) - 1 = Len(p)
  OBVIOUS
<1> QED  BY <1>1, <1>3, <1>4, <1>5

LEMMA StartsAlike ==
  ASSUME NEW s \in Seq(STRING), NEW p \in Seq(STRING), p # <<>>, StartsWith(s, p)
  PROVE  s[1] = p[1]
<1>1. Len(p) <= Len(s) /\ SubSeq(s, 1, Len(p)) = p
  BY PrefixFacts
<1>2. Len(p) \in Nat /\ Len(p) > 0
  BY EmptySeq
<1>3. SubSeq(s, 1, Len(p))[1] = s[1]
  BY <1>1, <1>2
<1> QED  BY <1>1, <1>3

\* Of two prefixes the shorter is one of the longer.
LEMMA PrefixesNest ==
  ASSUME NEW s \in Seq(STRING), NEW p \in Seq(STRING), NEW r \in Seq(STRING),
         StartsWith(s, p), StartsWith(s, r), Len(p) <= Len(r)
  PROVE  IsPrefix(p, r)
<1>1. Len(r) <= Len(s) /\ SubSeq(s, 1, Len(p)) = p /\ SubSeq(s, 1, Len(r)) = r
  BY PrefixFacts
<1>2. SubSeq(SubSeq(s, 1, Len(r)), 1, Len(p)) = SubSeq(s, 1, Len(p))
  BY <1>1, SubSeqOfSubSeq
<1>3. SubSeq(p, 1, Len(p)) = p
  BY SubSeqFull
<1> QED  BY <1>1, <1>2, <1>3 DEF IsPrefix

\* If a location matches, one is found, and none that matches is longer.
LEMMA LongestIsFound ==
  ASSUME NEW s \in Servers, NEW path \in Seq(STRING), NEW l \in ToSet(s.locations),
         StartsWith(path, l.location)
  PROVE  LET found == findLocationForPathRequest(s, path)
         IN  /\ found # NULL /\ found \in ToSet(s.locations)
             /\ StartsWith(path, found.location)
             /\ IsPrefix(l.location, found.location)
<1> DEFINE matching == {i \in DOMAIN s.locations : StartsWith(path, s.locations[i].location)}
           length(i) == Len(s.locations[i].location)
           longest(i) == \A j \in matching : length(j) <= length(i)
           best == CHOOSE i \in matching : longest(i)
<1>1. \A i \in DOMAIN s.locations :
        s.locations[i] # NULL /\ s.locations[i].location \in Seq(STRING)
  BY HttpAssumption DEF ToSet
<1>2. matching # {}
  BY DEF ToSet
<1>3. \A i \in matching : length(i) \in 0..Len(path)
  BY <1>1, PrefixFacts
<1>4. PICK n \in {length(i) : i \in matching} : \A m \in {length(i) : i \in matching} : m <= n
  <2>1. Len(path) \in Nat
    OBVIOUS
  <2>2. {length(i) : i \in matching} \subseteq 0..Len(path)
    BY <1>3
  <2>3. {length(i) : i \in matching} # {}
    BY <1>2
  <2> QED  BY <2>1, <2>2, <2>3, Largest
<1>5. \E i \in matching : longest(i)
  BY <1>4
<1>6. best \in matching /\ longest(best)
  BY <1>5
<1>7. findLocationForPathRequest(s, path) = s.locations[best]
  BY <1>2 DEF findLocationForPathRequest
<1>8. PICK j \in matching : s.locations[j] = l
  BY DEF ToSet
<1>9. /\ best \in DOMAIN s.locations /\ StartsWith(path, s.locations[best].location)
      /\ Len(l.location) <= Len(s.locations[best].location)
  BY <1>6, <1>8
<1> HIDE DEF best
<1>10. IsPrefix(l.location, s.locations[best].location)
  BY <1>1, <1>8, <1>9, PrefixesNest
<1> QED  BY <1>1, <1>7, <1>9, <1>10 DEF ToSet

\* What is found is a location of the server that matches.
LEMMA FoundMatches ==
  ASSUME NEW s \in Servers, NEW path, findLocationForPathRequest(s, path) # NULL
  PROVE  \E l \in ToSet(s.locations) : StartsWith(path, l.location)
BY DEF findLocationForPathRequest, ToSet

\* The rules for a path are those of the location that was found, or the
\* server's if none was.
LEMMA RulesOfTheFound ==
  ASSUME config \in Servers, NEW q \in DOMAIN Requests, request[q].ok
  PROVE  LET l == locationConfig(q)
             path == Requests[q].path
         IN  IF l = NULL THEN Owner(path) = {} ELSE l \in Owner(path)
<1> DEFINE l == locationConfig(q)
           path == Requests[q].path
<1>1. path \in Seq(STRING)
  BY HttpAssumption DEF ToSet, RequestOK
<1>2. l = findLocationForPathRequest(config, path)
  BY RequestsParsed DEF ReadAsSent, locationConfig, located
<1> HIDE DEF l, path
<1>3. CASE l = NULL
  <2>1. Owner(path) = {}
    BY <1>1, <1>2, <1>3, LongestIsFound DEF Owner, OwnerIn
  <2> QED  BY <1>3, <2>1 DEF l, path
<1>4. CASE l # NULL
  <2>1. PICK k \in ToSet(config.locations) : StartsWith(path, k.location)
    BY <1>2, <1>4, FoundMatches
  <2>2. l \in ToSet(config.locations) /\ StartsWith(path, l.location)
    BY <1>1, <1>2, <2>1, LongestIsFound
  <2>3. \A m \in ToSet(config.locations) :
          StartsWith(path, m.location) => IsPrefix(m.location, l.location)
    BY <1>1, <1>2, LongestIsFound
  <2>4. l \in Owner(path)
    BY <2>2, <2>3 DEF Owner, OwnerIn
  <2> QED  BY <1>4, <2>4 DEF l, path
<1> QED  BY <1>3, <1>4
-----------------------------------------------------------------------------
(* What the rules allow. *)

\* What checkConfig let through, the configuration allows.
LEMMA AllowedByRules ==
  ASSUME config \in Servers, NEW q \in DOMAIN Requests,
         request[q].ok, Allowed(q)
  PROVE  LET l == locationConfig(q)
             rules == IF l = NULL THEN config ELSE l
         IN  /\ rules \in Rules(Requests[q].path)
             /\ rules \in Owner(Requests[q].path) => rules.return_code = 0
             /\ Requests[q].method \in rules.allowed_methods
             /\ Len(BodyOf(Requests[q])) <= rules.client_max_body_size
             /\ l # NULL => rules \in Owner(Requests[q].path)
<1> DEFINE l == locationConfig(q)
           rules == IF l = NULL THEN config ELSE l
           path == Requests[q].path
<1>1. IF l = NULL THEN Owner(path) = {} ELSE l \in Owner(path)
  BY RulesOfTheFound, RequestsParsed DEF ReadAsSent
<1>2. /\ checkMethodAllowed(config, l, request[q]) /\ checkBodySize(config, l, request[q])
      /\ ~checkRedirection(l)
  BY DEF Allowed, refusal
<1>3. request[q].method = Requests[q].method /\ request[q].body = BodyOf(Requests[q])
  BY RequestsParsed DEF ReadAsSent
<1> HIDE DEF l, path
<1>4. rules \in Rules(path) /\ (l # NULL => rules \in Owner(path))
  BY <1>1 DEF Rules
<1>5. rules \in Owner(path) => rules.return_code = 0
  BY <1>1, <1>2 DEF checkRedirection
<1>6. Requests[q].method \in rules.allowed_methods
  BY <1>2, <1>3 DEF checkMethodAllowed, methodsOf
<1>7. Len(BodyOf(Requests[q])) <= rules.client_max_body_size
  BY <1>2, <1>3 DEF checkBodySize
<1> QED  BY <1>4, <1>5, <1>6, <1>7 DEF l, path

\* Files come and go only as the rules for the request's path allow:
\* checkConfig, on what findLocationForPathRequest found, stands before
\* whatever changes them.
THEOREM MethodsObeyed == Spec => MethodsAreObeyed
<1> DEFINE Obeyed ==
      \E l \in Rules(sent'.path) :
         /\ sent'.method \in l.allowed_methods
         /\ Len(BodyOf(sent')) <= l.client_max_body_size
         /\ l \in Owner(sent'.path) => l.return_code = 0
         /\ \/ sent'.method = <<"DELETE">>
            \/ sent'.method = <<"POST">> /\ l \in Owner(sent'.path) /\ l.upload_enable
<1>1. ASSUME IInv, [Next]_vars PROVE UNCHANGED <<files, dirs>> \/ Obeyed
  <2>0. config \in Servers
    BY <1>1, TypeParts DEF IInv
  <2>1. ASSUME NEW b \in Browsers, NEW q \in DOMAIN Requests, handleUpload(b, q)
        PROVE  Obeyed
    <3>1. /\ request[q].ok /\ request[q].method = <<"POST">> /\ Allowed(q)
          /\ checkUploadAllowed(locationConfig(q))
      BY <2>1 DEF handleUpload, Handled
    <3>2. sent' = Requests[q]
      BY <2>1 DEF handleUpload, Answer, sent
    <3>3. Requests[q].method = <<"POST">>
      BY <3>1, RequestsParsed DEF ReadAsSent
    <3>4. locationConfig(q) # NULL /\ locationConfig(q).upload_enable
      BY <3>1 DEF checkUploadAllowed
    <3> QED  BY <2>0, <3>1, <3>2, <3>3, <3>4, AllowedByRules
  <2>2. ASSUME NEW b \in Browsers, NEW q \in DOMAIN Requests, handleDeleteRequest(b, q)
        PROVE  Obeyed
    <3>1. request[q].ok /\ request[q].method = <<"DELETE">> /\ Allowed(q)
      BY <2>2 DEF handleDeleteRequest, Handled
    <3>2. sent' = Requests[q]
      BY <2>2 DEF handleDeleteRequest, Answer, sent
    <3>3. Requests[q].method = <<"DELETE">>
      BY <3>1, RequestsParsed DEF ReadAsSent
    <3> QED  BY <2>0, <3>1, <3>2, <3>3, AllowedByRules
  <2> HIDE DEF Obeyed
  <2>3. ASSUME NEW b \in Browsers, NEW q \in DOMAIN Requests, processHttpRequest(b, q)
        PROVE  UNCHANGED <<files, dirs>> \/ Obeyed
    <3>1. CASE handleUpload(b, q) \/ handleDeleteRequest(b, q)
      BY <2>1, <2>2, <3>1
    <3>2. CASE BadRequest(b, q) \/ Segfault(b, q) \/ Refuse(b, q)
      BY <3>2 DEF BadRequest, Segfault, Refuse
    <3>3. CASE handleCgiRequest(b, q)
      BY <3>3, Zenon DEF handleCgiRequest
    <3>4. CASE handleGetRequest(b, q)
      BY <3>4, Zenon DEF handleGetRequest
    <3>5. CASE handlePostRequest(b, q) /\ ~handleUpload(b, q)
      BY <3>5, Zenon DEF handlePostRequest
    <3> QED  BY <2>3, <3>1, <3>2, <3>3, <3>4, <3>5, Zenon DEF processHttpRequest
  <2>4. CASE Return \/ Disk \/ UNCHANGED vars
    BY <2>4 DEF Return, Disk, vars
  <2> QED  BY <1>1, <2>3, <2>4, Zenon DEF Next
<1> HIDE DEF Obeyed
<1>2. IInv /\ [Next]_vars => [<<files, dirs>>' # <<files, dirs>> => Obeyed]_vars
  BY <1>1
<1> QED  BY Invariance, <1>2, PTL DEF Spec, MethodsAreObeyed, Obeyed
-----------------------------------------------------------------------------
(* An uploaded file in its multipart body. *)

\* Two pieces next to each other, by position and as a substring.
IsPair(s, x, y, j) == s[j] = x /\ s[j + 1] = y
CutsPair(s, x, y, j) == SubSeq(s, j, j + 1) = <<x, y>>

LEMMA PairAt ==
  ASSUME NEW S, NEW s \in Seq(S), NEW n \in Nat, Len(s) = n,
         NEW j \in Nat, 1 <= j, j < n, NEW x, NEW y
  PROVE  CutsPair(s, x, y, j) <=> IsPair(s, x, y, j)
<1>1. PICK w : w = SubSeq(s, j, j + 1)
  OBVIOUS
<1>2. \A i \in j..(j + 1) : s[i] \in S
  OBVIOUS
<1>3. w \in Seq(S) /\ Len(w) = 2
  BY <1>1, <1>2, SubSeqProperties
<1>4. w[1] = s[j] /\ w[2] = s[j + 1]
  BY <1>1, <1>2
<1>5. w = <<x, y>> <=> w[1] = x /\ w[2] = y
  BY <1>3, SMT
<1> QED  BY <1>1, <1>4, <1>5, Zenon DEF CutsPair, IsPair

LEMMA PairsWithin ==
  ASSUME NEW S, NEW s \in Seq(S), NEW n \in Nat, Len(s) = n, NEW x, NEW y,
         NEW from \in Nat \ {0}, NEW j
  PROVE  j \in Within(s, <<x, y>>, from) <=> j \in from..(n - 1) /\ IsPair(s, x, y, j)
<1>1. PICK p : p = <<x, y>>
  OBVIOUS
<1>2. Len(p) = 2
  BY <1>1
<1>3. j \in Within(s, p, from) <=> j \in from..(n - 2 + 1) /\ SubSeq(s, j, j + 2 - 1) = p
  BY <1>2, Zenon DEF Within
<1>4. n - 2 + 1 = n - 1
  OBVIOUS
<1>5. ASSUME j \in from..(n - 1)
      PROVE  SubSeq(s, j, j + 2 - 1) = p <=> IsPair(s, x, y, j)
  <2>1. j \in Nat /\ 1 <= j /\ j < n /\ j + 2 - 1 = j + 1
    BY <1>5
  <2>2. CutsPair(s, x, y, j) <=> IsPair(s, x, y, j)
    BY <2>1, PairAt, Zenon
  <2> QED  BY <1>1, <2>1, <2>2, Zenon DEF CutsPair
<1> QED  BY <1>1, <1>3, <1>4, <1>5, Zenon

\* The first place is what find returns, 0 if there is none.
LEMMA FirstWithin ==
  ASSUME NEW s, NEW p, NEW from \in Nat \ {0}
  PROVE  /\ FindFrom(s, p, from) = npos => Within(s, p, from) = {}
         /\ \A k \in Within(s, p, from) :
              (\A j \in Within(s, p, from) : k <= j) => FindFrom(s, p, from) = k
<1> DEFINE hits == Within(s, p, from)
<1>1. hits \subseteq Nat \ {0}
  BY DEF Within
<1>2. FindFrom(s, p, from) = IF hits = {} THEN npos ELSE Min(hits)
  BY Zenon DEF FindFrom
<1> HIDE DEF hits
<1>3. ASSUME hits # {}
      PROVE  Min(hits) \in hits /\ \A j \in hits : Min(hits) <= j
  BY <1>1, <1>3, Smallest
<1>4. FindFrom(s, p, from) = npos => hits = {}
  BY <1>1, <1>2, <1>3 DEF npos
<1>5. ASSUME NEW k \in hits, \A j \in hits : k <= j
      PROVE  FindFrom(s, p, from) = k
  <2>1. hits # {} /\ FindFrom(s, p, from) = Min(hits)
    BY <1>2, Zenon
  <2>2. PICK m : m = Min(hits)
    OBVIOUS
  <2>3. m \in hits /\ m <= k /\ k <= m
    BY <1>3, <1>5, <2>1, <2>2, Zenon
  <2>4. m \in Nat /\ k \in Nat
    BY <1>1, <2>3
  <2>5. m = k
    BY <2>3, <2>4
  <2> QED  BY <2>1, <2>2, <2>5, Zenon
<1> QED  BY <1>4, <1>5 DEF hits

\* The first pair at or behind a place, if it is at k and none before it.
FirstPairAt(s, x, y, from, k) ==
  /\ k \in from..(Len(s) - 1) /\ IsPair(s, x, y, k)
  /\ \A j \in from..(k - 1) : ~IsPair(s, x, y, j)

FindsPair(s, x, y, from, k) == FindFrom(s, <<x, y>>, from) = k

LEMMA FirstPair ==
  ASSUME NEW S, NEW s \in Seq(S), NEW x, NEW y, NEW from \in Nat \ {0}, NEW k,
         FirstPairAt(s, x, y, from, k)
  PROVE  FindsPair(s, x, y, from, k)
<1> DEFINE n == Len(s)
<1>0. /\ n \in Nat /\ k \in from..(n - 1) /\ IsPair(s, x, y, k)
      /\ \A j \in from..(k - 1) : ~IsPair(s, x, y, j)
  BY DEF FirstPairAt
<1> HIDE DEF n
<1>1. PICK hits : hits = Within(s, <<x, y>>, from)
  OBVIOUS
<1>2. \A j : j \in hits <=> j \in from..(n - 1) /\ IsPair(s, x, y, j)
  BY <1>0, <1>1, PairsWithin, Zenon DEF n
<1>3. k \in hits
  BY <1>0, <1>2
<1>4. \A j \in hits : k <= j
  <2>1. SUFFICES ASSUME NEW j \in from..(n - 1), IsPair(s, x, y, j)
                 PROVE  k <= j
    BY <1>2, Zenon
  <2>2. j < k => j \in from..(k - 1)
    BY <1>0
  <2>3. ~(j < k)
    BY <1>0, <2>1, <2>2, Zenon
  <2> QED  BY <1>0, <2>3
<1> QED  BY <1>1, <1>3, <1>4, FirstWithin, Zenon DEF FindsPair

\* A multipart body by position: what follows holds for any file and content.
MultipartOf(u, file, content, f, c) ==
  LaidOut(u, Opening, file, Behind, content, Closing, 6, f, 5, c, 5)

LEMMA HeadersEnd ==
  ASSUME NEW u, u \in Seq(Piece), NEW file, NEW content, NEW f \in Nat, NEW c \in Nat,
         MultipartOf(u, file, content, f, c), \A i \in 1..f : file[i] # "CRLF"
  PROVE  Find(u, <<"CRLF", "CRLF">>) = 10 + f
<1>1. /\ Len(u) = 16 + f + c
      /\ \A i \in 1..6 : u[i] = Opening[i]
      /\ \A i \in 1..f : u[6 + i] = file[i]
      /\ \A i \in 1..5 : u[6 + f + i] = Behind[i]
  BY DEF MultipartOf, LaidOut
<1>2. /\ u[1] # "CRLF" /\ u[2] # "CRLF" /\ u[4] # "CRLF" /\ u[5] # "CRLF" /\ u[6] # "CRLF"
      /\ u[7 + f] # "CRLF" /\ u[9 + f] # "CRLF" /\ u[10 + f] = "CRLF" /\ u[11 + f] = "CRLF"
  <2>1. /\ u[1] = Opening[1] /\ u[2] = Opening[2] /\ u[4] = Opening[4]
        /\ u[5] = Opening[5] /\ u[6] = Opening[6]
    BY <1>1
  <2>2. /\ u[7 + f] = Behind[1] /\ u[9 + f] = Behind[3] /\ u[10 + f] = Behind[4]
        /\ u[11 + f] = Behind[5]
    <3>1. 7 + f = 6 + f + 1 /\ 9 + f = 6 + f + 3 /\ 10 + f = 6 + f + 4 /\ 11 + f = 6 + f + 5
      OBVIOUS
    <3> QED  BY <1>1, <3>1
  <2> QED  BY <2>1, <2>2 DEF Opening, Behind
<1>3. \A j \in 7..(6 + f) : u[j] # "CRLF"
  <2>1. TAKE j \in 7..(6 + f)
  <2>2. PICK i \in 1..f : j = 6 + i
    <3>1. j - 6 \in 1..f /\ j = 6 + (j - 6)
      OBVIOUS
    <3> QED  BY <3>1
  <2> QED  BY <1>1, <2>2
<1> PICK k \in Nat : k = 10 + f
  OBVIOUS
<1>4. \A j \in 1..(k - 1) : ~IsPair(u, "CRLF", "CRLF", j)
  <2>1. TAKE j \in 1..(k - 1)
  <2>2. \/ j \in {1, 2, 4, 5, 6} \/ j = 3 \/ j \in 7..(6 + f)
        \/ j = 7 + f \/ j = 9 + f \/ j = 8 + f
    OBVIOUS
  <2>3. u[j] # "CRLF" \/ u[j + 1] # "CRLF"
    <3>1. CASE j \in {1, 2, 4, 5, 6} \/ j = 7 + f \/ j = 9 + f
      BY <1>2, <3>1
    <3>2. CASE j \in 7..(6 + f)
      BY <1>3, <3>2
    <3>3. CASE j = 3
      <4>1. j + 1 = 4
        BY <3>3
      <4> QED  BY <1>2, <4>1
    <3>4. CASE j = 8 + f
      <4>1. j + 1 = 9 + f
        BY <3>4
      <4> QED  BY <1>2, <4>1
    <3> QED  BY <2>2, <3>1, <3>2, <3>3, <3>4
  <2> QED  BY <2>3 DEF IsPair
<1>5. IsPair(u, "CRLF", "CRLF", k)
  <2>1. k + 1 = 11 + f
    OBVIOUS
  <2> QED  BY <1>2, <2>1, Zenon DEF IsPair
<1>6. 1 \in Nat \ {0} /\ k \in 1..(Len(u) - 1)
  BY <1>1
<1>7. FirstPairAt(u, "CRLF", "CRLF", 1, k)
  BY <1>4, <1>5, <1>6, Zenon DEF FirstPairAt
<1>8. FindsPair(u, "CRLF", "CRLF", 1, k)
  BY <1>6, <1>7, FirstPair, Zenon
<1> QED  BY <1>8, Zenon DEF FindsPair, Find

LEMMA ContentEnds ==
  ASSUME NEW u, u \in Seq(Piece), NEW file, NEW content, NEW f \in Nat, NEW c \in Nat,
         MultipartOf(u, file, content, f, c), c > 0 => content[c] # "CRLF",
         \A i \in 1..(c - 1) : ~IsPair(content, "CRLF", "--", i)
  PROVE  FindFrom(u, <<"CRLF", "--">>, 12 + f) = 12 + f + c
<1>1. /\ Len(u) = 16 + f + c
      /\ \A i \in 1..c : u[11 + f + i] = content[i]
      /\ \A i \in 1..5 : u[11 + f + c + i] = Closing[i]
  BY DEF MultipartOf, LaidOut
<1> PICK from \in Nat, k \in Nat : from = 12 + f /\ k = 12 + f + c
  OBVIOUS
<1>2. IsPair(u, "CRLF", "--", k)
  <2>1. u[k] = Closing[1] /\ u[k + 1] = Closing[2]
    <3>1. k = 11 + f + c + 1 /\ k + 1 = 11 + f + c + 2
      OBVIOUS
    <3> QED  BY <1>1, <3>1
  <2> QED  BY <2>1 DEF IsPair, Closing
<1>3. \A j \in from..(k - 1) : ~IsPair(u, "CRLF", "--", j)
  <2>1. TAKE j \in from..(k - 1)
  <2>2. PICK i \in 1..c : j = 11 + f + i /\ j + 1 = 11 + f + (i + 1)
    <3>1. /\ j - (11 + f) \in 1..c /\ j = 11 + f + (j - (11 + f))
          /\ j + 1 = 11 + f + ((j - (11 + f)) + 1)
      OBVIOUS
    <3> QED  BY <3>1
  <2>3. u[j] = content[i]
    BY <1>1, <2>2
  <2>4. CASE i = c
    BY <2>3, <2>4 DEF IsPair
  <2>5. CASE i # c
    <3>1. i \in 1..(c - 1) /\ i + 1 \in 1..c
      BY <2>5
    <3>2. u[j + 1] = content[i + 1]
      BY <1>1, <2>2, <3>1
    <3> QED  BY <2>3, <3>1, <3>2, Zenon DEF IsPair
  <2> QED  BY <2>4, <2>5
<1>4. from \in Nat \ {0} /\ k \in from..(Len(u) - 1)
  BY <1>1
<1>5. FirstPairAt(u, "CRLF", "--", from, k)
  BY <1>2, <1>3, <1>4, Zenon DEF FirstPairAt
<1>6. FindsPair(u, "CRLF", "--", from, k)
  BY <1>4, <1>5, FirstPair, Zenon
<1> QED  BY <1>6, Zenon DEF FindsPair

IsCut(u, start, stop, content) == SubSeq(u, start, stop - 1) = content

LEMMA ContentIsCut ==
  ASSUME NEW u, u \in Seq(Piece), NEW file, NEW content, content \in Seq(Piece),
         NEW f \in Nat, NEW c \in Nat, Len(content) = c,
         MultipartOf(u, file, content, f, c), NEW start, start = 12 + f,
         NEW stop, stop = 12 + f + c
  PROVE  IsCut(u, start, stop, content)
<1>1. /\ Len(u) = 16 + f + c
      /\ \A i \in 1..c : u[11 + f + i] = content[i]
  BY DEF MultipartOf, LaidOut
<1>2. PICK a \in Nat \ {0} : a = 12 + f /\ a = start
  OBVIOUS
<1>3. PICK b \in Nat : b = 12 + f + c - 1 /\ b = stop - 1
  OBVIOUS
<1>4. \A i \in a..b : u[i] \in Piece
  BY <1>1, <1>2, <1>3
<1>5. PICK cut : cut = SubSeq(u, a, b)
  OBVIOUS
<1>6. /\ cut \in Seq(Piece) /\ Len(cut) = (IF a <= b THEN b - a + 1 ELSE 0)
      /\ \A i \in 1..(b - a + 1) : cut[i] = u[a + i - 1]
  BY <1>4, <1>5, SubSeqProperties
<1>7. b - a + 1 = c /\ Len(cut) = c
  BY <1>2, <1>3, <1>6
<1>8. \A i \in 1..c : cut[i] = content[i]
  <2>1. TAKE i \in 1..c
  <2>2. a + i - 1 = 11 + f + i
    BY <1>2
  <2> QED  BY <1>1, <1>6, <1>7, <2>2
<1>9. cut = content
  BY <1>6, <1>7, <1>8, SeqEqual
<1> QED  BY <1>2, <1>3, <1>5, <1>9, Zenon DEF IsCut

LEMMA Extraction ==
  ASSUME NEW u, NEW start, NEW stop, NEW content,
         endOfHeaders(u) # npos, start = endOfHeaders(u) + 2,
         stop = FindFrom(u, <<"CRLF", "--">>, start), stop # npos,
         IsCut(u, start, stop, content),
         ~(content # <<>> /\ Last(content) \in {"CRLF", "LF", "CR"})
  PROVE  extractFileContentFromMultipartBody(u) = content
BY Zenon DEF extractFileContentFromMultipartBody, IsCut

\* extractFileContentFromMultipartBody returns plain content as it is.
LEMMA PlainIsExtracted ==
  ASSUME NEW q, RequestOK(q), Plain(q.content)
  PROVE  extractFileContentFromMultipartBody(Multipart(q)) = q.content
<1> DEFINE f == Len(q.file)
           c == Len(q.content)
<1>1. /\ q.file \in Seq(STRING) /\ q.content \in Seq(STRING)
      /\ \A w \in ToSet(q.file) : w # "CRLF"
  <2>1. /\ {q.path, q.file, q.content} \subseteq Seq(STRING)
        /\ ToSet(q.file) \cap {"CRLF", "LF", "CR", "QUOTE"} = {}
    BY Zenon DEF RequestOK
  <2> QED  BY <2>1, Zenon
<1>2. PICK u : u = Multipart(q)
  OBVIOUS
<1>3. u \in Seq(Piece) /\ MultipartOf(u, q.file, q.content, f, c)
  BY <1>1, <1>2, BodyIsLaidOut, Zenon DEF MultipartOf
<1>4. f \in Nat /\ c \in Nat /\ q.content \in Seq(Piece)
  BY <1>1 DEF Piece
<1>5. \A i \in 1..f : q.file[i] # "CRLF"
  BY <1>1 DEF ToSet
<1>6. c > 0 => q.content # <<>> /\ Last(q.content) = q.content[c]
  BY <1>1 DEF Last
<1>7. c > 0 => q.content[c] # "CRLF"
  BY <1>6 DEF Plain
<1>8. \A i \in 1..(c - 1) : ~IsPair(q.content, "CRLF", "--", i)
  <2>1. Within(q.content, <<"CRLF", "--">>, 1) = {}
    <3>1. 1 \in Nat \ {0}
      OBVIOUS
    <3>2. FindFrom(q.content, <<"CRLF", "--">>, 1) = npos
      BY Zenon DEF Plain, WithoutBoundary, Find
    <3> QED  BY <3>1, <3>2, FirstWithin, Zenon
  <2>2. 1 \in Nat \ {0}
    OBVIOUS
  <2> QED  BY <1>1, <1>4, <2>1, <2>2, PairsWithin, Zenon
<1>9. /\ Find(u, <<"CRLF", "CRLF">>) = 10 + f
      /\ FindFrom(u, <<"CRLF", "--">>, 12 + f) = 12 + f + c
  <2>1. Find(u, <<"CRLF", "CRLF">>) = 10 + f
    BY <1>3, <1>4, <1>5, HeadersEnd, Zenon
  <2>2. FindFrom(u, <<"CRLF", "--">>, 12 + f) = 12 + f + c
    BY <1>3, <1>4, <1>7, <1>8, ContentEnds, Zenon
  <2> QED  BY <2>1, <2>2
<1> HIDE DEF f, c
<1>10. 10 + f # 0 /\ 10 + f + 2 = 12 + f /\ 12 + f + c # 0
  BY <1>4
<1>11. endOfHeaders(u) = 10 + f /\ endOfHeaders(u) # npos
  BY <1>9, <1>10, Zenon DEF endOfHeaders, npos
<1>12. ~(q.content # <<>> /\ Last(q.content) \in {"CRLF", "LF", "CR"})
  BY Zenon DEF Plain
<1>13. PICK start, stop : start = 12 + f /\ stop = 12 + f + c
  OBVIOUS
<1>14. /\ start = endOfHeaders(u) + 2 /\ stop = FindFrom(u, <<"CRLF", "--">>, start)
       /\ stop # npos /\ IsCut(u, start, stop, q.content)
  <2>1. start = endOfHeaders(u) + 2
    BY <1>10, <1>11, <1>13, Zenon
  <2>2. stop = FindFrom(u, <<"CRLF", "--">>, start)
    BY <1>9, <1>13, Zenon
  <2>3. stop # npos
    BY <1>10, <1>13, Zenon DEF npos
  <2>4. IsCut(u, start, stop, q.content)
    <3>1. Len(q.content) = c
      BY DEF c
    <3> QED  BY <1>3, <1>4, <1>13, <3>1, ContentIsCut, Zenon
  <2> QED  BY <2>1, <2>2, <2>3, <2>4
<1>15. extractFileContentFromMultipartBody(u) = q.content
  BY <1>11, <1>12, <1>14, Extraction, Zenon
<1> QED  BY <1>2, <1>15, Zenon

\* Only an upload is answered 201, unless a location redirects with it.
LEMMA ErrorStatus ==
  ASSUME NEW code \in {400, 403, 404, 405, 413, 500}, NEW l
  PROVE  handleError(code, l).status = code
<1>1. \A c : buildPage(c).status = c
  BY DEF buildPage, Response
<1>2. defaultPage(code).status = code
  BY <1>1 DEF defaultPage, buildBadRequest, buildForbidden, buildNotFound,
     buildMethodNotAllowed, buildPayloadTooLarge, buildInternalServerError
<1>3. CASE customErrorPages(code, l) = {}
  BY <1>2, <1>3, Zenon DEF handleError
<1>4. CASE customErrorPages(code, l) # {}
  <2>1. PICK page : handleError(code, l) = Response(code, html, page)
    BY <1>4, Zenon DEF handleError
  <2> QED  BY <2>1 DEF Response
<1> QED  BY <1>3, <1>4

NotCreated == exchange'.response # NULL => exchange'.response.status # 201

LEMMA OtherAnswers ==
  ASSUME NEW b, NEW q, NEW response, Answer(b, q, response), response.status # 201
  PROVE  NotCreated
BY DEF Answer, NotCreated

LEMMA NotCreatedByChecks ==
  ASSUME NEW b \in Browsers, NEW q \in DOMAIN Requests,
         BadRequest(b, q) \/ Segfault(b, q) \/ Refuse(b, q),
         request[q].ok /\ locationConfig(q) # NULL => locationConfig(q).return_code = 0
  PROVE  NotCreated
<1>1. CASE BadRequest(b, q)
  <2>1. Answer(b, q, buildBadRequest)
    BY <1>1 DEF BadRequest
  <2>2. buildBadRequest.status # 201
    BY DEF buildBadRequest, buildPage, Response
  <2> QED  BY <2>1, <2>2, OtherAnswers
<1>2. CASE Segfault(b, q)
  BY <1>2, AnswerParts DEF Segfault, Answer, NotCreated
<1>3. CASE Refuse(b, q)
  <2> DEFINE l == locationConfig(q)
             r == request[q]
  <2>1. ~checkRedirection(l)
    BY <1>3 DEF Refuse, Parsed, checkRedirection
  <2>2. PICK response \in refusal(l, r) : Answer(b, q, response)
    BY <1>3 DEF Refuse
  <2>3. response \in {handleError(405, l), handleError(413, l)}
    BY <2>1, <2>2, Zenon DEF refusal
  <2> HIDE DEF l
  <2>4. handleError(405, l).status = 405 /\ handleError(413, l).status = 413
    BY ErrorStatus
  <2>5. response.status # 201
    BY <2>3, <2>4
  <2> QED  BY <2>2, <2>5, OtherAnswers
<1> QED  BY <1>1, <1>2, <1>3

LEMMA NotCreatedByCgi ==
  ASSUME NEW b \in Browsers, NEW q \in DOMAIN Requests, handleCgiRequest(b, q)
  PROVE  NotCreated
<1> DEFINE l == locationConfig(q)
           given(response) ==
             [response EXCEPT
                !.script.env = setupEnvironment(request[q], config, scriptOf(q),
                                 extractCgiPathInfo(request[q].path, cgiExtension(l))),
                !.script.stdin = stdinOf(request[q])]
<1>1. \/ \E response \in cgiResponses(l, scriptOf(q)) : Answer(b, q, given(response))
      \/ Answer(b, q, handleError(405, l))
  BY Zenon DEF handleCgiRequest
<1>2. ASSUME NEW response PROVE given(response).status = response.status
  OBVIOUS
<1>3. \A response \in cgiResponses(l, scriptOf(q)) : response.status # 201
  <2>1. handleError(500, l).status = 500
    BY ErrorStatus
  <2>2. buildError(504).status = 504
    BY DEF buildError, buildPage, Response
  <2> DEFINE out(o) == extractCgiContentType(CgiOutput(scriptOf(q), o))
             heard(o) == [Response(200, out(o).type, out(o).body)
                            EXCEPT !.script = [NoScript EXCEPT !.printed = o]]
  <2>3. cgiResponses(l, scriptOf(q)) =
          {heard(o) : o \in Outputs} \cup {handleError(500, l), buildError(504)}
    BY Zenon DEF cgiResponses
  <2>4. \A o : heard(o).status = 200
    BY DEF Response
  <2> HIDE DEF l, heard
  <2> QED  BY <2>1, <2>2, <2>3, <2>4
<1>4. handleError(405, l).status = 405
  BY ErrorStatus
<1> HIDE DEF l, given
<1> QED  BY <1>1, <1>2, <1>3, <1>4, OtherAnswers

LEMMA NotCreatedByOthers ==
  ASSUME NEW b \in Browsers, NEW q \in DOMAIN Requests,
         \/ handleGetRequest(b, q) \/ handleDeleteRequest(b, q)
         \/ handlePostRequest(b, q) /\ ~handleUpload(b, q)
  PROVE  NotCreated
<1> DEFINE l == locationConfig(q)
           p == resource_path(q)
<1>0. \A code \in {400, 403, 404, 405, 413, 500} : handleError(code, l).status = code
  BY ErrorStatus
<1>1. CASE handleGetRequest(b, q)
  <2>1. PICK counters : Answer(b, q, getResponse(l, p, counters))
    BY <1>1, Zenon DEF handleGetRequest
  <2>2. \A content, mime : buildOk(content, mime).status = 200
    BY DEF buildOk, Response
  <2>3. \A shown : [buildOk(<<>>, <<"application/json">>) EXCEPT !.stats = shown].status = 200
    BY DEF buildOk, Response
  <2> HIDE DEF l, p
  <2>4. getResponse(l, p, counters).status \in {200, 403, 404}
    BY <1>0, <2>2, <2>3 DEF getResponse
  <2> QED  BY <2>1, <2>4, OtherAnswers
<1>2. CASE handleDeleteRequest(b, q)
  <2>1. \/ Answer(b, q, buildNoContent)
        \/ \E code \in {404, 500} : Answer(b, q, handleError(code, l))
    BY <1>2, Zenon DEF handleDeleteRequest
  <2>2. buildNoContent.status = 204
    BY DEF buildNoContent, buildPage, Response
  <2> HIDE DEF l
  <2> QED  BY <1>0, <2>1, <2>2, OtherAnswers
<1>3. CASE handlePostRequest(b, q) /\ ~handleUpload(b, q)
  <2>1. Answer(b, q, handleError(400, l))
    BY <1>3, Zenon DEF handlePostRequest
  <2> HIDE DEF l
  <2> QED  BY <1>0, <2>1, OtherAnswers
<1> QED  BY <1>1, <1>2, <1>3

\* What an upload that is answered 201 leaves behind.
LEMMA UploadIsStored ==
  ASSUME IInv, NEW b \in Browsers, NEW q \in DOMAIN Requests,
         handleUpload(b, q), exchange'.response.status = 201, ~full,
         Requests[q].kind = "form", Plain(Requests[q].content)
  PROVE  /\ exchange'.browser = b
         /\ \E d \in UploadStores :
              LET n == Components(d \o <<"/">> \o stats'[b].last_upload)
              IN  n \in DOMAIN files' /\ files'[n] = Requests[q].content
<1> DEFINE l == locationConfig(q)
           content == extractFileContentFromMultipartBody(request[q].body)
           path(f) == l.upload_store \o <<"/">> \o f
<1>1. PICK filename \in uploadNames(l, request[q]) :
        /\ files' = IF writable(path(filename)) THEN written(path(filename), content)
                    ELSE files
        /\ stats' = IF writeStringToFile(path(filename), content)
                    THEN [stats EXCEPT ![b] = trackFileUpload(@, filename)] ELSE stats
        /\ Answer(b, q, IF writeStringToFile(path(filename), content) THEN buildCreated
                        ELSE handleError(500, l))
  BY Zenon DEF handleUpload
<1>2. request[q].ok /\ Allowed(q) /\ checkUploadAllowed(l)
  BY DEF handleUpload, Handled
<1>3. content = Requests[q].content
  <2>1. request[q].body = Multipart(Requests[q])
    BY <1>2, RequestsParsed DEF ReadAsSent, BodyOf
  <2>2. RequestOK(Requests[q])
    BY HttpAssumption DEF ToSet
  <2> QED  BY <2>1, <2>2, PlainIsExtracted
<1>4. l.upload_store \in UploadStores
  <2>1. config \in Servers
    BY TypeParts DEF IInv
  <2>2. l # NULL /\ l.upload_store # <<>>
    BY <1>2 DEF checkUploadAllowed
  <2>3. l \in Owner(Requests[q].path)
    BY <1>2, <2>1, <2>2, RulesOfTheFound, RequestsParsed DEF ReadAsSent
  <2>4. l \in ToSet(config.locations)
    BY <2>3 DEF Owner, OwnerIn
  <2> QED  BY <2>2, <2>4 DEF UploadStores
<1>5. PICK p : p = path(filename)
  OBVIOUS
<1>6. StatsOK
  BY DEF IInv
<1>7. l.upload_store \o <<"/">> \o filename = p
  BY <1>5
<1> HIDE DEF l, content, path
<1>8. writeStringToFile(p, content) /\ exchange'.browser = b
  <2>1. handleError(500, l).status # 201
    BY ErrorStatus
  <2>2. PICK response : /\ response = IF writeStringToFile(p, content) THEN buildCreated
                                       ELSE handleError(500, l)
                        /\ Answer(b, q, response)
    BY <1>1, <1>5, Zenon
  <2>3. exchange'.browser = b /\ exchange'.response = response
    BY <2>2 DEF Answer
  <2> QED  BY <2>1, <2>2, <2>3
<1>9. Components(p) \in DOMAIN files' /\ files'[Components(p)] = content
  <2>1. writable(p)
    BY <1>8 DEF writeStringToFile
  <2>2. files' = written(p, content)
    BY <1>1, <1>5, <2>1
  <2> QED  BY <2>2 DEF written
<1>10. stats'[b].last_upload = filename
  <2>1. stats' = [stats EXCEPT ![b] = trackFileUpload(stats[b], filename)]
    BY <1>1, <1>5, <1>8
  <2>2. stats'[b] = trackFileUpload(stats[b], filename)
    BY <1>6, <2>1 DEF StatsOK
  <2>3. IsStats(stats[b])
    BY <1>6 DEF StatsOK
  <2> QED  BY <2>2, <2>3 DEF IsStats, trackFileUpload
<1>11. Components(l.upload_store \o <<"/">> \o stats'[b].last_upload) = Components(p)
  BY <1>7, <1>10
<1>12. PICK d \in UploadStores : d = l.upload_store
  BY <1>4
<1>13. LET n == Components(d \o <<"/">> \o stats'[b].last_upload)
       IN  n \in DOMAIN files' /\ files'[n] = Requests[q].content
  BY <1>3, <1>9, <1>11, <1>12
<1> QED  BY <1>8, <1>13, Zenon

\* An upload that is answered 201 is in its store, complete and under the name
\* the session shows, when the disk had room and the content is plain.
THEOREM UploadsAreKept == Spec => []KeptWhenPlain
<1>1. Init => KeptWhenPlain
  BY DEF Init, NoExchange, KeptWhenPlain, Uploaded, answered
<1>2. ASSUME IInv, KeptWhenPlain, [Next]_vars PROVE KeptWhenPlain'
  <2>1. ASSUME NEW b \in Browsers, NEW q \in DOMAIN Requests, processHttpRequest(b, q)
        PROVE  KeptWhenPlain'
    <3>1. SUFFICES ASSUME Uploaded', ~exchange'.full, Plain(sent'.content)
                   PROVE  Stored(sent.content)'
      BY DEF KeptWhenPlain
    <3>2. exchange'.sent = q /\ exchange'.full = full /\ config' = config
      <4>1. config' = config /\ \E response : Answer(b, q, response)
        <5>1. CASE BadRequest(b, q) \/ Segfault(b, q) \/ Refuse(b, q)
          BY <5>1, Zenon DEF BadRequest, Segfault, Refuse
        <5>2. CASE handleCgiRequest(b, q)
          BY <5>2, Zenon DEF handleCgiRequest
        <5>3. CASE handleGetRequest(b, q)
          BY <5>3, Zenon DEF handleGetRequest
        <5>4. CASE handlePostRequest(b, q)
          BY <5>4, Zenon DEF handlePostRequest, handleUpload
        <5>5. CASE handleDeleteRequest(b, q)
          BY <5>5, Zenon DEF handleDeleteRequest
        <5> QED  BY <2>1, <5>1, <5>2, <5>3, <5>4, <5>5, Zenon DEF processHttpRequest
      <4> QED  BY <4>1 DEF Answer
    <3>3. /\ exchange'.response # NULL /\ exchange'.response.status = 201
          /\ Requests[q].kind = "form" /\ sent' = Requests[q]
          /\ \A l \in Owner(Requests[q].path) : l.return_code = 0
      BY <3>1, <3>2 DEF Uploaded, answered, status, sent, Owner
    <3>4. ~NotCreated
      BY <3>3 DEF NotCreated
    <3>5. request[q].ok /\ locationConfig(q) # NULL => locationConfig(q).return_code = 0
      <4>1. config \in Servers
        BY <1>2, TypeParts DEF IInv
      <4> QED  BY <3>3, <4>1, RulesOfTheFound, RequestsParsed DEF ReadAsSent
    <3>6. handleUpload(b, q)
      BY <2>1, <3>4, <3>5, NotCreatedByChecks, NotCreatedByCgi, NotCreatedByOthers, Zenon
         DEF processHttpRequest
    <3>7. /\ exchange'.browser = b
          /\ \E d \in UploadStores :
               LET n == Components(d \o <<"/">> \o stats'[b].last_upload)
               IN  n \in DOMAIN files' /\ files'[n] = Requests[q].content
      BY <1>2, <3>1, <3>2, <3>3, <3>6, UploadIsStored
    <3>8. UploadStores' = UploadStores
      BY <3>2 DEF UploadStores
    <3>9. dirs' = dirs
      BY <3>6, Zenon DEF handleUpload
    <3> QED  BY <3>3, <3>7, <3>8, <3>9, Zenon DEF Stored, Components
  <2>2. CASE Return \/ Disk
    BY <2>2 DEF Return, Disk, NoExchange, KeptWhenPlain, Uploaded, answered
  <2>3. CASE UNCHANGED vars
    <3>1. KeptWhenPlain' <=> KeptWhenPlain
      BY <2>3, Zenon DEF vars, KeptWhenPlain, Uploaded, answered, status, sent, Owner,
         OwnerIn, Stored, UploadStores, Components
    <3> QED  BY <1>2, <3>1
  <2> QED  BY <1>2, <2>1, <2>2, <2>3, Zenon DEF Next
<1> QED  BY Invariance, <1>1, <1>2, PTL DEF Spec
-----------------------------------------------------------------------------
(* What a path is decoded to. *)

Decoded(w) ==
  [p \in Pos |-> IF w[p] \in DOMAIN Escapes THEN Escapes[w[p]]
                 ELSE IF w[p] = "+" THEN <<" ">> ELSE <<w[p]>>]

\* urlDecode goes along the text, piece by piece.
LEMMA DecodesPieces ==
  ASSUME NEW w \in Seq(STRING)
  PROVE  \E g : Walks(g, Pos, Past(w), Decoded(w), Following) /\ urlDecode(w) = g[1]
<1>1. Len(w) \in Nat /\ Pos \in SUBSET Nat
  BY DEF Pos
<1>2. \A p \in Pos : (p \in Past(w) <=> p > Len(w)) /\ (p \notin Past(w) <=> p <= Len(w))
  BY <1>1 DEF Past, Pos
<1>3. \A p \in Pos : Following[p] = p + 1 /\ Following[p] \in Pos /\ Following[p] > p
  BY DEF Following, Pos
<1>5. PICK f : Walks(f, Pos, Past(w), Decoded(w), Following)
  BY <1>1, <1>2, <1>3, WalkExists, Zenon
<1>6. \A g : [p \in Pos |-> IF p \in Past(w) THEN <<>> ELSE Decoded(w)[p] \o g[Following[p]]]
               = [i \in Nat \ {0} |-> IF i > Len(w) THEN <<>>
                    ELSE (IF w[i] \in DOMAIN Escapes THEN Escapes[w[i]]
                          ELSE IF w[i] = "+" THEN <<" ">> ELSE <<w[i]>>) \o g[i + 1]]
  <2>1. Pos = Nat \ {0}
    BY DEF Pos
  <2>2. \A i \in Pos : Decoded(w)[i] = IF w[i] \in DOMAIN Escapes THEN Escapes[w[i]]
                                       ELSE IF w[i] = "+" THEN <<" ">> ELSE <<w[i]>>
    BY Zenon DEF Decoded
  <2> QED  BY <1>2, <1>3, <2>1, <2>2, Zenon
<1>7. PICK g : g = CHOOSE h : Walks(h, Pos, Past(w), Decoded(w), Following)
  OBVIOUS
<1>8. Walks(g, Pos, Past(w), Decoded(w), Following)
  BY <1>5, <1>7, Zenon
<1>9. urlDecode(w) = g[1]
  BY <1>6, <1>7, Zenon DEF urlDecode, Walks
<1> QED  BY <1>8, <1>9, Zenon

LEMMA DecodedIsText ==
  ASSUME NEW w \in Seq(STRING)
  PROVE  urlDecode(w) \in Seq(Sign)
<1>1. Len(w) \in Nat /\ Pos \in SUBSET Nat
  BY DEF Pos
<1>2. \A p \in Pos : (p \in Past(w) <=> p > Len(w)) /\ (p \notin Past(w) <=> p <= Len(w))
  BY <1>1 DEF Past, Pos
<1>3. \A p \in Pos : Following[p] = p + 1 /\ Following[p] \in Pos /\ Following[p] > p
  BY DEF Following, Pos
<1>4. \A p \in Pos : p \notin Past(w) => Decoded(w)[p] \in Seq(Sign)
  <2> SUFFICES ASSUME NEW p \in Pos, p <= Len(w) PROVE Decoded(w)[p] \in Seq(Sign)
    BY <1>2, Zenon
  <2>0. w[p] \in STRING
    BY DEF Pos
  <2>1. PICK c \in STRING : c = w[p]
    BY <2>0, Zenon
  <2>2. PICK e : e = Escapes[c]
    OBVIOUS
  <2>3. Decoded(w)[p] = IF c \in DOMAIN Escapes THEN e ELSE IF c = "+" THEN <<" ">> ELSE <<c>>
    BY <2>1, <2>2, Zenon DEF Decoded
  <2>4. c \in DOMAIN Escapes => e \in Seq(Sign)
    BY <2>2, HttpAssumption, TextsOfSigns, Zenon
  <2>5. <<" ">> \in Seq(Sign) /\ <<c>> \in Seq(Sign)
    <3>1. PICK b \in Sign : b = " "
      BY Signs, Zenon
    <3>2. c \in Sign
      BY Signs, Zenon
    <3>3. <<b>> \in Seq(Sign) /\ <<c>> \in Seq(Sign)
      BY <3>2, OneSign, Zenon
    <3> QED  BY <3>1, <3>3, Zenon
  <2> QED  BY <2>3, <2>4, <2>5, Zenon
<1>5. PICK g : Walks(g, Pos, Past(w), Decoded(w), Following) /\ urlDecode(w) = g[1]
  BY DecodesPieces, Zenon
<1>6. PICK n, st, pc, nx : n = Len(w) /\ st = Past(w) /\ pc = Decoded(w) /\ nx = Following
  OBVIOUS
<1>7. Walks(g, Pos, st, pc, nx) /\ StopsPast(n, st) /\ Pieces(Sign, st, pc, nx)
  BY <1>1, <1>2, <1>3, <1>4, <1>5, <1>6, Zenon DEF StopsPast, Pieces
<1>8. \A p \in Pos : g[p] \in Seq(Sign)
  BY ONLY <1>7, WalkTypes, Zenon
<1>9. 1 \in Pos
  BY DEF Pos
<1> QED  BY <1>5, <1>8, <1>9, Zenon

-----------------------------------------------------------------------------
(* What ends the process. *)

\* What a text starts with.
LEMMA StartsWithPiece ==
  ASSUME NEW T, NEW w \in Seq(T), w # <<>>, NEW c
  PROVE  StartsWith(w, <<c>>) <=> w[1] = c
<1>1. w[1] = c => StartsWith(w, <<c>>)
  BY BeginsWithSlash, Zenon
<1>2. ASSUME StartsWith(w, <<c>>) PROVE w[1] = c
  <2>1. PICK hits : hits = Within(w, <<c>>, 1) /\ hits = {i \in 1..Len(w) : w[i] = c}
    BY Hits, Zenon
  <2>2. hits # {} /\ Min(hits) = 1
    BY <1>2, <2>1 DEF StartsWith, Find, FindFrom, npos
  <2>3. hits \subseteq Nat
    BY <2>1
  <2>4. 1 \in hits
    BY <2>2, <2>3, Smallest
  <2> QED  BY <2>1, <2>4, Zenon
<1> QED  BY <1>1, <1>2, Zenon

\* What ends in c, or is nothing, behind a c, ends in c.
EndsIn(w, c) == w # <<>> => Last(w) = c

LEMMA FolderBehind ==
  ASSUME NEW T, NEW d \in Seq(T), NEW c,
         EndsIn(IF StartsWith(d, <<c>>) THEN From(d, 2) ELSE d, c)
  PROVE  EndsIn(d, c)
<1> USE DEF EndsIn
<1>1. CASE d = <<>>
  BY <1>1
<1>2. PICK n \in Nat : n = Len(d)
  OBVIOUS
<1>3. CASE ~StartsWith(d, <<c>>)
  BY <1>3, Zenon
<1>4. CASE d # <<>> /\ StartsWith(d, <<c>>)
  <2>1. d[1] = c /\ n > 0
    <3>1. d[1] = c
      BY <1>4, StartsWithPiece, Zenon
    <3>2. n > 0
      BY <1>2, <1>4, EmptySeq
    <3> QED  BY <3>1, <3>2
  <2>2. PICK w : w = From(d, 2) /\ (w # <<>> => Last(w) = c)
    BY <1>4, Zenon
  <2>3. CASE n = 1
    BY <1>2, <2>1, <2>3, Zenon DEF Last
  <2>4. CASE n > 1
    <3>1. /\ 2 \in Nat /\ n \in Nat /\ 2 <= n + 1 /\ (n - 2 + 1) \in 1..(n - 2 + 1)
          /\ 2 + (n - 2 + 1) - 1 = n /\ n - 2 + 1 > 0
      BY <1>2, <2>4
    <3>2. w = SubSeq(d, 2, n)
      BY <1>2, <2>2, Zenon DEF From
    <3>3. \A i \in 2..n : d[i] \in T
      BY <1>2
    <3>4. w \in Seq(T) /\ Len(w) = n - 2 + 1 /\ w[n - 2 + 1] = d[n]
      BY <1>2, <2>4, <3>2
    <3>5. w # <<>>
      BY <3>1, <3>4
    <3> QED  BY <1>2, <2>2, <3>4, <3>5, Zenon DEF Last
  <2> QED  BY <1>2, <2>1, <2>3, <2>4
<1> QED  BY <1>1, <1>3, <1>4

\* A request ends the process only if it is for a folder and no location
\* matches it, so none whose path begins with "/" does where "/" is a location.
THEOREM DiesOnlyWithoutLocation == Spec => []DiesOnlyUnmatched
<1>1. ASSUME IInv PROVE DiesOnlyUnmatched
  <2>1. SUFFICES ASSUME ~alive
                 PROVE  /\ Owner(sent.path) = {}
                        /\ urlDecode(sent.path) # <<>> => Last(urlDecode(sent.path)) = "/"
                        /\ \A l \in ToSet(config.locations) :
                             l.location = <<"/">> => sent.path = <<>> \/ sent.path[1] # "/"
    BY Zenon DEF DiesOnlyUnmatched
  <2>2. PICK q \in DOMAIN Requests :
          /\ q = exchange.sent /\ request[q].ok
          /\ dereferencesNull(locationConfig(q), request[q].path)
    BY <1>1, <2>1, Zenon DEF IInv, FatalRequest
  <2>3. config \in Servers
    BY <1>1, TypeParts DEF IInv
  <2>4. PICK path \in Seq(STRING) :
          path = sent.path /\ path = Requests[q].path /\ path = request[q].path
    <3>1. Requests[q].path \in Seq(STRING)
      BY HttpAssumption DEF ToSet, RequestOK
    <3>2. request[q].path = Requests[q].path
      BY <2>2, RequestsRead, Zenon DEF ReadAsSent
    <3> QED  BY <2>2, <3>1, <3>2, Zenon DEF sent
  <2>5. locationConfig(q) = NULL /\ namesFolder(belowLocation(NULL, path))
    BY <2>2, <2>4, Zenon DEF dereferencesNull
  <2>6. Owner(path) = {}
    BY <2>2, <2>3, <2>4, <2>5, RulesOfTheFound, Zenon
  <2>7. PICK c : c = "/"
    BY Zenon
  <2>8. PICK d \in Seq(Sign) : d = urlDecode(path)
    BY DecodedIsText
  <2>9. EndsIn(d, c)
    <3>1. PICK w : w = IF StartsWith(d, <<c>>) THEN From(d, Len(<<c>>) + 1) ELSE d
      OBVIOUS
    <3>2. EndsIn(w, c)
      BY <2>5, <2>7, <2>8, <3>1, Zenon DEF belowLocation, namesFolder, EndsIn
    <3>3. Len(<<c>>) + 1 = 2
      OBVIOUS
    <3>4. w = IF StartsWith(d, <<c>>) THEN From(d, 2) ELSE d
      BY ONLY <3>1, <3>3
    <3> QED  BY <3>2, <3>4, FolderBehind, Zenon
  <2>10. ASSUME NEW l \in ToSet(config.locations), l.location = <<c>>, path # <<>>, path[1] = c
         PROVE  FALSE
    <3>1. StartsWith(path, l.location)
      BY <2>10, BeginsWithSlash, Zenon
    <3>2. findLocationForPathRequest(config, path) = NULL
      BY <2>2, <2>3, <2>4, <2>5, Zenon DEF locationConfig, located
    <3> QED  BY <2>3, <3>1, <3>2, LongestIsFound
  <2> QED  BY <2>4, <2>6, <2>7, <2>8, <2>9, <2>10, Zenon DEF EndsIn
<1> QED  BY Invariance, <1>1, PTL
-----------------------------------------------------------------------------
(* Where files come and go. *)

\* What a request names is below the root of its location, unless it climbs.
LEMMA BelowRoot ==
  ASSUME RootsAreFolders, NEW s \in Servers, NEW l, l = NULL \/ l \in ToSet(s.locations),
         NEW path \in Seq(STRING), ~dereferencesNull(l, path),
         Up \notin ToSet(namesOf(buildResourcePath(s, l, path)))
  PROVE  IsPrefix(Components(rootOf(s, l)), Components(buildResourcePath(s, l, path)))
<1>1. /\ s.root \in Seq(STRING) /\ s.root # <<>> /\ Last(s.root) = "/"
      /\ l # NULL => {l.location, l.root, l.index} \subseteq Seq(STRING)
                     /\ (l.root # <<>> => Last(l.root) = "/")
  BY HttpAssumption DEF RootsAreFolders
<1>2. PICK root : root = rootOf(s, l)
  OBVIOUS
<1>3. root \in Seq(Sign) /\ root # <<>> /\ Last(root) = "/"
  BY <1>1, <1>2, TextsOfSigns DEF rootOf
<1>4. PICK below : below = belowLocation(l, path)
  OBVIOUS
<1>5. below \in Seq(Sign)
  <2>1. PICK d \in Seq(Sign) : d = urlDecode(path)
    BY DecodedIsText
  <2>2. PICK prefix : prefix = IF l = NULL THEN <<"/">> ELSE l.location
    OBVIOUS
  <2>3. Len(prefix) \in Nat
    <3>1. CASE l = NULL
      BY <2>2, <3>1
    <3>2. CASE l # NULL
      BY <1>1, <2>2, <3>2
    <3> QED  BY <3>1, <3>2
  <2>4. below = IF StartsWith(d, prefix) THEN From(d, Len(prefix) + 1) ELSE d
    BY <1>4, <2>1, <2>2, Zenon DEF belowLocation
  <2>5. From(d, Len(prefix) + 1) \in Seq(Sign)
    <3>1. PICK k \in Nat : k = Len(prefix) + 1 /\ k > 0
      BY <2>3
    <3>2. \A i \in k..Len(d) : d[i] \in Sign
      BY <3>1
    <3>3. SubSeq(d, k, Len(d)) \in Seq(Sign)
      BY <3>1, <3>2, SubSeqProperties
    <3> QED  BY <3>1, <3>3, Zenon DEF From
  <2> QED  BY <2>1, <2>4, <2>5, Zenon
<1>6. PICK rest \in Seq(Sign) : buildResourcePath(s, l, path) = root \o rest
  <2> DEFINE index == indexOf(l)
             has == namesFolder(below) /\ l.cgi_extension = <<>> /\ isFileExisting(root \o below \o index)
             indexed == IF has THEN below \o index ELSE below
  <2>1. has => index \in Seq(Sign)
    <3>1. <<"index", ".", "html">> \in Seq(Sign)
      <4>1. "index" \in Sign /\ "." \in Sign /\ "html" \in Sign
        BY Signs, Zenon
      <4> QED  BY <4>1
    <3>2. has => l # NULL
      BY <1>4, Zenon DEF dereferencesNull
    <3> QED  BY <1>1, <3>1, <3>2, TextsOfSigns DEF indexOf
  <2>2. indexed \in Seq(Sign)
    BY <1>5, <2>1, ConcatProperties, Zenon
  <2>3. buildResourcePath(s, l, path) =
          IF root # <<>> /\ Last(root) = "/" /\ indexed # <<>> /\ indexed[1] = "/"
          THEN root \o Tail(indexed) ELSE root \o indexed
    BY <1>2, <1>4, Zenon DEF buildResourcePath
  <2> HIDE DEF indexed
  <2>4. indexed # <<>> => Tail(indexed) \in Seq(Sign)
    BY <2>2, HeadTailProperties
  <2> QED  BY <2>2, <2>3, <2>4, Zenon
<1>7. PICK ns, ms \in Seq(Seq(Sign)) : ns = namesOf(root) /\ ms = namesOf(rest)
  BY <1>3, NamesAreTexts, Zenon
<1>8. namesOf(root \o rest) = ns \o ms
  BY <1>3, <1>7, NamesOfPath, Zenon
<1>9. Up \notin ToSet(ns)
  <2>1. Up \notin ToSet(ns \o ms)
    BY <1>6, <1>8, Zenon
  <2>2. ToSet(ns) \subseteq ToSet(ns \o ms)
    <3>1. PICK k, m \in Nat : k = Len(ns) /\ m = Len(ms)
      OBVIOUS
    <3>2. PICK s2 : s2 = ns \o ms /\ Joint(s2, ns, ms)
      BY JointConcat, Zenon
    <3>3. Len(s2) = k + m /\ \A i \in 1..k : s2[i] = ns[i]
      BY <3>1, <3>2, Zenon DEF Joint
    <3>4. \A i \in 1..k : i \in 1..(k + m)
      OBVIOUS
    <3>5. DOMAIN ns = 1..k /\ DOMAIN s2 = 1..(k + m)
      <4>1. s2 \in Seq(Seq(Sign))
        BY <3>2, JointConcat, Zenon
      <4> QED  BY ONLY <3>1, <3>3, <4>1, ns \in Seq(Seq(Sign))
    <3> QED  BY <3>2, <3>3, <3>4, <3>5, Zenon DEF ToSet
  <2> QED  BY <2>1, <2>2, Zenon
<1>10. Components(root) = ns
  BY <1>3, <1>7, <1>9, PlainComponents, Zenon
<1>11. Components(root \o rest) = ns \o ms
  <2>1. root \o rest \in Seq(Sign)
    BY <1>3, JointConcat, Zenon
  <2> QED  BY <1>6, <1>8, <2>1, PlainComponents, Zenon
<1> QED  BY <1>2, <1>6, <1>7, <1>10, <1>11, ConcatHasPrefix, Zenon
-----------------------------------------------------------------------------
(* The name of an upload. *)

Named(w) == w \in Seq(Sign) /\ w # <<>> /\ \A i \in 1..Len(w) : w[i] # "/"

\* Behind the last "/" of a text there is none.
LEMMA BehindTheLast ==
  ASSUME NEW T, NEW s \in Seq(T), NEW k, k = FindLast(s, <<"/">>)
  PROVE  k \in Nat /\ \A i \in (k + 1)..Len(s) : s[i] # "/"
<1>1. Len(s) \in Nat
  OBVIOUS
<1>2. PICK hits : hits = Within(s, <<"/">>, 1)
  OBVIOUS
<1>3. hits = {i \in 1..Len(s) : s[i] = "/"}
  <2>1. Len(<<"/">>) = 1
    OBVIOUS
  <2>2. \A i \in 1..Len(s) : SubSeq(s, i, i + 1 - 1) = <<s[i]>>
    <3> TAKE i \in 1..Len(s)
    <3>1. PICK c, w : c = s[i] /\ w = SubSeq(s, i, i)
      OBVIOUS
    <3>2. w \in Seq(T) /\ Len(w) = 1 /\ w[1] = c
      BY <3>1
    <3>3. w = <<c>>
      BY <3>2
    <3>4. i + 1 - 1 = i
      OBVIOUS
    <3> QED  BY <3>1, <3>3, <3>4, Zenon
  <2>3. \A i \in 1..Len(s) : SubSeq(s, i, i + 1 - 1) = <<"/">> <=> s[i] = "/"
    <3> TAKE i \in 1..Len(s)
    <3>1. PICK c : c = s[i]
      OBVIOUS
    <3>2. <<c>> = <<"/">> <=> c = "/"
      <4>1. <<c>>[1] = c /\ <<"/">>[1] = "/"
        OBVIOUS
      <4> QED  BY <4>1, Zenon
    <3> QED  BY <2>2, <3>1, <3>2, Zenon
  <2>4. hits = {i \in 1..(Len(s) - 1 + 1) : SubSeq(s, i, i + 1 - 1) = <<"/">>}
    BY <1>2, <2>1, Zenon DEF Within
  <2>5. Len(s) - 1 + 1 = Len(s)
    BY <1>1
  <2>6. hits = {i \in 1..Len(s) : SubSeq(s, i, i + 1 - 1) = <<"/">>}
    BY <2>4, <2>5, Zenon
  <2> QED  BY <2>3, <2>6, Zenon
<1>4. CASE hits = {}
  <2>1. k = 0
    BY <1>2, <1>4, Zenon DEF FindLast, npos
  <2> QED  BY <1>3, <1>4, <2>1
<1>5. CASE hits # {}
  <2>1. k = Max(hits)
    BY <1>2, <1>5, Zenon DEF FindLast
  <2>2. hits \subseteq 0..Len(s)
    BY <1>3
  <2>3. k \in hits /\ \A y \in hits : y <= k
    BY <1>1, <1>5, <2>1, <2>2, Largest, Zenon
  <2>4. k \in Nat
    BY <1>3, <2>3
  <2>5. ASSUME NEW i \in (k + 1)..Len(s), s[i] = "/" PROVE FALSE
    <3>1. i \in 1..Len(s) /\ ~(i <= k)
      BY <1>1, <2>4
    <3> QED  BY <1>3, <2>3, <2>5, <3>1, Zenon
  <2> QED  BY <2>4, <2>5, Zenon
<1> QED  BY <1>4, <1>5

LEMMA DotWithin ==
  ASSUME NEW T, NEW s \in Seq(T), NEW p
  PROVE  FindLast(s, <<p>>) \in Nat /\ FindLast(s, <<p>>) <= Len(s)
<1>1. PICK hits : hits = Within(s, <<p>>, 1)
  OBVIOUS
<1>2. Len(s) \in Nat /\ Len(<<p>>) = 1
  OBVIOUS
<1>3. hits \subseteq 0..Len(s)
  BY <1>1, <1>2 DEF Within
<1>4. CASE hits = {}
  <2>1. FindLast(s, <<p>>) = 0
    BY <1>1, <1>4, Zenon DEF FindLast, npos
  <2> QED  BY <1>2, <2>1
<1>5. CASE hits # {}
  <2>1. PICK k : k = FindLast(s, <<p>>) /\ k = Max(hits)
    BY <1>1, <1>5, Zenon DEF FindLast
  <2>2. k \in hits
    BY <1>2, <1>3, <1>5, <2>1, Largest, Zenon
  <2>3. k \in Nat /\ k <= Len(s)
    BY <1>2, <1>3, <2>2
  <2> QED  BY <2>1, <2>3, Zenon
<1> QED  BY <1>4, <1>5

\* A part of a text, and that a "/" it has is one of the text.
LEMMA PartOfText ==
  ASSUME NEW T, NEW s \in Seq(T), NEW m \in Nat, NEW n \in Int, 1 <= m, n <= Len(s)
  PROVE  LET w == SubSeq(s, m, n)
         IN  /\ w \in Seq(T)
             /\ m <= n => Len(w) = n - m + 1
             /\ n < m => w = <<>>
             /\ \A i \in 1..Len(w) : m + i - 1 \in m..n /\ w[i] = s[m + i - 1]
<1>1. \A i \in m..n : s[i] \in T
  OBVIOUS
<1>2. PICK w : w = SubSeq(s, m, n)
  OBVIOUS
<1>3. /\ w \in Seq(T) /\ Len(w) = IF m <= n THEN n - m + 1 ELSE 0
      /\ \A i \in 1..(n - m + 1) : w[i] = s[m + i - 1]
  BY <1>1, <1>2, SubSeqProperties
<1>4. n < m => w = <<>>
  BY <1>2, SubSeqEmpty
<1>5. \A i \in 1..Len(w) : m + i - 1 \in m..n /\ i \in 1..(n - m + 1)
  BY <1>3
<1>6. m <= n => Len(w) = n - m + 1
  BY <1>3
<1>7. \A i \in 1..Len(w) : m + i - 1 \in m..n /\ w[i] = s[m + i - 1]
  BY <1>3, <1>5, Zenon
<1> QED  BY <1>2, <1>3, <1>4, <1>6, <1>7, Zenon

LEMMA FilenameIsNamed ==
  ASSUME NEW path \in Seq(Sign)
  PROVE  Named(extractFilenameFromPath(path))
<1>1. PICK slash : slash = FindLast(path, <<"/">>)
  OBVIOUS
<1>2. slash \in Nat /\ \A i \in (slash + 1)..Len(path) : path[i] # "/"
  BY <1>1, BehindTheLast, Zenon
<1>3. CASE slash # npos /\ slash < Len(path)
  <2>1. PICK w : w = SubSeq(path, slash + 1, Len(path))
    OBVIOUS
  <2>2. extractFilenameFromPath(path) = w
    BY <1>1, <1>3, <2>1, Zenon DEF extractFilenameFromPath, From
  <2>3. PICK m \in Nat : m = slash + 1 /\ 1 <= m /\ m <= Len(path) /\ Len(path) \in Int
    BY <1>2, <1>3
  <2>4. /\ w \in Seq(Sign) /\ Len(w) = Len(path) - m + 1
        /\ \A i \in 1..Len(w) : m + i - 1 \in m..Len(path) /\ w[i] = path[m + i - 1]
    BY <2>1, <2>3, PartOfText
  <2>5. w # <<>>
    BY <2>3, <2>4
  <2>6. \A i \in 1..Len(w) : w[i] # "/"
    BY <1>2, <2>3, <2>4, Zenon
  <2> QED  BY <2>2, <2>4, <2>5, <2>6, Zenon DEF Named
<1>4. CASE ~(slash # npos /\ slash < Len(path))
  <2>1. extractFilenameFromPath(path) = <<"upload", ".", "data">>
    BY <1>1, <1>4, Zenon DEF extractFilenameFromPath
  <2>2. PICK a, b, c \in Sign : a = "upload" /\ b = "." /\ c = "data"
    BY Signs, Zenon
  <2>3. a # "/" /\ b # "/" /\ c # "/"
    BY <2>2
  <2>4. Named(<<a, b, c>>)
    BY <2>3 DEF Named
  <2> QED  BY <2>1, <2>2, <2>4, Zenon
<1> QED  BY <1>3, <1>4

\* What operator<< prints of a number has no "/": the provers know nothing of
\* ToString.
NumeralsHaveNoSlash == \A k \in Nat : ToString(k) # "/"

LEMMA NamedJoined ==
  ASSUME NEW x, NEW y, x \in Seq(Sign), y \in Seq(Sign),
         \A i \in 1..Len(x) : x[i] # "/", \A i \in 1..Len(y) : y[i] # "/"
  PROVE  x \o y \in Seq(Sign) /\ \A i \in 1..Len(x \o y) : (x \o y)[i] # "/"
<1>1. PICK s \in Seq(Sign) : s = x \o y /\ Joint(s, x, y)
  BY JointConcat, Zenon
<1>2. /\ Len(x) \in Nat /\ Len(y) \in Nat /\ Len(s) = Len(x) + Len(y)
      /\ \A i \in 1..Len(x) : s[i] = x[i]
      /\ \A i \in 1..Len(y) : s[Len(x) + i] = y[i]
  <2>1. Len(x) \in Nat /\ Len(y) \in Nat
    OBVIOUS
  <2> QED  BY <1>1, <2>1, Zenon DEF Joint
<1>3. ASSUME NEW i \in 1..Len(s) PROVE s[i] # "/"
  <2>1. CASE i <= Len(x)
    <3>1. i \in 1..Len(x)
      BY <2>1
    <3> QED  BY <1>2, <3>1, Zenon
  <2>2. CASE ~(i <= Len(x))
    <3>1. PICK j \in 1..Len(y) : i = Len(x) + j
      <4>1. i - Len(x) \in 1..Len(y) /\ i = Len(x) + (i - Len(x))
        BY <1>2, <2>2
      <4> QED  BY <4>1
    <3> QED  BY <1>2, <3>1, Zenon
  <2> QED  BY <2>1, <2>2
<1> QED  BY <1>1, <1>3, Zenon

\* Whatever a upload asks for, the name it gets is one.
LEMMA UniqueIsNamed ==
  ASSUME NumeralsHaveNoSlash, NEW dir, NEW w, Named(w), isFileExisting(dir \o <<"/">> \o w),
         NEW name \in makeUniqueFilename(dir, w)
  PROVE  Named(name)
<1> DEFINE dot == FindLast(w, <<".">>)
           base == Before(w, dot)
           extension == IF dot = npos THEN <<>> ELSE From(w, dot)
           candidate(k) == IF k = 0 THEN w ELSE base \o <<"_", ToString(k)>> \o extension
<1>1. PICK k \in Nat : name = candidate(k) /\ ~isFileExisting(dir \o <<"/">> \o candidate(k))
  <2>1. \A n : n \in 0..Cardinality(DOMAIN files \cup dirs) => n \in Nat
    OBVIOUS
  <2> QED  BY <2>1, Zenon DEF makeUniqueFilename
<1>2. k # 0
  BY <1>1, Zenon
<1>3. name = base \o <<"_", ToString(k)>> \o extension
  BY <1>1, <1>2, Zenon
<1>4. w \in Seq(Sign) /\ Len(w) \in Nat /\ \A i \in 1..Len(w) : w[i] # "/"
  BY EmptySeq DEF Named
<1>5. dot \in Nat /\ dot <= Len(w)
  BY <1>4, DotWithin, Zenon
<1>6. base \in Seq(Sign) /\ \A i \in 1..Len(base) : base[i] # "/"
  <2>1. CASE dot = npos
    BY <1>4, <2>1, Zenon DEF Before
  <2>2. CASE dot # npos
    <3>1. PICK b : b = SubSeq(w, 1, dot - 1)
      OBVIOUS
    <3>2. base = b
      BY <2>2, <3>1, Zenon DEF Before
    <3>3. dot - 1 \in Int /\ dot - 1 <= Len(w) /\ 1 \in Nat /\ 1 <= 1
      BY <1>4, <1>5
    <3>4. b \in Seq(Sign) /\ \A i \in 1..Len(b) : 1 + i - 1 \in 1..(dot - 1) /\ b[i] = w[1 + i - 1]
      <4>1. PICK m, n : m = 1 /\ n = dot - 1
        OBVIOUS
      <4>2. /\ SubSeq(w, m, n) \in Seq(Sign)
            /\ \A i \in 1..Len(SubSeq(w, m, n)) : m + i - 1 \in m..n /\ SubSeq(w, m, n)[i] = w[m + i - 1]
        <5>1. m \in Nat /\ n \in Int /\ 1 <= m /\ n <= Len(w)
          BY <3>3, <4>1, Zenon
        <5> QED  BY <1>4, <5>1, PartOfText, Zenon
      <4> QED  BY <3>1, <4>1, <4>2, Zenon
    <3>5. \A i \in 1..(dot - 1) : i \in 1..Len(w)
      BY <1>4, <1>5
    <3> QED  BY <1>4, <3>2, <3>4, <3>5, Zenon
  <2> QED  BY <2>1, <2>2
<1>7. extension \in Seq(Sign) /\ \A i \in 1..Len(extension) : extension[i] # "/"
  <2>1. CASE dot = npos
    <3>1. <<>> \in Seq(Sign) /\ \A i \in 1..Len(<<>>) : FALSE
      OBVIOUS
    <3> QED  BY <2>1, <3>1, Zenon
  <2>2. CASE dot # npos
    <3>1. PICK b : b = SubSeq(w, dot, Len(w))
      OBVIOUS
    <3>2. extension = b
      BY <2>2, <3>1, Zenon DEF From
    <3>3. 1 <= dot /\ Len(w) \in Int /\ Len(w) <= Len(w)
      BY <1>4, <1>5, <2>2 DEF npos
    <3>4. b \in Seq(Sign) /\ \A i \in 1..Len(b) : dot + i - 1 \in dot..Len(w) /\ b[i] = w[dot + i - 1]
      BY <1>4, <1>5, <3>1, <3>3, PartOfText, Zenon
    <3>5. \A i \in dot..Len(w) : i \in 1..Len(w)
      BY <1>4, <1>5, <3>3
    <3> QED  BY <1>4, <3>2, <3>4, <3>5, Zenon
  <2> QED  BY <2>1, <2>2
<1> HIDE DEF base, extension, dot
<1>8. PICK u, v \in Sign : u = "_" /\ v = ToString(k)
  BY Signs, Zenon
<1>9. PICK t : t = <<u, v>>
  OBVIOUS
<1>10. t \in Seq(Sign) /\ Len(t) = 2 /\ \A i \in 1..Len(t) : t[i] # "/"
  <2>0. "_" # "/"
    OBVIOUS
  <2>1. u # "/"
    BY <1>8, <2>0, Zenon
  <2>2. v # "/"
    BY <1>8, Zenon DEF NumeralsHaveNoSlash
  <2> QED  BY <1>9, <2>1, <2>2
<1>11. base \o t \in Seq(Sign) /\ \A i \in 1..Len(base \o t) : (base \o t)[i] # "/"
  BY <1>6, <1>10, NamedJoined, Zenon
<1>12. PICK s : s = base \o t
  OBVIOUS
<1>13. s \o extension \in Seq(Sign) /\ \A i \in 1..Len(s \o extension) : (s \o extension)[i] # "/"
  BY <1>7, <1>11, <1>12, NamedJoined, Zenon
<1>14. s \o extension # <<>>
  <2>1. Len(s) >= 2 /\ s \in Seq(Sign)
    <3>1. PICK b \in Seq(Sign) : b = base
      BY <1>6, Zenon
    <3>2. Len(b \o t) = Len(b) + Len(t) /\ Len(b) \in Nat /\ b \o t \in Seq(Sign)
      <4>1. Len(b) \in Nat
        OBVIOUS
      <4> QED  BY <1>10, <4>1, ConcatProperties, Zenon
    <3>3. s = b \o t
      BY <1>12, <3>1, Zenon
    <3> QED  BY <1>10, <3>2, <3>3
  <2>2. Len(s \o extension) = Len(s) + Len(extension) /\ Len(extension) \in Nat
    BY <1>7, <2>1, ConcatProperties
  <2> QED  BY <2>1, <2>2
<1> QED  BY <1>3, <1>8, <1>9, <1>12, <1>13, <1>14, Zenon DEF Named

LEMMA FormNamesText ==
  ASSUME NEW body \in Seq(Sign)
  PROVE  extractFilenameFromMultipartBody(body) \in Seq(Sign)
<1>1. PICK key, end, n : /\ key = Find(body, <<"filename=", "QUOTE">>)
                         /\ end = FindFrom(body, <<"QUOTE">>, key + 2) /\ n = Len(body)
  OBVIOUS
<1>2. extractFilenameFromMultipartBody(body)
        = IF key = npos \/ end = npos THEN <<>> ELSE SubSeq(body, key + 2, end - 1)
  BY <1>1, Zenon DEF extractFilenameFromMultipartBody
<1>3. <<>> \in Seq(Sign)
  OBVIOUS
<1>4. ASSUME key # npos, end # npos PROVE SubSeq(body, key + 2, end - 1) \in Seq(Sign)
  <2>1. key \in Nat /\ key > 0
    <3>1. PICK hits : hits = Within(body, <<"filename=", "QUOTE">>, 1)
      OBVIOUS
    <3>2. hits # {} /\ key = Min(hits)
      BY <1>1, <1>4, <3>1, Zenon DEF Find, FindFrom
    <3>3. hits \subseteq Nat /\ \A i \in hits : i > 0
      BY <3>1 DEF Within
    <3> QED  BY <3>2, <3>3, Smallest
  <2>2. end \in Nat /\ end <= n
    <3>1. PICK hits : hits = Within(body, <<"QUOTE">>, key + 2)
      OBVIOUS
    <3>2. hits # {} /\ end = Min(hits)
      BY <1>1, <1>4, <3>1, Zenon DEF FindFrom
    <3>3. Len(<<"QUOTE">>) = 1 /\ n \in Nat
      BY <1>1
    <3>4. hits \subseteq Nat /\ \A i \in hits : i <= n
      BY <1>1, <2>1, <3>1, <3>3 DEF Within
    <3> QED  BY <3>2, <3>4, Smallest
  <2>3. PICK a \in Nat, b \in Int : a = key + 2 /\ b = end - 1 /\ 1 <= a /\ b <= Len(body)
    <3>1. key + 2 \in Nat /\ end - 1 \in Int /\ 1 <= key + 2 /\ end - 1 <= Len(body)
      BY <1>1, <2>1, <2>2
    <3> QED  BY <3>1, Zenon
  <2>4. SubSeq(body, a, b) \in Seq(Sign)
    BY <2>3, PartOfText, Zenon
  <2> QED  BY <2>3, <2>4, Zenon
<1> QED  BY <1>2, <1>3, <1>4, Zenon

LEMMA UploadIsNamed ==
  ASSUME NumeralsHaveNoSlash, NEW l, NEW r, r.path \in Seq(Sign), r.body \in Seq(Sign),
         NEW filename \in uploadNames(l, r)
  PROVE  Named(filename)
<1>1. PICK w : w = extractFilenameFromPath(
                     r.path \o extractFilenameFromMultipartBody(r.body))
  OBVIOUS
<1>2. PICK x, y \in Seq(Sign) : x = r.path /\ y = extractFilenameFromMultipartBody(r.body)
  BY FormNamesText, Zenon
<1>3. x \o y \in Seq(Sign)
  BY ConcatProperties
<1>4. Named(w)
  BY <1>1, <1>2, <1>3, FilenameIsNamed, Zenon
<1>5. filename \in IF isFileExisting(l.upload_store \o <<"/">> \o w)
                   THEN makeUniqueFilename(l.upload_store, w) ELSE {w}
  BY <1>1, Zenon DEF uploadNames
<1>6. CASE isFileExisting(l.upload_store \o <<"/">> \o w)
  BY <1>4, <1>5, <1>6, UniqueIsNamed, Zenon
<1>7. CASE ~isFileExisting(l.upload_store \o <<"/">> \o w)
  BY <1>4, <1>5, <1>7
<1> QED  BY <1>6, <1>7, Zenon

LEMMA Appended ==
  ASSUME NEW T, NEW x \in Seq(T), NEW w \in T
  PROVE  Front(x \o <<w>>) = x /\ Last(x \o <<w>>) = w
<1>1. <<w>> \in Seq(T) /\ Len(<<w>>) = 1 /\ <<w>>[1] = w /\ 1 \in 1..1
  OBVIOUS
<1>2. PICK s \in Seq(T) : s = x \o <<w>> /\ Joint(s, x, <<w>>)
  BY <1>1, JointConcat, Zenon
<1>3. PICK n \in Nat : n = Len(x)
  OBVIOUS
<1>4. Len(s) = n + 1 /\ s[n + 1] = w /\ \A i \in 1..n : s[i] = x[i]
  BY <1>1, <1>2, <1>3, Zenon DEF Joint
<1>5. SameText(s, 1, n, x, 1, n)
  <2>1. /\ 0 \in Nat /\ 1 \in Nat /\ n \in Int /\ 1 <= 1 /\ n <= Len(x) /\ 1 <= n + 1
        /\ n + 0 <= Len(s) /\ 1 + 0 = 1 /\ n + 0 = n
    BY <1>3, <1>4
  <2>2. \A i \in 1..n : i + 0 = i
    OBVIOUS
  <2>3. \A i \in 1..n : s[i + 0] = x[i]
    BY <1>4, <2>2, Zenon
  <2>4. SameText(s, 1 + 0, n + 0, x, 1, n)
    BY <2>1, <2>3, SameElements, Zenon
  <2> QED  BY <2>1, <2>4, Zenon
<1>6. SubSeq(x, 1, n) = x
  BY <1>3, SubSeqFull, Zenon
<1>7. Len(s) - 1 = n
  BY <1>4
<1>8. Front(s) = x
  BY <1>5, <1>6, <1>7, Zenon DEF Front, SameText
<1>9. Last(s) = w
  BY <1>4, Zenon DEF Last
<1> QED  BY <1>2, <1>8, <1>9, Zenon

\* What an upload writes is in the store itself: ".." is a directory there.
LEMMA WrittenInStore ==
  ASSUME Tree, NEW store \in Seq(Sign), store # <<>>, NEW w, Named(w),
         writable(store \o <<"/">> \o w)
  PROVE  Front(Components(store \o <<"/">> \o w)) = Components(store)
<1>1. "/" \in Sign
  BY Signs, Zenon
<1>2. ASSUME w = <<".">> PROVE FALSE
  <2>1. PICK x \in Seq(Sign) : x = store \o <<"/">> /\ x # <<>> /\ Last(x) = "/"
    <3>1. <<"/">> \in Seq(Sign) /\ Last(store \o <<"/">>) = "/"
      BY <1>1, OneSign, Appended, Zenon
    <3>2. Len(store \o <<"/">>) = Len(store) + Len(<<"/">>) /\ store \o <<"/">> \in Seq(Sign)
      BY <3>1, ConcatProperties, Zenon
    <3>3. Len(store) \in Nat /\ Len(<<"/">>) = 1 /\ Len(<<>>) = 0
      OBVIOUS
    <3>4. Len(store \o <<"/">>) # Len(<<>>)
      BY <3>2, <3>3
    <3> QED  BY <3>1, <3>2, <3>4, Zenon
  <2>2. w \in Seq(Sign) /\ w # <<>> /\ \A i \in 1..Len(w) : w[i] \notin {"/"}
    BY DEF Named
  <2>3. Len(x) > 0 /\ x[Len(x)] \in {"/"}
    BY <2>1, EmptySeq DEF Last
  <2>4. PartsSplit(x, w, {"/"})
    BY <2>2, <2>3, PartsOfConcat, Zenon
  <2>5. Parts(w, {"/"}) = <<w>>
    BY <2>2, OnePart, Zenon
  <2>6. PICK ps \in Seq(Seq(Sign)) : ps = getlines(x, "/")
    BY PartsOfPath, Zenon
  <2>7. getlines(x \o w, "/") = ps \o <<w>>
    BY <2>4, <2>5, <2>6, Zenon DEF PartsSplit, getlines
  <2>8. Last(ps \o <<w>>) = w
    BY <2>2, Appended, Zenon
  <2> QED  BY <1>2, <2>1, <2>7, <2>8, Zenon DEF writable, endsInDot
<1>3. IsName(Sign, w)
  BY <1>2, Zenon DEF IsName, Named
<1>4. PICK d \in Seq(Seq(Sign)) : d = Components(store)
  BY ComponentsAreNames, Zenon
<1>5. PICK n : n = Components(store \o <<"/">> \o w) /\ n = Entered(dirs, d, w)
  BY <1>1, <1>3, <1>4, ComponentsOfNamed, Zenon
<1>6. n \notin dirs
  BY <1>5, Zenon DEF writable, isDirectory
<1>7. CASE n = Append(d, w)
  <2>1. w \in Seq(Sign)
    BY Zenon DEF Named
  <2>2. Append(d, w) = d \o <<w>>
    BY ONLY <2>1, d \in Seq(Seq(Sign))
  <2>3. Front(n) = d
    BY <1>7, <2>1, <2>2, Appended, Zenon
  <2> QED  BY <1>4, <1>5, <2>3, Zenon
<1>8. CASE d \in dirs /\ n = Front(d)
  BY <1>6, <1>8, Zenon DEF Tree
<1> QED  BY <1>5, <1>7, <1>8, Zenon DEF Entered

\* What a location's rules say of where files may come and go.
InPlace(l) ==
  /\ \A n \in DOMAIN files' \ DOMAIN files : Front(n) = Components(l.upload_store)
  /\ \A n \in (DOMAIN files \cup dirs) \ (DOMAIN files' \cup dirs') :
       \/ IsPrefix(Components(IF l.root = <<>> THEN config.root ELSE l.root), n)
       \/ Climbs(exchange'.sent)

LEMMA UploadInPlace ==
  ASSUME NumeralsHaveNoSlash, Tree, config \in Servers,
         NEW b \in Browsers, NEW q \in DOMAIN Requests, handleUpload(b, q)
  PROVE  \E l \in Rules(sent'.path) : InPlace(l)
<1>1. PICK l : l = locationConfig(q)
  OBVIOUS
<1>2. request[q].ok /\ Allowed(q) /\ checkUploadAllowed(l) /\ dirs' = dirs
  BY <1>1, Zenon DEF handleUpload, Handled
<1>3. l # NULL /\ l.upload_store # <<>>
  BY <1>2, Zenon DEF checkUploadAllowed
<1>4. sent' = Requests[q]
  BY DEF handleUpload, Answer, sent
<1>5. l \in Rules(sent'.path) /\ l \in Owner(Requests[q].path)
  BY <1>1, <1>2, <1>3, <1>4, AllowedByRules, Zenon
<1>6. l.upload_store \in Seq(Sign)
  <2>1. l \in ToSet(config.locations)
    BY <1>5, Zenon DEF Owner, OwnerIn
  <2>2. l.upload_store \in Seq(STRING)
    BY <2>1, HttpAssumption
  <2> QED  BY <2>2, TextsOfSigns, Zenon
<1>7. PICK filename, content :
        /\ filename \in uploadNames(l, request[q])
        /\ files' = IF writable(l.upload_store \o <<"/">> \o filename)
                     THEN written(l.upload_store \o <<"/">> \o filename, content)
                     ELSE files
  BY <1>1, Zenon DEF handleUpload
<1>8. Named(filename)
  <2>1. request[q].path \in Seq(STRING) /\ request[q].body \in Seq(Sign)
    BY <1>2, BodyIsText, RequestsParsed, Zenon DEF ReadAsSent
  <2>2. request[q].path \in Seq(Sign)
    BY <2>1, TextsOfSigns, Zenon
  <2> QED  BY <1>7, <2>1, <2>2, UploadIsNamed, Zenon
<1>9. PICK p : p = l.upload_store \o <<"/">> \o filename
  OBVIOUS
<1>10. writable(p) => Front(Components(p)) = Components(l.upload_store)
  BY <1>3, <1>6, <1>8, <1>9, WrittenInStore, Zenon
<1>11. \A n \in DOMAIN files' \ DOMAIN files : writable(p) /\ n = Components(p)
  <2>1. CASE writable(p)
    <3>1. DOMAIN files' = DOMAIN files \cup {Components(p)}
      BY <1>7, <1>9, <2>1, Zenon DEF written
    <3> QED  BY <2>1, <3>1, Zenon
  <2>2. CASE ~writable(p)
    BY <1>7, <1>9, <2>2, Zenon
  <2> QED  BY <2>1, <2>2, Zenon
<1>12. DOMAIN files \subseteq DOMAIN files'
  <2>1. CASE writable(p)
    BY <1>7, <1>9, <2>1, Zenon DEF written
  <2>2. CASE ~writable(p)
    BY <1>7, <1>9, <2>2, Zenon
  <2> QED  BY <2>1, <2>2, Zenon
<1>13. InPlace(l)
  BY <1>2, <1>10, <1>11, <1>12, Zenon DEF InPlace
<1> QED  BY <1>5, <1>13, Zenon

LEMMA DeleteInPlace ==
  ASSUME RootsAreFolders, config \in Servers,
         NEW b \in Browsers, NEW q \in DOMAIN Requests, handleDeleteRequest(b, q)
  PROVE  \E l \in Rules(sent'.path) : InPlace(l)
<1>1. PICK l, p : l = locationConfig(q) /\ p = resource_path(q)
  OBVIOUS
<1>2. request[q].ok /\ Allowed(q)
  BY Zenon DEF handleDeleteRequest, Handled
<1>3. sent' = Requests[q]
  BY DEF handleDeleteRequest, Answer, sent
<1>4. PICK rules : rules = IF l = NULL THEN config ELSE l
  OBVIOUS
<1>5. rules \in Rules(sent'.path) /\ (l # NULL => l \in Owner(Requests[q].path))
  BY <1>1, <1>2, <1>3, <1>4, AllowedByRules, Zenon
<1>6. l = NULL \/ l \in ToSet(config.locations)
  BY <1>5, Zenon DEF Owner, OwnerIn
<1>7. request[q].path \in Seq(STRING)
  BY <1>2, BodyIsText, RequestsParsed, Zenon DEF ReadAsSent
<1>8. ~dereferencesNull(l, request[q].path)
  BY <1>1, <1>2, Zenon DEF Allowed, Parsed
<1>9. IsPrefix(Components(rootOf(config, l)), Components(p)) \/ Climbs(exchange'.sent)
  <2>1. exchange'.sent = q
    BY DEF handleDeleteRequest, Answer
  <2>2. Up \in ToSet(namesOf(p)) => Climbs(exchange'.sent)
    BY <1>1, <2>1, Zenon DEF Climbs
  <2> QED  BY <1>1, <1>6, <1>7, <1>8, <2>2, BelowRoot, Zenon DEF resource_path
<1>10. rootOf(config, l) = IF rules.root = <<>> THEN config.root ELSE rules.root
  BY <1>4, Zenon DEF rootOf
<1>11. \/ /\ DOMAIN files' = DOMAIN files \ {Components(p)}
          /\ dirs' = dirs \ {Components(p)}
       \/ UNCHANGED <<files, dirs>>
  <2>1. \/ /\ files' = Restrict(files, DOMAIN files \ {Components(p)})
           /\ dirs' = dirs \ {Components(p)}
        \/ UNCHANGED <<files, dirs>>
    BY <1>1, Zenon DEF handleDeleteRequest
  <2>2. DOMAIN Restrict(files, DOMAIN files \ {Components(p)}) = DOMAIN files \ {Components(p)}
    BY Zenon DEF Restrict
  <2> QED  BY <2>1, <2>2, Zenon
<1>12. CASE UNCHANGED <<files, dirs>>
  <2>1. InPlace(rules)
    BY <1>12 DEF InPlace
  <2> QED  BY <1>5, <2>1, Zenon
<1>13. CASE /\ DOMAIN files' = DOMAIN files \ {Components(p)}
            /\ dirs' = dirs \ {Components(p)}
  <2>1. \A n \in (DOMAIN files \cup dirs) \ (DOMAIN files' \cup dirs') : n = Components(p)
    BY <1>13, Zenon
  <2>2. DOMAIN files' \ DOMAIN files = {}
    BY <1>13, Zenon
  <2>3. InPlace(rules)
    BY <1>9, <1>10, <2>1, <2>2, Zenon DEF InPlace
  <2> QED  BY <1>5, <2>3, Zenon
<1> QED  BY <1>11, <1>12, <1>13, Zenon

\* If the roots are folders, files come into the store of the request's
\* location, for the name of an upload has no "/" left; and they go from below
\* its root, where buildResourcePath starts, unless a ".." leads out of it again.
THEOREM PlacesObeyed ==
  ASSUME RootsAreFolders, NumeralsHaveNoSlash
  PROVE  Spec => PlacesAreObeyed
<1> DEFINE Obeyed == \E l \in Rules(sent'.path) : InPlace(l)
<1>1. ASSUME IInv, [Next]_vars PROVE UNCHANGED <<files, dirs>> \/ Obeyed
  <2>0. config \in Servers /\ Tree
    BY <1>1, TypeParts DEF IInv
  <2>1. ASSUME NEW b \in Browsers, NEW q \in DOMAIN Requests, processHttpRequest(b, q)
        PROVE  UNCHANGED <<files, dirs>> \/ Obeyed
    <3>1. CASE handleUpload(b, q)
      BY <2>0, <3>1, UploadInPlace, Zenon
    <3>2. CASE handleDeleteRequest(b, q)
      BY <2>0, <3>2, DeleteInPlace, Zenon
    <3>3. CASE BadRequest(b, q) \/ Segfault(b, q) \/ Refuse(b, q)
      BY <3>3 DEF BadRequest, Segfault, Refuse
    <3>4. CASE handleCgiRequest(b, q)
      BY <3>4, Zenon DEF handleCgiRequest
    <3>5. CASE handleGetRequest(b, q)
      BY <3>5, Zenon DEF handleGetRequest
    <3>6. CASE handlePostRequest(b, q) /\ ~handleUpload(b, q)
      BY <3>6, Zenon DEF handlePostRequest
    <3> QED  BY <2>1, <3>1, <3>2, <3>3, <3>4, <3>5, <3>6, Zenon DEF processHttpRequest
  <2>2. CASE Return \/ Disk \/ UNCHANGED vars
    BY <2>2 DEF Return, Disk, vars
  <2> HIDE DEF Obeyed
  <2> QED  BY <1>1, <2>1, <2>2, Zenon DEF Next
<1> HIDE DEF Obeyed
<1>2. IInv /\ [Next]_vars => [<<files, dirs>>' # <<files, dirs>> => Obeyed]_vars
  BY <1>1
<1> QED  BY Invariance, <1>2, PTL DEF Spec, PlacesAreObeyed, Obeyed, InPlace
-----------------------------------------------------------------------------
(* Files by their names. *)

\* urlDecode undoes encodeURIComponent.
LEMMA DecodesEncoded ==
  ASSUME NEW e \in Seq(STRING), NEW w \in Seq(STRING), Encodes(e, w)
  PROVE  urlDecode(e) = w
<1>1. PICK n \in Nat : n = Len(e) /\ n = Len(w)
  BY DEF Encodes
<1>2. \A p \in Pos : (p \in Past(e) <=> p > n) /\ Following[p] = p + 1 /\ p + 1 \in Pos /\ p + 1 > p
  BY <1>1 DEF Past, Pos, Following
<1>3. PICK g : Walks(g, Pos, Past(e), Decoded(e), Following) /\ urlDecode(e) = g[1]
  BY DecodesPieces, Zenon
<1>4. \A p \in Pos : g[p] = IF p > n THEN <<>> ELSE Decoded(e)[p] \o g[p + 1]
  BY <1>2, <1>3, Zenon DEF Walks
<1> DEFINE S == {p \in Pos : g[p] = SubSeq(w, p, n)}
<1>5. ASSUME NEW p \in Pos, p > n PROVE p \in S
  <2>1. SubSeq(w, p, n) = <<>>
    BY <1>5, SubSeqEmpty DEF Pos
  <2> QED  BY <1>4, <1>5, <2>1, Zenon
<1>6. ASSUME NEW p \in Pos, \A q \in Pos : q > p => q \in S PROVE p \in S
  <2>1. CASE p > n
    BY <1>5, <2>1, Zenon
  <2>2. CASE ~(p > n)
    <3>1. p \in 1..Len(e) /\ p \in 1..Len(w) /\ n \in p..Len(w)
      BY <1>1, <2>2 DEF Pos
    <3>2. IF e[p] \in DOMAIN Escapes THEN Escapes[e[p]] = <<w[p]>> ELSE e[p] = w[p] /\ e[p] # "+"
      <4>1. DOMAIN e = 1..Len(e)
        OBVIOUS
      <4> QED  BY <3>1, <4>1, Zenon DEF Encodes
    <3>3. Decoded(e)[p] = <<w[p]>>
      BY <3>2, Zenon DEF Decoded
    <3>4. g[p + 1] = SubSeq(w, p + 1, n)
      BY <1>2, <1>6, Zenon
    <3>5. SubSeq(w, p, n) = <<w[p]>> \o SubSeq(w, p + 1, n)
      BY <3>1, SubSeqRecursiveFirst
    <3> QED  BY <1>4, <2>2, <3>3, <3>4, <3>5, Zenon
  <2> QED  BY <2>1, <2>2
<1> HIDE DEF S
<1>7. \A p \in Pos : p \in S
  BY <1>5, <1>6, Backwards, Zenon
<1>8. g[1] = SubSeq(w, 1, n) /\ SubSeq(w, 1, n) = w
  <2>1. 1 \in Pos
    BY DEF Pos
  <2>2. SubSeq(w, 1, n) = w
    BY <1>1, SubSeqFull, Zenon
  <2> QED  BY <1>7, <2>1, <2>2, Zenon DEF S
<1> QED  BY <1>3, <1>8, Zenon

\* Behind a folder, the last part of a path is the name.
LEMMA LastPart ==
  ASSUME NEW T, NEW x \in Seq(T), x # <<>>, Last(x) = "/", NEW w, IsName(T, w)
  PROVE  Last(getlines(x \o w, "/")) = w
<1>1. w \in Seq(T) /\ w # <<>> /\ \A i \in 1..Len(w) : w[i] \notin {"/"}
  BY DEF IsName
<1>2. Len(x) > 0 /\ x[Len(x)] \in {"/"}
  BY EmptySeq DEF Last
<1>3. PartsSplit(x, w, {"/"})
  BY <1>1, <1>2, PartsOfConcat, Zenon
<1>4. Parts(w, {"/"}) = <<w>>
  BY <1>1, OnePart, Zenon
<1>5. PICK ps \in Seq(Seq(T)) : ps = getlines(x, "/")
  BY PartsOfPath, Zenon
<1>6. getlines(x \o w, "/") = ps \o <<w>>
  BY <1>3, <1>4, <1>5, Zenon DEF PartsSplit, getlines
<1> QED  BY <1>1, <1>6, Appended, Zenon

\* A location that a path belongs to is the only one.
LEMMA OneOwner ==
  ASSUME NEW s \in Servers, NEW path, NEW l \in OwnerIn(s, path), NEW k \in OwnerIn(s, path)
  PROVE  l = k
<1>1. l \in ToSet(s.locations) /\ k \in ToSet(s.locations)
  BY Zenon DEF OwnerIn
<1>2. IsPrefix(k.location, l.location) /\ IsPrefix(l.location, k.location)
  BY Zenon DEF OwnerIn
<1>3. l.location \in Seq(STRING) /\ k.location \in Seq(STRING)
  BY <1>1, HttpAssumption
<1>4. PICK x \in Seq(STRING), y \in Seq(STRING) : x = l.location /\ y = k.location
  BY <1>3, Zenon
<1>5. /\ Len(x) <= Len(y) /\ SubSeq(x, 1, Len(x)) = SubSeq(y, 1, Len(x))
      /\ Len(y) <= Len(x) /\ SubSeq(y, 1, Len(y)) = SubSeq(x, 1, Len(y))
  BY <1>2, <1>4, Zenon DEF IsPrefix
<1>6. Len(x) = Len(y)
  BY <1>5
<1>7. SubSeq(x, 1, Len(x)) = x /\ SubSeq(y, 1, Len(y)) = y
  BY SubSeqFull, Zenon
<1>8. x = y
  BY <1>5, <1>6, <1>7, Zenon
<1> QED  BY <1>1, <1>4, <1>8, HttpAssumption, Zenon

\* What the handler makes of a request that names a file.
NamesIt(q, l, p) ==
  /\ l \in Owner(Requests[q].path) /\ l.return_code = 0 /\ l.cgi_extension = <<>>
  /\ Len(BodyOf(Requests[q])) <= l.client_max_body_size
  /\ NamedFile(Requests[q]) = {Components(p)}
  /\ p # <<>> /\ Last(p) # "/" /\ ~endsInDot(p)
  /\ Find(p, SessionStats) = npos

\* The file that q names is the one that buildResourcePath arrives at.
LEMMA NamedIsFound ==
  ASSUME RootsAreFolders, NamesAreEncoded, config \in Servers,
         NEW q \in DOMAIN Requests, Requests[q].named # <<>>, locationConfig(q) # NULL
  PROVE  NamesIt(q, locationConfig(q), resource_path(q))
<1>1. PICK r, l, w : r = Requests[q] /\ l = locationConfig(q) /\ w = r.named
  OBVIOUS
<1>2. /\ request[q].ok /\ request[q].path = r.path
      /\ AFileName(w) /\ w # <<".">> /\ w # Up
  BY <1>1, RequestsParsed, Zenon DEF ReadAsSent, NamesAreEncoded
<1>3. l \in OwnerIn(config, r.path) /\ l # NULL
  BY <1>1, <1>2, RulesOfTheFound, RequestsParsed, Zenon DEF ReadAsSent, Owner
<1>4. /\ Encodes(r.path, l.location \o w)
      /\ l.return_code = 0 /\ l.cgi_extension = <<>>
      /\ Len(BodyOf(r)) <= l.client_max_body_size
      /\ Find(rootOf(config, l) \o w, SessionStats) = npos
  BY <1>1, <1>3, Zenon DEF NamesAreEncoded
<1>5. l \in ToSet(config.locations)
  BY <1>3, Zenon DEF OwnerIn
<1>6. /\ l.location \in Seq(STRING) /\ l.root \in Seq(STRING) /\ config.root \in Seq(STRING)
      /\ config.root # <<>> /\ Last(config.root) = "/"
      /\ l.root # <<>> => Last(l.root) = "/"
  BY <1>5, HttpAssumption DEF RootsAreFolders
<1>7. r.path \in Seq(STRING) /\ w \in Seq(STRING)
  BY <1>1, HttpAssumption DEF RequestOK, ToSet
<1>8. PICK root \in Seq(STRING) : root = rootOf(config, l) /\ root # <<>> /\ Last(root) = "/"
  BY <1>6, Zenon DEF rootOf
<1>9. w # <<>> /\ \A i \in 1..Len(w) : w[i] # "/"
  BY <1>2, <1>7 DEF AFileName, ToSet
<1>10. belowLocation(l, r.path) = w
  <2>1. urlDecode(r.path) = l.location \o w
    <3>1. l.location \o w \in Seq(STRING)
      BY <1>6, <1>7
    <3> QED  BY <1>4, <1>7, <3>1, DecodesEncoded, Zenon
  <2>2. StartsWith(l.location \o w, l.location) /\ From(l.location \o w, Len(l.location) + 1) = w
    BY <1>6, <1>7, BehindItsStart, Zenon
  <2> QED  BY <1>3, <2>1, <2>2, Zenon DEF belowLocation
<1>11. Len(w) > 0 /\ Last(w) # "/" /\ w[1] # "/"
  BY <1>7, <1>9, EmptySeq DEF Last
<1>12. PICK p : p = root \o w
  OBVIOUS
<1>13. resource_path(q) = p
  <2>1. ~namesFolder(w)
    BY <1>9, <1>11 DEF namesFolder
  <2> QED  BY <1>1, <1>2, <1>8, <1>10, <1>11, <1>12, <2>1, Zenon DEF buildResourcePath, resource_path
<1>14. root \in Seq(Sign) /\ IsName(Sign, w) /\ "/" \in Sign
  BY <1>2, <1>7, <1>8, <1>9, TextsOfSigns, Signs, Zenon DEF IsName
<1>15. Components(p) = Components(root) \o <<w>>
  <2>1. PICK d \in Seq(Seq(Sign)) : d = Components(root)
    BY <1>14, ComponentsAreNames, Zenon
  <2>2. Components(p) = Entered(dirs, d, w)
    BY <1>8, <1>12, <1>14, <2>1, ComponentsOfNamed, Zenon
  <2>3. Append(d, w) = d \o <<w>>
    <3>1. w \in Seq(Sign)
      BY <1>14, Zenon DEF IsName
    <3> QED  BY <3>1
  <2> QED  BY <1>2, <2>1, <2>2, <2>3, Zenon DEF Entered
<1>16. p # <<>> /\ Last(p) # "/"
  <2>1. Len(p) = Len(root) + Len(w) /\ Len(root) \in Nat /\ Len(w) \in Nat
        /\ p[Len(root) + Len(w)] = w[Len(w)]
    BY <1>7, <1>8, <1>11, <1>12, ConcatProperties
  <2> QED  BY <1>11, <2>1 DEF Last
<1>17. ~endsInDot(p)
  BY <1>2, <1>8, <1>12, <1>14, LastPart, Zenon DEF endsInDot
<1>18. NamedFile(r) = {Components(p)}
  <2>1. \A k \in Owner(r.path) : k = l
    BY <1>3, OneOwner, Zenon DEF Owner
  <2>2. NamedFile(r) = {Components(rootOf(config, l)) \o <<w>>}
    <3>1. l \in Owner(r.path)
      BY <1>3, Zenon DEF Owner
    <3> QED  BY <1>1, <2>1, <3>1 DEF NamedFile
  <2> QED  BY <1>8, <1>15, <2>2, Zenon
<1> QED  BY <1>1, <1>3, <1>4, <1>8, <1>12, <1>13, <1>16, <1>17, <1>18, Zenon DEF NamesIt, Owner

\* Nothing refuses it but its method.
OnlyMethodsMatter(q) ==
  /\ ~isCgi(q)
  /\ refusal(locationConfig(q), request[q]) \subseteq {handleError(405, locationConfig(q))}

LEMMA NamedIsAllowed ==
  ASSUME NEW q \in DOMAIN Requests, NEW p, request[q].ok,
         locationConfig(q) # NULL, NamesIt(q, locationConfig(q), p)
  PROVE  OnlyMethodsMatter(q)
<1>1. PICK l : l = locationConfig(q)
  OBVIOUS
<1>2. l # NULL /\ l.return_code = 0 /\ l.cgi_extension = <<>>
      /\ Len(BodyOf(Requests[q])) <= l.client_max_body_size
  BY <1>1, Zenon DEF NamesIt
<1>3. request[q].body = BodyOf(Requests[q])
  BY RequestsParsed, Zenon DEF ReadAsSent
<1>4. checkBodySize(config, l, request[q]) /\ ~checkRedirection(l)
  BY <1>2, <1>3, Zenon DEF checkBodySize, checkRedirection
<1>5. refusal(l, request[q]) \subseteq {handleError(405, l)}
  BY <1>4, Zenon DEF refusal
<1>6. cgiExtension(l) = <<>>
  BY <1>2, Zenon DEF cgiExtension
<1>7. ~isCgi(q)
  <2>1. \A path : ~checkCgiRequest(<<>>, path)
    BY Zenon DEF checkCgiRequest
  <2> QED  BY <1>1, <1>6, <2>1, Zenon DEF isCgi
<1> QED  BY <1>1, <1>5, <1>7, Zenon DEF OnlyMethodsMatter

\* What the answer is to a GET that names the file n.
Serves(n, response) ==
  /\ n \in DOMAIN files => response.status = 200 /\ response.body = files[n]
  /\ n \notin DOMAIN files \cup dirs => response.status = 404

LEMMA GetServes ==
  ASSUME DOMAIN files \cap dirs = {}, NEW q, NEW l, NEW p, NEW counters, NamesIt(q, l, p)
  PROVE  Serves(Components(p), getResponse(l, p, counters))
<1>1. PICK n : n = Components(p)
  OBVIOUS
<1>2. p # <<>> /\ Last(p) # "/" /\ ~endsInDot(p) /\ Find(p, SessionStats) = npos
  BY Zenon DEF NamesIt
<1>3. (isFile(p) <=> n \in DOMAIN files) /\ (isDirectory(p) <=> n \in dirs)
  BY <1>1, <1>2, Zenon DEF isFile, isDirectory
<1>4. CASE n \in DOMAIN files
  <2>1. getResponse(l, p, counters) = buildOk(extractFileInString(p), getMimeType(p))
    BY <1>2, <1>3, <1>4 DEF getResponse, isFileExisting
  <2>2. extractFileInString(p) = files[n]
    BY <1>1, <1>3, <1>4, Zenon DEF extractFileInString
  <2>3. PICK content, mime : content = files[n] /\ mime = getMimeType(p)
    OBVIOUS
  <2>4. buildOk(content, mime).status = 200 /\ buildOk(content, mime).body = content
    BY DEF buildOk, Response
  <2>5. getResponse(l, p, counters).status = 200 /\ getResponse(l, p, counters).body = files[n]
    BY <2>1, <2>2, <2>3, <2>4, Zenon
  <2> QED  BY <1>1, <1>4, <2>5, Zenon DEF Serves
<1>5. CASE n \notin DOMAIN files \cup dirs
  <2>1. getResponse(l, p, counters) = handleError(404, l)
    BY <1>2, <1>3, <1>5 DEF getResponse, isFileExisting
  <2>2. handleError(404, l).status = 404
    BY ErrorStatus
  <2> QED  BY <1>1, <1>5, <2>1, <2>2, Zenon DEF Serves
<1>6. CASE n \in dirs /\ n \notin DOMAIN files
  BY <1>1, <1>6, Zenon DEF Serves
<1> QED  BY <1>4, <1>5, <1>6

\* A request that names a file, and is answered but not with 405, reaches the
\* handler of its method.
LEMMA NamedIsHandled ==
  ASSUME RootsAreFolders, NamesAreEncoded, config \in Servers,
         NEW b \in Browsers, NEW q \in DOMAIN Requests, processHttpRequest(b, q),
         Requests[q].named # <<>>, locationConfig(q) # NULL,
         exchange'.response # NULL, exchange'.response.status # 405
  PROVE  handleGetRequest(b, q) \/ handlePostRequest(b, q) \/ handleDeleteRequest(b, q)
<1>1. request[q].ok
  BY RequestsParsed, Zenon DEF ReadAsSent, NamesAreEncoded
<1>2. NamesIt(q, locationConfig(q), resource_path(q))
  BY NamedIsFound, Zenon
<1>3. PICK l : l = locationConfig(q)
  OBVIOUS
<1>4. ~isCgi(q) /\ refusal(l, request[q]) \subseteq {handleError(405, l)}
  <2>1. OnlyMethodsMatter(q)
    BY <1>1, <1>2, NamedIsAllowed, Zenon
  <2> QED  BY <1>3, <2>1, Zenon DEF OnlyMethodsMatter
<1>5. ~BadRequest(b, q) /\ ~handleCgiRequest(b, q)
  BY <1>1, <1>4, Zenon DEF BadRequest, handleCgiRequest
<1>6. ~Segfault(b, q)
  BY AnswerParts DEF Segfault, Answered
<1>7. ~Refuse(b, q)
  <2> SUFFICES ASSUME Refuse(b, q) PROVE FALSE
    OBVIOUS
  <2>1. PICK response \in refusal(l, request[q]) : Answer(b, q, response)
    BY <1>3, Zenon DEF Refuse
  <2>2. exchange'.response = handleError(405, l)
    <3>1. response = handleError(405, l)
      BY <1>4, <2>1
    <3>2. exchange'.response = response
      BY <2>1, AnswerParts DEF Answered
    <3> QED  BY <3>1, <3>2, Zenon
  <2>3. handleError(405, l).status = 405
    BY ErrorStatus
  <2> QED  BY <2>2, <2>3, Zenon
<1> QED  BY <1>5, <1>6, <1>7, Zenon DEF processHttpRequest

LEMMA GetIsServed ==
  ASSUME RootsAreFolders, NamesAreEncoded, config \in Servers,
         DOMAIN files \cap dirs = {},
         NEW b \in Browsers, NEW q \in DOMAIN Requests, processHttpRequest(b, q),
         Requests[q].method = <<"GET">>, Requests[q].named # <<>>,
         exchange'.response # NULL, exchange'.response.status # 405,
         NEW n \in NamedFile(Requests[q])
  PROVE  UNCHANGED <<files, dirs>> /\ Serves(n, exchange'.response)
<1>1. request[q].ok /\ request[q].method = <<"GET">>
  BY RequestsParsed, Zenon DEF ReadAsSent, NamesAreEncoded
<1>2. locationConfig(q) # NULL
  <2>1. Owner(Requests[q].path) # {}
    BY DEF NamedFile
  <2> QED  BY <1>1, <2>1, RulesOfTheFound, RequestsParsed DEF ReadAsSent
<1>3. PICK l, p : l = locationConfig(q) /\ p = resource_path(q)
  OBVIOUS
<1>4. NamesIt(q, l, p)
  BY <1>2, <1>3, NamedIsFound, Zenon
<1>5. handleGetRequest(b, q)
  <2>1. <<"GET">> # <<"POST">> /\ <<"GET">> # <<"DELETE">>
    OBVIOUS
  <2>2. ~handlePostRequest(b, q) /\ ~handleDeleteRequest(b, q)
    BY <1>1, <2>1, Zenon DEF handlePostRequest, handleUpload, handleDeleteRequest, Handled
  <2> QED  BY <1>2, <2>2, NamedIsHandled, Zenon
<1>6. PICK counters : Answer(b, q, getResponse(l, p, counters)) /\ UNCHANGED <<files, dirs>>
  BY <1>3, <1>5, Zenon DEF handleGetRequest
<1>7. exchange'.response = getResponse(l, p, counters)
  <2>1. PICK response : response = getResponse(l, p, counters) /\ Answer(b, q, response)
    BY <1>6, Zenon
  <2>2. Answered(b, q, response)
    BY <2>1, AnswerParts, Zenon
  <2> QED  BY <2>1, <2>2, Zenon DEF Answered
<1>8. n = Components(p)
  BY <1>4 DEF NamesIt
<1> QED  BY <1>4, <1>6, <1>7, <1>8, GetServes, Zenon

LEMMA NamedThere ==
  \A r : \A l \in Owner(r.path) : Components(rootOf(config, l)) \o <<r.named>> \in NamedFile(r)
BY DEF NamedFile

\* If names are encoded as browsers do it, a file is served by its name: what
\* encodeURIComponent escapes urlDecode restores, and behind the location's
\* prefix it is the name of a file in the root.
THEOREM NamedIsServed ==
  ASSUME RootsAreFolders, NamesAreEncoded
  PROVE  Spec => []NamedFileIsServed
<1>1. Init => NamedFileIsServed
  BY DEF Init, NoExchange, NamedFileIsServed, answered
<1>2. ASSUME IInv, NamedFileIsServed, [Next]_vars PROVE NamedFileIsServed'
  <2>0. config \in Servers /\ DOMAIN files \cap dirs = {}
    BY <1>2, TypeParts DEF IInv, Tree
  <2>1. ASSUME NEW b \in Browsers, NEW q \in DOMAIN Requests, processHttpRequest(b, q)
        PROVE  NamedFileIsServed'
    <3>1. exchange'.sent = q /\ config' = config
      BY <2>1, Takes
    <3>2. sent' = Requests[q] /\ Owner(sent.path)' = Owner(Requests[q].path)
      BY <3>1 DEF sent, Owner
    <3>3. ASSUME Requests[q].method = <<"GET">>, Requests[q].named # <<>>,
                 exchange'.response # NULL, exchange'.response.status # 405,
                 NEW n \in NamedFile(Requests[q])
          PROVE  /\ n \in DOMAIN files' =>
                      exchange'.response.status = 200 /\ exchange'.response.body = files'[n]
                 /\ n \notin DOMAIN files' \cup dirs' => exchange'.response.status = 404
      BY <2>0, <2>1, <3>3, GetIsServed DEF Serves
    <3>4. ASSUME Requests[q].method = <<"GET">>, Requests[q].named # <<>>,
                 exchange'.response # NULL, exchange'.response.status # 405,
                 NEW n \in NamedFile(sent)'
          PROVE  n \in NamedFile(Requests[q])
      <4>1. PICK l \in Owner(Requests[q].path) : TRUE
        BY <3>2, <3>4, Zenon DEF NamedFile
      <4>2. PICK m \in NamedFile(Requests[q]) : TRUE
        BY <4>1, NamedThere, Zenon
      <4>3. dirs' = dirs
        BY <2>0, <2>1, <3>4, <4>2, GetIsServed, Zenon
      <4>4. PICK k \in Owner(Requests[q].path) :
              n = (Components(rootOf(config, k)) \o <<Requests[q].named>>)'
        BY <3>1, <3>2, <3>4 DEF NamedFile
      <4>5. n = Components(rootOf(config, k)) \o <<Requests[q].named>>
        BY <3>1, <4>3, <4>4, Zenon DEF Components
      <4> QED  BY <4>5, NamedThere, Zenon
    <3> QED  BY <3>2, <3>3, <3>4 DEF NamedFileIsServed, answered, status
  <2>2. CASE Return \/ Disk
    BY <2>2 DEF Return, Disk, NoExchange, NamedFileIsServed, answered
  <2>3. CASE UNCHANGED vars
    <3>1. files' = files /\ dirs' = dirs /\ config' = config /\ exchange' = exchange
      BY <2>3 DEF vars
    <3>2. ASSUME NEW n \in NamedFile(sent)' PROVE n \in NamedFile(sent)
      <4>1. sent' = sent /\ Owner(sent.path)' = Owner(sent.path)
        BY <3>1, Zenon DEF sent, Owner
      <4>2. PICK k \in Owner(sent.path) :
              n = (Components(rootOf(config, k)) \o <<sent.named>>)'
        BY <3>1, <3>2, <4>1 DEF NamedFile
      <4>3. n = Components(rootOf(config, k)) \o <<sent.named>>
        BY <3>1, <4>1, <4>2, Zenon DEF Components
      <4> QED  BY <4>3, NamedThere, Zenon
    <3>3. (answered' <=> answered) /\ sent' = sent /\ status' = status
      BY <3>1, Zenon DEF answered, sent, status
    <3> QED  BY <1>2, <3>1, <3>2, <3>3 DEF NamedFileIsServed
  <2> QED  BY <1>2, <2>1, <2>2, <2>3, Zenon DEF Next
<1> QED  BY Invariance, <1>1, <1>2, PTL DEF Spec

LEMMA DeleteIsDone ==
  ASSUME RootsAreFolders, NamesAreEncoded, config \in Servers,
         NEW b \in Browsers, NEW q \in DOMAIN Requests, processHttpRequest(b, q),
         Requests[q].method = <<"DELETE">>, Requests[q].named # <<>>,
         exchange'.response # NULL, exchange'.response.status # 405
  PROVE  /\ DOMAIN files' = DOMAIN files \ NamedFile(Requests[q])
         /\ NamedFile(Requests[q]) \cap DOMAIN files # {} => exchange'.response.status = 204
<1>1. request[q].ok /\ request[q].method = <<"DELETE">>
  BY RequestsParsed, Zenon DEF ReadAsSent, NamesAreEncoded
<1>2. locationConfig(q) # NULL
  <2>1. Owner(Requests[q].path) # {}
    BY Zenon DEF NamesAreEncoded, Owner
  <2> QED  BY <1>1, <2>1, RulesOfTheFound, RequestsParsed DEF ReadAsSent
<1>3. PICK l, p : l = locationConfig(q) /\ p = resource_path(q)
  OBVIOUS
<1>4. NamesIt(q, l, p)
  BY <1>2, <1>3, NamedIsFound, Zenon
<1>5. handleDeleteRequest(b, q)
  <2>1. <<"DELETE">> # <<"POST">> /\ <<"GET">> # <<"DELETE">>
    OBVIOUS
  <2>2. ~handlePostRequest(b, q) /\ ~handleGetRequest(b, q)
    BY <1>1, <2>1, Zenon DEF handlePostRequest, handleUpload, handleGetRequest, Handled
  <2> QED  BY <1>2, <2>2, NamedIsHandled, Zenon
<1>6. NamedFile(Requests[q]) = {Components(p)}
  BY <1>4, Zenon DEF NamesIt
<1>7. p # <<>> /\ (isFile(p) <=> Components(p) \in DOMAIN files)
  BY <1>4, Zenon DEF NamesIt, isFile
<1>8. IF isFileExisting(p) /\ removable(p)
      THEN DOMAIN files' = DOMAIN files \ {Components(p)} /\ Answer(b, q, buildNoContent)
      ELSE files' = files
  <2>1. IF isFileExisting(p) /\ removable(p)
        THEN files' = Restrict(files, DOMAIN files \ {Components(p)}) /\ Answer(b, q, buildNoContent)
        ELSE files' = files
    BY <1>3, <1>5, Zenon DEF handleDeleteRequest
  <2>2. DOMAIN Restrict(files, DOMAIN files \ {Components(p)}) = DOMAIN files \ {Components(p)}
    BY Zenon DEF Restrict
  <2> QED  BY <2>1, <2>2, Zenon
<1>9. CASE Components(p) \in DOMAIN files
  <2>1. isFileExisting(p) /\ removable(p)
    BY <1>7, <1>9, Zenon DEF isFileExisting, removable
  <2>2. exchange'.response = buildNoContent
    <3>1. PICK response : response = buildNoContent /\ Answer(b, q, response)
      BY <1>8, <2>1, Zenon
    <3>2. Answered(b, q, response)
      BY <3>1, AnswerParts, Zenon
    <3> QED  BY <3>1, <3>2, Zenon DEF Answered
  <2>3. buildNoContent.status = 204
    BY DEF buildNoContent, buildPage, Response
  <2>4. DOMAIN files' = DOMAIN files \ {Components(p)}
    BY <1>8, <2>1, Zenon
  <2>5. exchange'.response.status = 204
    BY <2>2, <2>3, Zenon
  <2> QED  BY <1>6, <2>4, <2>5
<1>10. CASE Components(p) \notin DOMAIN files
  <2>1. DOMAIN files' = DOMAIN files
    BY <1>8, <1>10
  <2> QED  BY <1>6, <1>10, <2>1
<1> QED  BY <1>9, <1>10

\* Names are restored and found for DELETE as they are for GET, and what is
\* found is removed: the file that script.js asked to delete, and no other.
THEOREM NamedIsDeleted ==
  ASSUME RootsAreFolders, NamesAreEncoded
  PROVE  Spec => DeletesTheNamed
<1> DEFINE Deleted ==
      /\ DOMAIN files' = DOMAIN files \ NamedFile(sent')
      /\ NamedFile(sent') \cap DOMAIN files # {} => status' = 204
           Asked == /\ exchange'.response # NULL /\ sent'.method = <<"DELETE">>
                    /\ sent'.named # <<>> /\ status' # 405
<1>1. ASSUME IInv, Next, Asked PROVE Deleted
  <2>0. config \in Servers /\ DOMAIN files \cap dirs = {}
    BY <1>1, TypeParts DEF IInv, Tree
  <2>1. ASSUME NEW b \in Browsers, NEW q \in DOMAIN Requests, processHttpRequest(b, q)
        PROVE  Deleted
    <3>1. sent' = Requests[q]
      BY <2>1, Takes DEF sent
    <3>2. Requests[q].method = <<"DELETE">> /\ Requests[q].named # <<>>
          /\ exchange'.response # NULL /\ exchange'.response.status # 405
      BY <1>1, <3>1 DEF status
    <3>3. /\ DOMAIN files' = DOMAIN files \ NamedFile(Requests[q])
          /\ NamedFile(Requests[q]) \cap DOMAIN files # {} => exchange'.response.status = 204
      BY <2>0, <2>1, <3>2, DeleteIsDone, Zenon
    <3> QED  BY <3>1, <3>3 DEF status
  <2>2. CASE Return \/ Disk
    BY <1>1, <2>2 DEF Return, Disk, NoExchange
  <2> QED  BY <1>1, <2>1, <2>2, Zenon DEF Next
<1> HIDE DEF Deleted, Asked
<1>2. IInv /\ [Next]_vars => [Asked => Deleted]_vars
  BY <1>1
<1> QED  BY Invariance, <1>2, PTL DEF Spec, DeletesTheNamed, Asked, Deleted
-----------------------------------------------------------------------------
(* What appears, what disappears, and what is counted. *)

Finite == IsFiniteSet(DOMAIN files \cup dirs)

\* The step was for b, and counted nothing in another session.
Only(b) == exchange'.browser = b /\ \A d \in Browsers \ {b} : stats'[d] = stats[d]

Balanced(b) == Things' - Things = Net(b)' - Net(b)

\* A file appeared that nobody counted: the upload was answered 500.
Uncounted(b) == status' = 500 /\ Things' = Things + 1 /\ Net(b)' = Net(b)

Accounted(b) == Finite' /\ Only(b) /\ (Balanced(b) \/ Uncounted(b))

LEMMA ThingsGrow ==
  ASSUME NEW p, NEW content, Finite, writable(p), ~isFileExisting(p),
         files' = written(p, content), dirs' = dirs
  PROVE  Finite' /\ Things \in Nat /\ Things' = Things + 1
<1> DEFINE n == Components(p)
           S == DOMAIN files \cup dirs
<1>1. n \notin S
  BY DEF writable, isFileExisting, isFile, isDirectory
<1>2. DOMAIN files' = DOMAIN files \cup {n}
  BY DEF written
<1>3. DOMAIN files' \cup dirs' = S \cup {n}
  BY <1>2
<1> HIDE DEF n
<1>4. IsFiniteSet(S) /\ Things = Cardinality(S)
  BY DEF Finite, Things
<1>5. Cardinality(S) \in Nat
  BY <1>4, FS_CardinalityType
<1> HIDE DEF S
<1>6. IsFiniteSet(S \cup {n}) /\ Cardinality(S \cup {n}) = Cardinality(S) + 1
  BY <1>1, <1>4, FS_AddElement
<1> QED  BY <1>3, <1>4, <1>5, <1>6 DEF Finite, Things

LEMMA ThingsShrink ==
  ASSUME NEW p, Finite, removable(p),
         files' = Restrict(files, DOMAIN files \ {Components(p)}),
         dirs' = dirs \ {Components(p)}
  PROVE  Finite' /\ Things \in Nat /\ Things' = Things - 1
<1> DEFINE n == Components(p)
           S == DOMAIN files \cup dirs
<1>1. n \in S
  BY DEF removable, isFile, isDirectory
<1>2. DOMAIN files' = DOMAIN files \ {n}
  BY DEF Restrict
<1>3. DOMAIN files' \cup dirs' = S \ {n}
  BY <1>2
<1> HIDE DEF n
<1>4. IsFiniteSet(S) /\ Things = Cardinality(S)
  BY DEF Finite, Things
<1>5. Cardinality(S) \in Nat
  BY <1>4, FS_CardinalityType
<1> HIDE DEF S
<1>6. IsFiniteSet(S \ {n}) /\ Cardinality(S \ {n}) = Cardinality(S) - 1
  BY <1>1, <1>4, FS_RemoveElement
<1> QED  BY <1>3, <1>4, <1>5, <1>6 DEF Finite, Things

\* Nothing appears, and no upload or deletion is counted.
LEMMA NothingMoves ==
  ASSUME NEW b \in Browsers, Finite, StatsOK, Counted, UNCHANGED <<files, dirs>>,
         exchange'.browser = b, NEW s, IsStats(s),
         s.upload_count = stats[b].upload_count,
         s.delete_count = stats[b].delete_count,
         stats' = [stats EXCEPT ![b] = s]
  PROVE  Accounted(b)
<1>1. Finite' /\ Things' = Things /\ Things \in Nat
  BY FS_CardinalityType DEF Finite, Things
<1>2. stats'[b] = s /\ \A d \in Browsers \ {b} : stats'[d] = stats[d]
  BY DEF StatsOK
<1>3. stats[b].upload_count \in Nat /\ stats[b].delete_count \in Nat
  BY Bounds DEF Counted, Counters
<1>4. Net(b)' = Net(b) /\ Net(b) \in Int
  BY <1>2, <1>3 DEF Net
<1> QED  BY <1>1, <1>2, <1>4 DEF Accounted, Only, Balanced

LEMMA CgiCounts ==
  ASSUME IInv, Finite, NEW b \in Browsers, NEW q \in DOMAIN Requests,
         handleCgiRequest(b, q)
  PROVE  Accounted(b)
<1>1. Counted /\ StatsOK /\ IsStats(stats[b]) /\ UNCHANGED <<files, dirs>>
  BY TypeParts, Zenon DEF IInv, StatsOK, handleCgiRequest
<1>2. exchange'.browser = b
  <2>1. \E response : Answer(b, q, response)
    BY Zenon DEF handleCgiRequest
  <2> QED  BY <2>1, AnswerParts DEF Answered
<1>3. \/ UNCHANGED stats
      \/ \E response : stats' = [stats EXCEPT ![b] = IF response.status = 200
                                           THEN trackCgiExecution(@) ELSE @]
  BY Zenon DEF handleCgiRequest
<1>4. \/ stats' = [stats EXCEPT ![b] = stats[b]]
      \/ stats' = [stats EXCEPT ![b] = trackCgiExecution(stats[b])]
  BY <1>1, <1>3 DEF StatsOK
<1>5. ASSUME NEW s, s = trackCgiExecution(stats[b])
      PROVE  /\ IsStats(s) /\ s.upload_count = stats[b].upload_count
             /\ s.delete_count = stats[b].delete_count
  BY <1>1, <1>5 DEF IsStats, trackCgiExecution
<1> QED  BY <1>1, <1>2, <1>4, <1>5, NothingMoves

LEMMA GetCounts ==
  ASSUME IInv, Finite, NEW b \in Browsers, NEW q \in DOMAIN Requests,
         handleGetRequest(b, q)
  PROVE  Accounted(b)
<1>1. Counted /\ StatsOK /\ IsStats(stats[b]) /\ UNCHANGED <<files, dirs>>
  BY TypeParts, Zenon DEF IInv, StatsOK, handleGetRequest
<1>2. exchange'.browser = b
  <2>1. \E response : Answer(b, q, response)
    BY Zenon DEF handleGetRequest
  <2> QED  BY <2>1, AnswerParts DEF Answered
<1>3. stats' = [stats EXCEPT ![b] = trackPageView(stats[b])]
  BY DEF handleGetRequest
<1>4. ASSUME NEW s, s = trackPageView(stats[b])
      PROVE  /\ IsStats(s) /\ s.upload_count = stats[b].upload_count
             /\ s.delete_count = stats[b].delete_count
  BY <1>1, <1>4 DEF IsStats, trackPageView
<1> QED  BY <1>1, <1>2, <1>3, <1>4, NothingMoves

LEMMA UploadCounts ==
  ASSUME IInv, Finite, NEW b \in Browsers, NEW q \in DOMAIN Requests,
         handleUpload(b, q)
  PROVE  Accounted(b)
<1> DEFINE l == locationConfig(q)
           content == extractFileContentFromMultipartBody(request[q].body)
           path(f) == l.upload_store \o <<"/">> \o f
           failure == handleError(500, l)
<1>1. PICK filename \in uploadNames(l, request[q]) :
        /\ files' = IF writable(path(filename)) THEN written(path(filename), content)
                    ELSE files
        /\ stats' = IF writeStringToFile(path(filename), content)
                    THEN [stats EXCEPT ![b] = trackFileUpload(@, filename)] ELSE stats
        /\ Answer(b, q, IF writeStringToFile(path(filename), content) THEN buildCreated
                        ELSE failure)
  BY Zenon DEF handleUpload
<1>2. ~isFileExisting(path(filename))
  BY NamesAreFree
<1>3. PICK p : p = path(filename)
  OBVIOUS
<1>4. failure.status = 500
  BY ErrorStatus
<1>5. dirs' = dirs
  BY DEF handleUpload
<1> HIDE DEF l, content, path, failure
<1>6. Counted /\ StatsOK /\ IsStats(stats[b])
  BY TypeParts, Zenon DEF IInv, StatsOK
<1>7. PICK response : /\ response = IF writeStringToFile(p, content) THEN buildCreated
                                      ELSE failure
                      /\ Answer(b, q, response)
  BY <1>1, <1>3, Zenon
<1>8. exchange'.browser = b /\ status' = response.status
  BY <1>7, AnswerParts DEF Answered, status
<1>9. CASE ~writable(p)
  <2>1. ~writeStringToFile(p, content)
    BY <1>9 DEF writeStringToFile
  <2>2. UNCHANGED <<files, dirs>> /\ stats' = stats
    BY <1>1, <1>3, <1>5, <1>9, <2>1
  <2>3. stats' = [stats EXCEPT ![b] = stats[b]]
    BY <1>6, <2>2 DEF StatsOK
  <2> QED  BY <1>6, <1>8, <2>2, <2>3, NothingMoves
<1>10. CASE writable(p)
  <2>1. Finite' /\ Things \in Nat /\ Things' = Things + 1
    BY <1>1, <1>2, <1>3, <1>5, <1>10, ThingsGrow
  <2>2. stats[b].upload_count \in Nat /\ stats[b].delete_count \in Nat
    BY <1>6, Bounds DEF Counted, Counters
  <2>3. CASE ~writeStringToFile(p, content)
    <3>1. status' = 500
      BY <1>4, <1>7, <1>8, <2>3
    <3>2. stats' = stats
      BY <1>1, <1>3, <2>3
    <3> QED  BY <1>8, <2>1, <3>1, <3>2 DEF Accounted, Only, Uncounted, Net
  <2>4. CASE writeStringToFile(p, content)
    <3>1. PICK s : s = trackFileUpload(stats[b], filename)
      OBVIOUS
    <3>2. stats' = [stats EXCEPT ![b] = s]
      BY <1>1, <1>3, <2>4, <3>1
    <3>3. stats'[b] = s /\ \A d \in Browsers \ {b} : stats'[d] = stats[d]
      BY <1>6, <3>2 DEF StatsOK
    <3>4. /\ s.upload_count = stats[b].upload_count + 1
          /\ s.delete_count = stats[b].delete_count
      BY <1>6, <3>1 DEF IsStats, trackFileUpload
    <3>5. Net(b)' = Net(b) + 1 /\ Net(b) \in Int
      BY <2>2, <3>3, <3>4 DEF Net
    <3>6. Balanced(b)
      BY <2>1, <3>5 DEF Balanced
    <3> QED  BY <1>8, <2>1, <3>3, <3>6 DEF Accounted, Only
  <2> QED  BY <2>3, <2>4
<1> QED  BY <1>9, <1>10

LEMMA DeleteCounts ==
  ASSUME IInv, Finite, NEW b \in Browsers, NEW q \in DOMAIN Requests,
         handleDeleteRequest(b, q)
  PROVE  Accounted(b)
<1>1. PICK p : p = resource_path(q)
  OBVIOUS
<1>2. exchange'.browser = b
  <2>1. \E response : Answer(b, q, response)
    BY Zenon DEF handleDeleteRequest
  <2> QED  BY <2>1, AnswerParts DEF Answered
<1>3. Counted /\ StatsOK /\ IsStats(stats[b])
  BY TypeParts, Zenon DEF IInv, StatsOK
<1>4. \/ /\ removable(p)
         /\ files' = Restrict(files, DOMAIN files \ {Components(p)})
         /\ dirs' = dirs \ {Components(p)}
         /\ stats' = [stats EXCEPT ![b] = trackFileDelete(stats[b])]
      \/ UNCHANGED <<files, dirs, stats>>
  BY <1>1, Zenon DEF handleDeleteRequest
<1>5. CASE UNCHANGED <<files, dirs, stats>>
  <2>1. stats' = [stats EXCEPT ![b] = stats[b]]
    BY <1>3, <1>5 DEF StatsOK
  <2> QED  BY <1>2, <1>3, <1>5, <2>1, NothingMoves
<1>6. CASE /\ removable(p)
           /\ files' = Restrict(files, DOMAIN files \ {Components(p)})
           /\ dirs' = dirs \ {Components(p)}
           /\ stats' = [stats EXCEPT ![b] = trackFileDelete(stats[b])]
  <2>1. Finite' /\ Things \in Nat /\ Things' = Things - 1
    BY <1>6, ThingsShrink
  <2>2. stats[b].upload_count \in Nat /\ stats[b].delete_count \in Nat
    BY <1>3, Bounds DEF Counted, Counters
  <2>3. PICK s : s = trackFileDelete(stats[b])
    OBVIOUS
  <2>4. stats'[b] = s /\ \A d \in Browsers \ {b} : stats'[d] = stats[d]
    BY <1>3, <1>6, <2>3 DEF StatsOK
  <2>5. /\ s.upload_count = stats[b].upload_count
        /\ s.delete_count = stats[b].delete_count + 1
    BY <1>3, <2>3 DEF IsStats, trackFileDelete
  <2>6. Net(b)' = Net(b) - 1 /\ Net(b) \in Int
    BY <2>2, <2>4, <2>5 DEF Net
  <2>7. Balanced(b)
    BY <2>1, <2>6 DEF Balanced
  <2> QED  BY <1>2, <2>1, <2>4, <2>7 DEF Accounted, Only
<1> QED  BY <1>4, <1>5, <1>6

\* Each step is accounted for, or moves and counts nothing.
LEMMA EachStepCounts ==
  ASSUME IInv, Finite, [Next]_vars
  PROVE  (\E b \in Browsers : Accounted(b)) \/ UNCHANGED <<files, dirs, stats>>
<1>1. ASSUME NEW b \in Browsers, NEW q \in DOMAIN Requests, processHttpRequest(b, q)
      PROVE  Accounted(b) \/ UNCHANGED <<files, dirs, stats>>
  <2>1. CASE BadRequest(b, q) \/ Segfault(b, q) \/ Refuse(b, q)
    BY <2>1, Zenon DEF BadRequest, Segfault, Refuse
  <2>2. CASE handlePostRequest(b, q)
    BY <2>2, UploadCounts, Zenon DEF handlePostRequest
  <2> QED  BY <1>1, <2>1, <2>2, CgiCounts, GetCounts, DeleteCounts, Zenon
           DEF processHttpRequest
<1>2. CASE Return \/ Disk \/ UNCHANGED vars
  BY <1>2, Zenon DEF Return, Disk, vars
<1> QED  BY <1>1, <1>2, Zenon DEF Next

\* What an upload brings and a deletion takes is counted, one by one, in the
\* session that asked for it and in no other; only an upload that is answered
\* 500 may leave a file uncounted.
THEOREM CountsAreKept == Spec => CountsAreTrue
<1> DEFINE Done ==
      \E b \in Browsers :
        /\ exchange'.browser = b /\ \A d \in Browsers \ {b} : stats'[d] = stats[d]
        /\ \/ Things' - Things = Net(b)' - Net(b)
           \/ status' = 500 /\ Things' = Things + 1 /\ Net(b)' = Net(b)
<1>1. Init => Finite
  BY HttpAssumption, Zenon DEF Init, Finite
<1>2. IInv /\ Finite /\ [Next]_vars => Finite'
  <2>1. ASSUME Finite, UNCHANGED <<files, dirs, stats>> PROVE Finite'
    BY <2>1 DEF Finite
  <2> QED  BY <2>1, EachStepCounts, Zenon DEF Accounted
<1>3. IInv /\ Finite /\ [Next]_vars => [Done]_<<files, dirs, stats>>
  BY EachStepCounts, Zenon DEF Accounted, Only, Balanced, Uncounted
<1> HIDE DEF Done
<1> QED  BY Invariance, <1>1, <1>2, <1>3, PTL DEF Spec, CountsAreTrue, Done
-----------------------------------------------------------------------------
(* Scripts. *)

\* A line, what ends it, a second line, an empty one, and a body.
TwoLines(x, f, z) == (x \o <<f>>) \o z
Output(x, f, z, e, y) == (TwoLines(x, f, z) \o <<e, e>>) \o y

\* Where everything of it is.
OutputAt(T, s, x, f, z, e, y, k) ==
  /\ s \in Seq(T) /\ k = Len(x) + 1 + Len(z) + 1 /\ Len(s) = k + 1 + Len(y)
  /\ \A i \in 1..Len(x) : s[i] = x[i]
  /\ s[Len(x) + 1] = f
  /\ \A i \in 1..Len(z) : s[Len(x) + 1 + i] = z[i]
  /\ s[k] = e /\ s[k + 1] = e
  /\ \A i \in 1..Len(y) : s[k + 1 + i] = y[i]
  /\ SubSeq(s, 1, k - 1) = TwoLines(x, f, z) /\ From(s, k + 2) = y

LEMMA OutputIsAt ==
  ASSUME NEW T, NEW x \in Seq(T), NEW f \in T, NEW z \in Seq(T), NEW e \in T, NEW y \in Seq(T),
         NEW k, k = Len(x) + 1 + Len(z) + 1
  PROVE  OutputAt(T, Output(x, f, z, e, y), x, f, z, e, y, k)
<1>1. PICK a, b, n \in Nat : a = Len(x) /\ b = Len(z) /\ n = Len(y)
  OBVIOUS
<1>2. PICK xf \in Seq(T) : xf = x \o <<f>> /\ Joint(xf, x, <<f>>)
  BY OneSign, JointConcat, Zenon
<1>3. PICK h \in Seq(T) : h = xf \o z /\ Joint(h, xf, z)
  BY JointConcat, Zenon
<1>4. PICK ee \in Seq(T) : ee = <<e, e>> /\ Len(ee) = 2 /\ ee[1] = e /\ ee[2] = e
  <2>1. <<e, e>> \in Seq(T)
    BY ONLY e \in T
  <2> QED  BY <2>1
<1>5. PICK he \in Seq(T) : he = h \o ee /\ Joint(he, h, ee)
  BY JointConcat, Zenon
<1>6. PICK s \in Seq(T) : s = he \o y /\ Joint(s, he, y)
  BY JointConcat, Zenon
<1>7. /\ Len(<<f>>) = 1 /\ <<f>>[1] = f /\ 1 \in 1..1 /\ 1 \in 1..2 /\ 2 \in 1..2
      /\ a + 1 \in 1..(a + 1)
  BY <1>1
<1>8. Len(xf) = a + 1 /\ (\A i \in 1..a : xf[i] = x[i]) /\ xf[a + 1] = f
  BY <1>1, <1>2, <1>7, Zenon DEF Joint
<1>9. /\ Len(h) = a + 1 + b /\ (\A i \in 1..(a + 1) : h[i] = xf[i])
      /\ \A i \in 1..b : h[a + 1 + i] = z[i]
  BY <1>1, <1>3, <1>8, Zenon DEF Joint
<1>10. PICK c \in Nat : c = a + 1 + b /\ k = c + 1
  <2>1. k = a + 1 + b + 1
    BY <1>1, Zenon
  <2> QED  BY ONLY <2>1, a \in Nat, b \in Nat
<1>11. /\ Len(he) = c + 2 /\ (\A i \in 1..c : he[i] = h[i])
       /\ he[c + 1] = e /\ he[c + 2] = e
  BY <1>4, <1>5, <1>7, <1>9, <1>10, Zenon DEF Joint
<1>12. /\ Len(s) = c + 2 + n /\ (\A i \in 1..(c + 2) : s[i] = he[i])
       /\ \A i \in 1..n : s[c + 2 + i] = y[i]
  BY <1>1, <1>6, <1>11, Zenon DEF Joint
<1>13. /\ k - 1 = c /\ k + 1 = c + 2 /\ k + 2 = (c + 2) + 1 /\ c + 1 \in 1..(c + 2)
       /\ c + 2 \in 1..(c + 2) /\ a + 1 \in 1..c /\ c \in 0..(c + 2) /\ Len(s) = k + 1 + n
       /\ (\A i \in 1..c : i \in 1..(c + 2)) /\ (\A i \in 1..a : i \in 1..(a + 1) /\ i \in 1..c)
       /\ \A i \in 1..b : a + 1 + i \in 1..c
  BY <1>1, <1>10, <1>12
<1>14. (\A i \in 1..c : s[i] = h[i]) /\ s[k] = e /\ s[k + 1] = e
  BY <1>10, <1>11, <1>12, <1>13, Zenon
<1>15. (\A i \in 1..a : s[i] = x[i]) /\ s[a + 1] = f /\ \A i \in 1..b : s[a + 1 + i] = z[i]
  BY <1>7, <1>8, <1>9, <1>13, <1>14, Zenon
<1>16. SubSeq(s, 1, k - 1) = h
  <2>1. /\ 1 \in Nat /\ c \in Int /\ 1 <= 1 /\ c <= Len(h) /\ 1 <= c + 1 /\ c + 0 <= Len(s)
        /\ 1 + 0 = 1 /\ c + 0 = c /\ 0 \in Nat /\ \A i \in 1..c : i + 0 = i
    BY <1>9, <1>10, <1>12
  <2>2. \A i \in 1..c : s[i + 0] = h[i]
    BY <1>14, <2>1, Zenon
  <2>3. SameText(s, 1 + 0, c + 0, h, 1, c)
    BY <2>1, <2>2, SameElements, Zenon
  <2>4. SubSeq(h, 1, c) = h
    BY <1>9, <1>10, SubSeqFull, Zenon
  <2> QED  BY <1>13, <2>1, <2>3, <2>4, Zenon DEF SameText
<1>17. From(s, k + 2) = y
  <2>1. From(he \o y, Len(he) + 1) = y
    BY BehindItsStart, Zenon
  <2>2. Len(he) + 1 = k + 2
    BY <1>11, <1>13, Zenon
  <2> QED  BY <1>6, <2>1, <2>2, Zenon
<1>18. h = TwoLines(x, f, z) /\ s = Output(x, f, z, e, y)
  BY <1>2, <1>3, <1>4, <1>5, <1>6, Zenon DEF TwoLines, Output
<1>19. OutputAt(T, s, x, f, z, e, y, k)
  <2>1. Len(s) = k + 1 + Len(y) /\ \A i \in 1..Len(y) : s[k + 1 + i] = y[i]
    BY <1>1, <1>12, <1>13, Zenon
  <2>2. (\A i \in 1..Len(x) : s[i] = x[i]) /\ s[Len(x) + 1] = f
    BY <1>1, <1>15, Zenon
  <2>3. \A i \in 1..Len(z) : s[Len(x) + 1 + i] = z[i]
    BY <1>1, <1>15, Zenon
  <2>4. SubSeq(s, 1, k - 1) = TwoLines(x, f, z)
    BY <1>16, <1>18, Zenon
  <2> QED  BY <1>14, <1>17, <2>1, <2>2, <2>3, <2>4, Zenon DEF OutputAt
<1> QED  BY <1>18, <1>19, Zenon

\* Of line ends, nothing but f is before the empty line.
NoPairBefore(s, k) == \A c \in LineEnds : \A j \in 1..(k - 1) : ~IsPair(s, c, c, j)

LEMMA NothingBefore ==
  ASSUME NEW T, NEW s, NEW x \in Seq(T), NEW f, NEW z \in Seq(T), NEW e, NEW y, NEW k,
         OutputAt(T, s, x, f, z, e, y, k), z # <<>>, OnALine(x), OnALine(z)
  PROVE  NoPairBefore(s, k)
<1>1. PICK a, b \in Nat : a = Len(x) /\ b = Len(z) /\ b > 0 /\ k = a + 1 + b + 1
  <2>1. Len(x) \in Nat /\ Len(z) \in Nat /\ Len(z) > 0
    BY EmptySeq
  <2> QED  BY <2>1, Zenon DEF OutputAt
<1>2. \A i \in 1..(k - 1) : s[i] \in LineEnds => i = a + 1
  <2> TAKE i \in 1..(k - 1)
  <2>1. CASE i \in 1..a
    BY <1>1, <2>1, Zenon DEF OutputAt, OnALine
  <2>2. CASE i - (a + 1) \in 1..b
    <3>1. a + 1 + (i - (a + 1)) = i
      BY <1>1
    <3>2. s[i] = z[i - (a + 1)]
      BY <1>1, <2>2, <3>1, Zenon DEF OutputAt
    <3> QED  BY <1>1, <2>2, <3>2, Zenon DEF OnALine
  <2>3. i \in 1..a \/ i = a + 1 \/ i - (a + 1) \in 1..b
    BY <1>1
  <2> QED  BY <2>1, <2>2, <2>3, Zenon
<1>3. ASSUME NEW c \in LineEnds, NEW j \in 1..(k - 1), s[j] = c, s[j + 1] = c PROVE FALSE
  <2>1. j = a + 1
    BY <1>2, <1>3, Zenon
  <2>2. j + 1 \in 1..(k - 1)
    BY <1>1, <2>1
  <2>3. j + 1 = a + 1
    BY <1>2, <1>3, <2>2, Zenon
  <2> QED  BY <1>1, <2>1, <2>3
<1> QED  BY <1>3, Zenon DEF NoPairBefore, IsPair

\* The empty line is where the headers end.
LEMMA OutputEnds ==
  ASSUME NEW T, NEW s, NEW x \in Seq(T), NEW f, NEW z \in Seq(T), NEW e, NEW y \in Seq(T), NEW k,
         OutputAt(T, s, x, f, z, e, y, k), z # <<>>, OnALine(x), OnALine(z),
         e \in {"LF", "CRLF"}, e = "LF" => Find(y, <<"CRLF", "CRLF">>) = npos
  PROVE  endOfHeaders(s) = k
<1>1. PICK n, m \in Nat : n = Len(y) /\ m = Len(s) /\ m = k + 1 + n /\ k \in Nat /\ k > 0
  <2>1. Len(x) \in Nat /\ Len(y) \in Nat /\ Len(z) \in Nat
    OBVIOUS
  <2>2. k = Len(x) + 1 + Len(z) + 1 /\ Len(s) = k + 1 + Len(y)
    BY Zenon DEF OutputAt
  <2>3. k \in Nat /\ k > 0 /\ Len(s) \in Nat
    BY <2>1, <2>2
  <2> QED  BY <2>1, <2>2, <2>3, Zenon
<1>2. s \in Seq(T) /\ s[k] = e /\ s[k + 1] = e /\ \A i \in 1..n : s[k + 1 + i] = y[i]
  BY <1>1, Zenon DEF OutputAt
<1>3. PICK cr, lf : cr = "CRLF" /\ lf = "LF" /\ cr # lf /\ cr \in LineEnds /\ lf \in LineEnds
  BY Zenon DEF LineEnds
<1>4. \A c \in LineEnds : \A j \in 1..(k - 1) : ~IsPair(s, c, c, j)
  BY NothingBefore, Zenon DEF NoPairBefore
<1>5. e \in LineEnds
  BY Zenon DEF LineEnds
<1>6. 1 \in Nat \ {0} /\ k \in 1..(m - 1) /\ m = Len(s)
  BY <1>1
<1>7. Find(s, <<e, e>>) = k
  <2>1. FirstPairAt(s, e, e, 1, k)
    BY <1>2, <1>4, <1>5, <1>6, Zenon DEF FirstPairAt, IsPair
  <2>2. FindsPair(s, e, e, 1, k)
    BY <1>2, <1>6, <2>1, FirstPair, Zenon
  <2> QED  BY <2>2, Zenon DEF FindsPair, Find
<1>8. CASE e = cr
  <2>1. k # npos
    BY <1>1 DEF npos
  <2> QED  BY <1>3, <1>7, <1>8, <2>1, Zenon DEF endOfHeaders
<1>9. CASE e = lf
  <2>1. Within(y, <<cr, cr>>, 1) = {}
    <3>1. FindFrom(y, <<cr, cr>>, 1) = npos
      BY <1>3, <1>9, Zenon DEF Find
    <3> QED  BY <1>6, <3>1, FirstWithin, Zenon
  <2>2. \A i \in 1..(n - 1) : ~IsPair(y, cr, cr, i)
    BY <1>1, <1>6, <2>1, PairsWithin, Zenon
  <2>3. ASSUME NEW j \in 1..(m - 1), s[j] = cr, s[j + 1] = cr PROVE FALSE
    <3>1. CASE j \in 1..(k - 1)
      BY <1>3, <1>4, <2>3, <3>1, Zenon DEF IsPair
    <3>2. CASE j = k \/ j = k + 1
      BY <1>2, <1>3, <1>9, <2>3, <3>2, Zenon
    <3>3. CASE j - (k + 1) \in 1..(n - 1)
      <4>1. PICK i : i = j - (k + 1) /\ i \in 1..(n - 1)
        BY <3>3, Zenon
      <4>2. /\ i \in 1..n /\ i + 1 \in 1..n
            /\ k + 1 + i = j /\ k + 1 + (i + 1) = j + 1
        BY <1>1, <4>1
      <4>3. y[i] = s[j] /\ y[i + 1] = s[j + 1]
        BY <1>2, <4>2, Zenon
      <4> QED  BY <2>2, <2>3, <4>1, <4>3, Zenon DEF IsPair
    <3>4. j \in 1..(k - 1) \/ j = k \/ j = k + 1 \/ j - (k + 1) \in 1..(n - 1)
      BY <1>1
    <3> QED  BY <3>1, <3>2, <3>3, <3>4, Zenon
  <2>4. Within(s, <<cr, cr>>, 1) = {}
    <3>1. \A j : j \in Within(s, <<cr, cr>>, 1) =>
                   j \in 1..(m - 1) /\ IsPair(s, cr, cr, j)
      BY <1>2, <1>6, PairsWithin, Zenon
    <3> QED  BY <2>3, <3>1, Zenon DEF IsPair
  <2>5. Find(s, <<cr, cr>>) = npos
    BY <2>4, Zenon DEF Find, FindFrom
  <2> QED  BY <1>3, <1>7, <1>9, <2>5, Zenon DEF endOfHeaders
<1>10. e = cr \/ e = lf
  BY <1>3, Zenon
<1> QED  BY <1>8, <1>9, <1>10, Zenon


LEMMA TwoLinesRead ==
  ASSUME NEW T, NEW x \in Seq(T), NEW f \in T, f \in LineEnds, NEW z \in Seq(T),
         x # <<>>, z # <<>>, OnALine(x), OnALine(z)
  PROVE  linesAndBody(TwoLines(x, f, z)).lines = <<x, z>>
<1>1. PICK h \in Seq(T) : h = TwoLines(x, f, z) /\ SplitAt(T, h, x, f, z)
  <2>1. SplitAt(T, TwoLines(x, f, z), x, f, z)
    BY Split, Zenon DEF TwoLines
  <2> QED  BY <2>1, Zenon DEF SplitAt
<1>2. PICK xf \in Seq(T) : xf = x \o <<f>> /\ Joint(xf, x, <<f>>)
  BY OneSign, JointConcat, Zenon
<1>3. PICK a, b \in Nat : a = Len(x) /\ b = Len(z) /\ b > 0
  BY EmptySeq
<1>4. Len(<<f>>) = 1 /\ <<f>>[1] = f /\ 1 \in 1..1
  OBVIOUS
<1>5. Len(xf) = a + 1 /\ xf[a + 1] = f /\ (\A i \in 1..a : xf[i] = x[i])
  BY <1>2, <1>3, <1>4, Zenon DEF Joint
<1>6. h = xf \o z /\ Joint(h, xf, z)
  <2>1. h = xf \o z
    BY <1>1, <1>2, Zenon DEF TwoLines
  <2> QED  BY <2>1, JointConcat, Zenon
<1>7. /\ Len(h) = a + 1 + b /\ (\A i \in 1..(a + 1) : h[i] = xf[i])
      /\ \A i \in 1..b : h[a + 1 + i] = z[i]
  BY <1>3, <1>5, <1>6, Zenon DEF Joint
<1>8. \A i \in DOMAIN h : h[i] \in LineEnds => i = a + 1
  <2> TAKE i \in DOMAIN h
  <2>0. i \in 1..(a + 1 + b)
    BY <1>7
  <2>1. CASE i \in 1..a
    <3>1. i \in 1..(a + 1)
      BY <1>3, <2>1
    <3> QED  BY <1>3, <1>5, <1>7, <2>1, <3>1, Zenon DEF OnALine
  <2>2. CASE i - (a + 1) \in 1..b
    <3>1. a + 1 + (i - (a + 1)) = i
      BY <1>3, <2>0
    <3>2. h[i] = z[i - (a + 1)]
      BY <1>7, <2>2, <3>1, Zenon
    <3> QED  BY <1>3, <2>2, <3>2, Zenon DEF OnALine
  <2>3. i \in 1..a \/ i = a + 1 \/ i - (a + 1) \in 1..b
    BY <1>3, <2>0
  <2> QED  BY <2>1, <2>2, <2>3, Zenon
<1>9. PICK ends, blank : /\ ends = {i \in DOMAIN h : h[i] \in LineEnds}
                         /\ blank = {i \in ends : i - 1 \in ends}
  OBVIOUS
<1>10. blank = {}
  <2>1. \A i \in ends : i = a + 1
    BY <1>8, <1>9, Zenon
  <2>2. \A i \in ends : i - 1 \notin ends
    BY <1>3, <2>1
  <2> QED  BY <1>9, <2>2, Zenon
<1>11. linesAndBody(h) = [lines |-> Parts(h, LineEnds), body |-> <<>>]
  BY <1>9, <1>10, Zenon DEF linesAndBody
<1>12. Parts(h, LineEnds) = <<x>> \o <<z>>
  <2>1. Len(xf) > 0 /\ xf[Len(xf)] \in LineEnds
    <3>1. Len(xf) > 0
      BY <1>3, <1>5
    <3> QED  BY <1>5, <3>1, Zenon
  <2>2. PartsSplit(xf, z, LineEnds)
    BY <2>1, PartsOfConcat, Zenon
  <2>3. Parts(xf, LineEnds) = <<x>>
    BY <1>2, OneLine, Zenon
  <2>4. Parts(z, LineEnds) = <<z>>
    BY OnePart, Zenon DEF OnALine
  <2> QED  BY <1>6, <2>2, <2>3, <2>4, Zenon DEF PartsSplit
<1>13. <<x>> \o <<z>> = <<x, z>>
  <2>1. <<>> \o <<z>> = <<z>>
    OBVIOUS
  <2> QED  BY <2>1, Listed, Zenon
<1>14. PICK r, ls : r = linesAndBody(h) /\ ls = Parts(h, LineEnds)
  BY Zenon
<1>15. r.lines = ls
  BY ONLY <1>11, <1>14
<1> QED  BY <1>1, <1>12, <1>13, <1>14, <1>15, Zenon

\* The type is on the second line, and the body behind the empty one.
HeardAs(s, t, y) ==
  extractCgiContentType(s).type = t /\ extractCgiContentType(s).body = y

LEMMA TypeIsHeard ==
  ASSUME NEW T, NEW x \in Seq(T), x # <<>>, OnALine(x), NEW f \in T, f \in LineEnds,
         NEW c \in T, c = "Content-Type:", x[1] # c, c \notin LineEnds,
         NEW b \in T, b \in Blank, b \notin LineEnds,
         NEW t \in Seq(T), t # <<>>, OnALine(t), t[1] \notin Blank, t[Len(t)] \notin Blank,
         NEW e \in T, e \in {"LF", "CRLF"},
         NEW y \in Seq(T), e = "LF" => Find(y, <<"CRLF", "CRLF">>) = npos
  PROVE  HeardAs(Output(x, f, <<c, b>> \o t, e, y), t, y)
<1>1. PICK bt \in Seq(T) : bt = <<b>> \o t /\ Joint(bt, <<b>>, t)
  BY OneSign, JointConcat, Zenon
<1>2. PICK z \in Seq(T) : z = <<c>> \o bt /\ Joint(z, <<c>>, bt)
  BY OneSign, JointConcat, Zenon
<1>3. z = <<c, b>> \o t
  <2>1. <<c>> \o <<b>> = <<c, b>>
    <3>1. <<>> \o <<b>> = <<b>>
      OBVIOUS
    <3> QED  BY <3>1, Listed, Zenon
  <2>2. <<c>> \in Seq(T) /\ <<b>> \in Seq(T)
    BY OneSign, Zenon
  <2>3. Assoc(T, <<c>>, <<b>>, t)
    BY <2>2, Associates, Zenon
  <2> QED  BY <1>1, <1>2, <2>1, <2>3, Zenon DEF Assoc
<1>4. PICK n \in Nat : n = Len(t)
  OBVIOUS
<1>5. /\ Len(<<c>>) = 1 /\ <<c>>[1] = c /\ Len(<<b>>) = 1 /\ <<b>>[1] = b /\ 1 \in 1..1
      /\ 1 \in 1..(1 + n)
  BY <1>4
<1>6. Len(bt) = 1 + n /\ bt[1] = b /\ \A i \in 1..n : bt[1 + i] = t[i]
  BY <1>1, <1>4, <1>5, Zenon DEF Joint
<1>7. Len(z) = 1 + (1 + n) /\ z[1] = c /\ \A i \in 1..(1 + n) : z[1 + i] = bt[i]
  BY <1>2, <1>5, <1>6, Zenon DEF Joint
<1>8. z # <<>> /\ OnALine(z)
  <2>1. z # <<>>
    BY <1>4, <1>7
  <2>2. \A i \in 1..(1 + n) : bt[i] \notin LineEnds
    <3> TAKE i \in 1..(1 + n)
    <3>1. CASE i = 1
      BY <1>6, <3>1, Zenon
    <3>2. CASE i # 1
      <4>1. i - 1 \in 1..n /\ 1 + (i - 1) = i
        BY <1>4, <3>2
      <4> QED  BY <1>4, <1>6, <4>1, Zenon DEF OnALine
    <3> QED  BY <3>1, <3>2
  <2>3. \A i \in 1..Len(z) : z[i] \notin LineEnds
    <3> TAKE i \in 1..Len(z)
    <3>1. CASE i = 1
      BY <1>7, <3>1, Zenon
    <3>2. CASE i # 1
      <4>1. i - 1 \in 1..(1 + n) /\ 1 + (i - 1) = i
        BY <1>4, <1>7, <3>2
      <4> QED  BY <1>7, <2>2, <4>1, Zenon
    <3> QED  BY <3>1, <3>2
  <2> QED  BY <2>1, <2>3, Zenon DEF OnALine
<1>9. PICK k : k = Len(x) + 1 + Len(z) + 1
  OBVIOUS
<1>10. PICK s : s = Output(x, f, z, e, y) /\ OutputAt(T, s, x, f, z, e, y, k)
  BY <1>9, OutputIsAt, Zenon
<1>11. endOfHeaders(s) = k
  BY <1>8, <1>10, OutputEnds, Zenon
<1>12. k # npos
  <2>1. Len(x) \in Nat /\ Len(z) \in Nat
    OBVIOUS
  <2> QED  BY ONLY <1>9, <2>1 DEF npos
<1>13. Before(s, k) = TwoLines(x, f, z) /\ From(s, k + 2) = y
  BY <1>10, <1>12, Zenon DEF OutputAt, Before
<1>14. PICK ls : ls = linesAndBody(Before(s, k)).lines /\ ls = <<x, z>>
  <2>1. linesAndBody(TwoLines(x, f, z)).lines = <<x, z>>
    BY <1>8, TwoLinesRead, Zenon
  <2> QED  BY <1>13, <2>1, Zenon
<1>15. DOMAIN ls = {1, 2} /\ ls[1] = x /\ ls[2] = z /\ 1 # 2
  BY <1>14
<1>16. PICK types : types = {i \in DOMAIN ls : StartsWith(ls[i], <<"Content-Type:">>)}
  OBVIOUS
<1>17. StartsWith(z, <<"Content-Type:">>) /\ ~StartsWith(x, <<"Content-Type:">>)
  <2>1. StartsWith(z, <<c>>) /\ ~StartsWith(x, <<c>>)
    BY <1>7, <1>8, StartsWithPiece, Zenon
  <2> QED  BY <2>1, Zenon
<1>18. \A i : i \in types <=> i = 2
  BY <1>15, <1>16, <1>17, Zenon
<1>19. types # {} /\ Min(types) = 2
  <2>1. types = {2}
    BY ONLY <1>18
  <2>2. types \subseteq Nat /\ types # {}
    BY <2>1
  <2>3. Min(types) \in types
    BY <2>2, Smallest, Zenon
  <2> QED  BY <1>18, <2>2, <2>3, Zenon
<1>20. trim(Tail(z)) = t
  <2>1. Tail(z) = bt
    BY <1>2, TailBehind, Zenon
  <2>2. trim(bt) = t
    BY <1>1, TrimmedBehind, Zenon
  <2> QED  BY <2>1, <2>2, Zenon
<1>21. extractCgiContentType(s) = [type |-> t, body |-> y]
  BY <1>11, <1>12, <1>13, <1>14, <1>15, <1>16, <1>19, <1>20, Zenon DEF extractCgiContentType
<1>22. PICK r : r = extractCgiContentType(s)
  OBVIOUS
<1>23. r.type = t /\ r.body = y
  BY ONLY <1>21, <1>22
<1> QED  BY <1>3, <1>10, <1>22, <1>23, Zenon DEF HeardAs


\* What scripts print, and the server before them.
Printed == Sign \cup {"./", "LF", "CRLF", "Content-Type:"}

LEMMA PrintedSigns ==
  /\ Sign \subseteq Printed /\ STRING \subseteq Printed
  /\ {"./", "LF", "CRLF", "Content-Type:", " "} \subseteq Printed
  /\ "./" \notin LineEnds /\ "./" # "Content-Type:" /\ "LF" \in LineEnds
  /\ "Content-Type:" \notin LineEnds /\ " " \notin LineEnds /\ " " \in Blank
BY Signs, Zenon DEF Printed, LineEnds, Blank

LEMMA ScriptIsRead ==
  ASSUME Tree, NEW p, p \in Seq(Printed \ LineEnds), isFile(p),
         NEW o \in Outputs, o.type # <<>>, EndsWhereSought(o)
  PROVE  HeardAs(CgiOutput(p, o), o.type, o.body)
<1> DEFINE T == Printed
           N == Printed \ LineEnds
<1>1. PICK path : path = Components(p)
  OBVIOUS
<1>2. path \in DOMAIN files /\ Front(path) \in dirs /\ path \notin dirs
  BY <1>1, Zenon DEF isFile, Tree
<1>3. path \in Seq(Seq(N)) /\ path # <<>>
  <2>1. path \in Seq(Seq(N))
    BY <1>1, ComponentsAreNames, Zenon
  <2>2. Front(<<>>) = <<>>
    BY DEF Front
  <2> QED  BY <1>2, <2>1, <2>2, Zenon
<1>4. PICK name \in Seq(N) : name = Last(path)
  <2>1. Len(path) \in 1..Len(path)
    BY <1>3, EmptySeq
  <2>2. path[Len(path)] \in Seq(N)
    BY <1>3, <2>1
  <2> QED  BY <2>2, Zenon DEF Last
<1>5. PICK d, f, c, b : d = "./" /\ f = "LF" /\ c = "Content-Type:" /\ b = " "
  BY Zenon
<1>6. /\ d \in T /\ d \in N /\ f \in T /\ c \in T /\ b \in T /\ d # c
      /\ f \in LineEnds /\ c \notin LineEnds /\ b \notin LineEnds /\ b \in Blank
  BY <1>5, PrintedSigns, Zenon
<1>7. N \subseteq T
  BY Zenon
<1> HIDE DEF N, T
<1>8. PICK x \in Seq(N) : x = <<d>> \o name /\ Joint(x, <<d>>, name)
  BY <1>6, OneSign, JointConcat, Zenon
<1>9. x \in Seq(T) /\ x # <<>> /\ x[1] = d /\ OnALine(x)
  <2>1. x \in Seq(T)
    BY <1>7, SeqMonotone, Zenon
  <2>2. Len(<<d>>) = 1 /\ <<d>>[1] = d /\ 1 \in 1..1 /\ Len(name) \in Nat
    OBVIOUS
  <2>3. Len(x) = 1 + Len(name) /\ x[1] = d
    BY <1>8, <2>2, Zenon DEF Joint
  <2>4. x # <<>>
    BY <2>2, <2>3
  <2>5. \A i \in 1..Len(x) : x[i] \in N
    BY <1>8
  <2> QED  BY <2>1, <2>3, <2>4, <2>5, Zenon DEF OnALine, N
<1>10. OutputOK(o)
  BY HttpAssumption, Zenon
<1>11. PICK t \in Seq(T), y \in Seq(T), e \in T :
         /\ t = o.type /\ y = o.body /\ e = o.end /\ t \in Seq(STRING)
         /\ e \in {"LF", "CRLF"} /\ (e = "LF" => Find(y, <<"CRLF", "CRLF">>) = npos)
         /\ t # <<>> /\ ToSet(t) \cap LineEnds = {} /\ t[1] \notin Blank /\ Last(t) \notin Blank
  <2>1. \A w : w \in Seq(STRING) => w \in Seq(T)
    BY PrintedSigns, SeqMonotone, Zenon DEF T
  <2>2. o.end \in {"LF", "CRLF"}
    BY <1>10, Zenon DEF OutputOK
  <2>3. o.end \in T
    BY <2>2, PrintedSigns, Zenon DEF T
  <2>4. o.end = "LF" => Find(o.body, <<"CRLF", "CRLF">>) = npos
    BY Zenon DEF EndsWhereSought
  <2> QED  BY <1>10, <2>1, <2>2, <2>3, <2>4, Zenon DEF OutputOK
<1>12. OnALine(t) /\ t[Len(t)] \notin Blank
  <2>1. \A i \in 1..Len(t) : t[i] \notin LineEnds
    BY <1>11 DEF ToSet
  <2> QED  BY <1>11, <2>1, Zenon DEF OnALine, Last
<1>13. HeardAs(Output(x, f, <<c, b>> \o t, e, y), t, y)
  BY <1>5, <1>6, <1>9, <1>11, <1>12, TypeIsHeard, Zenon
<1>14. CgiOutput(p, o) = (x \o <<f>>) \o PrintedBy(o)
  BY <1>1, <1>2, <1>4, <1>5, <1>8, Zenon DEF CgiOutput
<1>15. PrintedBy(o) = ((<<c, b>> \o t) \o <<e, e>>) \o y
  BY <1>5, <1>11, Zenon DEF PrintedBy
<1>16. PICK z \in Seq(T) : z = <<c, b>> \o t
  <2>1. <<c, b>> \in Seq(T)
    BY ONLY <1>6
  <2> QED  BY <2>1, JointConcat, Zenon
<1>17. PICK ee \in Seq(T) : ee = <<e, e>>
  <2>1. <<e, e>> \in Seq(T)
    BY ONLY e \in T
  <2> QED  BY <2>1, Zenon
<1>18. PICK xf \in Seq(T) : xf = x \o <<f>>
  BY <1>6, <1>9, OneSign, JointConcat, Zenon
<1>19. xf \o ((z \o ee) \o y) = ((xf \o z) \o ee) \o y
  <2>1. PICK ze \in Seq(T) : ze = z \o ee
    BY JointConcat, Zenon
  <2>2. Assoc(T, xf, ze, y) /\ Assoc(T, xf, z, ee)
    BY Associates, Zenon
  <2> QED  BY <2>1, <2>2, Zenon DEF Assoc
<1>20. CgiOutput(p, o) = Output(x, f, <<c, b>> \o t, e, y)
  BY <1>14, <1>15, <1>16, <1>17, <1>18, <1>19, Zenon DEF Output, TwoLines
<1> QED  BY <1>11, <1>13, <1>20, Zenon


\* Where something is found, it is.
FoundAt(s, p, k) == k \in 1..(Len(s) - Len(p) + 1) /\ SubSeq(s, k, k + Len(p) - 1) = p

LEMMA FoundThere ==
  ASSUME NEW s, NEW p, Len(s) \in Nat, Len(p) \in Nat, Find(s, p) # npos
  PROVE  FoundAt(s, p, Find(s, p))
<1>1. PICK hits : hits = Within(s, p, 1)
  OBVIOUS
<1>2. hits # {} /\ Find(s, p) = Min(hits)
  BY <1>1, Zenon DEF Find, FindFrom
<1>3. hits \subseteq Nat
  BY <1>1 DEF Within
<1>4. PICK k : k = Find(s, p) /\ k \in hits
  BY <1>2, <1>3, Smallest, Zenon
<1> QED  BY <1>1, <1>4, Zenon DEF Within, FoundAt

\* A text without line ends, by its pieces.
LEMMA WithoutLineEnds ==
  ASSUME NEW T, NEW s \in Seq(T), ToSet(s) \cap LineEnds = {}
  PROVE  s \in Seq(T \ LineEnds)
BY DEF ToSet

LEMMA TextFrom ==
  ASSUME NEW T, NEW s \in Seq(T), NEW k \in Nat
  PROVE  From(s, k + 1) \in Seq(T)
<1>1. PICK n \in Nat : n = Len(s)
  OBVIOUS
<1>2. SubSeq(s, k + 1, n) \in Seq(T)
  BY <1>1
<1> QED  BY <1>1, <1>2, Zenon DEF From

\* A request that is given to a script: its location, the extension in its path,
\* and the script's name.
ScriptFound(q, l) ==
  /\ l \in Owner(Requests[q].path)
  /\ l.cgi_extension \in Seq(STRING) /\ l.cgi_extension # <<>> /\ l.cgi_extension[1] # "/"
  /\ cgiExtension(l) = l.cgi_extension
  /\ Find(Requests[q].path, l.cgi_extension) # npos
  /\ scriptOf(q) \in Seq(Printed \ LineEnds)

LEMMA ScriptIsFound ==
  ASSUME ScriptsAreNamed, config \in Servers, NEW q \in DOMAIN Requests, Allowed(q), isCgi(q)
  PROVE  ScriptFound(q, locationConfig(q))
<1> DEFINE N == Printed \ LineEnds
<1>1. PICK l, path : l = locationConfig(q) /\ path = Requests[q].path
  OBVIOUS
<1>2. PICK ext : ext = cgiExtension(l) /\ ext # <<>>
  BY <1>1, Zenon DEF isCgi, checkCgiRequest
<1>3. l # NULL /\ ext = l.cgi_extension
  BY <1>2, Zenon DEF cgiExtension
<1>4. request[q].ok
  BY Zenon DEF Allowed, Parsed
<1>5. l \in Owner(path)
  BY <1>1, <1>3, <1>4, RulesOfTheFound, Zenon
<1>6. PICK r \in ToSet(Requests) : r = Requests[q]
  BY Zenon DEF ToSet
<1>7. /\ ext \in Seq(STRING) /\ ext[1] # "/" /\ Find(path, ext) # npos
      /\ ToSet(rootOf(config, l)) \cap LineEnds = {} /\ ToSet(urlDecode(path)) \cap LineEnds = {}
  <2>1. l \in OwnerIn(config, r.path) /\ l.cgi_extension # <<>> /\ path = r.path
    BY <1>1, <1>2, <1>3, <1>5, <1>6, Zenon DEF Owner
  <2> QED  BY <1>3, <2>1, Zenon DEF ScriptsAreNamed
<1>8. path \in Seq(STRING) /\ request[q].path = path
  BY <1>1, <1>4, BodyIsText, RequestsParsed, Zenon DEF ReadAsSent
<1>9. l.root \in Seq(STRING) /\ l.location \in Seq(STRING) /\ config.root \in Seq(STRING)
  <2>1. l \in ToSet(config.locations)
    BY <1>5, Zenon DEF Owner, OwnerIn
  <2> QED  BY <2>1, HttpAssumption, Zenon
<1>10. PICK root \in Seq(N) : root = rootOf(config, l)
  <2>1. rootOf(config, l) \in Seq(STRING)
    BY <1>9, Zenon DEF rootOf
  <2>2. rootOf(config, l) \in Seq(Printed)
    BY <2>1, PrintedSigns, SeqMonotone, Zenon
  <2> QED  BY <1>7, <2>2, WithoutLineEnds, Zenon
<1>11. PICK d \in Seq(N) : d = urlDecode(path)
  <2>1. urlDecode(path) \in Seq(Sign)
    BY <1>8, DecodedIsText, Zenon
  <2>2. urlDecode(path) \in Seq(Printed)
    BY <2>1, PrintedSigns, SeqMonotone, Zenon
  <2> QED  BY <1>7, <2>2, WithoutLineEnds, Zenon
<1> HIDE DEF N
<1>12. PICK below \in Seq(N) : below = belowLocation(l, path)
  <2>1. belowLocation(l, path) = IF StartsWith(d, l.location)
                                 THEN From(d, Len(l.location) + 1) ELSE d
    BY <1>3, <1>11, Zenon DEF belowLocation
  <2>2. From(d, Len(l.location) + 1) \in Seq(N)
    <3>1. Len(l.location) \in Nat
      BY <1>9
    <3> QED  BY <3>1, TextFrom, Zenon
  <2> QED  BY <2>1, <2>2, Zenon
<1>13. PICK p \in Seq(N) : p = resource_path(q)
  <2>1. buildResourcePath(config, l, path) =
          IF root # <<>> /\ Last(root) = "/" /\ below # <<>> /\ below[1] = "/"
          THEN root \o Tail(below) ELSE root \o below
    BY <1>2, <1>3, <1>10, <1>12, Zenon DEF buildResourcePath
  <2>2. root \o below \in Seq(N)
    BY JointConcat, Zenon
  <2>3. below # <<>> => root \o Tail(below) \in Seq(N)
    <3>1. below # <<>> => Tail(below) \in Seq(N)
      BY HeadTailProperties
    <3> QED  BY <3>1, JointConcat, Zenon
  <2> QED  BY <1>1, <1>8, <2>1, <2>2, <2>3, Zenon DEF resource_path
<1>14. scriptOf(q) \in Seq(N)
  <2>1. scriptOf(q) = extractCgiScriptPath(p, ext)
    BY <1>1, <1>2, <1>13, Zenon DEF scriptOf
  <2>2. CASE Find(p, ext) # npos
    <3>1. PICK k : k = Find(p, ext) /\ FoundAt(p, ext, k)
      <4>1. Len(p) \in Nat /\ Len(ext) \in Nat
        BY <1>7
      <4> QED  BY <2>2, <4>1, FoundThere, Zenon
    <3>2. PICK n, m \in Nat : n = Len(p) /\ m = Len(ext)
      BY <1>7
    <3>3. k \in 1..(n - m + 1)
      BY <3>1, <3>2, Zenon DEF FoundAt
    <3>4. SubSeq(p, 1, k + m - 1) \in Seq(N)
      <4>1. \A i \in 1..(k + m - 1) : p[i] \in N
        BY ONLY <3>2, <3>3, p \in Seq(N)
      <4> QED  BY ONLY <3>3, <4>1, n \in Nat, m \in Nat, SubSeqProperties
    <3>5. afterExtension(p, ext) = k + m
      BY <3>1, <3>2, Zenon DEF afterExtension
    <3>6. PICK h : h = afterExtension(p, ext) - 1
      OBVIOUS
    <3>7. h = k + m - 1
      BY ONLY <3>3, <3>5, <3>6, n \in Nat, m \in Nat
    <3>8. extractCgiScriptPath(p, ext) = SubSeq(p, 1, h)
      BY <2>2, <3>6, Zenon DEF extractCgiScriptPath
    <3> QED  BY <2>1, <3>4, <3>7, <3>8, Zenon
  <2>3. CASE Find(p, ext) = npos
    BY <2>1, <2>3, <1>13, Zenon DEF extractCgiScriptPath
  <2> QED  BY <2>2, <2>3, Zenon
<1> QED  BY <1>1, <1>2, <1>3, <1>5, <1>7, <1>14, Zenon DEF ScriptFound, N

\* What follows the script in the path of a request.
PathSplits(path, ext, info) ==
  \E i \in DOMAIN path : /\ path = SubSeq(path, 1, i) \o info /\ i > 1
                         /\ SubSeq(path, i - Len(ext) + 1, i) = ext

LEMMA PathInfoFollows ==
  ASSUME NEW path \in Seq(STRING), NEW c, path[1] = c, NEW ext \in Seq(STRING), ext # <<>>,
         ext[1] # c, Find(path, ext) # npos
  PROVE  PathSplits(path, ext, extractCgiPathInfo(path, ext))
<1>1. PICK n, m \in Nat : n = Len(path) /\ m = Len(ext) /\ m > 0
  BY EmptySeq
<1>2. PICK k : k = Find(path, ext) /\ FoundAt(path, ext, k)
  BY <1>1, FoundThere, Zenon
<1>3. k \in 1..(n - m + 1) /\ SubSeq(path, k, k + m - 1) = ext
  BY <1>1, <1>2, Zenon DEF FoundAt
<1>4. PICK i : i = k + m - 1
  OBVIOUS
<1>5. /\ i \in 1..n /\ i \in Nat /\ k \in 1..i /\ k <= n /\ k = i - m + 1 /\ k + m = i + 1
      /\ DOMAIN path = 1..n
  BY <1>1, <1>3, <1>4
<1>6. k # 1
  <2>1. PICK w : w = SubSeq(path, k, i) /\ w = ext
    BY <1>3, <1>4, Zenon
  <2>2. w[1] = path[k]
    <3>1. 1 \in 1..(i - k + 1) /\ k + 1 - 1 = k
      BY <1>5
    <3>2. \A j \in k..i : path[j] \in STRING
      BY <1>1, <1>5
    <3> QED  BY <1>1, <1>5, <2>1, <3>1, <3>2, SubSeqProperties
  <2> QED  BY <2>1, <2>2, Zenon
<1>7. i > 1
  BY <1>5, <1>6
<1>8. extractCgiPathInfo(path, ext) = SubSeq(path, i + 1, n)
  BY <1>1, <1>2, <1>5, Zenon DEF extractCgiPathInfo, afterExtension, From
<1>9. path = SubSeq(path, 1, i) \o SubSeq(path, i + 1, n)
  <2>1. PICK u, v : u = SubSeq(path, 1, i) /\ v = SubSeq(path, i + 1, n)
    OBVIOUS
  <2>2. /\ u \in Seq(STRING) /\ Len(u) = i /\ (\A j \in 1..i : u[j] = path[j])
    BY <1>1, <1>5, <2>1
  <2>3. /\ v \in Seq(STRING) /\ Len(v) = n - i /\ \A j \in 1..(n - i) : v[j] = path[i + j]
    BY <1>1, <1>5, <2>1
  <2>4. PICK s \in Seq(STRING) : s = u \o v /\ Joint(s, u, v)
    BY <2>2, <2>3, JointConcat, Zenon
  <2>5. /\ Len(s) = i + (n - i) /\ (\A j \in 1..i : s[j] = u[j])
        /\ \A j \in 1..(n - i) : s[i + j] = v[j]
    BY <2>2, <2>3, <2>4, Zenon DEF Joint
  <2>6. \A j \in 1..n : s[j] = path[j]
    <3> TAKE j \in 1..n
    <3>1. CASE j \in 1..i
      BY <2>2, <2>5, <3>1, Zenon
    <3>2. CASE j \notin 1..i
      <4>1. j - i \in 1..(n - i) /\ i + (j - i) = j
        BY <1>1, <1>5, <3>2
      <4>2. PICK h \in 1..(n - i) : h = j - i /\ i + h = j
        BY <4>1
      <4>3. s[i + h] = v[h] /\ v[h] = path[i + h]
        BY <2>3, <2>5, Zenon
      <4> QED  BY <4>2, <4>3, Zenon
    <3> QED  BY <3>1, <3>2
  <2>7. Len(s) = n
    BY <1>1, <1>5, <2>5
  <2>8. s = path
    BY ONLY <1>1, <2>6, <2>7, s \in Seq(STRING), path \in Seq(STRING)
  <2> QED  BY <2>1, <2>4, <2>8, Zenon
<1>10. SubSeq(path, i - Len(ext) + 1, i) = ext
  BY <1>1, <1>3, <1>4, <1>5, Zenon
<1> QED  BY <1>5, <1>7, <1>8, <1>9, <1>10, Zenon DEF PathSplits

\* Only handleCgiRequest gives an answer with a script in it.
WithoutScript(x) == x.script = NoScript

LEMMA SilentPages ==
  /\ \A code, type, body : WithoutScript(Response(code, type, body))
  /\ \A code : WithoutScript(buildPage(code))
<1>1. \A code, type, body : WithoutScript(Response(code, type, body))
  BY DEF Response, WithoutScript
<1> QED  BY <1>1, Zenon DEF buildPage

IsResponse(x) == \E code, type, body : x = Response(code, type, body)

LEMMA ErrorIsResponse ==
  ASSUME NEW code, NEW l
  PROVE  IsResponse(handleError(code, l))
<1>1. CASE customErrorPages(code, l) = {}
  <2>1. PICK c : defaultPage(code) = buildPage(c)
    BY DEF defaultPage, buildBadRequest, buildForbidden, buildNotFound,
       buildMethodNotAllowed, buildPayloadTooLarge, buildInternalServerError
  <2> QED  BY <1>1, <2>1, Zenon DEF handleError, buildPage, IsResponse
<1>2. CASE customErrorPages(code, l) # {}
  BY <1>2, Zenon DEF handleError, IsResponse
<1> QED  BY <1>1, <1>2

LEMMA SilentErrors ==
  ASSUME NEW code, NEW l
  PROVE  WithoutScript(handleError(code, l))
BY ErrorIsResponse, SilentPages, Zenon DEF IsResponse

Silent == exchange'.response # NULL => exchange'.response.script = NoScript

LEMMA SilentAnswer ==
  ASSUME NEW b, NEW q, NEW response, Answer(b, q, response), WithoutScript(response)
  PROVE  Silent
BY AnswerParts, Zenon DEF Answered, Silent, WithoutScript

LEMMA SilentChecks ==
  ASSUME NEW b, NEW q, BadRequest(b, q) \/ Segfault(b, q) \/ Refuse(b, q)
  PROVE  Silent
<1>1. CASE BadRequest(b, q)
  BY <1>1, SilentPages, SilentAnswer, Zenon DEF BadRequest, buildBadRequest
<1>2. CASE Segfault(b, q)
  BY <1>2, AnswerParts, Zenon DEF Segfault, Answered, Silent
<1>3. CASE Refuse(b, q)
  <2>1. PICK l, response : response \in refusal(l, request[q]) /\ Answer(b, q, response)
    BY <1>3, Zenon DEF Refuse
  <2>2. \/ response = handleError(405, l) \/ response = handleError(413, l)
        \/ response = buildRedirect(l)
    BY <2>1, Zenon DEF refusal
  <2>3. WithoutScript(buildRedirect(l))
    <3>1. PICK code, type, body : buildPage(l.return_code) = Response(code, type, body)
      BY Zenon DEF buildPage
    <3>2. [Response(code, type, body) EXCEPT !.target = l.return_target].script = NoScript
      BY DEF Response
    <3>3. buildRedirect(l).script = NoScript
      BY <3>1, <3>2, Zenon DEF buildRedirect
    <3> QED  BY <3>3, Zenon DEF WithoutScript
  <2>4. WithoutScript(handleError(405, l)) /\ WithoutScript(handleError(413, l))
    BY SilentErrors, Zenon
  <2>5. WithoutScript(response)
    BY ONLY <2>2, <2>3, <2>4
  <2> QED  BY <2>1, <2>5, SilentAnswer, Zenon
<1> QED  BY <1>1, <1>2, <1>3

LEMMA SilentFiles ==
  ASSUME NEW b, NEW q,
         handleGetRequest(b, q) \/ handlePostRequest(b, q) \/ handleDeleteRequest(b, q)
  PROVE  Silent
<1>1. CASE handleGetRequest(b, q)
  <2>1. PICK l, p, counters : Answer(b, q, getResponse(l, p, counters))
    BY <1>1, Zenon DEF handleGetRequest
  <2>2. \A content, mime : WithoutScript(buildOk(content, mime))
    BY SilentPages, Zenon DEF buildOk
  <2>3. PICK shown : shown = [buildOk(<<>>, <<"application/json">>) EXCEPT
                                !.stats = getSessionStatsJson(counters)]
    OBVIOUS
  <2>4. WithoutScript(shown)
    <3>1. PICK code, type, body :
            buildOk(<<>>, <<"application/json">>) = Response(code, type, body)
      BY Zenon DEF buildOk
    <3>2. [Response(code, type, body) EXCEPT
             !.stats = getSessionStatsJson(counters)].script = NoScript
      BY DEF Response
    <3> QED  BY <2>3, <3>1, <3>2, Zenon DEF WithoutScript
  <2>5. \/ getResponse(l, p, counters) = shown
        \/ \E content, mime : getResponse(l, p, counters) = buildOk(content, mime)
        \/ \E code : getResponse(l, p, counters) = handleError(code, l)
    BY <2>3, Zenon DEF getResponse
  <2>6. PICK response : response = getResponse(l, p, counters)
    OBVIOUS
  <2>7. WithoutScript(response)
    <3>1. CASE response = shown
      BY <2>4, <3>1
    <3>2. CASE response # shown
      BY <2>2, <2>5, <2>6, <3>2, SilentErrors, Zenon
    <3> QED  BY <3>1, <3>2
  <2> QED  BY <2>1, <2>6, <2>7, SilentAnswer, Zenon
<1>2. CASE handlePostRequest(b, q)
  <2>1. \/ Answer(b, q, buildCreated)
        \/ \E code, l : Answer(b, q, handleError(code, l))
    BY <1>2, Zenon DEF handlePostRequest, handleUpload
  <2> QED  BY <2>1, SilentPages, SilentErrors, SilentAnswer, Zenon DEF buildCreated
<1>3. CASE handleDeleteRequest(b, q)
  <2>1. \/ Answer(b, q, buildNoContent)
        \/ \E code, l : Answer(b, q, handleError(code, l))
    BY <1>3, Zenon DEF handleDeleteRequest
  <2> QED  BY <2>1, SilentPages, SilentErrors, SilentAnswer, Zenon DEF buildNoContent
<1> QED  BY <1>1, <1>2, <1>3


\* What handleCgiRequest answers: with the script that ran, and what the peer
\* hears of it.
PassesOn(q, x, o) ==
  /\ x.script.printed = o
  /\ x.type = extractCgiContentType(CgiOutput(scriptOf(q), o)).type
  /\ x.body = extractCgiContentType(CgiOutput(scriptOf(q), o)).body

ScriptRan(q, x) ==
  /\ x.script.env = setupEnvironment(request[q], config, scriptOf(q),
                      extractCgiPathInfo(request[q].path, cgiExtension(locationConfig(q))))
  /\ x.script.stdin = stdinOf(request[q])
  /\ x.status = 200 => \E o \in Outputs : PassesOn(q, x, o)

\* An answer, and what it becomes when a script was given something.
IsAnswer(x) ==
  x = [status |-> x.status, type |-> x.type, body |-> x.body, target |-> x.target,
       stats |-> x.stats,
       script |-> [env |-> x.script.env, stdin |-> x.script.stdin,
                   printed |-> x.script.printed]]

GivenTo(x, env, stdin) == [x EXCEPT !.script.env = env, !.script.stdin = stdin]

HeardOf(o, type, body) ==
  [Response(200, type, body) EXCEPT !.script = [NoScript EXCEPT !.printed = o]]

Gave(y, x, env, stdin) ==
  /\ y.status = x.status /\ y.type = x.type /\ y.body = x.body
  /\ y.script.env = env /\ y.script.stdin = stdin
  /\ y.script.printed = x.script.printed

LEMMA AnswerGiven ==
  ASSUME NEW x, IsAnswer(x), NEW env, NEW stdin
  PROVE  Gave(GivenTo(x, env, stdin), x, env, stdin)
<1>0. PICK y : y = GivenTo(x, env, stdin)
  OBVIOUS
<1>1. PICK code, type, body, target, counts, script :
        /\ x = [status |-> code, type |-> type, body |-> body, target |-> target,
                stats |-> counts, script |-> script]
        /\ script = [env |-> x.script.env, stdin |-> x.script.stdin,
                     printed |-> x.script.printed]
  BY DEF IsAnswer
<1>2. PICK printed : printed = x.script.printed
  OBVIOUS
<1>3. y = [status |-> code, type |-> type, body |-> body, target |-> target,
           stats |-> counts,
           script |-> [env |-> env, stdin |-> stdin, printed |-> printed]]
  BY <1>0, <1>1, <1>2 DEF GivenTo
<1> QED  BY <1>0, <1>1, <1>2, <1>3 DEF Gave

AnswerOf(q, x) ==
  /\ IsAnswer(x)
  /\ x.status = 200 => \E o \in Outputs : PassesOn(q, x, o)

LEMMA ScriptAnswers ==
  ASSUME NEW q, NEW l, NEW x \in cgiResponses(l, scriptOf(q))
  PROVE  AnswerOf(q, x)
<1> DEFINE heard(o) == extractCgiContentType(CgiOutput(scriptOf(q), o))
<1>1. \/ \E o \in Outputs : x = HeardOf(o, heard(o).type, heard(o).body)
      \/ x = handleError(500, l) \/ x = buildPage(504)
  BY Zenon DEF cgiResponses, HeardOf, buildError
<1> HIDE DEF heard
<1>2. \A code, type, body : IsAnswer(Response(code, type, body))
  BY DEF IsAnswer, Response, NoScript
<1>3. CASE \E o \in Outputs : x = HeardOf(o, heard(o).type, heard(o).body)
  <2>0. PICK o \in Outputs : x = HeardOf(o, heard(o).type, heard(o).body)
    BY <1>3
  <2>1. PICK type, body :
          type = heard(o).type /\ body = heard(o).body /\ x = HeardOf(o, type, body)
    BY <2>0
  <2>2. IsAnswer(x) /\ x.script.printed = o /\ x.type = type /\ x.body = body
    BY <2>1 DEF HeardOf, Response, NoScript, IsAnswer
  <2>3. PassesOn(q, x, o)
    <3>1. x.type = heard(o).type /\ x.body = heard(o).body
      BY <2>1, <2>2, Zenon
    <3> QED  BY <2>2, <3>1, Zenon DEF heard, PassesOn
  <2>4. IsAnswer(x) /\ \E p \in Outputs : PassesOn(q, x, p)
    BY <2>2, <2>3, Zenon
  <2> QED  BY <2>4, Zenon DEF AnswerOf
<1>4. CASE x = handleError(500, l)
  <2>1. x.status # 200
    BY <1>4, ErrorStatus
  <2>2. IsResponse(x)
    BY <1>4, ErrorIsResponse, Zenon
  <2>3. IsAnswer(x)
    BY <1>2, <2>2, Zenon DEF IsResponse
  <2> QED  BY <2>1, <2>3, Zenon DEF AnswerOf
<1>5. CASE x = buildPage(504)
  <2>1. x.status # 200
    BY <1>5 DEF buildPage, Response
  <2>2. PICK page : buildPage(504) = Response(504, html, page)
    BY Zenon DEF buildPage
  <2>3. IsAnswer(Response(504, html, page))
    BY <1>2, Zenon
  <2>4. IsAnswer(x)
    BY ONLY <1>5, <2>2, <2>3
  <2> QED  BY <2>1, <2>4, Zenon DEF AnswerOf
<1> QED  BY <1>1, <1>3, <1>4, <1>5, Zenon

LEMMA CgiAnswer ==
  ASSUME NEW b, NEW q, handleCgiRequest(b, q)
  PROVE  Silent \/ \E x : Answer(b, q, x) /\ ScriptRan(q, x)
<1> DEFINE l == locationConfig(q)
           env == setupEnvironment(request[q], config, scriptOf(q),
                    extractCgiPathInfo(request[q].path, cgiExtension(l)))
           stdin == stdinOf(request[q])
<1> DEFINE given(x) == [x EXCEPT !.script.env = env, !.script.stdin = stdin]
<1>0. \/ \E x \in cgiResponses(l, scriptOf(q)) : Answer(b, q, given(x))
      \/ Answer(b, q, handleError(405, l))
  BY Zenon DEF handleCgiRequest
<1>1. \/ \E x \in cgiResponses(l, scriptOf(q)) : Answer(b, q, GivenTo(x, env, stdin))
      \/ Answer(b, q, handleError(405, l))
  <2>1. \A x : given(x) = GivenTo(x, env, stdin)
    BY DEF GivenTo
  <2> HIDE DEF given
  <2> QED  BY <1>0, <2>1, Zenon
<1> HIDE DEF given, l, env, stdin
<1>2. CASE Answer(b, q, handleError(405, l))
  BY <1>2, SilentErrors, SilentAnswer, Zenon
<1>3. CASE \E x \in cgiResponses(l, scriptOf(q)) : Answer(b, q, GivenTo(x, env, stdin))
  <2>1. PICK x \in cgiResponses(l, scriptOf(q)) : Answer(b, q, GivenTo(x, env, stdin))
    BY <1>3
  <2>2. PICK y : y = GivenTo(x, env, stdin) /\ Answer(b, q, y)
    BY <2>1
  <2>3. AnswerOf(q, x)
    BY ScriptAnswers, Zenon
  <2>4. Gave(y, x, env, stdin)
    BY <2>2, <2>3, AnswerGiven, Zenon DEF AnswerOf
  <2>5. ScriptRan(q, y)
    <3>1. y.script.env = env /\ y.script.stdin = stdin
      BY <2>4, Zenon DEF Gave
    <3>2. ASSUME y.status = 200 PROVE \E o \in Outputs : PassesOn(q, y, o)
      <4>1. x.status = 200
        BY <2>4, <3>2, Zenon DEF Gave
      <4>2. PICK o \in Outputs : PassesOn(q, x, o)
        BY <2>3, <4>1, Zenon DEF AnswerOf
      <4>3. PassesOn(q, y, o)
        BY <2>4, <4>2, Zenon DEF Gave, PassesOn
      <4> QED  BY <4>3
    <3> QED  BY <3>1, <3>2, Zenon DEF ScriptRan, l, env, stdin
  <2> QED  BY <2>2, <2>5, Zenon
<1> QED  BY <1>1, <1>2, <1>3


\* What ScriptGetsItsRequest says of an answer with a script.
Got(q, x) ==
  LET env == x.script.env
      path == Requests[q].path
  IN  /\ env.REQUEST_METHOD = Requests[q].method /\ env.QUERY_STRING = Requests[q].query
      /\ \E i \in DOMAIN path, l \in Owner(path) :
           /\ path = SubSeq(path, 1, i) \o env.PATH_INFO /\ i > 1
           /\ SubSeq(path, i - Len(l.cgi_extension) + 1, i) = l.cgi_extension
      /\ x.script.stdin = (IF Requests[q].method = <<"POST">> THEN BodyOf(Requests[q])
                           ELSE <<>>)
      /\ env.CONTENT_LENGTH =
           (IF Requests[q].kind \in {"form", "raw"} THEN <<Numeral[Len(BodyOf(Requests[q]))]>>
            ELSE <<>>)

Describes(env, r, info) ==
  /\ env.REQUEST_METHOD = r.method /\ env.QUERY_STRING = r.query_string
  /\ env.PATH_INFO = info
  /\ env.CONTENT_LENGTH = valueOr(r.headers, <<"Content-Length">>)

LEMMA Environment ==
  ASSUME NEW r, NEW s, NEW p, NEW info
  PROVE  Describes(setupEnvironment(r, s, p, info), r, info)
<1>0. PICK env : env = setupEnvironment(r, s, p, info)
  OBVIOUS
<1>1. PICK n, t, h : /\ n = valueOr(r.headers, <<"Content-Length">>)
                     /\ t = valueOr(r.headers, <<"Content-Type">>)
                     /\ h = valueOr(r.headers, <<"Host">>)
  BY Zenon
<1>2. env = [REQUEST_METHOD |-> r.method, SCRIPT_NAME |-> p, PATH_INFO |-> info,
             REQUEST_URI |-> r.path, QUERY_STRING |-> r.query_string,
             CONTENT_LENGTH |-> n, CONTENT_TYPE |-> t, HTTP_HOST |-> h,
             SERVER_NAME |-> s.server_name, SERVER_PORT |-> s.listen]
  BY <1>0, <1>1, Zenon DEF setupEnvironment
<1>3. /\ env.REQUEST_METHOD = r.method /\ env.QUERY_STRING = r.query_string
      /\ env.PATH_INFO = info /\ env.CONTENT_LENGTH = n
  BY ONLY <1>2
<1> QED  BY <1>0, <1>1, <1>3, Zenon DEF Describes

LEMMA ScriptIsGiven ==
  ASSUME ScriptsAreNamed, config \in Servers, NEW q \in DOMAIN Requests,
         Allowed(q), isCgi(q), NEW x, ScriptRan(q, x)
  PROVE  Got(q, x)
<1>1. request[q].ok
  BY Zenon DEF Allowed, Parsed
<1>2. PICK r : r = request[q]
  OBVIOUS
<1>3. PICK path \in Seq(STRING) : path = Requests[q].path /\ path = r.path
  <2>1. Requests[q].path \in Seq(STRING)
    <3>1. Requests[q] \in ToSet(Requests)
      BY Zenon DEF ToSet
    <3> QED  BY <3>1, BodyIsText, Zenon
  <2> QED  BY <1>1, <1>2, <2>1, RequestsRead, Zenon DEF ReadAsSent
<1>4. PICK c : c = "/"
  BY Zenon
<1>5. PICK l : l = locationConfig(q) /\ ScriptFound(q, l)
  BY ScriptIsFound, Zenon
<1>6. path[1] = c
  <2>1. l \in ToSet(config.locations) /\ StartsWith(path, l.location)
    BY <1>3, <1>5, Zenon DEF ScriptFound, Owner, OwnerIn
  <2>2. PICK w \in Seq(STRING) : w = l.location /\ w # <<>> /\ w[1] = c
    BY <1>4, <2>1, HttpAssumption
  <2> QED  BY <2>1, <2>2, StartsAlike, Zenon
<1>7. PICK ext \in Seq(STRING) : /\ ext = l.cgi_extension /\ ext = cgiExtension(l)
                                 /\ ext # <<>> /\ ext[1] # c /\ Find(path, ext) # npos
  BY <1>3, <1>4, <1>5, Zenon DEF ScriptFound
<1>8. PICK info : info = extractCgiPathInfo(path, ext) /\ PathSplits(path, ext, info)
  BY <1>6, <1>7, PathInfoFollows, Zenon
<1>9. PICK env : env = x.script.env /\ env = setupEnvironment(r, config, scriptOf(q), info)
  BY <1>2, <1>3, <1>5, <1>7, <1>8, Zenon DEF ScriptRan
<1>10. Describes(env, r, info)
  BY <1>9, Environment, Zenon
<1>11. r.method = Requests[q].method /\ r.query_string = Requests[q].query
       /\ r.body = BodyOf(Requests[q])
  BY <1>1, <1>2, RequestsRead, Zenon DEF ReadAsSent
<1>12. \E i \in DOMAIN path, k \in Owner(path) :
         /\ path = SubSeq(path, 1, i) \o info /\ i > 1
         /\ SubSeq(path, i - Len(k.cgi_extension) + 1, i) = k.cgi_extension
  <2>1. l \in Owner(path)
    BY <1>3, <1>5, Zenon DEF ScriptFound
  <2> QED  BY <1>7, <1>8, <2>1, Zenon DEF PathSplits
<1>13. x.script.stdin = IF Requests[q].method = <<"POST">> THEN BodyOf(Requests[q]) ELSE <<>>
  BY <1>2, <1>11, Zenon DEF ScriptRan, stdinOf
<1>14. env.CONTENT_LENGTH =
         IF Requests[q].kind \in {"form", "raw"} THEN <<Numeral[Len(BodyOf(Requests[q]))]>>
         ELSE <<>>
  BY <1>1, <1>2, <1>10, LengthFound, Zenon DEF LengthRead, Reads, Describes
<1> QED  BY <1>3, <1>9, <1>10, <1>11, <1>12, <1>13, <1>14, Zenon DEF Got, Describes

\* What ScriptIsHeard says of it.
Heard(q, x) ==
  x.status = 200 =>
    LET o == x.script.printed
    IN  o # <<>> /\ o.type # <<>> /\ EndsWhereSought(o) =>
          (x.type = o.type /\ x.body = o.body) \/ ~isFile(scriptOf(q))

LEMMA ScriptHeard ==
  ASSUME ScriptsAreNamed, Tree, config \in Servers, NEW q \in DOMAIN Requests,
         Allowed(q), isCgi(q), NEW x, ScriptRan(q, x)
  PROVE  Heard(q, x)
<1> SUFFICES ASSUME x.status = 200, isFile(scriptOf(q)), x.script.printed.type # <<>>,
                    EndsWhereSought(x.script.printed)
             PROVE  x.type = x.script.printed.type /\ x.body = x.script.printed.body
  BY Zenon DEF Heard
<1>1. PICK o \in Outputs : PassesOn(q, x, o)
  BY Zenon DEF ScriptRan
<1>2. x.script.printed = o
  BY <1>1, Zenon DEF PassesOn
<1>3. PICK p \in Seq(Printed \ LineEnds) : p = scriptOf(q)
  BY ScriptIsFound, Zenon DEF ScriptFound
<1>4. HeardAs(CgiOutput(p, o), o.type, o.body)
  <2>1. isFile(p) /\ o.type # <<>> /\ EndsWhereSought(o)
    <3>1. o.type # <<>> /\ EndsWhereSought(o)
      BY <1>2, Zenon
    <3> QED  BY <1>3, <3>1, Zenon
  <2>2. p \in Seq(Printed \ LineEnds) /\ o \in Outputs
    OBVIOUS
  <2> QED  BY ONLY <2>1, <2>2, Tree, ScriptIsRead, Zenon
<1> QED  BY <1>1, <1>2, <1>3, <1>4, Zenon DEF PassesOn, HeardAs

\* The script's answer in the next state, by the request that was taken.
LEMMA ScriptAnswered ==
  ASSUME NEW q, NEW x, exchange'.sent = q, exchange'.response = x,
         UNCHANGED <<files, dirs, config>>, Got(q, x), Heard(q, x)
  PROVE  ScriptTalksToPeer'
<1>1. /\ sent' = Requests[q] /\ status' = x.status
      /\ files' = files /\ dirs' = dirs /\ config' = config
  BY DEF sent, status
<1>2. Owner(sent.path)' = Owner(Requests[q].path)
  BY <1>1, Zenon DEF Owner
<1>3. isFile(scriptOf(exchange.sent))' <=> isFile(scriptOf(q))
  <2>1. locationConfig(exchange.sent)' = locationConfig(q)
    BY <1>1, Zenon DEF locationConfig
  <2>2. resource_path(exchange.sent)' = resource_path(q)
    <3>1. PICK s, l, path : s = config /\ l = locationConfig(q) /\ path = request[q].path
      OBVIOUS
    <3>2. config' = s /\ locationConfig(exchange.sent)' = l /\ request[exchange.sent].path' = path
      BY <1>1, <2>1, <3>1, Zenon
    <3>3. buildResourcePath(s, l, path)' = buildResourcePath(s, l, path)
      BY <1>1, Zenon DEF buildResourcePath, isFileExisting, isFile, isDirectory, Components
    <3>4. resource_path(exchange.sent)' = buildResourcePath(s, l, path)'
      BY <3>2, Zenon DEF resource_path, buildResourcePath, isFileExisting, isFile, isDirectory,
         Components
    <3> QED  BY <3>1, <3>3, <3>4, Zenon DEF resource_path
  <2>3. scriptOf(exchange.sent)' = scriptOf(q)
    BY <2>1, <2>2, Zenon DEF scriptOf
  <2> QED  BY <1>1, <2>3, Zenon DEF isFile, Components
<1>4. ScriptGetsItsRequest'
  BY <1>1, <1>2, Zenon DEF ScriptGetsItsRequest, Got
<1>5. ScriptIsHeard'
  BY <1>1, <1>3, Zenon DEF ScriptIsHeard, Heard
<1> QED  BY <1>4, <1>5 DEF ScriptTalksToPeer

\* Where requests for scripts name one, nothing is lost between the peer and
\* the script: it runs with the request's method, query, path behind it, body
\* and length, and its type and body are what the peer gets, behind the line
\* that the server prints first, unless it ends its lines with LF and has CRLF
\* CRLF in its body.
THEOREM ScriptsAreServed ==
  ASSUME ScriptsAreNamed
  PROVE  Spec => []ScriptTalksToPeer
<1>1. Init => ScriptTalksToPeer
  <2>1. Init => ~answered
    BY DEF Init, NoExchange, answered
  <2> QED  BY <2>1, Zenon DEF ScriptTalksToPeer, ScriptGetsItsRequest, ScriptIsHeard
<1>2. ASSUME IInv, ScriptTalksToPeer, [Next]_vars PROVE ScriptTalksToPeer'
  <2>1. Tree /\ config \in Servers
    BY <1>2, TypeParts, Zenon DEF IInv
  <2>2. CASE Silent
    BY <2>2, Zenon DEF Silent, ScriptTalksToPeer, ScriptGetsItsRequest, ScriptIsHeard, answered
  <2>3. ASSUME NEW b \in Browsers, NEW q \in DOMAIN Requests, processHttpRequest(b, q)
        PROVE  ScriptTalksToPeer'
    <3>1. Silent \/ handleCgiRequest(b, q)
      BY <2>3, SilentChecks, SilentFiles, Zenon DEF processHttpRequest
    <3>2. CASE handleCgiRequest(b, q) /\ ~Silent
      <4>1. PICK x : Answer(b, q, x) /\ ScriptRan(q, x)
        BY <3>2, CgiAnswer, Zenon
      <4>2. exchange'.sent = q /\ exchange'.response = x
        BY <4>1, AnswerParts, Zenon DEF Answered
      <4>3. Allowed(q) /\ isCgi(q) /\ UNCHANGED <<files, dirs, config>>
        BY <3>2, Zenon DEF handleCgiRequest
      <4>4. Got(q, x) /\ Heard(q, x)
        BY <1>2, <2>1, <4>1, <4>3, ScriptIsGiven, ScriptHeard, Zenon
      <4> QED  BY <4>2, <4>3, <4>4, ScriptAnswered
    <3> QED  BY <2>2, <3>1, <3>2, Zenon
  <2>4. CASE Return \/ Disk
    <3>1. exchange' = NoExchange
      BY <2>4, Zenon DEF Return, Disk
    <3>2. Silent
      BY ONLY <3>1 DEF NoExchange, Silent
    <3> QED  BY <2>2, <3>2
  <2>5. CASE UNCHANGED vars
    <3>1. files' = files /\ dirs' = dirs /\ config' = config /\ exchange' = exchange
      BY <2>5, Zenon DEF vars
    <3>2. isFile(scriptOf(exchange.sent))' <=> isFile(scriptOf(exchange.sent))
      <4>1. scriptOf(exchange.sent)' = scriptOf(exchange.sent)
        BY <3>1, Zenon DEF scriptOf, resource_path, locationConfig, buildResourcePath,
           isFileExisting, isFile, isDirectory, Components
      <4> QED  BY <3>1, <4>1, Zenon DEF isFile, Components
    <3>3. Owner(sent.path)' = Owner(sent.path)
      BY <3>1, Zenon DEF Owner, sent
    <3> QED  BY <1>2, <3>1, <3>2, <3>3, Zenon DEF ScriptTalksToPeer, ScriptGetsItsRequest,
                ScriptIsHeard, answered, status, sent
  <2> QED  BY <1>2, <2>3, <2>4, <2>5, Zenon DEF Next
<1> QED  BY Invariance, <1>1, <1>2, PTL DEF Spec
=============================================================================
