----------------------------- MODULE FileUtils -----------------------------
(***************************************************************************)
(* Namespace fileUtils, over the part of the file system the server sees:  *)
(* a file or directory is named by the sequence of the names that lead to  *)
(* it from the working directory, which is taken for the file system's     *)
(* root: paths are relative, and ".." leads no further up.                 *)
(***************************************************************************)
EXTENDS Strings

CONSTANT BufferSize    \* what an ofstream holds back until it is closed

VARIABLES
  files,    \* the content of each file
  dirs,     \* the directories
  full      \* whether the disk is full

\* The names on a path.
namesOf(p) == Without(getlines(p, "/"), {<<>>, <<".">>})

Up == <<".", ".">>

\* Where names lead when D are the directories: ".." behind one of them leads
\* to the one that it is in, and behind anything else to nothing there is.
resolved(D, names) ==
  LET enter(d, n) == IF n = Up /\ d \in D THEN Front(d) ELSE Append(d, n)
      walk[i \in 0..Len(names)] ==
        IF i = 0 THEN <<>> ELSE enter(walk[i - 1], names[i])
  IN  walk[Len(names)]

Components(p) == resolved(dirs, namesOf(p))

\* "x/." is a directory, and one that cannot be removed by this name.
endsInDot(p) == Last(getlines(p, "/")) = <<".">>

isFile(p) == Components(p) \in DOMAIN files /\ Last(p) # "/" /\ ~endsInDot(p)
isDirectory(p) == Components(p) \in dirs

\* Opening a directory for reading succeeds, too.
isFileExisting(p) == p # <<>> /\ (isFile(p) \/ isDirectory(p))

Inside(d) == {n \in DOMAIN files \cup dirs : n # <<>> /\ Front(n) = d}

\* The content, of a file that exists; a directory reads as empty.
extractFileInString(p) == IF isFile(p) THEN files[Components(p)] ELSE <<>>

\* Slip: that the directory is missing goes unnoticed.
AnyDirectory(p) == ~isDirectory(p) /\ Last(p) # "/"

writable(p) ==
  /\ p # <<>> /\ Front(Components(p)) \in dirs /\ ~isDirectory(p)
  /\ Last(p) # "/" /\ ~endsInDot(p)

\* On a full disk the file is created and stays empty.
written(p, content) ==
  [n \in DOMAIN files \cup {Components(p)} |->
     IF n # Components(p) THEN files[n] ELSE IF full THEN <<>> ELSE content]

\* ofstream::good() is asked while up to BufferSize pieces are still held
\* back: a full disk shows only when the content is longer.
writeStringToFile(p, content) == writable(p) /\ (full => Len(content) <= BufferSize)

\* std::remove, which removes empty directories as well, but not the root.
removable(p) ==
  \/ isFile(p)
  \/ /\ isDirectory(p) /\ Inside(Components(p)) = {}
     /\ Components(p) # <<>> /\ ~endsInDot(p)

\* Slip: the name is used although it is taken.
SameFilename(dir, filename) == {filename}

\* The first candidate that is free, as a set: with one candidate more than
\* there are names there is always one.
makeUniqueFilename(dir, filename) ==
  LET dot == FindLast(filename, <<".">>)
      base == Before(filename, dot)
      extension == IF dot = npos THEN <<>> ELSE From(filename, dot)
      candidate(k) == IF k = 0 THEN filename
                      ELSE base \o <<"_", ToString(k)>> \o extension
      free(k) == ~isFileExisting(dir \o <<"/">> \o candidate(k))
      tries == 0..Cardinality(DOMAIN files \cup dirs)
  IN  {candidate(k) : k \in {k \in tries : free(k) /\ \A j \in 0..(k - 1) : ~free(j)}}
=============================================================================
