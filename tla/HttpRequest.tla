---------------------------- MODULE HttpRequest ----------------------------
(***************************************************************************)
(* HttpRequest::parse: what becomes of the string that NetworkHandler cuts *)
(* out of a connection (module Client).  Strings are those of module       *)
(* Strings; a blank inside a line is the piece " " or "TAB".               *)
(***************************************************************************)
EXTENDS Strings

\* std::getline reads up to \n, and a \r before it stays in the line, where
\* the parser drops it.
LineEnds == {"CRLF", "LF"}

\* The lines up to the first empty one, and what follows that one.  The
\* request line is never the empty one.
linesAndBody(s) ==
  LET ends == {i \in DOMAIN s : s[i] \in LineEnds}
      blank == {i \in ends : i - 1 \in ends}
  IN  IF blank = {} THEN [lines |-> Parts(s, LineEnds), body |-> <<>>]
      ELSE [lines |-> Parts(Before(s, Min(blank)), LineEnds),
            body |-> From(s, Min(blank) + 1)]

\* The parts that are "name separator value", by position: their names, and
\* their values without the blanks around them.
named(parts, separator) == {i \in DOMAIN parts : Find(parts[i], <<separator>>) # npos}
nameOf(part, separator) == trim(Before(part, Find(part, <<separator>>)))
valueOf(part, separator) == trim(From(part, Find(part, <<separator>>) + 1))

\* Slip: of two with one name, the first (insert, and not operator[]).
FirstWins(parts, separator) ==
  [name \in {nameOf(parts[i], separator) : i \in named(parts, separator)} |->
     valueOf(parts[Min({i \in named(parts, separator) :
                          nameOf(parts[i], separator) = name})], separator)]

\* A map from the names to the values: of two with one name, the last.
mapOf(parts, separator) ==
  [name \in {nameOf(parts[i], separator) : i \in named(parts, separator)} |->
     valueOf(parts[Max({i \in named(parts, separator) :
                          nameOf(parts[i], separator) = name})], separator)]

parseHeaders(lines) == mapOf(lines, ":")

valueOr(m, key) == IF key \in DOMAIN m THEN m[key] ELSE <<>>

\* Name and value are trimmed at their outer ends only ("a = b" keeps the
\* blank before b), which no cookie of this program has.
parseCookies(headers) ==
  mapOf(getlines(valueOr(headers, <<"Cookie">>), ";"), "=")

NotARequest == [ok |-> FALSE]

parseRequestLine(lines) == IF lines = <<>> THEN <<>> ELSE split(lines[1], " ")

extractQueryString(target) ==
  LET mark == Find(target, <<"?">>)
  IN  [path |-> Before(target, mark),
       query |-> IF mark = npos THEN <<>> ELSE From(target, mark + 1)]

parse(raw) ==
  LET cut == linesAndBody(raw)
      words == parseRequestLine(cut.lines)
      target == extractQueryString(words[2])
      headers == parseHeaders(Tail(cut.lines))
  IN  IF Len(words) < 3 THEN NotARequest
      ELSE [ok |-> TRUE, method |-> words[1], version |-> words[3],
            path |-> target.path, query_string |-> target.query,
            headers |-> headers, cookies |-> parseCookies(headers),
            body |-> cut.body]
=============================================================================
