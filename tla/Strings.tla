------------------------------ MODULE Strings ------------------------------
(***************************************************************************)
(* std::string and namespace stringUtils.  A string is a sequence of       *)
(* pieces: a piece is one character that some code looks for ("/", ".",    *)
(* ";", " ", ...), or a run of characters nothing looks into ("www",       *)
(* "8080").  "CRLF" is the two characters \r\n, "LF" and "CR" one each.    *)
(* Positions count from 1, and 0 is npos.                                  *)
(***************************************************************************)
EXTENDS Integers, SequencesExt

npos == 0

Within(s, p, from) ==
  {i \in from..(Len(s) - Len(p) + 1) : SubSeq(s, i, i + Len(p) - 1) = p}

\* s.find(p, from), s.find(p), s.rfind(p) and s.find_last_of(c).
FindFrom(s, p, from) ==
  LET hits == Within(s, p, from) IN IF hits = {} THEN npos ELSE Min(hits)

Find(s, p) == FindFrom(s, p, 1)

FindLast(s, p) ==
  LET hits == Within(s, p, 1) IN IF hits = {} THEN npos ELSE Max(hits)

\* s.substr(from), and the pieces before a position that may be npos.
From(s, i) == SubSeq(s, i, Len(s))
Before(s, i) == IF i = npos THEN s ELSE SubSeq(s, 1, i - 1)

StartsWith(s, p) == Find(s, p) = 1

Blank == {" ", "TAB", "CRLF", "CR", "LF"}

trim(s) ==
  LET ink == {i \in DOMAIN s : s[i] \notin Blank}
  IN  IF ink = {} THEN <<>> ELSE SubSeq(s, Min(ink), Max(ink))

removeComments(line, character) == Before(line, Find(line, character))

\* The parts between the pieces that are in D: the empty ones too, but
\* nothing behind a piece of D that ends the string.
Parts(s, D) ==
  LET cut(i) == Min({j \in i..(Len(s) + 1) : j > Len(s) \/ s[j] \in D})
      from[i \in Nat \ {0}] ==
        IF i > Len(s) THEN <<>> ELSE <<SubSeq(s, i, cut(i) - 1)>> \o from[cut(i) + 1]
  IN  from[1]

\* What successive std::getline(ss, part, d) return.
getlines(s, d) == Parts(s, {d})

\* The parts that are not in W, in their order.
Without(parts, W) ==
  LET from[i \in Nat \ {0}] ==
        IF i > Len(parts) THEN <<>>
        ELSE (IF parts[i] \in W THEN <<>> ELSE <<parts[i]>>) \o from[i + 1]
  IN  from[1]

split(s, d) ==
  LET parts == getlines(s, d)
  IN  Without([i \in DOMAIN parts |-> trim(parts[i])], {<<>>})

removeTrailingSemicolon(s) ==
  IF s # <<>> /\ Last(s) = ";" THEN Front(s) ELSE s
=============================================================================
