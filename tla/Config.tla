------------------------------- MODULE Config -------------------------------
(***************************************************************************)
(* The configuration's data, ServerConfig and LocationConfig, and the      *)
(* directives that set it.  A setter, and the parse...Directive that calls *)
(* it, is the set of configurations it can leave: one, or none when the    *)
(* value is refused and the parser throws.                                 *)
(*                                                                         *)
(* A configuration word is a string of module Strings; numerals are single *)
(* pieces.  Sizes are scaled: Kilo stands for 1024, and IntMax and the     *)
(* largest body for 2^31-1 and 2^31.                                       *)
(***************************************************************************)
EXTENDS Strings

CONSTANTS
  Kilo,       \* 1024
  IntOf,      \* the integer each numeral stands for (strtol, atoi)
  Digits,     \* of those that consist of digits only, how many
  Existing    \* the paths that can be opened while the file is parsed

ASSUME ConfigAssumption == Kilo \in Nat \ {0} /\ DOMAIN Digits \subseteq DOMAIN IntOf

IntMax == 2 * Kilo * Kilo * Kilo - 1
MaxBody == 2 * Kilo * Kilo * Kilo
Methods == {<<"GET">>, <<"POST">>, <<"DELETE">>}
MaxPort == 65535
NoPages == [code \in {} |-> <<>>]

\* Slip: a location starts with the default size.
WithDefaultSize(path, server_client_max_body_size) ==
  [location |-> path, root |-> <<>>, index |-> <<>>, autoindex |-> FALSE,
   allowed_methods |-> Methods, return_target |-> <<>>, return_code |-> 0,
   cgi_extension |-> <<>>, cgi_path |-> <<>>, upload_store |-> <<>>,
   upload_enable |-> FALSE, client_max_body_size |-> Kilo * Kilo,
   error_pages |-> NoPages]

LocationConfig(path, server_client_max_body_size) ==
  [location |-> path, root |-> <<>>, index |-> <<>>, autoindex |-> FALSE,
   allowed_methods |-> Methods, return_target |-> <<>>, return_code |-> 0,
   cgi_extension |-> <<>>, cgi_path |-> <<>>, upload_store |-> <<>>,
   upload_enable |-> FALSE,
   client_max_body_size |-> server_client_max_body_size,
   error_pages |-> NoPages]

ServerConfig ==
  [listen |-> 80, host |-> <<>>, server_name |-> <<"localhost">>,
   error_pages |-> NoPages, client_max_body_size |-> Kilo * Kilo,
   root |-> <<"www", "/">>, index |-> <<"index", ".", "html">>,
   allowed_methods |-> Methods, locations |-> <<>>]
-----------------------------------------------------------------------------
(* Integers. *)

isInt(w) == Len(w) = 1 /\ w[1] \in DOMAIN IntOf

\* The set of what it returns: empty when it throws.
stringToInt(w) ==
  IF isInt(w) THEN {IntOf[w[1]]} \cap ((-IntMax - 1)..IntMax) ELSE {}

\* An empty size cannot occur: a word has at least one piece.
convertBodySize(w) ==
  LET multiplier ==
        CASE Last(w) \in {"K", "k"} -> Kilo
          [] Last(w) \in {"M", "m"} -> Kilo * Kilo
          [] Last(w) \in {"G", "g"} -> Kilo * Kilo * Kilo
          [] OTHER -> 1
      number_part == IF multiplier = 1 THEN w ELSE Front(w)
  IN  {IF n < 0 THEN 0 ELSE n * multiplier : n \in stringToInt(number_part)}
-----------------------------------------------------------------------------
(* What the setters refuse. *)

InvalidChars == {"*", "?", "|", "<", ">", "QUOTE"}
Punctuation == InvalidChars \cup {".", "/", "-", "_", "!", ":", ";", "{", "}"}

Accept(ok, c) == IF ok THEN {c} ELSE {}

NoInvalidChars(w) == ToSet(w) \cap InvalidChars = {}
PlainPath(w) == Find(w, <<".", ".">>) = npos /\ NoInvalidChars(w)
Alnum(c) == c \notin Punctuation

setLocation(c, w) ==
  Accept(w[1] = "/" /\ PlainPath(w), [c EXCEPT !.location = w])

LocationSetRoot(c, w) == Accept(PlainPath(w), [c EXCEPT !.root = w])

ServerSetRoot(c, w) ==
  Accept(PlainPath(w),
         [c EXCEPT !.root = IF Last(w) = "/" THEN w ELSE Append(w, "/")])

\* What is tested is the root, not the index.
setIndex(c, w) == Accept(NoInvalidChars(c.root), [c EXCEPT !.index = w])

setListen(c, p) == Accept(0 < p /\ p <= MaxPort, [c EXCEPT !.listen = p])

\* Four numerals of at most three digits, read in decimal.
isHost(w) ==
  LET byte(t) == /\ Len(t) = 1 /\ t[1] \in DOMAIN Digits /\ Digits[t[1]] <= 3
                 /\ IntOf[t[1]] \in 0..255
      tokens == getlines(w, ".")
  IN  Len(tokens) = 4 /\ \A i \in DOMAIN tokens : byte(tokens[i])

setHost(c, w) == Accept(isHost(w), [c EXCEPT !.host = w])

setServerName(c, w) ==
  Accept(\A i \in DOMAIN w : Alnum(w[i]) \/ w[i] \in {".", "-", "*", "_"},
         [c EXCEPT !.server_name = w])

\* Slip: zero is taken.
SetAnySize(c, n) == Accept(n <= MaxBody, [c EXCEPT !.client_max_body_size = n])

setClientMaxBodySize(c, n) ==
  Accept(n # 0 /\ n <= MaxBody, [c EXCEPT !.client_max_body_size = n])

\* Slip: of two pages of one status, the first (insert, and not operator[]).
KeepFirstPage(c, code, w) ==
  Accept(code \in 400..599 /\ PlainPath(w),
         [c EXCEPT !.error_pages = @ @@ (code :> w)])

addErrorPage(c, code, w) ==
  Accept(code \in 400..599 /\ PlainPath(w),
         [c EXCEPT !.error_pages = (code :> w) @@ @])

setAllowedMethods(c, ws) ==
  Accept(ToSet(ws) \subseteq Methods, [c EXCEPT !.allowed_methods = ToSet(ws)])

setReturnCode(c, n) == Accept(n \in 100..599, [c EXCEPT !.return_code = n])

setReturnTarget(c, w) ==
  Accept((w[1] = "/" \/ StartsWith(w, <<"http">>)) /\ PlainPath(w),
         [c EXCEPT !.return_target = w])

setCgiExtension(c, w) ==
  Accept(w[1] = "." /\ \A i \in 2..Len(w) : Alnum(w[i]) \/ w[i] \in {"-", "_"},
         [c EXCEPT !.cgi_extension = w])

setCgiPath(c, w) ==
  Accept(PlainPath(w) /\ w \in Existing, [c EXCEPT !.cgi_path = w])

setUploadStore(c, w) == Accept(PlainPath(w), [c EXCEPT !.upload_store = w])

\* A second location of the same path is not added.
addLocation(s, l) ==
  IF \E i \in DOMAIN s.locations : s.locations[i].location = l.location
  THEN s
  ELSE [s EXCEPT !.locations = Append(@, l)]
-----------------------------------------------------------------------------
(* The directives: tokens[1] is the name, the others are the values. *)

checkTokensSize(tokens, min_size, max_size) == Len(tokens) \in min_size..max_size

parseListenDirective(c, t) ==
  IF checkTokensSize(t, 2, 2) THEN UNION {setListen(c, p) : p \in stringToInt(t[2])} ELSE {}

parseHostDirective(c, t) == IF checkTokensSize(t, 2, 2) THEN setHost(c, t[2]) ELSE {}

parseServerNameDirective(c, t) ==
  IF checkTokensSize(t, 2, 2) THEN setServerName(c, t[2]) ELSE {}

parseIndexDirective(c, t) == IF checkTokensSize(t, 2, 2) THEN setIndex(c, t[2]) ELSE {}

\* parseRootDirective<ServerConfig> and parseRootDirective<LocationConfig>.
parseServerRootDirective(c, t) ==
  IF checkTokensSize(t, 2, 2) THEN ServerSetRoot(c, t[2]) ELSE {}
parseLocationRootDirective(c, t) ==
  IF checkTokensSize(t, 2, 2) THEN LocationSetRoot(c, t[2]) ELSE {}

parseBodySizeDirective(c, t) ==
  IF checkTokensSize(t, 2, 2)
  THEN UNION {setClientMaxBodySize(c, n) : n \in convertBodySize(t[2])} ELSE {}

parseErrorPageDirective(c, t) ==
  IF checkTokensSize(t, 3, 3)
  THEN UNION {addErrorPage(c, code, t[3]) : code \in stringToInt(t[2])} ELSE {}

OnOrOff(w) == IF w = <<"on">> THEN {TRUE} ELSE IF w = <<"off">> THEN {FALSE} ELSE {}

parseAutoindexDirective(c, t) ==
  IF checkTokensSize(t, 2, 2) THEN {[c EXCEPT !.autoindex = on] : on \in OnOrOff(t[2])}
  ELSE {}

parseUploadEnableDirective(c, t) ==
  IF checkTokensSize(t, 2, 2) THEN {[c EXCEPT !.upload_enable = on] : on \in OnOrOff(t[2])}
  ELSE {}

parseUploadStoreDirective(c, t) ==
  IF checkTokensSize(t, 2, 2) THEN setUploadStore(c, t[2]) ELSE {}

parseCgiPathDirective(c, t) == IF checkTokensSize(t, 2, 2) THEN setCgiPath(c, t[2]) ELSE {}

parseCgiExtensionDirective(c, t) ==
  IF checkTokensSize(t, 2, 2) THEN setCgiExtension(c, t[2]) ELSE {}

parseAllowedMethodsDirective(c, t) ==
  IF checkTokensSize(t, 2, 4) THEN setAllowedMethods(c, Tail(t)) ELSE {}

parseReturnDirective(c, t) ==
  LET coded == Len(t) = 3 \/ isInt(t[2])
      codes == IF coded THEN stringToInt(t[2]) ELSE {302}
      target == IF ~coded THEN t[2] ELSE IF Len(t) = 3 THEN t[3] ELSE <<>>
      withCode == UNION {setReturnCode(c, n) : n \in codes}
  IN  IF ~checkTokensSize(t, 2, 3) THEN {}
      ELSE IF target = <<>> THEN withCode
      ELSE UNION {setReturnTarget(d, target) : d \in withCode}
-----------------------------------------------------------------------------
\* A CGI location needs both directives, and an interpreter that is known.
Interpreters ==
  {<<<<".", "py">>, <<"/", "usr", "/", "bin", "/", "python3">>>>,
   <<<<".", "pl">>, <<"/", "usr", "/", "bin", "/", "perl">>>>,
   <<<<".", "rb">>, <<"/", "usr", "/", "bin", "/", "ruby">>>>}

\* Slip: any interpreter will do.
BothOrNone(l) == (l.cgi_extension = <<>>) <=> (l.cgi_path = <<>>)

checkCgi(l) ==
  \/ l.cgi_extension = <<>> /\ l.cgi_path = <<>>
  \/ <<l.cgi_extension, l.cgi_path>> \in Interpreters
=============================================================================
