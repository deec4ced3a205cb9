---------------------------- MODULE ConfigParser ----------------------------
(***************************************************************************)
(* How ConfigParser, serverBlockParser and locationBlockParser read the    *)
(* configuration file, a line at a time.  The file is any sequence of at   *)
(* most MaxLines lines out of Lines, at most MaxPlain of them not the      *)
(* start or the end of a block.                                            *)
(***************************************************************************)
EXTENDS Config

CONSTANTS
  Lines,     \* the lines a file may hold, as strings of module Strings
  MaxLines,
  MaxPlain   \* of them, lines that neither open nor close a block

ASSUME ParserAssumption ==
  Lines \subseteq Seq(STRING) /\ MaxLines \in Nat /\ MaxPlain \in Nat

VARIABLES
  pc,        \* "parsing"; "parsed"; "caught": an exception went up to main
  block,     \* the innermost open block: "file", "server" or "location"
  server, location,   \* the configurations of the open blocks
  servers,   \* WebServer::servers
  text       \* the lines read so far

parserVars == <<block, server, location, servers, text>>

ServerLine == <<"server", " ", "{">>
BlockEnd == <<"}">>
NoLocation == LocationConfig(<<>>, 0)

cleanCurrentLine(line) == trim(removeComments(line, <<"#">>))
clean == [line \in Lines |-> cleanCurrentLine(line)]

IsLocationLine(s) == StartsWith(s, <<"location">>) /\ Find(s, <<"{">>) # npos

LocationLines == {line \in Lines : IsLocationLine(clean[line])}
PlainLines ==
  {line \in Lines : clean[line] \notin {ServerLine, BlockEnd}} \ LocationLines

Init ==
  /\ pc = "parsing"
  /\ block = "file"
  /\ server = ServerConfig
  /\ location = NoLocation
  /\ servers = <<>>
  /\ text = <<>>
-----------------------------------------------------------------------------
(* One directive line, as the set of configurations it can leave. *)

parseServerDirective(c, t) ==
  CASE t[1] = <<"listen">> -> parseListenDirective(c, t)
    [] t[1] = <<"host">> -> parseHostDirective(c, t)
    [] t[1] = <<"server_name">> -> parseServerNameDirective(c, t)
    [] t[1] = <<"error_page">> -> parseErrorPageDirective(c, t)
    [] t[1] = <<"client_max_body_size">> -> parseBodySizeDirective(c, t)
    [] t[1] = <<"root">> -> parseServerRootDirective(c, t)
    [] t[1] = <<"index">> -> parseIndexDirective(c, t)
    [] OTHER -> {}

parseLocationDirective(c, t) ==
  CASE t[1] = <<"root">> -> parseLocationRootDirective(c, t)
    [] t[1] = <<"index">> -> parseIndexDirective(c, t)
    [] t[1] = <<"autoindex">> -> parseAutoindexDirective(c, t)
    [] t[1] = <<"allowed_methods">> -> parseAllowedMethodsDirective(c, t)
    [] t[1] = <<"return">> -> parseReturnDirective(c, t)
    [] t[1] = <<"cgi_extension">> -> parseCgiExtensionDirective(c, t)
    [] t[1] = <<"cgi_path">> -> parseCgiPathDirective(c, t)
    [] t[1] = <<"upload_store">> -> parseUploadStoreDirective(c, t)
    [] t[1] = <<"upload_enable">> -> parseUploadEnableDirective(c, t)
    [] t[1] = <<"client_max_body_size">> -> parseBodySizeDirective(c, t)
    [] t[1] = <<"error_page">> -> parseErrorPageDirective(c, t)
    [] OTHER -> {}

\* The words of a line without its semicolon; no words when it is missing
\* or alone, which are both errors.
words(line) ==
  LET tokens == split(line, " ")
      lastToken == removeTrailingSemicolon(Last(tokens))
  IN  IF Last(Last(tokens)) # ";" THEN <<>>
      ELSE IF lastToken = <<>> THEN Front(tokens)
      ELSE Append(Front(tokens), lastToken)

tokensOf == [line \in Lines |-> IF clean[line] = <<>> THEN <<>> ELSE words(clean[line])]
-----------------------------------------------------------------------------
(* Reading. *)

ReadLine(line) ==
  /\ Len(text) < MaxLines
  /\ line \in PlainLines =>
       Cardinality({i \in DOMAIN text : text[i] \in PlainLines}) < MaxPlain
  /\ text' = Append(text, line)

Throw == pc' = "caught" /\ UNCHANGED <<block, server, location, servers>>

BlankLine(line) ==
  /\ clean[line] = <<>>
  /\ ReadLine(line)
  /\ UNCHANGED <<pc, block, server, location, servers>>

\* parseFile: outside any block only "server {" is allowed.
parseFile(line) ==
  /\ block = "file"
  /\ clean[line] # <<>>
  /\ ReadLine(line)
  /\ \/ /\ clean[line] = ServerLine
        /\ block' = "server"
        /\ server' = ServerConfig
        /\ UNCHANGED <<pc, location, servers>>
     \/ clean[line] # ServerLine /\ Throw

CloseServer(line) ==
  /\ block = "server"
  /\ clean[line] = BlockEnd
  /\ ReadLine(line)
  /\ block' = "file"
  /\ servers' = Append(servers, server)
  /\ UNCHANGED <<pc, server, location>>

\* The location starts with the body size the server has at this line.
handleLocation(line) ==
  LET tokens == split(clean[line], " ")
      opened == IF Len(tokens) # 3 THEN {}
                ELSE setLocation(LocationConfig(tokens[2], server.client_max_body_size),
                                 tokens[2])
  IN  /\ block = "server"
      /\ line \in LocationLines
      /\ ReadLine(line)
      /\ \/ /\ location' \in opened
            /\ block' = "location"
            /\ UNCHANGED <<pc, server, servers>>
         \/ opened = {} /\ Throw

parseServerDirectiveLine(line) ==
  LET t == tokensOf[line]
      after == IF t = <<>> THEN {} ELSE parseServerDirective(server, t)
  IN  /\ block = "server"
      /\ clean[line] \notin {<<>>, BlockEnd}
      /\ line \notin LocationLines
      /\ ReadLine(line)
      /\ \/ server' \in after /\ UNCHANGED <<pc, block, location, servers>>
         \/ after = {} /\ Throw

\* The end of a location: its CGI is checked and the server gets it.
CloseLocation(line) ==
  /\ block = "location"
  /\ clean[line] = BlockEnd
  /\ ReadLine(line)
  /\ \/ /\ checkCgi(location)
        /\ server' = addLocation(server, location)
        /\ block' = "server"
        /\ UNCHANGED <<pc, location, servers>>
     \/ ~checkCgi(location) /\ Throw

parseLocationDirectiveLine(line) ==
  LET t == tokensOf[line]
      after == IF t = <<>> THEN {} ELSE parseLocationDirective(location, t)
  IN  /\ block = "location"
      /\ clean[line] \notin {<<>>, BlockEnd}
      /\ ReadLine(line)
      /\ \/ location' \in after /\ UNCHANGED <<pc, block, server, servers>>
         \/ after = {} /\ Throw

EndOfFile ==
  /\ text' = text
  /\ \/ /\ block = "file"
        /\ pc' = "parsed"
        /\ UNCHANGED <<block, server, location, servers>>
     \/ block # "file" /\ Throw

Parse ==
  /\ pc = "parsing"
  /\ \/ \E line \in Lines :
          \/ BlankLine(line)
          \/ parseFile(line)
          \/ CloseServer(line)
          \/ handleLocation(line)
          \/ parseServerDirectiveLine(line)
          \/ CloseLocation(line)
          \/ parseLocationDirectiveLine(line)
     \/ EndOfFile
=============================================================================
