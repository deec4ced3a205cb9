----------------------------- MODULE MCStartup -----------------------------
(***************************************************************************)
(* An instance of Startup for TLC: files of up to seven lines in which every *)
(* directive occurs, with values that are taken and values that are        *)
(* refused.                                                                *)
(***************************************************************************)
EXTENDS Startup

MCIntOf ==
  "-1" :> -1 @@ "0" :> 0 @@ "1" :> 1 @@ "2" :> 2 @@ "3" :> 3 @@ "80" :> 80
    @@ "127" :> 127 @@ "256" :> 256 @@ "301" :> 301 @@ "399" :> 399
    @@ "404" :> 404 @@ "600" :> 600 @@ "8080" :> 8080 @@ "65536" :> 65536
    @@ "9999999" :> 9999999 @@ "010" :> 10 @@ "0127" :> 127

MCDigits ==
  "0" :> 1 @@ "1" :> 1 @@ "2" :> 1 @@ "3" :> 1 @@ "80" :> 2 @@ "127" :> 3 @@ "256" :> 3
    @@ "301" :> 3 @@ "399" :> 3 @@ "404" :> 3 @@ "600" :> 3 @@ "8080" :> 4
    @@ "65536" :> 5 @@ "9999999" :> 7 @@ "010" :> 3 @@ "0127" :> 4
MCOctal == "010" :> 8 @@ "0127" :> 87

Address(first, last) == <<first, ".", "0", ".", "0", ".", last>>
Local == Address("127", "1")
MCPython == <<"/", "usr", "/", "bin", "/", "python3">>
MCPerl == <<"/", "usr", "/", "bin", "/", "perl">>
MCExisting == {MCPython, MCPerl}
MCLocalHosts == {<<127, 0, 0, 1>>, <<127, 0, 0, 8>>, <<127, 0, 0, 10>>}

\* A directive line: its words and the semicolon.
Words(ws) ==
  FlattenSeq([i \in DOMAIN ws |-> IF i = 1 THEN ws[i] ELSE <<" ">> \o ws[i]])
Line(name, values) == Words(<<<<name>>>> \o values) \o <<";">>

Blocks ==
  {ServerLine, BlockEnd,
   <<"location", " ", "/", " ", "{">>,
   <<"location", " ", "/", "a", " ", "{">>}

Good ==
  {Line("listen", <<<<"8080">>>>),
   Line("host", <<Local>>),
   Line("host", <<Local \o <<".">>>>),
   Line("host", <<Address("127", "010")>>),
   Line("server_name", <<<<"a", ".", "b">>>>),
   Line("root", <<<<"www">>>>),
   Line("index", <<<<"/", "i", "*">>>>),
   Line("client_max_body_size", <<<<"2", "G">>>>),
   Line("client_max_body_size", <<<<"1", "k">>>>),
   Line("error_page", <<<<"404">>, <<"/", "e">>>>),
   Line("error_page", <<<<"404">>, <<"/", "f">>>>),
   Line("autoindex", <<<<"on">>>>),
   Line("allowed_methods", <<<<"GET">>, <<"POST">>>>),
   Line("allowed_methods", <<<<"DELETE">>>>),
   Line("return", <<<<"301">>, <<"http", "h">>>>),
   Line("return", <<<<"/", "b">>>>),
   Line("return", <<<<"404">>>>),
   Line("cgi_extension", <<<<".", "py">>>>),
   Line("cgi_path", <<MCPython>>),
   Line("cgi_path", <<MCPerl>>),
   Line("upload_store", <<<<"www", "/", "up">>>>),
   Line("upload_enable", <<<<"on">>>>)}

\* Lines that end the parsing wherever they stand, and blank ones.
Bad ==
  {<<";">>, <<"root", " ", "a">>, <<"location", " ", "{">>,
   <<"location", " ", "a", " ", "{">>,
   Line("listen", <<<<"65536">>>>), Line("listen", <<<<"9999999">>>>),
   Line("listen", <<<<"x">>>>), Line("listen", <<>>),
   Line("host", <<<<"127", ".", "0", ".", "1">>>>),
   Line("host", <<Address("256", "1")>>), Line("host", <<Address("0127", "1")>>),
   Line("server_name", <<<<"a", "!">>>>),
   Line("root", <<<<"a", ".", ".", "b">>>>),
   Line("client_max_body_size", <<<<"0", "M">>>>),
   Line("client_max_body_size", <<<<"3", "G">>>>),
   Line("client_max_body_size", <<<<"-1">>>>),
   Line("error_page", <<<<"399">>, <<"/", "e">>>>),
   Line("autoindex", <<<<"maybe">>>>),
   Line("allowed_methods", <<<<"GET">>, <<"PUT">>>>),
   Line("return", <<<<"600">>>>), Line("return", <<<<"localhost">>>>),
   Line("cgi_extension", <<<<"py">>>>),
   Line("cgi_path", <<<<"/", "none">>>>),
   Line("upload_store", <<<<"u", "*">>>>),
   Line("unknown", <<<<"on">>>>)}

Blanks == {<<" ", "#", "server", "{">>}

MCLines == Blocks \cup Good \cup Bad \cup Blanks
=============================================================================
