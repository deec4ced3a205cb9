------------------------------ MODULE MCClient ------------------------------
(***************************************************************************)
(* An instance of Client for TLC: 3-bit ints and 6-bit sizes, bodies of a  *)
(* few tokens, among them ones that look like a last chunk, and one that   *)
(* takes two digits to announce.                                           *)
(***************************************************************************)
EXTENDS Client

MCDeclared ==
  [L0 |-> 0, L1 |-> 1, L2 |-> 2, L3 |-> 3, L4 |-> 4, L7 |-> 7, L8 |-> 8]
MCDigit == "0" :> 0 @@ "1" :> 1 @@ "2" :> 2 @@ "3" :> 3

Host == <<"h", "0", "N">>           \* Host: localhost:8080
Accept == <<"a", "N">>
Framings == {<<Host, <<>>>>, <<Accept, Host>>, <<<<>>, Accept>>}

Bodies == {<<>>, <<"x">>, <<"x", "N">>, <<"0", "N", "N">>, <<"x", "0", "x">>}
Chunkings ==
  {<<>>} \cup {<<b>> : b \in Bodies \ {<<>>}}
    \cup {<<<<"x">>, b>> : b \in Bodies \ {<<>>}}
    \cup {<<<<"x", "2">>, <<"x", "x", "x">>>>, <<[i \in 1..18 |-> "x"]>>}

\* The length of a chunk in two digits or, where one is enough, in one, and
\* then perhaps with an extension.
SizeLines(c) ==
  LET digit(n) == CHOOSE d \in DOMAIN MCDigit : MCDigit[d] = n
      line(n) == IF n < 16 THEN <<digit(n)>> ELSE <<digit(n \div 16), digit(n % 16)>>
  IN  {[k \in DOMAIN c |-> line(Len(c[k]))],
       [k \in DOMAIN c |-> <<"0">> \o line(Len(c[k])) \o <<";", "1">>]}

LengthOf(b) == CHOOSE t \in DOMAIN MCDeclared : MCDeclared[t] = Len(b)

Request(kind, f, length, chunks, sizes) ==
  [kind |-> kind, first |-> f[1], last |-> f[2], length |-> length,
   chunks |-> chunks, sizes |-> sizes]

MCRequests ==
  {Request("none", f, "-", <<>>, <<>>) : f \in Framings}
    \cup {Request("length", f, LengthOf(b), <<b>>, <<>>) : f \in Framings, b \in Bodies}
    \cup {Request("length", f, t, <<<<"x">>>>, <<>>) :
            f \in Framings, t \in {"L4", "L7", "L8"}}
    \cup UNION {{Request("chunked", f, "-", c, z) : f \in Framings, z \in SizeLines(c)} :
                 c \in Chunkings}

MCExtras == {<<>>, <<"G", "N", "N">>}
=============================================================================
