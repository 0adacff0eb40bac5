----------------------------- MODULE MCExchange -----------------------------
(***************************************************************************)
(* Exchange with what TLC tries: every combination of a set of components, *)
(* and every answer of a set to one request, with a chain of redirects.    *)
(***************************************************************************)
EXTENDS Exchange

MCCodes == {"200", "301", "302", "303"}
MCNumbers == {"2"}

(* Components with the separators RFC 3986 allows in them; user infos of   *)
(* lengths 1 to 7, so that every remainder of base64 and an overflow of    *)
(* its int occur.                                                          *)
MCUrlParts ==
  [scheme : {<<"http">>, <<"https">>},
   userInfo : {<<>>, <<"w">>, <<"u", ":", "p">>, <<"n", "w", ":", "w", "u", "p", "n">>},
   host : {<<"host">>, <<"[", ":", ":", "1", "]">>},
   port : {<<>>, <<"8080">>},
   path : {<<>>, <<"/", "a", "@", "b", ":", "c", "/">>},
   query : {<<>>, <<"q", "/", "@", ":", "?">>},
   fragment : {<<>>, <<"f", "?", "/", ":">>}]

Plain == [scheme |-> <<"http">>, userInfo |-> <<>>, host |-> <<"host">>, port |-> <<>>,
          path |-> <<>>, query |-> <<>>, fragment |-> <<>>]
WithUser == [Plain EXCEPT !.userInfo = <<"u", ":", "p">>]
OtherUser == [Plain EXCEPT !.userInfo = <<"w">>, !.scheme = <<"https">>]

BadUrls == {<<"host", "/", "a">>, <<":", "/", "/", "host">>,
            <<"a", "+", "b", ":", "/", "/", "host">>, <<"ftp", ":", "/", "/", "host">>}

NoHeaders == [name \in {} |-> <<>>]
Own == "Authorization" :> <<"Own">> @@ "Accept" :> <<"a", "/", "b">>

Encoded ==
  {[url |-> ComposeUrl(parts), headers |-> NoHeaders, body |-> <<>>, answered |-> FALSE]
     : parts \in MCUrlParts}
  \cup [url : BadUrls, headers : {NoHeaders}, body : {<<>>}, answered : {FALSE}]
  \cup [url : {ComposeUrl(Plain), ComposeUrl(WithUser)}, headers : {NoHeaders, Own},
        body : {<<>>, <<"x", "CR", "LF">>}, answered : {FALSE}]

Statuses == {<<"HTTP/", "1.1", " ", "200", " ", "OK">>, <<"HTTP/", "1.1", " ", "302", " ">>,
             <<"HTTP/", "1.1", " ", "301", " ", "OK">>, <<"HTTP/", "1.1", " ", "200", " ">>,
             <<"HTTP/", "1.1", " ", "200">>, <<"HTTP/", "1.1", " ", "x", " ", "OK">>,
             <<"HTTP/", "1.1", " ", "200", " ", "OK", ":", " ", "a">>,
             <<"HTTP/", "1.1">>, <<"ICY", " ", "200">>}

LengthLines == {<<"Content-Length", ":", " ", "2">>, <<"Content-Length", ":", "2">>,
                <<"Content-Length", ":", " ", " ", "2">>, <<"Content-Length", ":", " ", "x">>}

LocationLines == {<<"Location", ":", " ">> \o location :
                    location \in {ComposeUrl(Plain), ComposeUrl(OtherUser), <<"/", "a">>}}

OtherLines == {<<"X", ":", " ", "a", ":", "b">>, <<"X", ":", " ", "a", ":", " ", "b">>, <<"X">>}

FieldLines == LengthLines \cup LocationLines \cup OtherLines

FieldLists == {<<>>} \cup {<<x>> : x \in FieldLines}
              \cup {<<x, y>> : x \in LocationLines \cup OtherLines, y \in FieldLines}

Answered ==
  [url : {ComposeUrl(WithUser)}, headers : {NoHeaders}, body : {<<>>}, answered : {TRUE}]

MCAnswers ==
  {[lines |-> <<status>> \o fields, body |-> content] :
     status \in Statuses, fields \in FieldLists, content \in {<<>>, <<"LF", "x">>}}

MCInputs == Encoded \cup Answered

(* Bytes of a user info that tell: one with its high bit set, and a zero   *)
MCByteOf ==
  ("u" :> 117 @@ "p" :> 112 @@ "w" :> 255 @@ ":" :> 58)
  @@ [token \in UNION ({ToSet(asked.url) : asked \in MCInputs}
                       \cup UNION {{ToSet(sent.lines[i]) : i \in DOMAIN sent.lines} :
                                    sent \in MCAnswers}) |-> 0]
=============================================================================
