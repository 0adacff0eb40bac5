--------------------------------- MODULE Url ---------------------------------
(***************************************************************************)
(* Url::parse. Beside it stands what the parser has to undo: how a URL is  *)
(* composed of its components (RFC 3986, section 3).                       *)
(***************************************************************************)
EXTENDS Text

kHttp == <<"http">>
kHttps == <<"https">>
kHttpDefaultPort == <<"80">>
kHttpsDefaultPort == <<"443">>

(* The characters that are no letter, digit or '-'. *)
Separators == {":", "/", "?", "#", "@", "[", "]", " ", "+", CR, LF}

CheckScheme(scheme) == scheme # <<>> /\ Free(scheme, Separators)

EmptyUrl ==
  [valid |-> FALSE, scheme |-> <<>>, host |-> <<>>, port |-> kHttpDefaultPort,
   path |-> <<>>, userInfo |-> <<>>, query |-> <<>>, fragment |-> <<>>]

(* Mutant of ParseUrl: the user info is looked for before the path is cut. *)
ParseUrlEarlyUser(url) ==
  LET flagPos == Find(url, <<":", "/", "/">>, 1)
      rest == From(url, flagPos + 3)
      userPos == Find(rest, <<"@">>, 1)
      authority == From(rest, userPos + 1)
      pathPos == Find(authority, <<"/">>, 1)
  IN [EmptyUrl EXCEPT !.valid = flagPos # 0, !.scheme = Upto(url, flagPos),
        !.userInfo = IF userPos = 0 THEN <<>> ELSE Upto(rest, userPos),
        !.path = IF pathPos = 0 THEN <<"/">> ELSE From(authority, pathPos),
        !.host = IF pathPos = 0 THEN authority ELSE Upto(authority, pathPos)]

(* What is in front of a separator found at pos, and what is behind it. *)
Before(view, pos) == IF pos = 0 THEN view ELSE Upto(view, pos)
After(view, pos) == IF pos = 0 THEN <<>> ELSE From(view, pos + 1)

(* The place of the ':' in front of a port; not one of an IP literal. *)
PortPos(view) ==
  LET portPos == RFind(view, ":")
      closing == Find(view, <<"]">>, 1)
  IN IF portPos # 0 /\ (view[1] # "[" \/ (closing # 0 /\ closing < portPos))
     THEN portPos ELSE 0

(* Of user info, host and port, what is behind the user info. *)
HostAndPort(view) == From(view, Find(view, <<"@">>, 1) + 1)

DefaultPort(scheme) == IF scheme = kHttps THEN kHttpsDefaultPort ELSE kHttpDefaultPort

(* Url::parse cuts from the right what each separator begins: fragment,    *)
(* query, path; then the user info from the left and the port.             *)
ParseRest(scheme, view1) ==
  LET fragmentPos == Find(view1, <<"#">>, 1)
      view2 == Before(view1, fragmentPos)
      queryPos == Find(view2, <<"?">>, 1)
      view3 == Before(view2, queryPos)
      pathPos == Find(view3, <<"/">>, 1)
      view4 == Before(view3, pathPos)
      userInfoPos == Find(view4, <<"@">>, 1)
      view5 == HostAndPort(view4)
      portPos == PortPos(view5)
  IN [valid |-> TRUE,
      scheme |-> scheme,
      fragment |-> After(view1, fragmentPos),
      query |-> After(view2, queryPos),
      path |-> IF pathPos = 0 THEN <<"/">> ELSE From(view3, pathPos),
      userInfo |-> IF userInfoPos = 0 THEN <<>> ELSE Upto(view4, userInfoPos),
      port |-> IF portPos = 0 THEN DefaultPort(scheme) ELSE After(view5, portPos),
      host |-> Before(view5, portPos)]

ParseUrl(url) ==
  LET flagPos == Find(url, <<":", "/", "/">>, 1)
      scheme == Upto(url, flagPos)
  IN IF flagPos = 0 \/ ~CheckScheme(scheme) THEN EmptyUrl
     ELSE ParseRest(scheme, From(url, flagPos + 3))

IsHttpScheme(url) == url.scheme \in {kHttp, kHttps}

-----------------------------------------------------------------------------
(* The reference: a URL from its components, "" for one that is absent. *)
Led(by, s) == IF s = <<>> THEN <<>> ELSE <<by>> \o s

Authority(parts) ==
  (IF parts.userInfo = <<>> THEN <<>> ELSE parts.userInfo \o <<"@">>)
  \o (parts.host \o Led(":", parts.port))

ComposeUrl(parts) ==
  parts.scheme \o <<":", "/", "/">>
  \o (((Authority(parts) \o parts.path) \o Led("?", parts.query)) \o Led("#", parts.fragment))

(* Which components can be told apart again: the grammar of RFC 3986, with *)
(* a user info, a host and a port in which no separator is unescaped. An   *)
(* IP literal stands in brackets.                                          *)
Composable(parts) ==
  /\ parts \in [scheme : Seq(STRING), userInfo : Seq(STRING), host : Seq(STRING),
               port : Seq(STRING), path : Seq(STRING), query : Seq(STRING),
               fragment : Seq(STRING)]
  /\ CheckScheme(parts.scheme)
  /\ Free(parts.userInfo, {"/", "?", "#", "@"})
  /\ Free(parts.host, {"/", "?", "#", "@"})
  /\ \/ Free(parts.host, {":", "[", "]"})
     \/ /\ Len(parts.host) > 1
        /\ parts.host[1] = "[" /\ parts.host[Len(parts.host)] = "]"
        /\ Free(Upto(parts.host, Len(parts.host)), {"]"})
  /\ Free(parts.port, {":", "/", "?", "#", "@", "]"})
  /\ Free(parts.path, {"?", "#"})
  /\ parts.path # <<>> => Head(parts.path) = "/"
  /\ Free(parts.query, {"#"})

(* What a URL composed of parts has to be read as: with the defaults. *)
UrlOf(parts) ==
  [valid |-> TRUE, scheme |-> parts.scheme, host |-> parts.host,
   port |-> IF parts.port = <<>> THEN DefaultPort(parts.scheme) ELSE parts.port,
   path |-> IF parts.path = <<>> THEN <<"/">> ELSE parts.path,
   userInfo |-> parts.userInfo, query |-> parts.query, fragment |-> parts.fragment]
=============================================================================
