------------------------------ MODULE Exchange ------------------------------
(***************************************************************************)
(* The text a request exchanges with its servers, hop by hop: the URL is   *)
(* parsed, the request encoded, the answer read in pieces until its header *)
(* is complete, the header parsed, and a redirect followed. The threads,   *)
(* the socket and the body of the answer are in Request and ChunkDecoder.  *)
(***************************************************************************)
EXTENDS Url, FiniteSets, Functions

CONSTANTS
  Inputs,    \* what callers ask for: records of url, headers and body, and
             \* (a bound) whether the server answers at all
  Answers,   \* what servers answer: records of lines and body
  Codes,     \* the tokens that std::stoi reads as a status code
  Numbers,   \* the tokens that std::stoll reads as a number
  ByteOf,    \* the byte each token of a user info stands for
  UrlParts,  \* the components URLs are composed of, absent ones <<>>
  MaxHops    \* bound: redirects the servers send

ASSUME ExchangeAssumption ==
  /\ MaxHops \in Nat
  /\ Codes \subseteq STRING /\ Numbers \subseteq STRING

ASSUME UrlAssumption == \A parts \in UrlParts : Composable(parts)

(* Callers ask with URLs and headers that have no line end in them.        *)
ASSUME InputAssumption ==
  \A asked \in Inputs :
    /\ asked.url \in Seq(STRING) /\ Free(asked.url, {CR, LF})
    /\ IsFiniteSet(DOMAIN asked.headers)
    /\ \A name \in DOMAIN asked.headers :
         /\ name \in STRING \ {CR, LF}
         /\ asked.headers[name] \in Seq(STRING) /\ Free(asked.headers[name], {CR, LF})
    /\ asked.body \in Seq(STRING)
    /\ ToString(Len(asked.body)) \in STRING \ {CR, LF}

(* A server writes lines that have no line end in them, the status line    *)
(* first.                                                                  *)
ASSUME AnswerAssumption ==
  \A sent \in Answers :
    /\ sent.body \in Seq(STRING)
    /\ sent.lines \in Seq(Seq(STRING)) /\ sent.lines # <<>>
    /\ \A i \in DOMAIN sent.lines : sent.lines[i] # <<>> /\ Free(sent.lines[i], {CR, LF})

(* Every token of a URL, the caller's or a Location, stands for a byte.    *)
ASSUME ByteAssumption ==
  /\ \A token \in DOMAIN ByteOf : ByteOf[token] \in 0..255
  /\ \A asked \in Inputs : ToSet(asked.url) \subseteq DOMAIN ByteOf
  /\ \A sent \in Answers : \A i \in DOMAIN sent.lines :
       ToSet(sent.lines[i]) \subseteq DOMAIN ByteOf

VARIABLES
  pc,       \* "parseUrl", "send", "read", "done"
  input,    \* the member of Inputs under way
  text,     \* info_.url, or the Location followed
  url,      \* *url_
  headers,  \* info_.headers
  message,  \* the request as sent on this hop
  answer,   \* what the server chose: its lines and its body
  incoming, \* the part of the answer not read yet
  recvData, \* the part of the answer read
  response, \* the ResponseHeader
  data,     \* what was read behind the header, the first of the body
  outcome,  \* the result code of the end, "header" once a header is handed over
  hops      \* history: redirects followed

vars == <<pc, input, text, url, headers, message, answer, incoming, recvData, response,
          data, outcome, hops>>

NoAnswer == [lines |-> <<>>, body |-> <<>>]
NoFields == [name \in {} |-> <<>>]
NoResponse == [fields |-> NoFields, code |-> "Unknown"]

Init ==
  /\ pc = "parseUrl"
  /\ input \in Inputs
  /\ text = input.url
  /\ url = EmptyUrl
  /\ headers = input.headers
  /\ message = <<>>
  /\ answer = NoAnswer
  /\ incoming = <<>>
  /\ recvData = <<>>
  /\ response = NoResponse
  /\ data = <<>>
  /\ outcome = "none"
  /\ hops = 0

End(code) == pc' = "done" /\ outcome' = code

Put(fields, name, value) ==
  [other \in DOMAIN fields \cup {name} |-> IF other = name THEN value ELSE fields[other]]

-----------------------------------------------------------------------------
(* What process() and redirect() do with a URL: the first hop tells an     *)
(* invalid URL from a scheme that is not supported, later hops do not.     *)
ParseHop ==
  /\ pc = "parseUrl"
  /\ url' = ParseUrl(text)
  /\ IF url'.valid /\ IsHttpScheme(url')
     THEN pc' = "send" /\ UNCHANGED outcome
     ELSE End(IF hops > 0 THEN "RedirectError"
              ELSE IF url'.valid THEN "SchemeNotSupported" ELSE "UrlInvalid")
  /\ UNCHANGED <<input, text, headers, message, answer, incoming, recvData, response, data, hops>>

Bytes(userInfo) == [i \in 1..Len(userInfo) |-> ByteOf[userInfo[i]]]

(* The value of Authorization for a user info *)
Basic(userInfo) == <<"Basic", " ">> \o Base64Encode(Bytes(userInfo))

(* The headers htmlEncode leaves in info_.headers, for this and later hops. *)
EncodeHeaders(fields, theUrl, body) ==
  LET sized == IF body = <<>> THEN fields
               ELSE Put(fields, "Content-Length", <<ToString(Len(body))>>)
      hosted == Put(sized, "Host", theUrl.host)
  IN IF "Authorization" \in DOMAIN fields \/ theUrl.userInfo = <<>> THEN hosted
     ELSE Put(hosted, "Authorization", Basic(theUrl.userInfo))

(* The lines of the request: the request line, and the headers in the      *)
(* order of the hash map, which is any.                                    *)
RequestLines(fields, theUrl) ==
  LET names == SetToSeq(DOMAIN fields)
  IN <<<<"POST", " ">> \o theUrl.path
       \o (IF theUrl.query = <<>> THEN <<>> ELSE <<"?">> \o theUrl.query)
       \o <<" ", "HTTP/1.1">>>>
     \o [i \in 1..Len(names) |-> <<names[i], ":", " ">> \o fields[names[i]]]

(* Mutant of HtmlEncode: no empty line before the body. *)
HtmlEncodeRunOn(fields, theUrl, body) == Ended(RequestLines(fields, theUrl)) \o body \o CRLF

(* htmlEncode: the lines, an empty line; with a body the line end comes    *)
(* once more behind it.                                                    *)
HtmlEncode(fields, theUrl, body) ==
  Ended(RequestLines(fields, theUrl)) \o CRLF
  \o (IF body = <<>> THEN <<>> ELSE body \o CRLF)

(* Mutant of Send: each hop sends the user info of its own URL. *)
SendOwnUser ==
  /\ pc = "send"
  /\ headers' = EncodeHeaders([n \in DOMAIN headers \ {"Authorization"} |-> headers[n]],
                              url, input.body)
  /\ message' = HtmlEncode(headers', url, input.body)
  /\ pc' = "answer"
  /\ UNCHANGED <<input, text, url, answer, incoming, recvData, response, data, outcome, hops>>

Send ==
  /\ pc = "send"
  /\ headers' = EncodeHeaders(headers, url, input.body)
  /\ message' = HtmlEncode(headers', url, input.body)
  /\ pc' = "answer"
  /\ UNCHANGED <<input, text, url, answer, incoming, recvData, response, data, outcome, hops>>

(* The server, which has read the message, answers. The message is not     *)
(* kept: sendData is local to send().                                      *)
Answer ==
  /\ pc = "answer"
  /\ input.answered
  /\ answer' \in Answers
  /\ incoming' = Ended(answer'.lines) \o CRLF \o answer'.body
  /\ recvData' = <<>>
  /\ response' = NoResponse
  /\ message' = <<>>
  /\ pc' = "read"
  /\ UNCHANGED <<input, text, url, headers, data, outcome, hops>>

-----------------------------------------------------------------------------
(* parseResponseHeader *)

HeaderEnd(received) == Find(received, CRLF \o CRLF, 1)

(* Mutant of StatusThrows: a reason phrase is asked for.                   *)
StatusThrowsEmpty(line) == Head(line) = "HTTP/" /\ (Len(line) >= 6 => line[4] \notin Codes)

(* Mutant of StatusThrows: the code is not tested.                         *)
StatusThrowsShort(line) == Head(line) = "HTTP/" /\ Len(line) < 5

(* The status line, when it begins with "HTTP/": version, space, code,     *)
(* space, reason. substr throws past the end of the line, std::stoi on a   *)
(* code that is no number.                                                 *)
StatusThrows(line) == Head(line) = "HTTP/" /\ (Len(line) >= 5 => line[4] \notin Codes)
StatusCode(line) == IF Head(line) = "HTTP/" THEN line[4] ELSE "Unknown"

(* Mutant of AddField: the first value of a name stays. *)
AddFieldOnce(fields, line) ==
  LET fieldValue == Split(line, <<":", " ">>)
  IN IF Len(fieldValue) = 2
     THEN fields @@ (fieldValue[1][1] :> RemovePrefix(fieldValue[2], " "))
     ELSE fields

(* One line of the header: a field only if ": " cuts it into exactly two.  *)
(* (A line without ':' is skipped before that, and ": " would not cut it.  *)
(* A name is one token, with no space for removePrefix to find.)           *)
AddField(fields, line) ==
  LET fieldValue == Split(line, <<":", " ">>)
  IN IF Len(fieldValue) = 2
     THEN Put(fields, fieldValue[1][1], RemovePrefix(fieldValue[2], " "))
     ELSE fields

ParseResponseHeader(received) ==
  LET views == Split(Upto(received, HeaderEnd(received)), CRLF)
      version == IF Head(views[1]) = "HTTP/" THEN Put(NoFields, "Version", SubSeq(views[1], 1, 2))
                 ELSE NoFields
  IN [fields |-> FoldLeft(AddField, version, views), code |-> StatusCode(views[1])]

IsNeedRedirect(header) == header.code \in {"301", "302"}

(* parseFieldValue of Content-Length: std::stoll on what is no number *)
LengthThrows(header) ==
  /\ "Content-Length" \in DOMAIN header.fields
  /\ LET value == header.fields["Content-Length"]
     IN value # <<>> => Head(value) \notin Numbers

(* What receive() does with a complete header: the exception of a bad      *)
(* status line or length meets a noexcept function, std::terminate; a      *)
(* redirect is followed; else the header and the rest are handed over.     *)
Parsed(received) ==
  LET end == HeaderEnd(received)
      header == ParseResponseHeader(received)
      location == IF "Location" \in DOMAIN header.fields
                  THEN header.fields["Location"] ELSE <<>>
  IN \/ /\ StatusThrows(Split(Upto(received, end), CRLF)[1])
        /\ End("terminated")
        /\ UNCHANGED <<text, response, data, hops>>
     \/ /\ ~StatusThrows(Split(Upto(received, end), CRLF)[1])
        /\ response' = header
        /\ \/ /\ IsNeedRedirect(header) /\ location = <<>>
              /\ End("RedirectError")
              /\ UNCHANGED <<text, data, hops>>
           \/ /\ IsNeedRedirect(header) /\ location # <<>>
              /\ hops < MaxHops
              /\ hops' = hops + 1
              /\ text' = location
              /\ pc' = "parseUrl"
              /\ UNCHANGED <<data, outcome>>
           \/ /\ ~IsNeedRedirect(header)
              /\ IF LengthThrows(header)
                 THEN End("terminated") /\ UNCHANGED data
                 ELSE End("header") /\ data' = From(received, end + Len(CRLF \o CRLF))
              /\ UNCHANGED <<text, hops>>

(* Mutant of Read: the end of the header is looked for in the last read.   *)
ReadForgets(n) ==
  /\ pc = "read"
  /\ recvData' = recvData \o SubSeq(incoming, 1, n)
  /\ incoming' = From(incoming, n + 1)
  /\ IF HeaderEnd(SubSeq(incoming, 1, n)) = 0
     THEN UNCHANGED <<pc, text, response, data, outcome, hops>>
     ELSE Parsed(recvData')
  /\ UNCHANGED <<input, url, headers, message, answer>>

(* One turn of receive() before the header is complete: a read of n tokens *)
(* is appended and the whole is parsed again.                              *)
Read(n) ==
  /\ pc = "read"
  /\ recvData' = recvData \o SubSeq(incoming, 1, n)
  /\ incoming' = From(incoming, n + 1)
  /\ IF HeaderEnd(recvData') = 0
     THEN UNCHANGED <<pc, text, response, data, outcome, hops>>
     ELSE Parsed(recvData')
  /\ UNCHANGED <<input, url, headers, message, answer>>

Next == ParseHop \/ Send \/ Answer \/ \E n \in 1..Len(incoming) : Read(n)

Spec == Init /\ [][Next]_vars

-----------------------------------------------------------------------------
(* Properties *)

(* A text is made of words, of the separators the code looks for, and of   *)
(* the words it writes into a message itself.                              *)
Literals ==
  {"POST", "HTTP/1.1", "Basic", "=", "Host", "Content-Length", "Authorization"}
  \cup {kBase64Content[i] : i \in 1..64}
Token == (STRING \cup Separators) \cup Literals

TypeOK ==
  /\ pc \in {"parseUrl", "send", "answer", "read", "done"}
  /\ input \in Inputs
  /\ url.valid \in BOOLEAN
  /\ input.url \in Seq(STRING) /\ message \in Seq(Token) /\ recvData \in Seq(Token)
  /\ response.code \in Codes \cup {"Unknown"}
  /\ outcome \in {"none", "header", "terminated", "UrlInvalid", "SchemeNotSupported",
                  "RedirectError"}
  /\ hops \in 0..MaxHops

(***************************************************************************)
(* A URL is read as it was composed: each component comes back whole,      *)
(* whatever separators of the others it contains, and absent ones get      *)
(* their defaults. This holds of the URL of each hop.                      *)
(***************************************************************************)
UrlAsComposed ==
  \A parts \in UrlParts :
    pc = "send" /\ ComposeUrl(parts) = text => url = UrlOf(parts)

(***************************************************************************)
(* A server that reads the message by the grammar of HTTP finds the target *)
(* of the URL, the headers and the body, and behind it at most the line    *)
(* end the encoder adds.                                                   *)
(***************************************************************************)
MessageUnderstood ==
  pc = "answer" =>
    LET end == Find(message, CRLF \o CRLF, 1)
        lines == Split(Upto(message, end), CRLF)
        rest == From(message, end + 4)
    IN /\ end # 0
       /\ lines[1] = <<"POST", " ">> \o url.path
            \o (IF url.query = <<>> THEN <<>> ELSE <<"?">> \o url.query) \o <<" ", "HTTP/1.1">>
       /\ {<<lines[i][1], From(lines[i], 4)>> : i \in 2..Len(lines)}
            = {<<name, headers[name]>> : name \in DOMAIN headers}
       /\ headers["Host"] = url.host
       /\ rest = IF input.body = <<>> THEN <<>> ELSE input.body \o CRLF
       /\ input.body # <<>> => headers["Content-Length"] = <<ToString(Len(input.body))>>

(* Bit number b of n, from the lowest, and what a digit of base64 is worth *)
Bit(n, b) == Shift(n, b) % 2
Worth(digit) == CHOOSE v \in 0..63 : kBase64Content[v + 1] = digit

(***************************************************************************)
(* The credentials a server decodes are the user info of the URL, for any  *)
(* number of bytes and any bytes, unless the caller gave his own: bit by   *)
(* bit (RFC 4648, section 4) the digits are the bytes, what is left of the *)
(* last digit is zero, and "=" fills the digits up to a multiple of four.  *)
(***************************************************************************)
CredentialsDecode ==
  pc = "answer" /\ hops = 0 /\ url.userInfo # <<>>
    /\ "Authorization" \notin DOMAIN input.headers =>
      LET digits == From(headers["Authorization"], 3)
          bytes == Bytes(url.userInfo)
          used == (8 * Len(bytes) + 5) \div 6
      IN /\ Len(digits) = 4 * ((Len(bytes) + 2) \div 3)
         /\ \A i \in (used + 1)..Len(digits) : digits[i] = "="
         /\ \A b \in 0..(6 * used - 1) :
              Bit(Worth(digits[b \div 6 + 1]), 5 - (b % 6))
                = IF b < 8 * Len(bytes) THEN Bit(bytes[b \div 8 + 1], 7 - (b % 8)) ELSE 0

(***************************************************************************)
(* Credentials stay what they were first, over every redirect: neither a   *)
(* later URL nor the absence of one replaces them.                         *)
(***************************************************************************)
CredentialsKept ==
  [][\A name \in {"Authorization"} \cap DOMAIN headers :
       name \in DOMAIN headers' /\ headers'[name] = headers[name]]_vars

(* A field line as RFC 7230 writes it and this parser wants it *)
Canonical(line) ==
  /\ Len(line) > 3 /\ line[2] = ":" /\ line[3] = " " /\ line[4] # " "
  /\ Find(From(line, 4), <<":", " ">>, 1) = 0

(***************************************************************************)
(* When every field line of an answer is canonical and its status line has *)
(* no ": ", the header handed over has each field that was sent, the last  *)
(* value of a repeated one, and none but these and the version, however    *)
(* the reads cut the text.                                                 *)
(***************************************************************************)
FieldsAsSent ==
  LET lines == answer.lines
      names == {lines[i][1] : i \in 2..Len(lines)}
  IN /\ outcome = "header"
     /\ Find(lines[1], <<":", " ">>, 1) = 0
     /\ \A i \in 2..Len(lines) : Canonical(lines[i])
     => /\ DOMAIN response.fields =
             names \cup (IF Head(lines[1]) = "HTTP/" THEN {"Version"} ELSE {})
        /\ \A name \in names :
             response.fields[name] =
               From(lines[Max({i \in 2..Len(lines) : lines[i][1] = name})], 4)

(***************************************************************************)
(* The header is parsed with the read that completes it, however the reads *)
(* before cut its end, and what that read brought beyond it is the         *)
(* beginning of the body.                                                  *)
(***************************************************************************)
HeaderWhenComplete ==
  /\ pc = "read" => Find(recvData, CRLF \o CRLF, 1) = 0
  /\ outcome = "header" => data \o incoming = answer.body

(***************************************************************************)
(* An answer that is well-formed, an empty reason phrase included, does    *)
(* not terminate the program.                                              *)
(***************************************************************************)
WellFormed(lines) ==
  /\ lines[1][1] = "HTTP/" /\ Len(lines[1]) >= 5 /\ lines[1][4] \in Codes
  /\ \A i \in 2..Len(lines) :
       Canonical(lines[i]) /\ (lines[i][1] = "Content-Length" => lines[i][4] \in Numbers)

TerminatedByMalformed == outcome = "terminated" => ~WellFormed(answer.lines)
=============================================================================
