------------------------------- MODULE MCHttp -------------------------------
(***************************************************************************)
(* A response that arrives piece by piece and a redirect whose location is   *)
(* spelled character by character, as inputs for HttpMessage and HttpUrl,    *)
(* with the reference definitions both are compared with.                    *)
(***************************************************************************)
EXTENDS HttpMessage, HttpUrl

CONSTANTS
  BodyCapacity,       \* what the owner of the request has room for
  MaxBody,            \* bound: bytes after the head
  MaxEnd,             \* bound: bytes more at the end of a chunked body
  MaxLocation,        \* bound: characters of a location
  Bases               \* bound: characters of the base URL's target after its slash

VARIABLES
  bytes,              \* the response so far
  redirect            \* [base, scheme, location]

httpVars == <<bytes, redirect>>

Line(byte) == <<byte, "cr", "lf">>
FieldBytes == DOMAIN ContentLengths \cup DOMAIN TransferCodings \cup DOMAIN Locations \cup OtherFields
HeadOf(status, fields) ==
  Line(status) \o FlattenSeq([i \in DOMAIN fields |-> Line(fields[i])]) \o <<"cr", "lf">>
ResponseHeads == {HeadOf(s, f) : s \in DOMAIN StatusLines, f \in SeqOf(FieldBytes, 2)}
Informational == {<<>>} \cup {HeadOf("S100", f) : f \in SeqOf({"H", "CL2"}, 1)}

\* Chunk sizes, with a leading zero and with an extension, a size that is none, data
\* that looks like a line end, a trailer and the line end itself.
Pieces ==
  {<<"d0", "cr", "lf">>, <<"d1", "cr", "lf">>, <<"d2", "cr", "lf">>, <<"d0", "d1", "cr", "lf">>,
   <<"d1", "ext", "cr", "lf">>, <<"ext", "cr", "lf">>, <<"T", "cr", "lf">>, <<"cr", "lf">>,
   <<"cr">>, <<"x">>}
Ends == {<<"d0", "cr", "lf">>, <<"T", "cr", "lf">>, <<"cr", "lf">>}
Characters == {"/", ".", "?", "#", ":", "a"}
Host == <<"a">>

\* The bases a request can have: normalised targets.
BaseTargets ==
  {network_normalize_http_url_path(<<"/">> \o t) : t \in SeqOf({"/", ".", "?", "a"}, Bases)}

Start == [base |-> <<"/">>, scheme |-> "", location |-> <<>>]

HttpInit ==
  \/ /\ bytes \in {i \o h : i \in Informational, h \in ResponseHeads}
     /\ redirect = Start
  \/ /\ bytes = <<>>
     /\ redirect \in {[base |-> b, scheme |-> s, location |-> <<>>] :
                        b \in BaseTargets, s \in {"", "http", "https"}}

FinalResponse == FinalHead(bytes, 1, 0).response

\* How long the body may get with a piece; the longest bodies follow the plainest head,
\* and have room for an end that is longer than the limits on framing and trailers.
BodyBound(piece) ==
  IF ~IsPrefix(HeadOf("S200", <<"TEc">>), bytes) THEN 3
  ELSE IF piece \in Ends THEN MaxBody + MaxEnd ELSE MaxBody

\* A response goes on until it is refused for good.  What the bytes of a body are
\* matters only if it is chunked.
Receive ==
  /\ bytes # <<>>
  /\ http_client_parse_response(bytes).error \in {"NONE", "TRUNCATED_BODY"}
  /\ \E piece \in (IF FinalResponse.chunked_transfer THEN Pieces ELSE {<<"x">>}) :
       /\ Len(bytes) + Len(piece) <= FinalResponse.body_start - 1 + BodyBound(piece)
       /\ bytes' = bytes \o piece
  /\ UNCHANGED redirect

\* The location grows by a character.
Spell ==
  /\ bytes = <<>> /\ redirect.scheme # "https" /\ Len(redirect.location) < MaxLocation
  /\ \E c \in Characters : redirect' = [redirect EXCEPT !.location = Append(@, c)]
  /\ UNCHANGED bytes

HttpNext == Receive \/ Spell

----------------------------------------------------------------------------
(* References *)

\* The data of a chunked body, cut out without moving anything: the chunks are a
\* partition of the bytes into size, data and line ends.
RECURSIVE ChunkData(_)
ChunkData(body) ==
  LET end == find_crlf(body, 1, Len(body))
      size == HexValue(SelectSeq(SubSeq(body, 1, end - 1), LAMBDA b : b \in DOMAIN Digits))
  IN  IF size = 0 THEN <<>>
      ELSE SubSeq(body, end + 2, end + 1 + size)
             \o ChunkData(SubSeq(body, end + size + 4, Len(body)))

\* remove_dot_segments of RFC 3986, section 5.2.4.
RECURSIVE RemoveDotSegments(_, _)
RemoveDotSegments(in, out) ==
  LET rest == Tail(in)
      next == IF rest = <<>> THEN 0 ELSE UpTo(rest, {"/"})
      slashes == {i \in DOMAIN out : out[i] = "/"}
      shorter == IF slashes = {} THEN <<>>
                 ELSE SubSeq(out, 1, (CHOOSE i \in slashes : \A j \in slashes : j <= i) - 1)
      Drop(n) == SubSeq(in, n + 1, Len(in))
  IN  IF in = <<>> THEN out
      ELSE IF IsPrefix(<<"/", ".", "/">>, in) THEN RemoveDotSegments(Drop(2), out)
      ELSE IF in = <<"/", ".">> THEN RemoveDotSegments(<<"/">>, out)
      ELSE IF IsPrefix(<<"/", ".", ".", "/">>, in) THEN RemoveDotSegments(Drop(3), shorter)
      ELSE IF in = <<"/", ".", ".">> THEN RemoveDotSegments(<<"/">>, shorter)
      ELSE RemoveDotSegments(Drop(1 + next), out \o SubSeq(in, 1, 1 + next))

\* Resolution of a reference without a scheme, section 5.2.2; a fragment is cut off
\* and an empty path of a host is "/".
Rfc3986(base, location) ==
  LET reference == Before(location, {"#"})
      hasAuthority == IsPrefix(<<"/", "/">>, reference)
      rest == IF hasAuthority THEN From(SubSeq(reference, 3, Len(reference)), {"/", "?"})
              ELSE reference
      path == Before(rest, {"?"})
      query == From(rest, {"?"})
      basePath == Before(base, {"?"})
      merged == SubSeq(basePath, 1, Len(basePath) - UpTo(Reverse(basePath), {"/"})) \o path
      target == IF hasAuthority THEN path
                ELSE IF path = <<>> THEN basePath
                ELSE IF Head(path) = "/" THEN path ELSE merged
      clean == RemoveDotSegments(target, <<>>)
  IN  (IF clean = <<>> THEN <<"/">> ELSE clean) \o query

----------------------------------------------------------------------------
(* Properties *)

Progress(b) == http_client_response_body_progress(b, BodyCapacity)

\* The first byte that arrived last: the whole head at first, then a piece, of at
\* most four bytes.
LastArrived == IF Len(bytes) < FinalResponse.body_start \/ Len(bytes) < 4 THEN 1 ELSE Len(bytes) - 3

\* While a response arrives, the progress that http_client_response_body_progress
\* reports never goes back and never exceeds the body that
\* http_client_parse_response delivers in the end.
ProgressIsHonest ==
  /\ \A k \in LastArrived .. Len(bytes) :
       Progress(SubSeq(bytes, 1, k - 1)) <= Progress(SubSeq(bytes, 1, k))
  /\ LET Bounded(parse) == parse.error = "NONE" => Progress(bytes) <= Len(parse.body)
     IN  bytes # <<>> => Bounded(http_client_parse_response(bytes))

\* A chunked body is decoded in place, over the bytes that are still to be read:
\* what comes out is the data of the chunks in order.
ChunksComeOutWhole ==
  LET Whole(parse) ==
        parse.error = "NONE" /\ parse.head.chunked_transfer =>
          parse.body = ChunkData(SubSeq(bytes, parse.head.body_start, Len(bytes)))
  IN  bytes # <<>> => Whole(http_client_parse_response(bytes))

\* A response that the parser accepts fits the buffer that network.c sizes for it, the
\* body and NETWORK_TCP_RESPONSE_ALLOWANCE: the headers, all informational ones
\* included, keep to their part of it, and what the body is wrapped in to the rest.
\* Otherwise a body the application has room for would be refused as too large by the
\* connection.
AllowanceSuffices ==
  LET Fits(parse) ==
        parse.error = "NONE" =>
          /\ parse.head.body_start - 1 <= HTTP_CLIENT_MAX_HEADER_BYTES
          /\ Len(bytes) - parse.head.body_start + 1 <=
               Len(parse.body) + HTTP_CLIENT_MAX_TRAILER_BYTES
                 + HTTP_CLIENT_MAX_CHUNK_FRAMING_BYTES
          /\ Len(bytes) <= Len(parse.body) + NETWORK_TCP_RESPONSE_ALLOWANCE
  IN  bytes # <<>> => Fits(http_client_parse_response(bytes))

\* The order of two header fields never decides whether a response is accepted or
\* where its body ends.
FieldOrderIsIrrelevant ==
  \A i \in 2 .. Len(bytes) - 3 :
    LET swapped == [bytes EXCEPT ![i] = bytes[i + 3], ![i + 3] = bytes[i]]
        Agree(one, other) ==
          /\ other.error = "NONE" <=> one.error = "NONE"
          /\ one.error = "NONE" => other.body = one.body
    IN  IsField(bytes[i]) /\ IsField(bytes[i + 3])
          /\ i + 3 < FinalResponse.body_start =>
            Agree(http_client_parse_response(bytes), http_client_parse_response(swapped))

\* Where a redirect leads is what RFC 3986 says, dot segments, empty segments and
\* queries included; the URL is then normal, so that comparing it with the URLs
\* visited recognises a loop.
RedirectsResolve ==
  LET location == IF redirect.scheme = "http" THEN <<"/", "/">> \o redirect.location
                  ELSE redirect.location
      Right(r) ==
        r.result = "OK" =>
          /\ r.target = Rfc3986(redirect.base, location)
          /\ network_normalize_http_url_path(r.target) = r.target
  IN  Right(network_resolve_redirect_url(Host, redirect.base, redirect.scheme, redirect.location))
=============================================================================
