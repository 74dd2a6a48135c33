----------------------------- MODULE HttpMessage -----------------------------
(***************************************************************************)
(* The parser of one HTTP response, kernel/http_client.c.                   *)
(*                                                                         *)
(* A response is a sequence of bytes.  CR and LF are bytes of their own; a   *)
(* status line, a header field, a chunk extension and a trailer field count  *)
(* as one byte each, named after what the parser makes of it, and any other  *)
(* byte is "x".  Positions count from 1.                                     *)
(***************************************************************************)
EXTENDS Naturals, Sequences, SequencesExt

CONSTANTS
  HTTP_CLIENT_MAX_HEADER_BYTES,
  HTTP_CLIENT_MAX_CHUNK_LINE_BYTES,
  HTTP_CLIENT_MAX_TRAILER_BYTES,
  HTTP_CLIENT_MAX_CHUNK_FRAMING_BYTES,
  HTTP_CLIENT_MAX_INFORMATIONAL_RESPONSES

ASSUME HttpMessageAssumption ==
  {HTTP_CLIENT_MAX_HEADER_BYTES, HTTP_CLIENT_MAX_CHUNK_LINE_BYTES,
   HTTP_CLIENT_MAX_TRAILER_BYTES, HTTP_CLIENT_MAX_CHUNK_FRAMING_BYTES,
   HTTP_CLIENT_MAX_INFORMATIONAL_RESPONSES} \subseteq Nat \ {0}

\* Status lines, header fields and chunk sizes, by what they mean.
StatusLines == [S100 |-> 100, S101 |-> 101, S200 |-> 200, S204 |-> 204, S301 |-> 301]
ContentLengths == [CL0 |-> 0, CL2 |-> 2]
TransferCodings == [TEc |-> <<"chunked">>, TEi |-> <<"identity">>, TEg |-> <<"gzip">>,
                    TEgc |-> <<"gzip", "chunked">>]
Locations == [LOC |-> TRUE, LOCbad |-> FALSE]        \* whether it is a URI reference
OtherFields == {"H"}
Digits == [d0 |-> 0, d1 |-> 1, d2 |-> 2]

\* clear_response, with struct http_parse_context.
clear_response ==
  [status |-> 0, has_content_length |-> FALSE, content_length |-> 0,
   codings |-> <<>>, has_location |-> FALSE, chunked_transfer |-> FALSE,
   body_start |-> 1]

----------------------------------------------------------------------------
(* Scanning *)

First(S) == CHOOSE i \in S : \A j \in S : i <= j

\* find_crlf: 0 when there is none that ends at limit or before.
find_crlf(bytes, start, limit) ==
  LET at == {i \in start .. limit - 1 : bytes[i] = "cr" /\ bytes[i + 1] = "lf"}
  IN  IF at = {} THEN 0 ELSE First(at)

find_header_separator(bytes, start, limit) ==
  LET at == {i \in start .. limit - 3 : SubSeq(bytes, i, i + 3) = <<"cr", "lf", "cr", "lf">>}
  IN  IF at = {} THEN 0 ELSE First(at)

----------------------------------------------------------------------------
(* The head *)

Failed(response, error) == [error |-> error, response |-> response]
Parsed(response) == [error |-> "NONE", response |-> response]

\* parse_transfer_encoding: nothing may follow chunked or identity, and identity
\* follows nothing, over all the fields of the head.
RECURSIVE parse_transfer_encoding(_, _)
parse_transfer_encoding(value, response) ==
  IF value = <<>> THEN Parsed(response)
  ELSE IF \/ {"chunked", "identity"} \cap ToSet(response.codings) # {}
          \/ Head(value) = "identity" /\ response.codings # <<>>
  THEN Failed(response, "MALFORMED_HEADER")
  ELSE parse_transfer_encoding(Tail(value), [response EXCEPT !.codings = Append(@, Head(value))])

\* Mutant: of two different content lengths the last one counts.
LastLengthCounts(field, response) ==
  CASE field \in DOMAIN ContentLengths ->
         Parsed([response EXCEPT !.has_content_length = TRUE,
                                 !.content_length = ContentLengths[field]])
    [] field \in DOMAIN TransferCodings ->
         parse_transfer_encoding(TransferCodings[field], response)
    [] field \in DOMAIN Locations ->
         IF response.has_location THEN Failed(response, "MALFORMED_HEADER")
         ELSE Parsed([response EXCEPT !.has_location = TRUE])
    [] OTHER -> Parsed(response)

\* parse_header_line, for a line that parse_header_view takes apart.
parse_header_line(field, response) ==
  CASE field \in DOMAIN ContentLengths ->
         IF response.has_content_length /\ response.content_length # ContentLengths[field]
         THEN Failed(response, "INVALID_CONTENT_LENGTH")
         ELSE Parsed([response EXCEPT !.has_content_length = TRUE,
                                      !.content_length = ContentLengths[field]])
    [] field \in DOMAIN TransferCodings ->
         parse_transfer_encoding(TransferCodings[field], response)
    [] field \in DOMAIN Locations ->
         IF response.has_location THEN Failed(response, "MALFORMED_HEADER")
         ELSE Parsed([response EXCEPT !.has_location = TRUE])
    [] OTHER -> Parsed(response)

IsField(byte) ==
  byte \in DOMAIN ContentLengths \cup DOMAIN TransferCodings \cup DOMAIN Locations \cup OtherFields

\* The loop of parse_response_head over its lines, from cursor to the separator.
RECURSIVE ParseFields(_, _, _, _)
ParseFields(bytes, cursor, fields_end, response) ==
  IF cursor >= fields_end THEN Parsed(response)
  ELSE LET found == find_crlf(bytes, cursor, fields_end - 1)
           line_end == IF found = 0 THEN fields_end ELSE found
           Continue(result) ==
             IF result.error # "NONE" THEN result
             ELSE ParseFields(bytes, line_end + 2, fields_end, result.response)
       IN  IF line_end # cursor + 1 \/ ~IsField(bytes[cursor])
           THEN Failed(response, "MALFORMED_HEADER")
           ELSE Continue(parse_header_line(bytes[cursor], response))

redirect_status(status) == status \in {300, 301, 302, 303, 307, 308}

\* The checks on the head as a whole.
CheckHead(bytes, fields_start, fields_end, response) ==
  LET bad == redirect_status(response.status) /\ response.has_location
               /\ \E i \in fields_start .. fields_end - 1 : bytes[i] = "LOCbad"
  IN  CASE response.codings # <<>> /\ response.has_content_length ->
             Failed(response, "CONFLICTING_FRAMING")
        [] ToSet(response.codings) \ {"chunked", "identity"} # {} ->
             Failed(response, "UNSUPPORTED_TRANSFER_ENCODING")
        [] OTHER ->
             IF bad THEN Failed(response, "INVALID_REDIRECT_LOCATION")
             ELSE Parsed([response EXCEPT
                            !.chunked_transfer = "chunked" \in ToSet(response.codings)])

\* parse_response_head.  The status line, then the separator, are looked for in the
\* first limit bytes.
parse_response_head(bytes, start, limit, response) ==
  LET Short(error) == Failed(response, IF Len(bytes) >= HTTP_CLIENT_MAX_HEADER_BYTES
                                       THEN "HEADER_TOO_LARGE" ELSE error)
      Checked(fields_start, separator, fields) ==
        IF fields.error # "NONE" THEN fields
        ELSE CheckHead(bytes, fields_start, separator, fields.response)
      Fields(fields_start, separator) ==
        IF separator = 0 THEN Short("MALFORMED_HEADER")
        ELSE Checked(fields_start, separator,
                     ParseFields(bytes, fields_start, separator,
                                 [response EXCEPT !.status = StatusLines[bytes[start]],
                                                  !.body_start = separator + 4]))
      Status(status_end) ==
        IF status_end = 0 THEN Short("MALFORMED_STATUS_LINE")
        ELSE IF status_end # start + 1 \/ bytes[start] \notin DOMAIN StatusLines
        THEN Failed(response, "MALFORMED_STATUS_LINE")
        ELSE Fields(status_end + 2, find_header_separator(bytes, status_end, limit))
  IN  IF start > limit THEN Short("MALFORMED_STATUS_LINE")
      ELSE Status(find_crlf(bytes, start, limit))

\* Mutant: the header may be as long as the response.
HeaderUnlimited(bytes) == Len(bytes)

\* How far the head of a response may reach.
HeaderLimit(bytes) ==
  IF Len(bytes) < HTTP_CLIENT_MAX_HEADER_BYTES THEN Len(bytes)
  ELSE HTTP_CLIENT_MAX_HEADER_BYTES

\* The loop over informational responses: the final head, or why there is none.
RECURSIVE FinalHead(_, _, _)
FinalHead(bytes, start, count) ==
  LET Skip(r) ==
        IF r.status = 101 THEN Failed(r, "UNSUPPORTED_PROTOCOL_SWITCH")
        ELSE IF r.has_content_length \/ r.codings # <<>>
        THEN Failed(r, "INVALID_INFORMATIONAL_FRAMING")
        ELSE IF count = HTTP_CLIENT_MAX_INFORMATIONAL_RESPONSES
        THEN Failed(r, "TOO_MANY_INFORMATIONAL_RESPONSES")
        ELSE IF r.body_start > Len(bytes)
        THEN Failed(r, "INFORMATIONAL_RESPONSE_WITHOUT_FINAL")
        ELSE FinalHead(bytes, r.body_start, count + 1)
      Final(head) ==
        IF head.error # "NONE" \/ head.response.status >= 200 THEN head
        ELSE Skip(head.response)
  IN  Final(parse_response_head(bytes, start, HeaderLimit(bytes), clear_response))

----------------------------------------------------------------------------
(* Chunked bodies, decoded in place *)

Chunk(buffer, length, error) == [buffer |-> buffer, length |-> length, error |-> error]

\* find_chunk_line_end: 0 with the error when there is no line yet.
find_chunk_line_end(bytes, start) ==
  LET remaining == Len(bytes) - start + 1
      most == HTTP_CLIENT_MAX_CHUNK_LINE_BYTES + 2
      limit == IF remaining > most THEN most ELSE remaining
      at == find_crlf(bytes, start, start + limit - 1)
  IN  CASE at # 0 -> [at |-> at, error |-> "NONE"]
        [] at = 0 /\ remaining > HTTP_CLIENT_MAX_CHUNK_LINE_BYTES ->
             [at |-> 0, error |-> "CHUNK_METADATA_TOO_LARGE"]
        [] OTHER -> [at |-> 0, error |-> "TRUNCATED_BODY"]

\* parse_chunk_size_line: hexadecimal digits and then extensions;
\* <<>> if it is not that.
RECURSIVE HexValue(_)
HexValue(digits) ==
  IF digits = <<>> THEN 0 ELSE HexValue(Front(digits)) * 16 + Digits[Last(digits)]

parse_chunk_size_line(line) ==
  LET digits == SelectSeq(line, LAMBDA b : b \in DOMAIN Digits)
      n == Len(digits)
  IN  IF /\ n > 0
         /\ SubSeq(line, 1, n) = digits
         /\ \A i \in n + 1 .. Len(line) : line[i] = "ext"
      THEN <<HexValue(digits)>> ELSE <<>>

\* validate_chunk_trailers: well-formed, permitted fields up to an empty line.
RECURSIVE validate_chunk_trailers(_, _, _)
validate_chunk_trailers(bytes, start, cursor) ==
  LET most == HTTP_CLIENT_MAX_TRAILER_BYTES
      length == Len(bytes) - start + 1
      limit == IF length > most THEN start + most - 1 ELSE Len(bytes)
      line_end == find_crlf(bytes, cursor, limit)
  IN  IF cursor - start > most THEN [error |-> "CHUNK_METADATA_TOO_LARGE", end |-> 0]
      ELSE IF line_end = 0
      THEN [error |-> IF length > most THEN "CHUNK_METADATA_TOO_LARGE" ELSE "TRUNCATED_BODY",
            end |-> 0]
      ELSE IF line_end = cursor THEN [error |-> "NONE", end |-> line_end + 2]
      ELSE IF line_end # cursor + 1 \/ bytes[cursor] # "T"
      THEN [error |-> "MALFORMED_CHUNKED_BODY", end |-> 0]
      ELSE validate_chunk_trailers(bytes, start, line_end + 2)

\* Mutant: the data is moved one byte too far.
MovedTooFar(bytes, write, read, size) ==
  [i \in DOMAIN bytes |-> IF i \in write + 1 .. write + size THEN bytes[read + i - write - 1]
                          ELSE bytes[i]]

\* The data of a chunk moves to the end of what is decoded; bytes are copied from
\* the front, so where the two overlap the source is read before it is lost.
Moved(bytes, write, read, size) ==
  [i \in DOMAIN bytes |-> IF i \in write .. write + size - 1 THEN bytes[read + i - write]
                          ELSE bytes[i]]

\* Mutant: a line is counted only after it was accepted.
FramingCountedLate(framing, more) == framing <= HTTP_CLIENT_MAX_CHUNK_FRAMING_BYTES

\* Whether so many bytes more of chunk sizes and line ends are acceptable.
FramingFits(framing, more) == framing + more <= HTTP_CLIENT_MAX_CHUNK_FRAMING_BYTES

\* walk_chunked_body from read on; write is where the next data goes when compact.
RECURSIVE Walk(_, _, _, _, _)
Walk(bytes, compact, read, write, framing) ==
  LET Stop(error) == Chunk(bytes, write - 1, error)
      Trailed(trailer) ==
        IF trailer.error # "NONE" THEN Stop(trailer.error)
        ELSE IF trailer.end # Len(bytes) + 1 THEN Stop("UNEXPECTED_EXTRA_DATA")
        ELSE Stop("NONE")
      Data(data, size, framed) ==
        IF size = <<>> THEN Stop("MALFORMED_CHUNKED_BODY")
        ELSE IF size = <<0>> THEN Trailed(validate_chunk_trailers(bytes, data, data))
        ELSE IF data + size[1] + 1 > Len(bytes) THEN Stop("TRUNCATED_BODY")
        ELSE IF SubSeq(bytes, data + size[1], data + size[1] + 1) # <<"cr", "lf">>
        THEN Stop("MALFORMED_CHUNKED_BODY")
        ELSE IF ~FramingFits(framed, 2) THEN Stop("CHUNK_METADATA_TOO_LARGE")
        ELSE Walk(IF compact THEN Moved(bytes, write, data, size[1]) ELSE bytes,
                  compact, data + size[1] + 2, write + size[1], framed + 2)
      Size(line, length) ==
        IF line.error # "NONE" THEN Stop(line.error)
        ELSE IF ~FramingFits(framing, length) THEN Stop("CHUNK_METADATA_TOO_LARGE")
        ELSE Data(line.at + 2, parse_chunk_size_line(SubSeq(bytes, read, line.at - 1)),
                  framing + length)
      Measured(line) == Size(line, line.at - read + 2)
  IN  Measured(find_chunk_line_end(bytes, read))

\* decode_chunked_body: checked first, then decoded.
decode_chunked_body(bytes) ==
  LET Decoded(checked, decoded) ==
        IF checked.error # "NONE" THEN checked
        ELSE IF decoded.error # "NONE" \/ decoded.length # checked.length
        THEN Chunk(bytes, 0, "MALFORMED_CHUNKED_BODY")
        ELSE decoded
  IN  Decoded(Walk(bytes, FALSE, 1, 1, 0), Walk(bytes, TRUE, 1, 1, 0))

----------------------------------------------------------------------------
(* A whole response, and the part of one *)

Response(error, head, body) == [error |-> error, head |-> head, body |-> body]

\* http_client_parse_response
http_client_parse_response(bytes) ==
  LET Unchunked(r, chunked) ==
        IF chunked.error # "NONE" THEN Response(chunked.error, r, <<>>)
        ELSE Response("NONE", r, SubSeq(chunked.buffer, 1, chunked.length))
      Body(r, available) ==
        IF r.status \in {204, 304}
        THEN Response(IF available = <<>> THEN "NONE" ELSE "UNEXPECTED_EXTRA_DATA", r, <<>>)
        ELSE IF r.chunked_transfer THEN Unchunked(r, decode_chunked_body(available))
        ELSE IF r.has_content_length /\ Len(available) < r.content_length
        THEN Response("TRUNCATED_BODY", r, <<>>)
        ELSE IF r.has_content_length /\ Len(available) > r.content_length
        THEN Response("UNEXPECTED_EXTRA_DATA", r, <<>>)
        ELSE Response("NONE", r, available)
      Headed(final) ==
        IF final.error # "NONE" THEN Response(final.error, final.response, <<>>)
        ELSE Body(final.response, SubSeq(bytes, final.response.body_start, Len(bytes)))
  IN  IF bytes = <<>> THEN Response("INVALID_ARGUMENT", clear_response, <<>>)
      ELSE Headed(FinalHead(bytes, 1, 0))

\* What network.c allows for beside the body in the buffer of a response.
NETWORK_TCP_RESPONSE_ALLOWANCE ==
  HTTP_CLIENT_MAX_HEADER_BYTES + HTTP_CLIENT_MAX_TRAILER_BYTES
    + HTTP_CLIENT_MAX_CHUNK_FRAMING_BYTES

Lesser(m, n) == IF m < n THEN m ELSE n

\* Mutant: progress is what arrived, whatever the head announced.
ProgressUncapped(bytes, body_capacity) ==
  LET Arrived(final) ==
        IF final.error # "NONE" \/ final.response.status \in {204, 304} THEN 0
        ELSE Lesser(body_capacity, Len(bytes) - final.response.body_start + 1)
  IN  IF bytes = <<>> THEN 0 ELSE Arrived(FinalHead(bytes, 1, 0))

\* http_client_response_body_progress, called while the response still arrives.
http_client_response_body_progress(bytes, body_capacity) ==
  LET Due(r, arrived) == IF r.has_content_length THEN Lesser(arrived, r.content_length) ELSE arrived
      Arrived(error, r) ==
        IF error # "NONE" \/ r.chunked_transfer \/ r.status \in {204, 304} THEN 0
        ELSE Lesser(body_capacity, Due(r, Len(bytes) - r.body_start + 1))
      Headed(final) == Arrived(final.error, final.response)
  IN  IF bytes = <<>> THEN 0 ELSE Headed(FinalHead(bytes, 1, 0))
=============================================================================
