------------------------------- MODULE HttpUrl -------------------------------
(***************************************************************************)
(* URLs of HTTP requests and of redirects, kernel/network.c.  A URL is       *)
(* http://, an authority and a target (path and query).  Text is a sequence  *)
(* of characters: "/", ".", "?", "#", ":" and "a", which stands for a letter.*)
(***************************************************************************)
EXTENDS Naturals, Sequences, SequencesExt

CONSTANT NETWORK_URL_CAPACITY     \* of a target, with its final zero

ASSUME HttpUrlAssumption == NETWORK_URL_CAPACITY \in Nat \ {0}

\* The length of the text before the first character of stop.
UpTo(text, stop) ==
  LET at == {i \in DOMAIN text : text[i] \in stop}
  IN  IF at = {} THEN Len(text) ELSE (CHOOSE i \in at : \A j \in at : i <= j) - 1

Before(text, stop) == SubSeq(text, 1, UpTo(text, stop))
From(text, stop) == SubSeq(text, UpTo(text, stop) + 1, Len(text))

Refused == <<>>                   \* a normalised target is never empty

\* Mutant: the last segment goes, and an empty segment with it.
ParentOfEmpty(out) ==
  LET named == {i \in DOMAIN out : out[i] # "/"}
      last == IF named = {} THEN 0 ELSE CHOOSE i \in named : \A j \in named : j <= i
      kept == SubSeq(out, 1, last)
      slashes == {i \in DOMAIN kept : kept[i] = "/"}
  IN  IF slashes = {} THEN <<>>
      ELSE SubSeq(kept, 1, (CHOOSE i \in slashes : \A j \in slashes : j <= i) - 1)

\* ".." takes back the last segment written, which may be empty, and its slash.
Parent(out) ==
  LET slashes == {i \in DOMAIN out : out[i] = "/"}
      last == CHOOSE i \in slashes : \A j \in slashes : j <= i
  IN  IF out = <<>> THEN <<>>
      ELSE IF Last(out) = "/" THEN Front(out)
      ELSE SubSeq(out, 1, last - 1)

\* The loop of network_normalize_http_url_path over the segments of a path; scan is
\* the path after the slash of the next one.
RECURSIVE NormalizeSegments(_, _)
NormalizeSegments(scan, out) ==
  LET segment == Before(scan, {"/"})
      final == Len(segment) = Len(scan)
      dot == segment = <<".">>
      parent == segment = <<".", ".">>
      kept == IF parent THEN Parent(out) ELSE out
      written == IF ~dot /\ ~parent THEN out \o <<"/">> \o segment
                 ELSE IF final THEN kept \o <<"/">> ELSE kept
  IN  IF Len(written) >= NETWORK_URL_CAPACITY THEN Refused
      ELSE IF final THEN written
      ELSE NormalizeSegments(SubSeq(scan, Len(segment) + 2, Len(scan)), written)

\* network_normalize_http_url_path, on what follows the authority.
network_normalize_http_url_path(target) ==
  LET path == Before(target, {"?"})
      query == From(target, {"?"})
      normalized == IF path = <<>> THEN <<"/">> ELSE NormalizeSegments(Tail(path), <<>>)
  IN  IF normalized = Refused \/ Len(normalized) + Len(query) >= NETWORK_URL_CAPACITY
      THEN Refused ELSE normalized \o query

\* network_url_has_explicit_scheme
network_url_has_explicit_scheme(reference) ==
  LET scheme == Before(reference, {":", "/", "?", "#"})
  IN  /\ scheme # <<>> /\ Head(scheme) = "a"
      /\ Len(scheme) < Len(reference) /\ reference[Len(scheme) + 1] = ":"

\* An authority that network_parse_http_url takes: no port can be written here.
ValidAuthority(authority) == authority # <<>> /\ ":" \notin ToSet(authority)

Outcome(result, authority, target) ==
  [result |-> result, authority |-> authority, target |-> target]

\* The end of network_resolve_redirect_url: normalise and parse the result.
Resolved(authority, target) ==
  LET normalized == network_normalize_http_url_path(target)
  IN  IF ValidAuthority(authority) /\ normalized # Refused
      THEN Outcome("OK", authority, normalized) ELSE Outcome("PROTOCOL_ERROR", <<>>, <<>>)

\* network_resolve_redirect_url.  scheme is "https", "http" or "" with what follows
\* "http://" in location; base_authority and base are those of the request.
network_resolve_redirect_url(base_authority, base, scheme, location) ==
  LET reference == Before(location, {"#"})
      path == Before(base, {"?"})
      slashes == {i \in DOMAIN path : path[i] = "/"}
      directory == SubSeq(path, 1, CHOOSE i \in slashes : \A j \in slashes : j <= i)
      network == IF scheme = "http" THEN reference ELSE SubSeq(reference, 3, Len(reference))
  IN  CASE scheme = "https" -> Outcome("UNSUPPORTED", <<>>, <<>>)
        [] scheme = "" /\ reference = <<>> -> Outcome("PROTOCOL_ERROR", <<>>, <<>>)
        [] scheme = "" /\ network_url_has_explicit_scheme(reference) ->
             Outcome("UNSUPPORTED", <<>>, <<>>)
        [] scheme = "http" \/ (scheme = "" /\ IsPrefix(<<"/", "/">>, reference)) ->
             Resolved(Before(network, {"/", "?"}), From(network, {"/", "?"}))
        [] OTHER ->
             Resolved(base_authority,
                      IF Head(reference) = "/" THEN reference
                      ELSE IF Head(reference) = "?" THEN path \o reference
                      ELSE directory \o reference)
=============================================================================
