---------------------------- MODULE HttpHandlers ----------------------------
(***************************************************************************)
(* One HTTP request through src/callfwd/ApiHandler.cpp: the factory picks *)
(* a handler by path, proxygen delivers onRequest, onBody*, onEOM, and    *)
(* the handler writes to downstream_.                                      *)
(*                                                                         *)
(* What is sent is a sequence of tokens: a status ("200", "400", "404",   *)
(* "503"), the JSON punctuation "[", "]" and ",", a JSON record "rec", a   *)
(* JSON record with a syntax error "badrec", a text line "line", and      *)
(* "eom".  Query parameters are abstracted to "phone" (a phone[] value    *)
(* PhoneNumber::fromString accepts), "nophone" (one it rejects) and       *)
(* "other" (another name); a reverse prefix is its string of characters.  *)
(* Width stands for the 10 digits of a phone number.                      *)
(***************************************************************************)
EXTENDS Naturals, Sequences, FiniteSets, SequencesExt

CONSTANTS
  Paths,         \* request paths
  Methods,       \* request methods
  MaxQuery,      \* FLAGS_max_query_length, in bytes
  ChunkSizes,    \* sizes of the body chunks onBody receives
  MaxChunks,     \* bound on onBody calls
  MaxParams,     \* bound on the phone parameters of one query string
  PrefixValues,  \* prefix[] values a /reverse query may carry
  MaxPrefixes,   \* bound on the prefix[] parameters of one query string
  Width,         \* digits of a phone number
  MaxRows        \* bound on the rows one inverseRNs cursor yields

ASSUME MaxQuery \in Nat /\ ChunkSizes \subseteq Nat \ {0} /\ Width \in Nat \ {0}

Digits == {"0", "1", "2", "3", "4", "5", "6", "7", "8", "9"}
Params == {"phone", "nophone", "other"}
Statuses == {"200", "400", "404", "503"}
Tokens == Statuses \cup {"[", "]", ",", "rec", "badrec", "line", "eom"}

VARIABLES
  handler,    \* "none" before the factory ran, "target", "reverse", "direct"
  status,     \* the DirectResponseHandler's status, else "none"
  method,     \* the request method
  hdrOk,      \* sanitizeHeader left needBody_ set
  json,       \* json_ / the Accept header asked for JSON
  ev,         \* proxygen's delivery: "new", "open" (after onRequest), "done"
              \* (after onEOM), "gone" (after requestComplete), "error"
              \* (after onError)
  needBody,   \* TargetHandler::needBody_
  bodyLen,    \* computeChainDataLength() of body_
  sent,       \* body bytes the client sent
  chunks,     \* onBody calls delivered
  leaked,     \* an IOBuf chain was dropped without being freed
  asked,      \* the prefix[] values of a /reverse query
  ranges,     \* ReverseHandler::query_, each range with its prefix
  out,        \* tokens sent downstream
  deleted     \* the handler object has been deleted (`delete this`)

vars == <<handler, status, method, hdrOk, json, ev, needBody, bodyLen, sent,
          chunks, leaked, asked, ranges, out, deleted>>
reqVars == <<handler, status, method, hdrOk, json, asked, ranges, deleted>>

Init ==
  /\ handler = "none" /\ status = "none" /\ method = "none"
  /\ hdrOk = TRUE /\ json = FALSE /\ ev = "new"
  /\ needBody = TRUE /\ bodyLen = 0 /\ sent = 0 /\ chunks = 0
  /\ leaked = FALSE /\ asked = <<>> /\ ranges = <<>> /\ out = <<>>
  /\ deleted = FALSE

\* ApiHandlerFactory::onRequest and makeHandler: the path is looked at
\* first; a known path gets its handler while PhoneMapping is available,
\* else a 503; any other path gets a 404.
Factory(path, available) ==
  /\ handler = "none"
  /\ handler' = IF path \in {"/target", "/reverse"} /\ available
                  THEN IF path = "/target" THEN "target" ELSE "reverse"
                ELSE "direct"
  /\ status' = IF path \notin {"/target", "/reverse"} THEN "404"
               ELSE IF available THEN "none" ELSE "503"
  /\ UNCHANGED <<method, hdrOk, json, ev, needBody, bodyLen, sent, chunks,
                 leaked, asked, ranges, out, deleted>>

-----------------------------------------------------------------------------
(* TargetHandler                                                           *)

\* onQueryParam: a phone[] parameter whose value parses is appended to pn_.
Phones(ps) == Len(SelectSeq(ps, LAMBDA p : p = "phone"))

\* One row of onQueryComplete's output loop: in JSON, a LERG miss (or an
\* unavailable LERG table) prints `"ocn":: null`; every row but the last
\* (`i == N-1`) ends with a comma.
TargetRow(i, n, js, lergHit) ==
  IF ~js THEN <<"line">>
  ELSE <<IF lergHit THEN "rec" ELSE "badrec">> \o (IF i = n THEN <<>> ELSE <<",">>)

RECURSIVE TargetRows(_, _, _, _)
TargetRows(i, n, js, hits) ==
  IF i > n THEN <<>> ELSE TargetRow(i, n, js, hits[i]) \o TargetRows(i + 1, n, js, hits)

\* onQueryComplete: 200, "[", the rows, "]", EOM.  Whether each phone's
\* LERG lookup hits is QueryBatch's business; here it is free.
QueryComplete(n, js, hits) ==
  <<"200">> \o (IF js THEN <<"[">> ELSE <<>>) \o TargetRows(1, n, js, hits)
            \o (IF js THEN <<"]">> ELSE <<>>) \o <<"eom">>

\* onRequest with sanitizeHeader: a Content-Length above the limit or a
\* Content-Type other than form-urlencoded clears needBody_, Accept sets
\* json_; a GET answers from its query string at once; a POST that still
\* needs its body waits; anything else is answered 400.
TargetOnRequest(m, lenOk, typeOk, js, ps, hits) ==
  /\ handler = "target" /\ ev = "new"
  /\ ev' = "open" /\ method' = m /\ hdrOk' = (lenOk /\ typeOk) /\ json' = js
  /\ CASE m = "GET" ->
            /\ needBody' = FALSE
            /\ out' = out \o QueryComplete(Phones(ps), js, hits)
       [] m = "POST" /\ needBody /\ lenOk /\ typeOk ->
            /\ needBody' = TRUE /\ UNCHANGED out
       [] OTHER ->
            /\ needBody' = FALSE /\ out' = out \o <<"400", "eom">>
  /\ UNCHANGED <<handler, status, bodyLen, sent, chunks, leaked, asked, ranges, deleted>>

TargetOnBodyNoGuard(size) ==
  /\ handler = "target" /\ ev = "open" /\ chunks < MaxChunks
  /\ chunks' = chunks + 1 /\ sent' = sent + size
  /\ bodyLen' = bodyLen + size
  /\ IF bodyLen + size > MaxQuery
       THEN /\ needBody' = FALSE /\ leaked' = TRUE
            /\ out' = out \o <<"400", "eom">>
     ELSE UNCHANGED <<needBody, leaked, out>>
  /\ UNCHANGED <<reqVars, ev>>

\* onBody: ignored once the body is not wanted; otherwise chained onto
\* body_, and past the limit needBody_ is cleared, `body_.release()`
\* drops the chain without freeing it, and 400 is sent.
TargetOnBody(size) ==
  /\ handler = "target" /\ ev = "open" /\ chunks < MaxChunks
  /\ chunks' = chunks + 1 /\ sent' = sent + size
  /\ IF ~needBody
       THEN UNCHANGED <<needBody, bodyLen, leaked, out>>
     ELSE /\ bodyLen' = bodyLen + size
          /\ IF bodyLen + size > MaxQuery
               THEN /\ needBody' = FALSE /\ leaked' = TRUE
                    /\ out' = out \o <<"400", "eom">>
             ELSE UNCHANGED <<needBody, leaked, out>>
  /\ UNCHANGED <<reqVars, ev>>

\* Mutant: onEOM answers whatever needBody_ says.
TargetOnEOMNoCheck(ps, hits) ==
  /\ handler = "target" /\ ev = "open"
  /\ ev' = "done"
  /\ out' = out \o QueryComplete(Phones(ps), json, hits)
  /\ UNCHANGED <<reqVars, needBody, bodyLen, sent, chunks, leaked>>

\* Mutant: onEOM answers only when some body arrived.
TargetOnEOMNeedsBody(ps, hits) ==
  /\ handler = "target" /\ ev = "open"
  /\ ev' = "done"
  /\ out' = IF needBody /\ bodyLen > 0
              THEN out \o QueryComplete(Phones(ps), json, hits) ELSE out
  /\ UNCHANGED <<reqVars, needBody, bodyLen, sent, chunks, leaked>>

\* onEOM: if the body is still wanted, parse it as a query string and
\* answer; the parameters ps are those the body carries.
TargetOnEOM(ps, hits) ==
  /\ handler = "target" /\ ev = "open"
  /\ ev' = "done"
  /\ out' = IF needBody THEN out \o QueryComplete(Phones(ps), json, hits) ELSE out
  /\ UNCHANGED <<reqVars, needBody, bodyLen, sent, chunks, leaked>>

-----------------------------------------------------------------------------
(* ReverseHandler                                                          *)

\* folly::tryTo<uint64_t>(value): a non-empty string of decimal digits.
ParsesAsInt(v) == Len(v) > 0 /\ \A i \in 1 .. Len(v) : v[i] \in Digits

RECURSIVE DigitValue(_)
DigitValue(v) ==
  IF v = <<>> THEN 0
  ELSE DigitValue(SubSeq(v, 1, Len(v) - 1)) * 10
       + (CHOOSE d \in 0 .. 9 : ToString(d) = v[Len(v)])

RECURSIVE Shift(_, _)
Shift(x, k) == IF k = 0 THEN x ELSE Shift(x * 10, k - 1)

\* Mutant: `to` is taken as from + 1 after the padding loop.
PrefixRangeLateTo(v) ==
  IF Len(v) > Width \/ ~ParsesAsInt(v) THEN <<>>
  ELSE << [v |-> v, from |-> Shift(DigitValue(v), Width - Len(v)),
                    to |-> Shift(DigitValue(v), Width - Len(v)) + 1] >>

\* onQueryParam: a value longer than a phone number or not a number is
\* ignored; otherwise from = value, to = value + 1, both multiplied by 10
\* `10 - value.size()` times.
PrefixRange(v) ==
  IF Len(v) > Width \/ ~ParsesAsInt(v) THEN <<>>
  ELSE << [v |-> v, from |-> Shift(DigitValue(v), Width - Len(v)),
                    to |-> Shift(DigitValue(v) + 1, Width - Len(v))] >>

\* splitNameValuePieces over the query: onQueryParam on each in order.
QueryRanges(vs) == FoldLeft(LAMBDA acc, v : acc \o PrefixRange(v), <<>>, vs)

\* sendBody: every row of a cursor.  Every JSON row ends with `},`.
ReverseRows(k, js) ==
  IF js THEN [i \in 1 .. 2 * k |-> IF i % 2 = 1 THEN "rec" ELSE ","]
  ELSE [i \in 1 .. k |-> "line"]

RECURSIVE ReverseBody(_, _, _)
ReverseBody(i, js, counts) ==
  IF i > Len(counts) THEN <<>>
  ELSE ReverseRows(counts[i][1], js) \o ReverseRows(counts[i][2], js)
       \o ReverseBody(i + 1, js, counts)

\* onRequest: anything but GET is answered 400; a GET parses its prefix[]
\* parameters, sends 200 and, for each range, the rows of the US and then
\* of the CA cursor (PhoneMapping is not under src/: the counts are free),
\* closing with "]" and EOM.  The record_ flushes only split the bytes.
ReverseOnRequest(m, js, vs, counts) ==
  /\ handler = "reverse" /\ ev = "new"
  /\ ev' = "open" /\ method' = m /\ json' = js /\ asked' = vs
  /\ IF m # "GET"
       THEN /\ out' = out \o <<"400", "eom">> /\ UNCHANGED ranges
     ELSE /\ ranges' = QueryRanges(vs)
          /\ Len(counts) = Len(ranges')
          /\ out' = out \o <<"200">> \o (IF js THEN <<"[">> ELSE <<>>)
                        \o ReverseBody(1, js, counts)
                        \o (IF js THEN <<"]">> ELSE <<>>) \o <<"eom">>
  /\ UNCHANGED <<handler, status, hdrOk, needBody, bodyLen, sent, chunks, leaked, deleted>>

-----------------------------------------------------------------------------
(* Handlers that answer at end of message or ignore the body               *)

DirectOnRequest(m) ==
  /\ handler = "direct" /\ ev = "new"
  /\ ev' = "open" /\ method' = m
  /\ UNCHANGED <<handler, status, hdrOk, json, needBody, bodyLen, sent,
                 chunks, leaked, asked, ranges, out, deleted>>

\* onBody of ReverseHandler and DirectResponseHandler: nothing.
BodyIgnored(size) ==
  /\ handler \in {"reverse", "direct"} /\ ev = "open" /\ chunks < MaxChunks
  /\ chunks' = chunks + 1 /\ sent' = sent + size
  /\ UNCHANGED <<reqVars, ev, needBody, bodyLen, leaked, out>>

\* DirectResponseHandler::onEOM sends its status; ReverseHandler::onEOM
\* does nothing.
OtherOnEOM ==
  /\ handler \in {"reverse", "direct"} /\ ev = "open"
  /\ ev' = "done"
  /\ out' = IF handler = "direct" THEN out \o <<status, "eom">> ELSE out
  /\ UNCHANGED <<reqVars, needBody, bodyLen, sent, chunks, leaked>>

-----------------------------------------------------------------------------
(* The end of a handler's life                                             *)

\* Mutant: onError forgets to delete the handler.
OnErrorNoDelete ==
  /\ handler # "none" /\ ev \in {"new", "open", "done"}
  /\ ev' = "error"
  /\ UNCHANGED <<reqVars, needBody, bodyLen, sent, chunks, leaked, out>>

\* onError: the client went away or the transaction failed, at any point
\* after the factory made the handler; `delete this`, and proxygen calls
\* nothing else on it.  The handler's members (TargetHandler::body_,
\* ReverseHandler::query_) go with it.
OnError ==
  /\ handler # "none" /\ ev \in {"new", "open", "done"}
  /\ ev' = "error" /\ deleted' = TRUE
  /\ UNCHANGED <<handler, status, method, hdrOk, json, asked, ranges,
                 needBody, bodyLen, sent, chunks, leaked, out>>

\* requestComplete: proxygen has sent the whole response; `delete this`.
RequestComplete ==
  /\ handler # "none" /\ ev = "done"
  /\ out # <<>> /\ out[Len(out)] = "eom"
  /\ ev' = "gone" /\ deleted' = TRUE
  /\ UNCHANGED <<handler, status, method, hdrOk, json, asked, ranges,
                 needBody, bodyLen, sent, chunks, leaked, out>>

Hits(ps) == [1 .. Phones(ps) -> BOOLEAN]
RangeCounts(k) == [1 .. k -> (0 .. MaxRows) \X (0 .. MaxRows)]

\* Each handler's callbacks, the inputs of one chosen only once it is the
\* handler proxygen is calling.
Callbacks ==
  \/ \E p \in Paths, a \in BOOLEAN : Factory(p, a)
  \/ /\ handler = "target" /\ ev = "new"
     /\ \E m \in Methods, lenOk, typeOk, js \in BOOLEAN, ps \in SeqOf(Params, MaxParams) :
          \E hits \in Hits(ps) : TargetOnRequest(m, lenOk, typeOk, js, ps, hits)
  \/ \E size \in ChunkSizes : TargetOnBody(size)
  \/ /\ handler = "target" /\ ev = "open"
     /\ \E ps \in SeqOf(Params, MaxParams) : \E hits \in Hits(ps) : TargetOnEOM(ps, hits)
  \/ /\ handler = "reverse" /\ ev = "new"
     /\ \E m \in Methods, js \in BOOLEAN, vs \in SeqOf(PrefixValues, MaxPrefixes) :
          \E counts \in RangeCounts(Len(QueryRanges(vs))) : ReverseOnRequest(m, js, vs, counts)
  \/ \E m \in Methods : DirectOnRequest(m)
  \/ \E size \in ChunkSizes : BodyIgnored(size)
  \/ OtherOnEOM
  \/ RequestComplete

\* The client may also go away at any step.
Next == Callbacks \/ OnError

\* proxygen delivers onRequest, onEOM and requestComplete of a request it
\* has parsed; a client error is never forced to happen, so OnError is left
\* out of the fairness condition.
Spec == Init /\ [][Next]_vars /\ WF_vars(Callbacks)

-----------------------------------------------------------------------------
(* Properties                                                              *)

TypeOK ==
  /\ handler \in {"none", "target", "reverse", "direct"}
  /\ status \in Statuses \cup {"none"}
  /\ method \in Methods \cup {"none"}
  /\ hdrOk \in BOOLEAN /\ json \in BOOLEAN /\ leaked \in BOOLEAN
  /\ ev \in {"new", "open", "done", "gone", "error"}
  /\ deleted \in BOOLEAN
  /\ needBody \in BOOLEAN
  /\ bodyLen \in 0 .. MaxQuery + Max(ChunkSizes)
  /\ sent \in 0 .. MaxChunks * Max(ChunkSizes)
  /\ chunks \in 0 .. MaxChunks
  /\ asked \in SeqOf(PrefixValues, MaxPrefixes)
  /\ out \in Seq(Tokens)

Emitted(t) == \E i \in DOMAIN out : out[i] = t

\* Whatever order proxygen delivers onRequest, the body chunks and onEOM
\* in, a handler answers at most once: one status, first, and one EOM,
\* last.  (TargetHandler answers from three callbacks and relies on
\* needBody_ to keep the others quiet.)
OneResponse ==
  /\ Len(SelectSeq(out, LAMBDA t : t \in Statuses)) <= 1
  /\ out # <<>> => /\ out[1] \in Statuses
                   /\ out[Len(out)] = "eom"
                   /\ \A i \in 1 .. Len(out) - 1 : out[i] # "eom"

PadOf == [n \in 0 .. Shift(1, Width) - 1 |->
            [i \in 1 .. Width |-> ToString((n \div Shift(1, Width - i)) % 10)]]

\* ReverseHandler::onQueryParam turns prefix[] into [from, to), which must
\* be exactly the phone numbers whose digits start with the prefix; and a
\* prefix it ignores must match no phone number (or be empty).
PrefixRangeExact ==
  method = "GET" /\ handler = "reverse" =>
    /\ \A i \in DOMAIN ranges :
         {n \in 0 .. Shift(1, Width) - 1 : IsPrefix(ranges[i].v, PadOf[n])}
           = ranges[i].from .. ranges[i].to - 1
    /\ \A i \in DOMAIN asked :
         (\A j \in DOMAIN ranges : ranges[j].v # asked[i]) =>
            \/ asked[i] = <<>>
            \/ \A n \in 0 .. Shift(1, Width) - 1 : ~IsPrefix(asked[i], PadOf[n])

\* Every request proxygen delivers is eventually answered with an EOM,
\* unless the client went away first (onError).
ResponseEventually == <>((out # <<>> /\ out[Len(out)] = "eom") \/ ev = "error")

\* Every handler the factory makes is eventually deleted, by
\* requestComplete once its response went out or by onError; a handler
\* proxygen never calls again leaks along with its body_.
HandlerDeleted == <>deleted

\* The body of a JSON 200 answer is a JSON array of records: "[", records
\* separated by ",", "]", each record well formed.
JsonArray(b) ==
  /\ Len(b) >= 2 /\ b[1] = "[" /\ b[Len(b)] = "]"
  /\ LET items == SubSeq(b, 2, Len(b) - 1) IN
       /\ Len(items) % 2 = 1 \/ items = <<>>
       /\ \A i \in DOMAIN items : items[i] = IF i % 2 = 1 THEN "rec" ELSE ","

\* What application/json promises: a complete JSON 200 answer of
\* /target or /reverse parses as JSON.
JsonWellFormed ==
  handler \in {"target", "reverse"} /\ json /\ out # <<>>
  /\ out[1] = "200" /\ out[Len(out)] = "eom"
    => JsonArray(SubSeq(out, 2, Len(out) - 1))

\* An oversized body is freed when TargetHandler rejects it.
BodyFreed == ~leaked

====
