------------------------------ MODULE Transports ------------------------------
(***************************************************************************)
(* A transport from the environment it is configured by to the outcome of  *)
(* a call: OTLPConfig.from_env, OTLPClient.create, the headers the client  *)
(* resolves, send() of transport/http.py and transport/grpc.py with the    *)
(* decoder of the answer, and aclose().                                    *)
(*                                                                         *)
(* The collector, aiohttp and grpcio are external: a request may be        *)
(* answered, fail or run into its timeout, and a session or channel that   *)
(* is closed fails its requests.  Calls do not share state but the session *)
(* or channel, so one call at a time is in flight.                         *)
(***************************************************************************)
EXTENDS Config, Credentials

CONSTANTS
  Environments,  \* from_env(env)
  Budgets,       \* max_elapsed values the application sets
  Providers,     \* credential providers; None for no provider
  HttpResponses, \* answers of a collector to a request over HTTP
  GrpcResponses, \* and over gRPC
  Infinite,      \* a float or count without bound
  OutOfRange,    \* a date beyond datetime, its year beyond a C int as well
  IllegalTexts   \* what aiohttp, or grpcio, sends in no header

Times == Int \cup {None, Empty, Garbage, NaN}
Delays == Int \cup {Garbage, NaN, Infinite}
Dates == Int \cup {OutOfRange}  \* from now
TransportRecords == [over : {"http", "grpc"}, plaintext : BOOLEAN, owned : BOOLEAN, open : BOOLEAN]

(***************************************************************************)
(* URLs, lists of headers, names and secrets are what such texts can be;   *)
(* what float() makes of a timeout or a hint is a number, a NaN or none;   *)
(* an answer has a status over HTTP only; and None and Refused are         *)
(* themselves no environment, configuration, transport or header.          *)
(***************************************************************************)
ASSUME TransportsAssumption ==
  /\ {Infinite, OutOfRange} \cap (Int \cup {None, Garbage, NaN}) = {} /\ Infinite # OutOfRange
  /\ {None, Refused} \cap TransportRecords = {} /\ None \notin HttpResponses \cup GrpcResponses
  /\ \A e \in Environments :
       /\ \A own \in {e} \cup {e[k] : k \in Signals} :
            /\ own.timeout \in Times
            /\ own.endpoint = None \/ IsUrl(own.endpoint)
            /\ own.headers \in HeaderLists \cup {None} /\ ParseHeaders(Or(own.headers, <<>>)) # None
       /\ None \notin {e, FromEnv(e)}
       /\ FromEnv(e) # Refused =>
            \A skip \in BOOLEAN, budget \in Budgets :
              [FromEnv(e) EXCEPT !.insecure_skip_verify = skip, !.max_elapsed = budget] # None
  /\ \A p \in Providers \ {None} :
       /\ p.type = "BasicAuth" => p.username \in Texts /\ p.password \in Texts
       /\ p.type = "OAuth2ClientCredentials" => /\ p.client_id \in Texts /\ p.client_secret \in Texts
                                                /\ p.auth_style \in {"post", "basic"}
  /\ \A r \in HttpResponses : /\ "status" \in DOMAIN r
                              /\ r.retry_after = None \/ r.retry_after.value \in Delays \cup Dates
  /\ \A r \in GrpcResponses : /\ "status" \notin DOMAIN r
                              /\ r.pushback \in Delays \cup {None}
                              /\ [value |-> r.pushback] # None

VARIABLES
  env,        \* the environment read, None before
  config,     \* the OTLPConfig, None before, Refused if it is rejected
  transport,  \* None before create(), Refused if that fails
  call        \* the call in flight or just ended, None before

vars == <<env, config, transport, call>>

-----------------------------------------------------------------------------
(* OTLPConfig *)

ReadEnvironment(e) ==
  /\ env = None
  /\ env' = e
  /\ config' = FromEnv(e)
  /\ UNCHANGED <<transport, call>>

(* Mutant of Adjust: a configuration in use can be changed. *)
AdjustInPlace(skipVerify, budget) ==
  /\ config \notin {None, Refused}
  /\ config' = PostInit([config EXCEPT !.insecure_skip_verify = skipVerify,
                                       !.max_elapsed = budget])
  /\ UNCHANGED <<env, transport, call>>

(* dataclasses.replace: the settings no variable carries *)
Adjust(skipVerify, budget) ==
  /\ config \notin {None, Refused} /\ transport = None
  /\ config' = PostInit([config EXCEPT !.insecure_skip_verify = skipVerify,
                                       !.max_elapsed = budget])
  /\ UNCHANGED <<env, transport, call>>

-----------------------------------------------------------------------------
(* OTLPClient.create *)

(* Mutant of Plaintext: `insecure` overrides the scheme. *)
PlaintextIfInsecure(endpoint, insecure) == endpoint.scheme = "http" \/ insecure

(* _target: an explicit scheme wins over `insecure`. *)
Plaintext(endpoint, insecure) ==
  CASE endpoint.scheme = "https" -> FALSE
    [] endpoint.scheme = "http" -> TRUE
    [] OTHER -> insecure

GrpcTransport(c, extra) ==
  LET plaintext == Plaintext(c.endpoint, c.insecure)
  IN  IF \/ ~ extra
         \/ ~ plaintext /\ c.insecure_skip_verify
         \/ \E k \in Signals : c[k].endpoint \notin {None, EmptyUrl}
      THEN Refused
      ELSE [over |-> "grpc", plaintext |-> plaintext, owned |-> TRUE, open |-> TRUE]

(* Each request's URL decides on TLS. *)
HttpTransport(c, extra, session) ==
  IF c.protocol = "http/protobuf" /\ ~ extra
  THEN Refused
  ELSE [over |-> "http", plaintext |-> FALSE, owned |-> ~ session, open |-> TRUE]

(* `extra`: the optional packages are installed; `session`: one is passed in. *)
Create(extra, session) ==
  /\ config \notin {None, Refused} /\ transport = None
  /\ transport' = IF config.protocol = "grpc" THEN GrpcTransport(config, extra)
                                              ELSE HttpTransport(config, extra, session)
  /\ UNCHANGED <<env, config, call>>

-----------------------------------------------------------------------------
(* Outcomes *)

Outcome(type) == [type |-> type, rejected |-> 0, message |-> "", status |-> None,
                  retry_after |-> None]
Success == Outcome("Success")
PartialSuccess(rejected, message) ==
  [Outcome("PartialSuccess") EXCEPT !.rejected = rejected, !.message = message]
Retryable(status, delay) ==
  [Outcome("Retryable") EXCEPT !.status = status, !.retry_after = delay]
Permanent(status) == [Outcome("Permanent") EXCEPT !.status = status]
Raised == Outcome("raised")  \* an exception leaves send()

IsCredentialRejection(outcome) == outcome.type = "Permanent" /\ outcome.status \in {401, 403}

(***************************************************************************)
(* decode_response.  The body of an answer is empty, garbage, a document   *)
(* without partialSuccess, one nested more deeply than the JSON parser     *)
(* goes (to protobuf garbage like any other), or a report: a count of      *)
(* rejected records under the key of a signal, and a message, either of    *)
(* them None where absent.  Over JSON the count may be anything.           *)
(***************************************************************************)
RejectedKey == [metrics |-> "rejectedDataPoints", logs |-> "rejectedLogRecords",
                traces |-> "rejectedSpans"]

(* Mutant of DecodeJson: int() outside the try. *)
DecodeJsonUnguarded(kind, body) ==
  LET count == IF body.key = RejectedKey[kind] THEN Or(body.rejected, 0) ELSE 0
  IN  IF body.form = "nested" THEN Raised
      ELSE IF body.form # "report" \/ (body.rejected = None /\ body.message = None) THEN Success
      ELSE IF count \in {Garbage, NaN, Infinite} THEN Raised
      ELSE PartialSuccess(count, Or(body.message, ""))

DecodeJson(kind, body) ==
  LET count == IF body.key = RejectedKey[kind] THEN Or(body.rejected, 0) ELSE 0
  IN  IF body.form = "nested" THEN Raised                                      \* RecursionError
      ELSE IF body.form # "report" \/ (body.rejected = None /\ body.message = None)  \* an empty dict
      THEN Success
      ELSE IF count = Infinite THEN Raised                                     \* int(inf): OverflowError
      ELSE PartialSuccess(IF count \in {Garbage, NaN} THEN 0 ELSE count, Or(body.message, ""))

(* Absent, or of another type: to protobuf that is a field it does not know. *)
NoInteger == {None, Garbage, NaN, Infinite}

(* Mutant of DecodeProtobuf: a message alone is no partial success. *)
DecodeProtobufCount(body) ==
  LET count == IF body.rejected \in NoInteger THEN 0 ELSE body.rejected
  IN  IF body.form # "report" \/ count = 0 THEN Success
      ELSE PartialSuccess(count, Or(body.message, ""))

(* The count has one field number in every signal's response. *)
DecodeProtobuf(body) ==
  LET count == IF body.rejected \in NoInteger THEN 0 ELSE body.rejected
      message == Or(body.message, "")
  IN  IF body.form # "report" \/ (count = 0 /\ message = "") THEN Success
      ELSE PartialSuccess(count, message)

Decode(kind, body) ==
  IF config.protocol = "http/json" THEN DecodeJson(kind, body) ELSE DecodeProtobuf(body)

-----------------------------------------------------------------------------
(* Hints when to retry *)

Exceeds(a, b) == IF NaN \in {a, b} \/ b = Infinite THEN FALSE
                 ELSE a = Infinite \/ a > b

(* Python's max: the second argument only where it exceeds the first. *)
PyMax(a, b) == IF Exceeds(b, a) THEN b ELSE a

(* Mutant of AtLeastZero: the arguments of max exchanged. *)
ZeroAtLeast(x) == PyMax(x, 0)

AtLeastZero(x) == PyMax(0, x)

(* parse_retry_after: a float, the seconds to wait or those to a date, or  *)
(* neither.                                                                *)
ParseRetryAfter(header) ==
  IF header = None \/ header.value = Garbage THEN None ELSE AtLeastZero(header.value)

(* parsedate_to_datetime: OverflowError is neither a TypeError nor a ValueError. *)
DateRaises(header) == header # None /\ header.value = OutOfRange

(* Mutant of Pushback: milliseconds for seconds. *)
PushbackUndivided(trailer) ==
  IF trailer \in {None, Garbage} THEN None ELSE AtLeastZero(Float(trailer))

(* _pushback: the trailer is a whole number of milliseconds. *)
Pushback(trailer) ==
  IF trailer \in {None, Garbage} THEN None ELSE AtLeastZero(DividedBy1000(Float(trailer)))

-----------------------------------------------------------------------------
(* send *)

RETRYABLE_STATUSES == {429, 502, 503, 504}
RetryableCodes == {"UNAVAILABLE", "DEADLINE_EXCEEDED", "RESOURCE_EXHAUSTED"}

(* Mutant of AuthStatuses: a permission denied is no credential rejection. *)
AuthStatusesUnauthenticated == [UNAUTHENTICATED |-> 401]

AuthStatuses == [UNAUTHENTICATED |-> 401, PERMISSION_DENIED |-> 403]

(* OTLPClient._headers: the provider's headers go over the static ones. *)
ResolveHeaders(kind, provider) ==
  IF provider = None THEN HeadersFor(config, kind)
                     ELSE Over(ProviderHeaders(provider), HeadersFor(config, kind))

ContentType == IF config.protocol = "http/json" THEN "application/json"
                                                ELSE "application/x-protobuf"

HttpRequest(kind, headers) ==
  LET gzip == CompressionFor(config, kind) = "gzip"
      added == IF gzip THEN [content_type |-> ContentType, content_encoding |-> "gzip"]
                       ELSE [content_type |-> ContentType]
  IN  [url |-> EndpointFor(config, kind), headers |-> Over(added, headers), gzip |-> gzip,
       timeout |-> TimeoutFor(config, kind)]

GrpcRequest(kind, headers) ==
  [url |-> config.endpoint, headers |-> headers,
   gzip |-> CompressionFor(config, kind) = "gzip", timeout |-> TimeoutFor(config, kind)]

Pending == call # None /\ call.outcome = None
InFlight == Pending /\ call.posted

End(response, outcome) == call' = [call EXCEPT !.response = response, !.outcome = outcome]

(***************************************************************************)
(* A text with a newline, or over gRPC a key with a capital, is refused    *)
(* where a header is written: a key, a static value or a symbol of a       *)
(* token.  The values of the transport itself and base64 are clean.        *)
(***************************************************************************)
Illegal(c) ==
  LET headers == c.request.headers
      given == IF c.provider = None THEN {} ELSE {"authorization"}
      token == IF c.provider = None \/ c.provider.type = "BasicAuth" THEN {} ELSE ToSet(c.provider.token)
      texts == DOMAIN headers \cup {headers[key] : key \in DOMAIN headers \ given} \cup token
  IN  texts \cap IllegalTexts[transport.over] # {}

(* A closed session raises RuntimeError, a closed channel UsageError. *)
Posted(c) == [c EXCEPT !.posted = TRUE, !.outcome = IF transport.open THEN None ELSE Raised]

(* Up to the first suspension: a large payload is compressed in a thread   *)
(* before it is posted over HTTP.                                          *)
Send(kind, provider, large) ==
  /\ transport \notin {None, Refused} /\ call = None
  /\ LET headers == ResolveHeaders(kind, provider)
         request == IF transport.over = "http" THEN HttpRequest(kind, headers)
                                               ELSE GrpcRequest(kind, headers)
         begun == [kind |-> kind, provider |-> provider, request |-> request,
                   posted |-> FALSE, response |-> None, outcome |-> None]
     IN  call' = IF transport.over = "http" /\ request.gzip /\ large THEN begun ELSE Posted(begun)
  /\ UNCHANGED <<env, config, transport>>

Compressed ==
  /\ Pending /\ ~ call.posted
  /\ call' = Posted(call)
  /\ UNCHANGED <<env, config, transport>>

HttpClassify(kind, response) ==
  CASE response.status \in 200 .. 299 -> Decode(kind, response.body)
    [] response.status \in RETRYABLE_STATUSES ->
         IF DateRaises(response.retry_after) THEN Raised
         ELSE Retryable(response.status, ParseRetryAfter(response.retry_after))
    [] OTHER -> Permanent(response.status)

GrpcClassify(kind, response) ==
  CASE response.code = "OK" -> Decode(kind, response.body)
    [] response.code \in RetryableCodes -> Retryable(None, Pushback(response.pushback))
    [] response.code \in DOMAIN AuthStatuses -> Permanent(AuthStatuses[response.code])
    [] OTHER -> Permanent(None)

HttpAnswer(response) ==
  /\ InFlight /\ transport.over = "http" /\ ~ Illegal(call)
  /\ End(response, HttpClassify(call.kind, response))
  /\ UNCHANGED <<env, config, transport>>

GrpcAnswer(response) ==
  /\ InFlight /\ transport.over = "grpc" /\ ~ Illegal(call)
  /\ End(response, GrpcClassify(call.kind, response))
  /\ UNCHANGED <<env, config, transport>>

(* aiohttp.ClientError or TimeoutError; over gRPC these are status codes. *)
HttpFails ==
  /\ InFlight /\ transport.over = "http"
  /\ End(None, Retryable(None, None))
  /\ UNCHANGED <<env, config, transport>>

(* A ValueError or TypeError, which is no ClientError and no AioRpcError;  *)
(* over HTTP once connected.                                               *)
HeadersRefused ==
  /\ InFlight /\ Illegal(call)
  /\ End(None, Raised)
  /\ UNCHANGED <<env, config, transport>>

(* Mutant of Aclose: closes a session it was given. *)
AcloseAnySession ==
  /\ transport \notin {None, Refused} /\ transport.open
  /\ transport' = [transport EXCEPT !.open = FALSE]
  /\ IF InFlight
     THEN End(None, IF transport.over = "http" THEN Retryable(None, None) ELSE Raised)
     ELSE UNCHANGED call
  /\ UNCHANGED <<env, config>>

(* aclose: a session that was passed in stays open.  A closed session      *)
(* fails its requests, a closed channel cancels them.                      *)
Aclose ==
  /\ transport \notin {None, Refused} /\ transport.open /\ transport.owned
  /\ transport' = [transport EXCEPT !.open = FALSE]
  /\ IF InFlight
     THEN End(None, IF transport.over = "http" THEN Retryable(None, None) ELSE Raised)
     ELSE UNCHANGED call
  /\ UNCHANGED <<env, config>>

Init == env = None /\ config = None /\ transport = None /\ call = None

Next ==
  \/ \E e \in Environments : ReadEnvironment(e)
  \/ \E skip \in BOOLEAN, budget \in Budgets : Adjust(skip, budget)
  \/ \E extra, session \in BOOLEAN : Create(extra, session)
  \/ \E kind \in Signals, provider \in Providers, large \in BOOLEAN : Send(kind, provider, large)
  \/ Compressed
  \/ \E response \in HttpResponses : HttpAnswer(response)
  \/ \E response \in GrpcResponses : GrpcAnswer(response)
  \/ HttpFails
  \/ HeadersRefused
  \/ Aclose

Spec == Init /\ [][Next]_vars

-----------------------------------------------------------------------------
Built == transport \notin {None, Refused}
Ended == call # None /\ call.outcome # None
Answered == Ended /\ call.response # None

OutcomeTypes == {"Success", "PartialSuccess", "Retryable", "Permanent", "raised"}

(* What the variables of transport/http.py, transport/grpc.py and config.py *)
(* hold: a transport only over a configuration, a call only over a          *)
(* transport, an answer only of a request that was posted.                  *)
TypeOK ==
  /\ env = None <=> config = None
  /\ transport # None => config \notin {None, Refused}
  /\ call # None => /\ Built
                    /\ call.kind \in Signals /\ call.provider \in Providers
                    /\ Ended => call.outcome.type \in OutcomeTypes /\ call.posted
                    /\ Answered => ("status" \in DOMAIN call.response <=> transport.over = "http")

(***************************************************************************)
(* What a signal is sent with, said of the environment: a setting of the   *)
(* signal replaces the general one and is never merged with it, an empty   *)
(* list of headers included; an empty timeout or compression is none.  A   *)
(* URL of the signal is used as it is, or with the root path if it has no  *)
(* path; only the general one gets the path of the signal.  The headers of *)
(* a credential provider win.  (config.py:182-239, client.py:118-128)      *)
(***************************************************************************)
UrlIsMostSpecific ==
  LET own == env[call.kind].endpoint
      url == call.request.url
  IN  transport.over = "http" =>
        IF own \in {None, EmptyUrl}
        THEN LET base == Or(env.endpoint, DefaultEndpoint(config.protocol))
             IN  /\ <<url.scheme, url.host>> = <<base.scheme, base.host>>
                 /\ \E kept \in 0 .. Len(base.tail) :
                      /\ \A i \in kept + 1 .. Len(base.tail) : base.tail[i] = "/"
                      /\ kept > 0 => base.tail[kept] # "/"
                      /\ url.tail = SubSeq(base.tail, 1, kept) \o HttpPath(call.kind)
        ELSE /\ <<url.scheme, url.host>> = <<own.scheme, own.host>>
             /\ url.tail \in {own.tail, <<"/">> \o own.tail}
             /\ url.scheme = "" \/ (url.tail # <<>> /\ url.tail[1] = "/")

HeadersAreMostSpecific ==
  LET own == env[call.kind].headers
      entries == IF own # None THEN own ELSE Or(env.headers, <<>>)
      keys == {e[1] : e \in {entries[i] : i \in DOMAIN entries} \ {<<>>}}
      provided == IF call.provider = None THEN {} ELSE {"authorization"}
      added == IF transport.over = "grpc" THEN {}
               ELSE IF call.request.gzip THEN {"content_type", "content_encoding"} ELSE {"content_type"}
      sent == call.request.headers
  IN  /\ DOMAIN sent = keys \cup provided \cup added
      /\ \A key \in keys \ (provided \cup added) :
           \E i \in DOMAIN entries :
             /\ entries[i] = <<key, sent[key]>>
             /\ \A j \in i + 1 .. Len(entries) : entries[j] = <<>> \/ entries[j][1] # key

(***************************************************************************)
(* Whoever gets the credentials reads what the provider was made of,       *)
(* whatever symbols they hold: the collector from the header of the        *)
(* request, a configured one notwithstanding, and the token endpoint from  *)
(* the header or the form, whatever extra_params there are.  A user name   *)
(* with a colon, which RFC 7617 rules out and BasicAuth does not, reads as *)
(* a shorter one (credentials.py:82-87, 165-180).                          *)
(***************************************************************************)
CredentialsReadAsGiven ==
  call # None /\ call.provider # None =>
    LET p == call.provider
        header == call.request.headers["authorization"]
    IN  CASE p.type = "BasicAuth" ->
               (\A i \in DOMAIN p.username : p.username[i] # ":") =>
                 UserRead(header) = <<p.username, p.password>>
          [] p.type = "OAuth2ClientCredentials" ->
               /\ header = Bearer(p.token)
               /\ ClientRead(TokenRequest(p)) = <<p.client_id, p.client_secret>>
          [] OTHER -> header = Bearer(p.token)

FirstSet(a, b, default, unset) ==
  IF a \notin unset THEN a ELSE IF b \notin unset THEN b ELSE default

TimeoutIsMostSpecific ==
  call.request.timeout = FirstSet(env[call.kind].timeout, env.timeout, 10000, {None, Empty})

CompressionIsMostSpecific ==
  call.request.gzip <=>
    FirstSet(env[call.kind].compression, env.compression, "none", {None, ""}) = "gzip"

MostSpecificSetting ==
  call # None => /\ UrlIsMostSpecific /\ HeadersAreMostSpecific
                 /\ TimeoutIsMostSpecific /\ CompressionIsMostSpecific

(***************************************************************************)
(* A channel is plaintext only where the endpoint says http, or does not   *)
(* say https and OTEL_EXPORTER_OTLP_INSECURE says true; and no channel     *)
(* with TLS pretends to skip the verification grpcio cannot skip           *)
(* (transport/grpc.py:32-45, 83-89).                                       *)
(***************************************************************************)
PlaintextOnlyOnRequest ==
  Built /\ transport.over = "grpc" =>
    LET scheme == IF env.endpoint = None THEN "http" ELSE env.endpoint.scheme
    IN  /\ transport.plaintext => scheme = "http" \/ (scheme # "https" /\ env.insecure = "true")
        /\ ~ transport.plaintext => ~ config.insecure_skip_verify

(* No request is posted without a deadline that can be met: its timeout is *)
(* positive, whichever variable it came from (config.py:101-114).  NaN is  *)
(* not refused by the comparison that checks it.                           *)
PositiveTimeout ==
  call # None => call.request.timeout = NaN \/ call.request.timeout > 0

(***************************************************************************)
(* What a collector reports of rejected records reaches the caller: the    *)
(* count under the signal's own key and the message, in either encoding,   *)
(* and nothing is reported that the collector did not                      *)
(* (encoding/json.py:395-421, encoding/protobuf.py:64-81).                 *)
(***************************************************************************)
ReportsRejections ==
  Answered /\ call.outcome.type \in {"Success", "PartialSuccess"} =>
    LET body == call.response.body
        read == config.protocol # "http/json" \/ body.key = RejectedKey[call.kind]
        count == IF body.form = "report" /\ read /\ body.rejected \notin NoInteger THEN body.rejected ELSE 0
        message == IF body.form = "report" THEN Or(body.message, "") ELSE ""
    IN  /\ call.outcome.rejected = count /\ call.outcome.message = message
        /\ count # 0 \/ message # "" => call.outcome.type = "PartialSuccess"

(***************************************************************************)
(* The two transports give an answer of the same meaning the same outcome: *)
(* what is retried, what earns a new credential and what is dropped does   *)
(* not depend on the protocol (transport/grpc.py:106-124,                  *)
(* transport/http.py:103-116, outcomes.py:45-52).                          *)
(***************************************************************************)
HttpTwin == [OK |-> 200, INVALID_ARGUMENT |-> 400, UNAUTHENTICATED |-> 401,
             PERMISSION_DENIED |-> 403, RESOURCE_EXHAUSTED |-> 429,
             UNAVAILABLE |-> 503, DEADLINE_EXCEEDED |-> 504]

TransportsAgree ==
  Answered /\ transport.over = "grpc" /\ call.response.code \in DOMAIN HttpTwin =>
    LET answer == call.response
        hint == IF answer.pushback = None THEN None ELSE [value |-> answer.pushback]
        twin == HttpClassify(call.kind, [status |-> HttpTwin[answer.code], body |-> answer.body,
                                         retry_after |-> hint])
    IN  /\ call.outcome.type = twin.type
        /\ IsCredentialRejection(call.outcome) <=> IsCredentialRejection(twin)
        /\ call.outcome.retry_after = twin.retry_after

(* A hint when to retry is a delay one can wait for: never negative and    *)
(* never NaN, whatever the header or trailer says (retry.py:40-56,         *)
(* transport/grpc.py:159-167).                                             *)
RetryDelayIsUsable ==
  Ended => LET delay == call.outcome.retry_after
           IN  delay \in {None, Infinite} \/ (delay # NaN /\ delay >= 0)

(* So whatever an environment, an application or a collector says of times, *)
(* no request and no retry waits for one that has passed.                   *)
TimesAreUsable == PositiveTimeout /\ RetryDelayIsUsable

(***************************************************************************)
(* What leaves send() as an exception and not as an outcome: a call that   *)
(* met a session or channel its own transport has closed, where a session  *)
(* that was passed in survives aclose(), and its other users' calls with   *)
(* it; a call whose headers cannot be written, and which no collector      *)
(* saw; and of all answers three, to HTTP only, which the except clauses   *)
(* on their way do not name (transport/http.py:93-123,                     *)
(* transport/grpc.py:142-156, retry.py:52-56, encoding/json.py:399-417).   *)
(***************************************************************************)
PastTheExcepts(answer) ==
  \/ /\ answer.status \in RETRYABLE_STATUSES
     /\ answer.retry_after # None /\ answer.retry_after.value = OutOfRange
  \/ /\ answer.status \in 200 .. 299 /\ config.protocol = "http/json"
     /\ \/ answer.body.form = "nested"
        \/ /\ answer.body.form = "report" /\ answer.body.rejected = Infinite
           /\ answer.body.key = RejectedKey[call.kind]

RaisesOnlyAsExplained ==
  Ended /\ call.outcome.type = "raised" =>
    IF call.response = None
    THEN (~ transport.open /\ transport.owned) \/ Illegal(call)
    ELSE transport.over = "http" /\ PastTheExcepts(call.response)

(* The tests ask that decoding an answer never raises: "decode_response's  *)
(* job is to tolerate it, not raise a bare ValueError past the OTLPError   *)
(* contract" (tests/test_encoding_json_metrics.py:129-130).                *)
DecodingNeverRaises ==
  Answered /\ transport.over = "http" /\ call.response.status \in 200 .. 299 =>
    call.outcome.type # "raised"
=============================================================================
