----------------------------- MODULE MCTransports -----------------------------
(***************************************************************************)
(* Environments and answers for TLC.  A setting resolves on its own, so    *)
(* Varied changes one setting of the environment at a time, in general and *)
(* for one signal together; what chooses the channel is varied as a whole. *)
(***************************************************************************)
EXTENDS Transports

Own0 == [endpoint |-> None, headers |-> None, timeout |-> None, compression |-> None,
         unsupported |-> None]
Env0 == [protocol |-> None, endpoint |-> None, headers |-> None, timeout |-> None,
         compression |-> None, insecure |-> None]
        @@ [k \in Signals |-> Own0]

Endpoints == {EmptyUrl, Url("http", "h", <<>>), Url("https", "h", <<"/", "p", "/", "/">>),
              Url("", "h", <<>>), Url("http", "h", <<"?", "q">>)}
OwnEndpoints == Endpoints \cup {Url("https", "own", <<"/">>), Url("http", "own", <<"/", "p", "?", "q">>)}
Authorized(value) == <<"authorization", value>>
Headers == {<<>>, <<<<>>>>, <<Authorized("1")>>, <<Authorized("1"), <<"b", "1">>, Authorized("2")>>,
            <<<<"b", "2">>, <<>>>>, <<<<"authorization">>>>}
Timeouts == {-1, 0, 100, Empty, Garbage, NaN}
CompressionNames == {"", "none", "gzip", "zstd"}

Varied(field, general, own) ==
  {[Env0 EXCEPT ![field] = g, !.traces[field] = o] : g \in general \cup {None}, o \in own \cup {None}}

MCEnvironments ==
  UNION {
    Varied("endpoint", Endpoints, OwnEndpoints),
    Varied("headers", Headers, Headers),
    Varied("timeout", Timeouts, Timeouts),
    Varied("compression", CompressionNames, CompressionNames),
    {[Env0 EXCEPT !.protocol = p, !.endpoint = e, !.insecure = i, !.logs.endpoint = own] :
       p \in Protocols \cup {None, ""}, e \in Endpoints \cup {None, Url("https", "h", <<>>)},
       i \in {None, "true", "yes"}, own \in {None, EmptyUrl, Url("http", "own", <<>>)}},
    {[Env0 EXCEPT !.protocol = p, !.logs.compression = "gzip", !.headers = <<h>>] :
       p \in Protocols, h \in {<<"b", "1">>, <<"b", "\n">>, <<"B", "1">>, Authorized("\n")}},
    {[Env0 EXCEPT !.logs.unsupported = x] : x \in {"", "grpc"}}}

MCBudgets == {0, 90000}
MCIllegalTexts == [http |-> {"\n"}, grpc |-> {"\n", "B"}]
Tricky == <<":", "+", " ", "%", "a">>
MCProviders ==
  {None, NewBearerToken(<<"t">>), NewBearerToken(<<"t", "\n">>), NewBasicAuth(<<"+", "a">>, Tricky),
   NewOAuth2(Tricky, Tricky, "basic", <<>>, <<>>, <<"t">>),
   NewOAuth2(Tricky, <<>>, "post", <<"s">>, [scope |-> <<"b">>, client_secret |-> <<"b">>], <<"t">>)}

NoReport(form) == [form |-> form, key |-> "", rejected |-> None, message |-> None]
Reports ==
  {[form |-> "report", key |-> k, rejected |-> n, message |-> m] :
     k \in {"rejectedDataPoints", "rejectedSpans"}, n \in {None, 0, 2, Garbage, NaN, Infinite},
     m \in {None, "", "why"}}
Bodies == Reports \cup {NoReport(form) : form \in {"empty", "garbage", "none", "nested"}}
Hints == {-1, 0, 5, Garbage, NaN, Infinite}

HttpOk(bodies) == {[status |-> 200, body |-> b, retry_after |-> None] : b \in bodies}
HttpError(statuses, hints) ==
  {[status |-> s, body |-> NoReport("empty"), retry_after |-> IF h = None THEN None ELSE [value |-> h]] :
     s \in statuses, h \in hints}
MCReportResponses == HttpOk(Reports)
MCHttpResponses ==
  HttpOk(Bodies) \cup HttpError({400, 401, 403, 500, 502, 504}, {OutOfRange})
                 \cup HttpError({429, 503}, Hints \cup {None, OutOfRange})
MCGrpcResponses ==
  {[code |-> "OK", body |-> b, pushback |-> None] : b \in Bodies}
  \cup {[code |-> c, body |-> NoReport("empty"), pushback |-> h] :
          c \in {"INVALID_ARGUMENT", "UNAUTHENTICATED", "PERMISSION_DENIED", "DEADLINE_EXCEEDED", "INTERNAL"},
          h \in {None, 5}}
  \cup {[code |-> c, body |-> NoReport("empty"), pushback |-> x] :
          c \in {"RESOURCE_EXHAUSTED", "UNAVAILABLE"}, x \in Hints}
=============================================================================
