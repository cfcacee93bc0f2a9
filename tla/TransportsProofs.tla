--------------------------- MODULE TransportsProofs ---------------------------
(* What every outcome of a call is owed to, for all environments, answers and *)
(* sequences of calls: its configuration, its transport and its answer.       *)
EXTENDS Transports, TLAPS

WF == INSTANCE WellFoundedInduction

-----------------------------------------------------------------------------
(* The least of some numbers, and the greatest of some indices.              *)

LEMMA Least ==
  ASSUME NEW T \in SUBSET Nat, T # {}
  PROVE  \E x \in T : \A y \in T : x =< y
<1> DEFINE R == WF!OpToRel(<, Nat)
<1>1. WF!IsWellFoundedOn(R, Nat)
  BY WF!NatLessThanWellFounded
<1>2. \A x, y \in Nat : x < y => <<x, y>> \in R
  BY DEF WF!OpToRel
<1> HIDE DEF R
<1>3. PICK x \in T : \A y \in T : ~(<<y, x>> \in R)
  BY <1>1, WF!WFMin
<1>4. ASSUME NEW y \in T PROVE x =< y
  <2>1. x \in Nat /\ y \in Nat /\ ~(y < x)
    BY <1>2, <1>3
  <2> QED
    BY <2>1
<1> QED
  BY <1>4

LEMMA MinOf ==
  ASSUME NEW T \in SUBSET Nat, T # {}
  PROVE  Min(T) \in T /\ \A y \in T : Min(T) =< y
BY Least DEF Min

LEMMA MaxOf ==
  ASSUME NEW n \in Nat, NEW T \in SUBSET (0 .. n), T # {}
  PROVE  Max(T) \in T /\ \A y \in T : Max(T) >= y
<1> DEFINE Below == {n - y : y \in T}
<1>1. Below \in SUBSET Nat /\ Below # {}
  <2>1. ASSUME NEW y \in T PROVE n - y \in Nat
    <3>1. y \in 0 .. n
      OBVIOUS
    <3> QED
      BY <3>1
  <2>2. Below \in SUBSET Nat
    BY <2>1
  <2> QED
    BY <2>2
<1>2. PICK x \in Below : \A y \in Below : x =< y
  BY <1>1, Least
<1>3. PICK z \in T : x = n - z
  BY <1>2
<1>4. ASSUME NEW y \in T PROVE z >= y
  <2>1. n - z =< n - y /\ y \in 0 .. n /\ z \in 0 .. n
    BY <1>2, <1>3
  <2> QED
    BY <2>1
<1> QED
  BY <1>3, <1>4 DEF Max

-----------------------------------------------------------------------------
(* The configuration.                                                        *)

Adjusted(e, skip, budget) ==
  [FromEnv(e) EXCEPT !.insecure_skip_verify = skip, !.max_elapsed = budget]

Names == {"protocol", "endpoint", "headers", "timeout", "compression", "insecure",
          "insecure_skip_verify", "max_elapsed", "metrics", "logs", "traces"}

\* A timeout from_env accepts.
Accepted(t) == t = NaN \/ (t \in Int /\ t > 0)

\* A whole number of milliseconds is as many thousandths of a second.
LEMMA WholeMilliseconds == \A x : DividedBy1000(Float(x)) = x
<1>1. ASSUME NEW x \in Int PROVE DividedBy1000(Float(x)) = x
  <2>1. Float(x) = 1000 * x /\ 1000 * x \in Int
    BY DEF Float
  <2>2. (1000 * x) \div 1000 = x
    OBVIOUS
  <2> QED
    BY <2>1, <2>2 DEF DividedBy1000
<1>2. ASSUME NEW x, x \notin Int PROVE DividedBy1000(Float(x)) = x
  BY <1>2 DEF Float, DividedBy1000
<1> QED
  BY <1>1, <1>2

LEMMA TimeoutsRead ==
  ASSUME NEW t \in Times, ParseTimeout(t) # Refused, ~NotPositive(ParseTimeout(t))
  PROVE  ParseTimeout(t) = None \/ Accepted(ParseTimeout(t))
BY ConfigAssumption, WholeMilliseconds DEF ParseTimeout, NotPositive, Accepted, Times

LEMMA SettingsNames ==
  ASSUME NEW e
  PROVE  Settings(e) = [x \in Names |-> Settings(e)[x]]
BY DEF Settings, Names

LEMMA SignalsRead ==
  ASSUME NEW e, NEW k \in Signals
  PROVE  Settings(e)[k] = SignalSettings(e[k])
BY DEF Settings, Signals

LEMMA SettingsRead ==
  ASSUME NEW e
  PROVE  /\ Settings(e).protocol = Or(e.protocol, "http/json")
         /\ Settings(e).endpoint = Or(e.endpoint, DefaultEndpoint(Settings(e).protocol))
         /\ Settings(e).headers = ParseHeaders(Or(e.headers, <<>>))
         /\ Settings(e).timeout = Or(ParseTimeout(e.timeout), 10000)
         /\ Settings(e).compression = Or(ParseCompression(e.compression), "none")
         /\ Settings(e).insecure = ParseBool(e.insecure)
BY DEF Settings

\* A configuration that is not refused is what the environment says.
LEMMA EnvironmentRead ==
  ASSUME NEW e, FromEnv(e) # Refused
  PROVE  /\ FromEnv(e) = Settings(e)
         /\ ~Unreadable(Settings(e)) /\ \A k \in Signals : ~Unreadable(Settings(e)[k])
         /\ ~NotPositive(Settings(e).timeout)
         /\ \A k \in Signals : ~NotPositive(Settings(e)[k].timeout)
BY SMTT(30) DEF FromEnv, PostInit

LEMMA Adjusting ==
  ASSUME NEW c, c = [x \in Names |-> c[x]], NEW skip, NEW budget, NEW d,
         d = [c EXCEPT !.insecure_skip_verify = skip, !.max_elapsed = budget]
  PROVE  /\ \A x \in Names \ {"insecure_skip_verify", "max_elapsed"} : d[x] = c[x]
         /\ \A s, b : [d EXCEPT !.insecure_skip_verify = s, !.max_elapsed = b]
                     = [c EXCEPT !.insecure_skip_verify = s, !.max_elapsed = b]
<1>1. \A f, s, b : f = [x \in Names |-> f[x]] =>
        [f EXCEPT !.insecure_skip_verify = s, !.max_elapsed = b]
        = [x \in Names |-> IF x = "insecure_skip_verify" THEN s
                           ELSE IF x = "max_elapsed" THEN b ELSE f[x]]
  BY DEF Names
<1>2. d = [x \in Names |-> IF x = "insecure_skip_verify" THEN skip
                           ELSE IF x = "max_elapsed" THEN budget ELSE c[x]]
  BY <1>1
<1>3. d = [x \in Names |-> d[x]]
  BY <1>2
<1> QED
  BY <1>1, <1>2, <1>3

\* The configuration in use is the one read, adjusted or not.
ConfigInv ==
  /\ env = None <=> config = None
  /\ config \notin {None, Refused} =>
       /\ env \in Environments /\ FromEnv(env) # Refused
       /\ \/ config = FromEnv(env)
          \/ \E skip \in BOOLEAN, budget \in Budgets : config = Adjusted(env, skip, budget)

\* But for the two settings that no variable carries.
LEMMA ConfigIsRead ==
  ASSUME ConfigInv, config \notin {None, Refused}
  PROVE  /\ env \in Environments /\ FromEnv(env) # Refused
         /\ \A x \in Names \ {"insecure_skip_verify", "max_elapsed"} :
              config[x] = Settings(env)[x]
<1>1. env \in Environments /\ FromEnv(env) # Refused
  BY DEF ConfigInv
<1>2. /\ FromEnv(env) = Settings(env)
      /\ Settings(env) = [x \in Names |-> Settings(env)[x]]
  BY <1>1, EnvironmentRead, SettingsNames
<1>3. \/ config = Settings(env)
      \/ \E skip \in BOOLEAN, budget \in Budgets :
           config = [Settings(env) EXCEPT !.insecure_skip_verify = skip, !.max_elapsed = budget]
  BY <1>2 DEF ConfigInv, Adjusted
<1> QED
  BY <1>1, <1>2, <1>3, Adjusting

\* What the properties need to know of it.
LEMMA ConfigRead ==
  ASSUME ConfigInv, config \notin {None, Refused}
  PROVE  /\ env \in Environments
         /\ config.endpoint = Or(env.endpoint, DefaultEndpoint(config.protocol))
         /\ config.insecure = ParseBool(env.insecure)
         /\ \A k \in Signals : config[k] = SignalSettings(env[k])
<1>1. /\ config.protocol = Settings(env).protocol /\ config.endpoint = Settings(env).endpoint
      /\ config.insecure = Settings(env).insecure
      /\ \A k \in Signals : config[k] = Settings(env)[k]
  BY ConfigIsRead DEF Names, Signals
<1> QED
  BY <1>1, ConfigIsRead, SettingsRead, SignalsRead

\* A signal's own timeout if it has one, then the general one, then ten seconds.
LEMMA TimeoutResolved ==
  ASSUME ConfigInv, config \notin {None, Refused}, NEW k \in Signals
  PROVE  /\ Accepted(TimeoutFor(config, k))
         /\ TimeoutFor(config, k) = FirstSet(env[k].timeout, env.timeout, 10000, {None, Empty})
<1>1. /\ config.timeout = Or(ParseTimeout(env.timeout), 10000)
      /\ config.timeout # Refused /\ ~NotPositive(config.timeout)
  BY ConfigIsRead, EnvironmentRead, SettingsRead DEF Names, Unreadable
<1>2. /\ config[k].timeout = ParseTimeout(env[k].timeout)
      /\ config[k].timeout # Refused /\ ~NotPositive(config[k].timeout)
  <2>1. config[k] = Settings(env)[k]
    BY ConfigIsRead DEF Names, Signals
  <2>2. Settings(env)[k].timeout # Refused /\ ~NotPositive(Settings(env)[k].timeout)
    BY ConfigIsRead, EnvironmentRead DEF Unreadable
  <2>3. SignalSettings(env[k]).timeout = ParseTimeout(env[k].timeout)
    BY DEF SignalSettings
  <2> QED
    BY <2>1, <2>2, <2>3, SignalsRead
<1>3. env.timeout \in Times /\ env[k].timeout \in Times
  BY ConfigIsRead, TransportsAssumption
<1>4. Accepted(config.timeout)
  <2>1. CASE ParseTimeout(env.timeout) = None
    BY <1>1, <2>1 DEF Or, Accepted
  <2>2. CASE ParseTimeout(env.timeout) # None
    BY <1>1, <1>3, <2>2, TimeoutsRead DEF Or
  <2> QED
    BY <2>1, <2>2
<1>5. config[k].timeout = None \/ Accepted(config[k].timeout)
  BY <1>2, <1>3, TimeoutsRead
<1>6. config.timeout = IF env.timeout \in {None, Empty} THEN 10000 ELSE env.timeout
  BY <1>1, <1>3, ConfigAssumption, WholeMilliseconds DEF ParseTimeout, Or, Times
<1>7. config[k].timeout = IF env[k].timeout \in {None, Empty} THEN None ELSE env[k].timeout
  BY <1>2, <1>3, ConfigAssumption, WholeMilliseconds DEF ParseTimeout, Times
<1> QED
  BY <1>4, <1>5, <1>6, <1>7 DEF TimeoutFor, Or, FirstSet

\* The same of the compression.
LEMMA CompressionResolved ==
  ASSUME ConfigInv, config \notin {None, Refused}, NEW k \in Signals
  PROVE  CompressionFor(config, k) = "gzip"
         <=> FirstSet(env[k].compression, env.compression, "none", {None, ""}) = "gzip"
<1>1. /\ config.compression = Or(ParseCompression(env.compression), "none")
      /\ config.compression # Refused
  BY ConfigIsRead, EnvironmentRead, SettingsRead DEF Names, Unreadable
<1>2. /\ config[k].compression = ParseCompression(env[k].compression)
      /\ config[k].compression # Refused
  <2>1. config[k] = Settings(env)[k]
    BY ConfigIsRead DEF Names, Signals
  <2>2. Settings(env)[k].compression # Refused
    BY ConfigIsRead, EnvironmentRead DEF Unreadable
  <2>3. SignalSettings(env[k]).compression = ParseCompression(env[k].compression)
    BY DEF SignalSettings
  <2> QED
    BY <2>1, <2>2, <2>3, SignalsRead
<1>3. \A raw : ParseCompression(raw) # Refused =>
        ParseCompression(raw) = IF raw \in {None, ""} THEN None ELSE raw
  BY ConfigAssumption DEF ParseCompression, Compressions
<1>4. config.compression = IF env.compression \in {None, ""} THEN "none" ELSE env.compression
  <2>1. CASE ParseCompression(env.compression) = None
    BY <1>1, <1>3, <2>1, ConfigAssumption DEF Or
  <2>2. CASE ParseCompression(env.compression) # None
    BY <1>1, <1>3, <2>2 DEF Or
  <2> QED
    BY <2>1, <2>2
<1>5. config[k].compression = IF env[k].compression \in {None, ""} THEN None ELSE env[k].compression
  BY <1>2, <1>3
<1> QED
  BY <1>4, <1>5 DEF CompressionFor, Or, FirstSet

\* The list of headers a signal is sent with.
EntriesFor(k) == IF env[k].headers # None THEN env[k].headers ELSE Or(env.headers, <<>>)

LEMMA HeadersResolved ==
  ASSUME ConfigInv, config \notin {None, Refused}, NEW k \in Signals
  PROVE  /\ EntriesFor(k) \in HeaderLists
         /\ HeadersFor(config, k) = ParseHeaders(EntriesFor(k))
         /\ HeadersFor(config, k) # Refused
<1>1. /\ config.headers = ParseHeaders(Or(env.headers, <<>>))
      /\ config.headers # Refused
  BY ConfigIsRead, EnvironmentRead, SettingsRead DEF Names, Unreadable
<1>2. /\ config[k].headers = SignalHeaders(env[k].headers)
      /\ config[k].headers # Refused
  <2>1. config[k] = Settings(env)[k]
    BY ConfigIsRead DEF Names, Signals
  <2>2. Settings(env)[k].headers # Refused
    BY ConfigIsRead, EnvironmentRead DEF Unreadable
  <2>3. SignalSettings(env[k]).headers = SignalHeaders(env[k].headers)
    BY DEF SignalSettings
  <2> QED
    BY <2>1, <2>2, <2>3, SignalsRead
<1>3. /\ env.headers \in HeaderLists \cup {None} /\ env[k].headers \in HeaderLists \cup {None}
      /\ ParseHeaders(Or(env[k].headers, <<>>)) # None
  <2>1. \A own \in {env} \cup {env[n] : n \in Signals} :
          own.headers \in HeaderLists \cup {None} /\ ParseHeaders(Or(own.headers, <<>>)) # None
    BY ConfigIsRead, TransportsAssumption, Zenon
  <2>2. env[k] \in {env[n] : n \in Signals}
    OBVIOUS
  <2> QED
    BY <2>1, <2>2
<1>4. <<>> \in HeaderLists
  BY DEF HeaderLists
<1> QED
  BY <1>1, <1>2, <1>3, <1>4 DEF HeadersFor, SignalHeaders, Or, EntriesFor

LEMMA InitConfig == Init => ConfigInv
BY DEF Init, ConfigInv

LEMMA NextConfig ==
  ASSUME ConfigInv, [Next]_vars
  PROVE  ConfigInv'
<1>1. ASSUME NEW e \in Environments, ReadEnvironment(e) PROVE ConfigInv'
  <2>1. e # None /\ FromEnv(e) # None
    BY TransportsAssumption
  <2> QED
    BY <1>1, <2>1 DEF ReadEnvironment, ConfigInv
<1>2. ASSUME NEW skip \in BOOLEAN, NEW budget \in Budgets, Adjust(skip, budget)
      PROVE  ConfigInv'
  <2>1. /\ env \in Environments /\ FromEnv(env) # Refused
        /\ config # None /\ env # None /\ env' = env
        /\ config' \in {Refused, [config EXCEPT !.insecure_skip_verify = skip, !.max_elapsed = budget]}
    BY <1>2, SMTT(30) DEF Adjust, PostInit, ConfigInv
  <2>2. [config EXCEPT !.insecure_skip_verify = skip, !.max_elapsed = budget]
        = Adjusted(env, skip, budget)
    <3>1. FromEnv(env) = [x \in Names |-> FromEnv(env)[x]]
      BY <2>1, EnvironmentRead, SettingsNames
    <3>2. \/ config = FromEnv(env)
          \/ \E s \in BOOLEAN, b \in Budgets : config = Adjusted(env, s, b)
      BY <1>2 DEF Adjust, ConfigInv
    <3> QED
      BY <3>1, <3>2, Adjusting DEF Adjusted
  <2>3. Adjusted(env, skip, budget) # None /\ Refused # None
    BY <2>1, TransportsAssumption, ConfigAssumption DEF Adjusted
  <2> QED
    BY <2>1, <2>2, <2>3 DEF ConfigInv
<1>3. CASE UNCHANGED <<env, config>>
  BY <1>3 DEF ConfigInv
<1>4. ASSUME NEW extra, NEW session, Create(extra, session) PROVE UNCHANGED <<env, config>>
  BY <1>4 DEF Create
<1>5. ASSUME NEW k, NEW p, NEW large, Send(k, p, large) PROVE UNCHANGED <<env, config>>
  BY <1>5 DEF Send
<1>6. ASSUME NEW r, HttpAnswer(r) \/ GrpcAnswer(r) PROVE UNCHANGED <<env, config>>
  BY <1>6 DEF HttpAnswer, GrpcAnswer
<1>7. CASE Compressed \/ HttpFails \/ HeadersRefused \/ Aclose \/ UNCHANGED vars
  BY <1>3, <1>7 DEF Compressed, HttpFails, HeadersRefused, Aclose, vars
<1> QED
  BY <1>1, <1>2, <1>3, <1>4, <1>5, <1>6, <1>7 DEF Next

-----------------------------------------------------------------------------
(* The transport.                                                            *)

\* A transport is what create() makes of the configuration in use; it is closed
\* only if it owns its session or channel.
TransportInv ==
  Built => /\ config \notin {None, Refused}
           /\ transport \in TransportRecords
           /\ transport.over = "grpc" <=> config.protocol = "grpc"
           /\ transport.over = "grpc" =>
                /\ transport.plaintext = Plaintext(config.endpoint, config.insecure)
                /\ transport.plaintext \/ ~config.insecure_skip_verify
           /\ transport.open \/ transport.owned

\* What the steps do to the environment, the configuration and the transport.
LEMMA TransportSteps ==
  ASSUME [Next]_vars
  PROVE  \/ \E e \in Environments : ReadEnvironment(e)
         \/ \E skip \in BOOLEAN, budget \in Budgets : Adjust(skip, budget)
         \/ \E extra, session \in BOOLEAN : Create(extra, session)
         \/ Aclose
         \/ UNCHANGED <<env, config, transport>>
BY DEF Next, Send, HttpAnswer, GrpcAnswer, Compressed, HttpFails, HeadersRefused, vars

LEMMA PlaintextType ==
  ASSUME ConfigInv, config \notin {None, Refused}
  PROVE  Plaintext(config.endpoint, config.insecure) \in BOOLEAN
BY ConfigRead DEF Plaintext, ParseBool

LEMMA NextTransport ==
  ASSUME ConfigInv, TransportInv, [Next]_vars,
         transport # None => config \notin {None, Refused}
  PROVE  TransportInv' /\ (transport # None => config \notin {None, Refused})'
<1>1. ASSUME NEW e \in Environments, ReadEnvironment(e)
      PROVE  transport = None /\ transport' = None
  BY <1>1 DEF ReadEnvironment, ConfigInv
<1>2. ASSUME NEW skip \in BOOLEAN, NEW budget \in Budgets, Adjust(skip, budget)
      PROVE  transport' = None
  BY <1>2 DEF Adjust
<1>3. ASSUME NEW extra \in BOOLEAN, NEW session \in BOOLEAN, Create(extra, session)
      PROVE  TransportInv' /\ config' \notin {None, Refused}
  <2>1. /\ config \notin {None, Refused} /\ config' = config
        /\ transport' = IF config.protocol = "grpc" THEN GrpcTransport(config, extra)
                        ELSE HttpTransport(config, extra, session)
    BY <1>3 DEF Create
  <2> DEFINE plaintext == Plaintext(config.endpoint, config.insecure)
  <2>2. plaintext \in BOOLEAN
    BY <2>1, PlaintextType
  <2> HIDE DEF plaintext
  <2>3. GrpcTransport(config, extra) # Refused =>
          /\ GrpcTransport(config, extra) = [over |-> "grpc", plaintext |-> plaintext,
                                             owned |-> TRUE, open |-> TRUE]
          /\ plaintext \/ ~config.insecure_skip_verify
    BY Zenon DEF GrpcTransport, plaintext
  <2>4. HttpTransport(config, extra, session) # Refused =>
          HttpTransport(config, extra, session) = [over |-> "http", plaintext |-> FALSE,
                                                   owned |-> ~session, open |-> TRUE]
    BY DEF HttpTransport
  <2>5. CASE config.protocol = "grpc" /\ GrpcTransport(config, extra) # Refused
    <3>1. transport' = [over |-> "grpc", plaintext |-> plaintext, owned |-> TRUE, open |-> TRUE]
      BY <2>1, <2>3, <2>5
    <3>2. /\ transport' \in TransportRecords
          /\ transport'.over = "grpc" /\ transport'.open = TRUE
          /\ transport'.plaintext = plaintext
      BY <2>2, <3>1 DEF TransportRecords
    <3>3. transport'.plaintext = Plaintext(config'.endpoint, config'.insecure)
      BY <2>1, <3>2 DEF plaintext
    <3>4. transport'.plaintext \/ ~config'.insecure_skip_verify
      BY <2>1, <2>3, <2>5, <3>2
    <3> QED
      BY <2>1, <2>5, <3>2, <3>3, <3>4 DEF TransportInv
  <2>6. CASE config.protocol # "grpc" /\ HttpTransport(config, extra, session) # Refused
    <3>1. transport' = [over |-> "http", plaintext |-> FALSE, owned |-> ~session, open |-> TRUE]
      BY <2>1, <2>4, <2>6
    <3>2. (~session) \in BOOLEAN
      BY SMT
    <3>3. /\ transport' \in TransportRecords
          /\ transport'.over = "http" /\ transport'.open = TRUE
      BY <3>1, <3>2 DEF TransportRecords
    <3> QED
      BY <2>1, <2>6, <3>3 DEF TransportInv
  <2>7. CASE transport' = Refused
    BY <2>1, <2>7 DEF TransportInv, Built
  <2> QED
    BY <2>1, <2>5, <2>6, <2>7
<1>4. CASE Aclose
  <2>1. /\ Built /\ transport.owned /\ UNCHANGED <<env, config>>
        /\ transport' = [transport EXCEPT !.open = FALSE]
    BY <1>4 DEF Aclose, Built
  <2>2. /\ transport' \in TransportRecords
        /\ transport'.over = transport.over /\ transport'.plaintext = transport.plaintext
        /\ transport'.owned
    BY <2>1 DEF TransportInv, TransportRecords
  <2>3. config \notin {None, Refused} /\ config' = config
    BY <2>1 DEF TransportInv
  <2>4. TransportInv'
    BY <2>1, <2>2, <2>3, Zenon DEF TransportInv
  <2> QED
    BY <2>3, <2>4
<1>5. CASE UNCHANGED <<env, config, transport>>
  BY <1>5 DEF TransportInv, Built
<1>6. transport' = None => TransportInv' /\ (transport # None => config \notin {None, Refused})'
  BY DEF TransportInv, Built
<1> QED
  BY <1>1, <1>2, <1>3, <1>4, <1>5, <1>6, TransportSteps

-----------------------------------------------------------------------------
(* The call.                                                                 *)

\* What an outcome is owed to: a transport that is closed, headers that cannot be
\* written, a request that was not answered, or the answer.
Explained ==
  \/ call.response = None /\ call.outcome = Raised /\ (~transport.open \/ Illegal(call))
  \/ call.response = None /\ call.outcome = Retryable(None, None)
  \/ /\ transport.over = "http" /\ call.response \in HttpResponses
     /\ call.outcome = HttpClassify(call.kind, call.response)
  \/ /\ transport.over = "grpc" /\ call.response \in GrpcResponses
     /\ call.outcome = GrpcClassify(call.kind, call.response)

\* The request a call is made with.
RequestOf(kind, provider) ==
  IF transport.over = "http" THEN HttpRequest(kind, ResolveHeaders(kind, provider))
                             ELSE GrpcRequest(kind, ResolveHeaders(kind, provider))

CallInv ==
  call # None =>
    /\ Built
    /\ DOMAIN call = {"kind", "provider", "request", "posted", "response", "outcome"}
    /\ call.kind \in Signals /\ call.provider \in Providers
    /\ call.request = RequestOf(call.kind, call.provider)
    /\ ~call.posted => call.response = None
    /\ call.outcome # None => call.posted /\ Explained

\* A call that ends keeps what it was made with.
LEMMA Ending ==
  ASSUME CallInv, InFlight, NEW response, NEW outcome, End(response, outcome)
  PROVE  /\ call # None /\ Built /\ call'.posted
         /\ DOMAIN call' = DOMAIN call
         /\ call'.kind = call.kind /\ call'.provider = call.provider
         /\ call'.request = call.request
         /\ call'.response = response /\ call'.outcome = outcome
<1>1. /\ call # None /\ Built /\ call.posted
      /\ DOMAIN call = {"kind", "provider", "request", "posted", "response", "outcome"}
  BY DEF CallInv, InFlight, Pending
<1>2. call' = [call EXCEPT !.response = response, !.outcome = outcome]
  BY DEF End
<1> QED
  BY <1>1, <1>2

\* The classification of an answer depends on the configuration only.
LEMMA SameAnswers ==
  ASSUME config' = config
  PROVE  /\ \A k, r : HttpClassify(k, r)' = HttpClassify(k, r)
         /\ \A k, r : GrpcClassify(k, r)' = GrpcClassify(k, r)
BY DEF HttpClassify, GrpcClassify, Decode

\* Whether the headers of a call can be written depends on it and on how it is sent.
LEMMA SameHeaders ==
  ASSUME transport'.over = transport.over,
         call'.request = call.request, call'.provider = call.provider
  PROVE  Illegal(call)' = Illegal(call)
BY DEF Illegal

\* So does a request, and on how it is sent.
LEMMA SameRequests ==
  ASSUME config' = config, transport'.over = transport.over
  PROVE  \A kind, provider : RequestOf(kind, provider)' = RequestOf(kind, provider)
<1>1. \A kind, provider : ResolveHeaders(kind, provider)' = ResolveHeaders(kind, provider)
  BY DEF ResolveHeaders
<1>2. \A kind, headers : HttpRequest(kind, headers)' = HttpRequest(kind, headers)
  BY DEF HttpRequest, ContentType
<1>3. \A kind, headers : GrpcRequest(kind, headers)' = GrpcRequest(kind, headers)
  BY DEF GrpcRequest
<1> QED
  BY <1>1, <1>2, <1>3 DEF RequestOf

LEMMA SendCall ==
  ASSUME NEW kind \in Signals, NEW provider \in Providers, NEW large \in BOOLEAN,
         Send(kind, provider, large)
  PROVE  CallInv'
<1> DEFINE request == RequestOf(kind, provider)
           begun == [kind |-> kind, provider |-> provider, request |-> request,
                     posted |-> FALSE, response |-> None, outcome |-> None]
<1>1. Built /\ UNCHANGED <<env, config, transport>> /\ call' \in {begun, Posted(begun)}
  BY DEF Send, Built, RequestOf
<1>2. RequestOf(kind, provider)' = request
  BY <1>1, SameRequests
<1> HIDE DEF request
<1>3. CASE call' = begun
  BY <1>1, <1>2, <1>3 DEF CallInv, Built
<1>4. CASE call' = Posted(begun)
  <2>1. call' = [begun EXCEPT !.posted = TRUE,
                              !.outcome = IF transport.open THEN None ELSE Raised]
    BY <1>4 DEF Posted
  <2>2. /\ DOMAIN call' = {"kind", "provider", "request", "posted", "response", "outcome"}
        /\ call'.kind = kind /\ call'.provider = provider /\ call'.request = request
        /\ call'.posted /\ call'.response = None
        /\ call'.outcome = IF transport.open THEN None ELSE Raised
    BY <2>1
  <2>3. call'.outcome # None => Explained'
    BY <1>1, <2>2 DEF Explained, Raised, Outcome
  <2> QED
    BY <1>1, <1>2, <2>2, <2>3 DEF CallInv, Built
<1> QED
  BY <1>1, <1>3, <1>4

LEMMA CompressedCall ==
  ASSUME CallInv, Compressed
  PROVE  CallInv'
<1>1. /\ call # None /\ call' = Posted(call) /\ UNCHANGED <<env, config, transport>>
      /\ ~call.posted
  BY DEF Compressed, Pending
<1>2. /\ DOMAIN call' = {"kind", "provider", "request", "posted", "response", "outcome"}
      /\ call'.kind = call.kind /\ call'.provider = call.provider
      /\ call'.request = call.request /\ call'.response = call.response
      /\ call'.posted
      /\ call'.outcome = IF transport.open THEN None ELSE Raised
  BY <1>1 DEF CallInv, Posted
<1> QED
  BY <1>1, <1>2, SameRequests DEF CallInv, Built, Explained, Raised, Outcome

LEMMA AnsweredCall ==
  ASSUME CallInv, NEW r,
         \/ r \in HttpResponses /\ HttpAnswer(r)
         \/ r \in GrpcResponses /\ GrpcAnswer(r)
         \/ HttpFails
         \/ HeadersRefused
  PROVE  CallInv'
<1>1. /\ InFlight /\ UNCHANGED <<env, config, transport>>
      /\ \/ /\ transport.over = "http" /\ r \in HttpResponses
            /\ End(r, HttpClassify(call.kind, r))
         \/ /\ transport.over = "grpc" /\ r \in GrpcResponses
            /\ End(r, GrpcClassify(call.kind, r))
         \/ End(None, Retryable(None, None))
         \/ End(None, Raised) /\ Illegal(call)
  BY DEF HttpAnswer, GrpcAnswer, HttpFails, HeadersRefused
<1>2. /\ call # None /\ Built /\ call'.posted
      /\ DOMAIN call' = DOMAIN call
      /\ call'.kind = call.kind /\ call'.provider = call.provider
      /\ call'.request = call.request
      /\ \/ /\ transport.over = "http" /\ r \in HttpResponses
            /\ call'.response = r /\ call'.outcome = HttpClassify(call.kind, r)
         \/ /\ transport.over = "grpc" /\ r \in GrpcResponses
            /\ call'.response = r /\ call'.outcome = GrpcClassify(call.kind, r)
         \/ call'.response = None /\ call'.outcome = Retryable(None, None)
         \/ call'.response = None /\ call'.outcome = Raised /\ Illegal(call)
  BY <1>1, Ending
<1>3. Explained'
  <2>1. Illegal(call)' = Illegal(call) /\ transport'.over = transport.over
    BY <1>1, <1>2, SameHeaders
  <2>2. CASE /\ call'.response = None
             /\ \/ call'.outcome = Retryable(None, None)
                \/ call'.outcome = Raised /\ Illegal(call)
    <3>1. Retryable(None, None)' = Retryable(None, None) /\ Raised' = Raised
      BY DEF Retryable, Raised, Outcome
    <3> QED
      BY <2>1, <2>2, <3>1 DEF Explained
  <2>3. CASE \/ /\ transport.over = "http" /\ r \in HttpResponses
                /\ call'.response = r /\ call'.outcome = HttpClassify(call.kind, r)
             \/ /\ transport.over = "grpc" /\ r \in GrpcResponses
                /\ call'.response = r /\ call'.outcome = GrpcClassify(call.kind, r)
    BY <1>1, <1>2, <2>1, <2>3, SameAnswers DEF Explained
  <2> QED
    BY <1>2, <2>2, <2>3
<1>4. \A kind, provider : RequestOf(kind, provider)' = RequestOf(kind, provider)
  BY <1>1, SameRequests
<1> QED
  BY <1>1, <1>2, <1>3, <1>4 DEF CallInv, Built

LEMMA ClosedCall ==
  ASSUME TransportInv, TransportInv', CallInv, Aclose
  PROVE  CallInv'
<1>1. /\ Built /\ UNCHANGED <<env, config>>
      /\ transport' = [transport EXCEPT !.open = FALSE]
      /\ IF InFlight
         THEN End(None, IF transport.over = "http" THEN Retryable(None, None) ELSE Raised)
         ELSE call' = call
  BY DEF Aclose, Built
<1>2. Built' /\ ~transport'.open /\ transport'.over = transport.over
  <2>1. transport \in TransportRecords
    BY <1>1 DEF TransportInv
  <2>2. transport' \in TransportRecords /\ ~transport'.open /\ transport'.over = transport.over
    BY <1>1, <2>1 DEF TransportRecords
  <2> QED
    BY <2>2, TransportsAssumption DEF Built
<1>3. \A kind, provider : RequestOf(kind, provider)' = RequestOf(kind, provider)
  BY <1>1, <1>2, SameRequests
<1>4. CASE InFlight
  <2>1. /\ call # None /\ call'.posted
        /\ DOMAIN call' = DOMAIN call
        /\ call'.kind = call.kind /\ call'.provider = call.provider
        /\ call'.request = call.request
        /\ call'.response = None /\ call'.outcome \in {Retryable(None, None), Raised}
    BY <1>1, <1>4, Ending
  <2>2. Explained'
    BY <1>2, <2>1 DEF Explained, Retryable, Raised, Outcome
  <2> QED
    BY <1>1, <1>2, <1>3, <2>1, <2>2 DEF CallInv
<1>5. CASE ~InFlight
  <2>1. call' = call
    BY <1>1, <1>5
  <2>2. Explained => Explained'
    <3>1. Illegal(call)' = Illegal(call)
      BY <1>2, <2>1, SameHeaders
    <3> QED
      BY <1>1, <1>2, <2>1, <3>1, SameAnswers DEF Explained, Retryable, Raised, Outcome
  <2> QED
    BY <1>1, <1>2, <1>3, <2>1, <2>2 DEF CallInv
<1> QED
  BY <1>4, <1>5

LEMMA NextCall ==
  ASSUME ConfigInv, TransportInv, TransportInv', CallInv, [Next]_vars,
         transport # None => config \notin {None, Refused}
  PROVE  CallInv'
<1>1. ASSUME NEW e \in Environments, ReadEnvironment(e) PROVE CallInv'
  BY <1>1 DEF ReadEnvironment, ConfigInv, CallInv, Built
<1>2. ASSUME NEW skip \in BOOLEAN, NEW budget \in Budgets, Adjust(skip, budget)
      PROVE  CallInv'
  BY <1>2 DEF Adjust, CallInv, Built
<1>3. ASSUME NEW extra \in BOOLEAN, NEW session \in BOOLEAN, Create(extra, session)
      PROVE  CallInv'
  BY <1>3 DEF Create, CallInv, Built
<1>4. CASE UNCHANGED vars
  <2>1. Explained' = Explained
    <3>1. Illegal(call)' = Illegal(call)
      BY <1>4, SameHeaders DEF vars
    <3> QED
      BY <1>4, <3>1, SameAnswers DEF vars, Explained, Retryable, Raised, Outcome
  <2>2. \A kind, provider : RequestOf(kind, provider)' = RequestOf(kind, provider)
    BY <1>4, SameRequests DEF vars
  <2> QED
    BY <1>4, <2>1, <2>2 DEF vars, CallInv, Built
<1> QED
  BY <1>1, <1>2, <1>3, <1>4, SendCall, CompressedCall, AnsweredCall, ClosedCall DEF Next

IInv == /\ ConfigInv /\ TransportInv /\ CallInv
        /\ transport # None => config \notin {None, Refused}

LEMMA Correct == Spec => []IInv
<1>1. Init => IInv
  BY InitConfig DEF Init, IInv, TransportInv, CallInv, Built
<1>2. IInv /\ [Next]_vars => IInv'
  BY NextConfig, NextTransport, NextCall DEF IInv
<1> QED
  BY <1>1, <1>2, PTL DEF Spec

-----------------------------------------------------------------------------
(* The outcomes.                                                             *)

LEMMA OutcomeFields ==
  /\ Success.type = "Success" /\ Success.rejected = 0 /\ Success.message = ""
  /\ Success.status = None /\ Success.retry_after = None
  /\ Raised.type = "raised" /\ Raised.status = None /\ Raised.retry_after = None
BY DEF Outcome, Success, Raised

\* What stands for no number is none.
LEMMA NoNumbers ==
  /\ \A x \in Int : x # None /\ x # Garbage /\ x # NaN /\ x # Infinite
  /\ NaN # None /\ NaN # Garbage /\ NaN # Infinite
  /\ Infinite # None /\ Infinite # Garbage /\ None # Garbage
  /\ \A x \in Delays \cup {None} : x # OutOfRange
<1>1. /\ Infinite \notin Int /\ Infinite # None /\ Infinite # Garbage /\ Infinite # NaN
      /\ \A x \in Delays \cup {None} : x # OutOfRange
  BY TransportsAssumption DEF Delays
<1>2. /\ \A x \in {None, Garbage, NaN} : x \notin Int
      /\ NaN # None /\ NaN # Garbage /\ None # Garbage
  BY ConfigAssumption
<1> QED
  BY <1>1, <1>2

\* A body that the JSON decoder does not get through.
Unread(kind, body) ==
  /\ config.protocol = "http/json"
  /\ \/ body.form = "nested"
     \/ body.form = "report" /\ body.rejected = Infinite /\ body.key = RejectedKey[kind]

\* What the decoders make of a body.
LEMMA Decoded ==
  ASSUME NEW kind, NEW body
  PROVE  \/ Decode(kind, body) = Success
         \/ Decode(kind, body) = Raised /\ Unread(kind, body)
         \/ \E n, m : Decode(kind, body) = PartialSuccess(n, m)
<1>1. DecodeProtobuf(body) = Success \/ \E n, m : DecodeProtobuf(body) = PartialSuccess(n, m)
  BY DEF DecodeProtobuf
<1>2. \/ DecodeJson(kind, body) = Success
      \/ /\ DecodeJson(kind, body) = Raised
         /\ config.protocol = "http/json" => Unread(kind, body)
      \/ \E n, m : DecodeJson(kind, body) = PartialSuccess(n, m)
  <2> DEFINE count == IF body.key = RejectedKey[kind] THEN Or(body.rejected, 0) ELSE 0
  <2>1. count = Infinite => body.rejected = Infinite /\ body.key = RejectedKey[kind]
    BY NoNumbers DEF Or
  <2> QED
    BY <2>1 DEF DecodeJson, Unread
<1> QED
  BY <1>1, <1>2 DEF Decode

\* A hint read from a header or a trailer.
Usable(delay) == delay \in {None, Infinite} \/ (delay # NaN /\ delay >= 0)

LEMMA AtLeastZeroIs ==
  ASSUME NEW x \in Int \cup {NaN, Infinite}
  PROVE  Usable(AtLeastZero(x))
<1>1. CASE x = NaN
  BY <1>1, NoNumbers DEF AtLeastZero, PyMax, Exceeds, Usable
<1>2. CASE x = Infinite
  BY <1>2, NoNumbers DEF AtLeastZero, PyMax, Exceeds, Usable
<1>3. CASE x \in Int
  <2>1. NaN \notin {x, 0} /\ Infinite \notin {x, 0}
    BY <1>3, NoNumbers
  <2>2. AtLeastZero(x) = IF x > 0 THEN x ELSE 0
    BY <2>1 DEF AtLeastZero, PyMax, Exceeds
  <2> QED
    BY <1>3, <2>1, <2>2 DEF Usable
<1> QED
  BY <1>1, <1>2, <1>3

LEMMA HintsAreUsable ==
  /\ \A r \in HttpResponses : DateRaises(r.retry_after) \/ Usable(ParseRetryAfter(r.retry_after))
  /\ \A r \in GrpcResponses : Usable(Pushback(r.pushback))
<1>1. ASSUME NEW r \in HttpResponses, ~DateRaises(r.retry_after)
      PROVE  Usable(ParseRetryAfter(r.retry_after))
  <2>1. r.retry_after = None \/ r.retry_after.value \in Delays
    BY <1>1, TransportsAssumption DEF DateRaises, Dates, Delays
  <2> QED
    BY <2>1, AtLeastZeroIs DEF ParseRetryAfter, Delays, Usable
<1>2. ASSUME NEW r \in GrpcResponses PROVE Usable(Pushback(r.pushback))
  <2>1. r.pushback \in Delays \cup {None}
    BY TransportsAssumption
  <2> QED
    BY <2>1, AtLeastZeroIs, WholeMilliseconds DEF Pushback, Delays, Usable
<1> QED
  BY <1>1, <1>2

\* An outcome that names no records: a hint when to retry, or a refusal.
NotTaken(outcome) == \/ \E s, d : outcome = Retryable(s, d) /\ Usable(d)
                     \/ \E s : outcome = Permanent(s)

\* The outcome of an answer over HTTP: that of its body, none for a date that no
\* datetime holds, or one that names no records.
LEMMA HttpClassified ==
  ASSUME NEW kind, NEW r \in HttpResponses, NEW outcome, outcome = HttpClassify(kind, r)
  PROVE  \/ r.status \in 200 .. 299 /\ outcome = Decode(kind, r.body)
         \/ /\ r.status \in RETRYABLE_STATUSES /\ DateRaises(r.retry_after)
            /\ outcome = Raised
         \/ NotTaken(outcome)
<1>1. DateRaises(r.retry_after) \/ Usable(ParseRetryAfter(r.retry_after))
  BY HintsAreUsable
<1>2. \/ r.status \in 200 .. 299 /\ outcome = Decode(kind, r.body)
      \/ /\ r.status \in RETRYABLE_STATUSES /\ DateRaises(r.retry_after)
         /\ outcome = Raised
      \/ /\ ~DateRaises(r.retry_after)
         /\ outcome = Retryable(r.status, ParseRetryAfter(r.retry_after))
      \/ outcome = Permanent(r.status)
  BY DEF HttpClassify
<1> QED
  BY <1>1, <1>2 DEF NotTaken

\* Over gRPC: that of its body, or one that names no records.
LEMMA GrpcClassified ==
  ASSUME NEW kind, NEW r \in GrpcResponses, NEW outcome, outcome = GrpcClassify(kind, r)
  PROVE  outcome = Decode(kind, r.body) \/ NotTaken(outcome)
<1>1. Usable(Pushback(r.pushback))
  BY HintsAreUsable
<1>2. \/ outcome = Decode(kind, r.body)
      \/ outcome = Retryable(None, Pushback(r.pushback))
      \/ \E s : outcome = Permanent(s)
  BY DEF GrpcClassify
<1> QED
  BY <1>1, <1>2 DEF NotTaken

\* Every call that has ended, by what ended it.
LEMMA EndedCalls ==
  ASSUME CallInv, Ended
  PROVE  \/ call.response = None /\ call.outcome = Raised /\ (~transport.open \/ Illegal(call))
         \/ call.response = None /\ call.outcome = Retryable(None, None)
         \/ /\ transport.over = "http" /\ call.response \in HttpResponses
            /\ call.response.status \in RETRYABLE_STATUSES
            /\ DateRaises(call.response.retry_after) /\ call.outcome = Raised
         \/ /\ call.outcome = Decode(call.kind, call.response.body)
            /\ \/ /\ transport.over = "http" /\ call.response \in HttpResponses
                  /\ call.response.status \in 200 .. 299
               \/ transport.over = "grpc" /\ call.response \in GrpcResponses
         \/ NotTaken(call.outcome)
<1>1. Explained
  BY DEF CallInv, Ended
<1>2. CASE \/ call.response = None /\ call.outcome = Raised /\ (~transport.open \/ Illegal(call))
           \/ call.response = None /\ call.outcome = Retryable(None, None)
  BY <1>2
<1>3. CASE /\ transport.over = "http" /\ call.response \in HttpResponses
           /\ call.outcome = HttpClassify(call.kind, call.response)
  BY <1>3, HttpClassified
<1>4. CASE /\ transport.over = "grpc" /\ call.response \in GrpcResponses
           /\ call.outcome = GrpcClassify(call.kind, call.response)
  BY <1>4, GrpcClassified
<1> QED
  BY <1>1, <1>2, <1>3, <1>4 DEF Explained

\* The body of an answer says nothing of credentials or of a delay.
LEMMA DecodedFields ==
  ASSUME NEW kind, NEW body, NEW outcome, outcome = Decode(kind, body)
  PROVE  /\ outcome.type \in {"Success", "PartialSuccess", "raised"}
         /\ outcome.retry_after = None
<1>1. CASE outcome = Success
  BY <1>1, OutcomeFields
<1>2. CASE outcome = Raised
  BY <1>2, OutcomeFields
<1>3. CASE \E n, m : outcome = PartialSuccess(n, m)
  <2>1. PICK n, m : outcome = PartialSuccess(n, m)
    BY <1>3
  <2> QED
    BY <2>1 DEF Outcome, PartialSuccess
<1> QED
  BY <1>1, <1>2, <1>3, Decoded

LEMMA EndedOutcome ==
  ASSUME CallInv, Ended
  PROVE  call.outcome.type \in OutcomeTypes /\ Usable(call.outcome.retry_after)
<1>1. CASE call.outcome = Raised
  BY <1>1, OutcomeFields DEF OutcomeTypes, Usable
<1>2. CASE call.outcome = Retryable(None, None)
  BY <1>2 DEF Outcome, Retryable, OutcomeTypes, Usable
<1>3. CASE call.outcome = Decode(call.kind, call.response.body)
  BY <1>3, DecodedFields DEF OutcomeTypes, Usable
<1>4. CASE \E s, d : call.outcome = Retryable(s, d) /\ Usable(d)
  <2>1. PICK s, d : call.outcome = Retryable(s, d) /\ Usable(d)
    BY <1>4
  <2> QED
    BY <2>1 DEF Outcome, Retryable, OutcomeTypes
<1>5. CASE \E s : call.outcome = Permanent(s)
  <2>1. PICK s : call.outcome = Permanent(s)
    BY <1>5
  <2> QED
    BY <2>1 DEF Outcome, Permanent, OutcomeTypes, Usable
<1> QED
  BY <1>1, <1>2, <1>3, <1>4, <1>5, EndedCalls DEF NotTaken

-----------------------------------------------------------------------------
(* What a request is made of.                                                *)

\* A signal's path goes to the general endpoint, its trailing slashes stripped.
AppendsPath(url, base, kind) ==
  /\ url.scheme = base.scheme /\ url.host = base.host
  /\ \E kept \in 0 .. Len(base.tail) :
       /\ \A i \in kept + 1 .. Len(base.tail) : base.tail[i] = "/"
       /\ kept > 0 => base.tail[kept] # "/"
       /\ url.tail = SubSeq(base.tail, 1, kept) \o HttpPath(kind)

LEMMA BaseUrl ==
  ASSUME NEW base, IsUrl(base), NEW kind \in Signals, NEW url,
         url = [base EXCEPT !.tail = StripSlashes(@) \o HttpPath(kind)]
  PROVE  AppendsPath(url, base, kind)
<1> DEFINE others == {i \in DOMAIN base.tail : base.tail[i] # "/"}
           kept == Max({0} \cup others)
<1>1. /\ base = [scheme |-> base.scheme, host |-> base.host, tail |-> base.tail]
      /\ base.tail \in Seq({base.tail[i] : i \in DOMAIN base.tail})
  BY DEF IsUrl, Url
<1>2. /\ url.scheme = base.scheme /\ url.host = base.host
      /\ url.tail = StripSlashes(base.tail) \o HttpPath(kind)
  BY <1>1
<1>3. Len(base.tail) \in Nat /\ DOMAIN base.tail = 1 .. Len(base.tail)
  BY <1>1
<1>4. ({0} \cup others) \in SUBSET (0 .. Len(base.tail)) /\ {0} \cup others # {}
  BY <1>3
<1>5. kept \in {0} \cup others /\ \A y \in {0} \cup others : kept >= y
  BY <1>3, <1>4, MaxOf
<1>6. StripSlashes(base.tail) = SubSeq(base.tail, 1, kept)
  BY DEF StripSlashes
<1> HIDE DEF kept
<1>7. kept \in 0 .. Len(base.tail) /\ (kept > 0 => base.tail[kept] # "/")
  BY <1>3, <1>5
<1>8. ASSUME NEW i \in kept + 1 .. Len(base.tail) PROVE base.tail[i] = "/"
  BY <1>3, <1>5, <1>7
<1> QED
  BY <1>2, <1>6, <1>7, <1>8 DEF AppendsPath

LEMMA PathBegins ==
  ASSUME NEW S, NEW tail \in Seq(S), PathOf(tail) # <<>>
  PROVE  tail # <<>> /\ tail[1] # "?"
<1> DEFINE ends == {i \in DOMAIN tail : tail[i] = "?"}
<1>1. tail = <<>> => ends = {}
  OBVIOUS
<1>2. tail # <<>>
  BY <1>1 DEF PathOf
<1>3. 1 \in DOMAIN tail
  BY <1>2
<1>4. ASSUME tail[1] = "?" PROVE FALSE
  <2>1. 1 \in ends /\ ends \in SUBSET Nat
    BY <1>3, <1>4
  <2>2. PathOf(tail) = SubSeq(tail, 1, Min(ends) - 1)
    BY <2>1 DEF PathOf
  <2>3. Min(ends) \in ends /\ Min(ends) =< 1
    BY <2>1, MinOf
  <2>4. Min(ends) = 1
    BY <2>3
  <2> HIDE DEF ends
  <2>5. SubSeq(tail, 1, 0) = <<>>
    OBVIOUS
  <2> QED
    BY <2>2, <2>4, <2>5
<1> QED
  BY <1>2, <1>4

LEMMA Slashed ==
  ASSUME NEW S, NEW t \in Seq(S)
  PROVE  (<<"/">> \o t) # <<>> /\ (<<"/">> \o t)[1] = "/"
<1>1. Len(<<"/">> \o t) = 1 + Len(t)
  OBVIOUS
<1>2. Len(t) \in Nat
  OBVIOUS
<1>3. (<<"/">> \o t)[1] = "/"
  OBVIOUS
<1> QED
  BY <1>1, <1>2, <1>3

\* An endpoint of a signal's own stays as it is, but for the slash of an empty path.
LEMMA OwnUrl ==
  ASSUME NEW own, IsUrl(own), NEW url,
         url = IF own.scheme = "" \/ PathOf(own.tail) # <<>> THEN own
               ELSE [own EXCEPT !.tail = <<"/">> \o @]
  PROVE  /\ url.scheme = own.scheme /\ url.host = own.host
         /\ url.tail \in {own.tail, <<"/">> \o own.tail}
         /\ url.scheme = "" \/ (url.tail # <<>> /\ url.tail[1] = "/")
<1>1. /\ own = [scheme |-> own.scheme, host |-> own.host, tail |-> own.tail]
      /\ own.tail \in Seq({own.tail[i] : i \in DOMAIN own.tail})
  BY DEF IsUrl, Url
<1>2. (own.scheme # "" /\ own.tail # <<>>) => own.tail[1] \in {"/", "?"}
  BY Zenon DEF IsUrl
<1>3. (<<"/">> \o own.tail) # <<>> /\ (<<"/">> \o own.tail)[1] = "/"
  BY <1>1, Slashed
<1>4. CASE own.scheme = ""
  BY <1>4
<1>5. CASE own.scheme # "" /\ PathOf(own.tail) # <<>>
  <2>1. url = own
    BY <1>5
  <2>2. own.tail # <<>> /\ own.tail[1] # "?"
    BY <1>1, <1>5, PathBegins
  <2>3. own.tail[1] = "/"
    BY <1>2, <1>5, <2>2, Zenon
  <2> QED
    BY <2>1, <2>2, <2>3, Zenon
<1>6. CASE own.scheme # "" /\ PathOf(own.tail) = <<>>
  <2>1. /\ url.scheme = own.scheme /\ url.host = own.host
        /\ url.tail = <<"/">> \o own.tail
    BY <1>1, <1>6
  <2>2. (<<"/">> \o own.tail) # <<>> /\ (<<"/">> \o own.tail)[1] = "/"
    BY <1>1, <1>3
  <2> QED
    BY <2>1, <2>2, Zenon
<1> QED
  BY <1>4, <1>5, <1>6

KeysOf(raw) == {e[1] : e \in {raw[i] : i \in DOMAIN raw} \ {<<>>}}

\* The entry for a key that has no later one.
LastEntry(raw, key, value) ==
  \E i \in DOMAIN raw :
    /\ raw[i] = <<key, value>>
    /\ \A j \in i + 1 .. Len(raw) : raw[j] = <<>> \/ raw[j][1] # key

\* Of several entries for a key the last one counts.
LEMMA HeadersParsed ==
  ASSUME NEW raw \in HeaderLists, ParseHeaders(raw) # Refused
  PROVE  /\ DOMAIN ParseHeaders(raw) = KeysOf(raw)
         /\ \A key \in KeysOf(raw) : LastEntry(raw, key, ParseHeaders(raw)[key])
<1> DEFINE entries == {i \in DOMAIN raw : raw[i] # <<>>}
           own(key) == {i \in entries : raw[i][1] = key}
           keys == {raw[i][1] : i \in entries}
<1>1. /\ raw \in Seq(Seq(STRING)) /\ Len(raw) \in Nat /\ DOMAIN raw = 1 .. Len(raw)
      /\ \A i \in DOMAIN raw : raw[i] \in Seq(STRING) /\ Len(raw[i]) \in 0 .. 2
  BY DEF HeaderLists
<1>2. /\ \A i \in entries : Len(raw[i]) # 1
      /\ ParseHeaders(raw) = [key \in keys |-> raw[Max(own(key))][2]]
  BY DEF ParseHeaders
<1>3. keys = KeysOf(raw)
  BY DEF KeysOf
<1>4. ASSUME NEW key \in keys PROVE LastEntry(raw, key, raw[Max(own(key))][2])
  <2> DEFINE last == Max(own(key))
  <2>1. own(key) \in SUBSET (0 .. Len(raw)) /\ own(key) # {}
    BY <1>1
  <2>2. last \in own(key) /\ \A j \in own(key) : last >= j
    BY <1>1, <2>1, MaxOf
  <2> HIDE DEF last
  <2>3. last \in DOMAIN raw /\ raw[last] # <<>> /\ raw[last][1] = key
    BY <2>2
  <2>4. raw[last] = <<key, raw[last][2]>>
    <3>1. raw[last] \in Seq(STRING) /\ Len(raw[last]) \in 0 .. 2 /\ Len(raw[last]) # 1
      BY <1>1, <1>2, <2>3
    <3>2. Len(raw[last]) = 2
      BY <2>3, <3>1
    <3> QED
      BY <2>3, <3>1, <3>2
  <2>5. ASSUME NEW j \in last + 1 .. Len(raw) PROVE raw[j] = <<>> \/ raw[j][1] # key
    <3>1. j \in DOMAIN raw /\ ~(last >= j)
      BY <1>1, <2>3
    <3> QED
      BY <2>2, <3>1
  <2> QED
    BY <2>3, <2>4, <2>5 DEF LastEntry, last
<1> HIDE DEF keys, own
<1> QED
  BY <1>2, <1>3, <1>4

-----------------------------------------------------------------------------
(* What credentials are made of.                                             *)

LEMMA SymbolsQuoted ==
  ASSUME NEW symbol, symbol \notin {"%3A", "%25", "%2B"}
  PROVE  Unquoted(Quoted(symbol)) = symbol /\ Quoted(symbol) # ":"
BY DEF Quoted, Unquoted

\* quote_plus leaves no colon, and a server that undoes it gets the text back.
LEMMA TextsQuoted ==
  ASSUME NEW text \in Texts
  PROVE  /\ QuotePlus(text) \in Seq({Quoted(text[i]) : i \in DOMAIN text})
         /\ \A i \in DOMAIN QuotePlus(text) : QuotePlus(text)[i] # ":"
         /\ UnquotePlus(QuotePlus(text)) = text
<1>1. /\ text = [i \in DOMAIN text |-> text[i]]
      /\ Len(text) \in Nat /\ DOMAIN text = 1 .. Len(text)
      /\ \A i \in DOMAIN text : text[i] \notin {"%3A", "%25", "%2B"}
  BY DEF Texts
<1>2. \A i \in DOMAIN text : Unquoted(Quoted(text[i])) = text[i] /\ Quoted(text[i]) # ":"
  BY <1>1, SymbolsQuoted
<1>3. QuotePlus(text) = [i \in DOMAIN text |-> Quoted(text[i])]
  BY DEF QuotePlus
<1>4. UnquotePlus(QuotePlus(text)) = [i \in DOMAIN text |-> Unquoted(Quoted(text[i]))]
  BY <1>3 DEF UnquotePlus
<1>5. [i \in DOMAIN text |-> Unquoted(Quoted(text[i]))] = [i \in DOMAIN text |-> text[i]]
  BY <1>2
<1>6. QuotePlus(text) \in Seq({Quoted(text[i]) : i \in DOMAIN text})
  BY <1>1, <1>3
<1> QED
  BY <1>1, <1>2, <1>3, <1>4, <1>5, <1>6

\* A pair joined by a colon is the pair a server reads, if the first half has none.
LEMMA PairRead ==
  ASSUME NEW S, NEW a \in Seq(S), NEW b \in Seq(S), \A i \in DOMAIN a : a[i] # ":"
  PROVE  Halves(a \o <<":">> \o b) = <<a, b>>
<1> DEFINE T == S \cup {":"}
           raw == a \o <<":">> \o b
           First(i) == i \in DOMAIN raw /\ raw[i] = ":" /\ \A j \in 1 .. i - 1 : raw[j] # ":"
<1>1. a \in Seq(T) /\ b \in Seq(T) /\ <<":">> \in Seq(T)
  OBVIOUS
<1>2. /\ raw \in Seq(T) /\ Len(raw) = Len(a) + 1 + Len(b)
      /\ Len(a) \in Nat /\ Len(b) \in Nat
  BY <1>1
<1>3. /\ \A i \in 1 .. Len(a) : raw[i] = a[i]
      /\ raw[Len(a) + 1] = ":"
      /\ \A i \in 1 .. Len(b) : raw[Len(a) + 1 + i] = b[i]
  BY <1>1
<1> HIDE DEF raw
<1>4. First(Len(a) + 1)
  <2>1. Len(a) + 1 \in DOMAIN raw
    BY <1>2
  <2>2. ASSUME NEW j \in 1 .. (Len(a) + 1) - 1 PROVE raw[j] # ":"
    <3>1. j \in 1 .. Len(a)
      BY <1>2
    <3>2. j \in DOMAIN a
      BY <3>1
    <3> QED
      BY <1>3, <3>1, <3>2
  <2> QED
    BY <1>3, <2>1, <2>2
<1>5. ASSUME NEW i, First(i) PROVE i = Len(a) + 1
  <2>1. i \in 1 .. Len(raw)
    BY <1>2, <1>5
  <2>2. ~(i =< Len(a))
    BY <1>2, <1>3, <1>5, <2>1
  <2>3. ~(i > Len(a) + 1)
    BY <1>2, <1>3, <1>5, <2>1
  <2> QED
    BY <1>2, <2>1, <2>2, <2>3
<1>6. (CHOOSE i \in DOMAIN raw : raw[i] = ":" /\ \A j \in 1 .. i - 1 : raw[j] # ":") = Len(a) + 1
  BY <1>4, <1>5
<1>7. SubSeq(raw, 1, Len(a)) = a
  BY <1>1, <1>2, <1>3
<1>8. SubSeq(raw, Len(a) + 2, Len(raw)) = b
  BY <1>1, <1>2, <1>3
<1>9. Halves(raw) = <<a, b>>
  <2>1. (Len(a) + 1) - 1 = Len(a) /\ (Len(a) + 1) + 1 = Len(a) + 2
    BY <1>2
  <2> QED
    BY <1>6, <1>7, <1>8, <2>1 DEF Halves
<1> QED
  BY <1>9 DEF raw

-----------------------------------------------------------------------------
(* The theorems.                                                             *)

\* A transport is built over a configuration that was accepted, and a call, its
\* answer and its outcome belong to a transport (create(), send(), _classify()).
THEOREM TransportsTypeCorrect == Spec => []TypeOK
<1>1. ASSUME IInv, call # None PROVE Ended => call.outcome.type \in OutcomeTypes /\ call.posted
  <2> SUFFICES ASSUME Ended PROVE call.outcome.type \in OutcomeTypes /\ call.posted
    OBVIOUS
  <2>1. call.posted
    BY <1>1 DEF IInv, CallInv, Ended
  <2>3. call.outcome.type \in OutcomeTypes
    BY <1>1, EndedOutcome DEF IInv
  <2> QED
    BY <2>1, <2>3
<1>2. ASSUME IInv, call # None
      PROVE  Answered => ("status" \in DOMAIN call.response <=> transport.over = "http")
  <2> SUFFICES ASSUME Answered PROVE "status" \in DOMAIN call.response <=> transport.over = "http"
    OBVIOUS
  <2>1. \/ transport.over = "http" /\ call.response \in HttpResponses
        \/ transport.over = "grpc" /\ call.response \in GrpcResponses
    BY <1>2 DEF IInv, CallInv, Answered, Ended, Explained
  <2> QED
    BY <2>1, TransportsAssumption
<1>3. IInv => TypeOK
  BY <1>1, <1>2 DEF IInv, ConfigInv, CallInv, TypeOK
<1> QED
  BY <1>3, Correct, PTL

\* __post_init__ and _parse_timeout leave no timeout that has passed already,
\* whichever variable it came from and whatever replace() sets.
LEMMA TimeoutsArePositive == Spec => []PositiveTimeout
<1>1. ASSUME IInv, call # None PROVE call.request.timeout = NaN \/ call.request.timeout > 0
  <2>1. call.request.timeout = TimeoutFor(config, call.kind)
    BY <1>1 DEF IInv, CallInv, RequestOf, HttpRequest, GrpcRequest
  <2> QED
    BY <1>1, <2>1, TimeoutResolved DEF IInv, CallInv, TransportInv, Accepted
<1>2. IInv => PositiveTimeout
  BY <1>1 DEF PositiveTimeout
<1> QED
  BY <1>2, Correct, PTL

\* _target never takes an endpoint that says https, or one that says nothing
\* without OTEL_EXPORTER_OTLP_INSECURE, for plaintext; and with TLS create()
\* refuses insecure_skip_verify.
THEOREM PlaintextIsAsked == Spec => []PlaintextOnlyOnRequest
<1>1. IInv => PlaintextOnlyOnRequest
  <2> SUFFICES ASSUME IInv, Built, transport.over = "grpc" PROVE PlaintextOnlyOnRequest
    BY DEF PlaintextOnlyOnRequest
  <2>1. /\ config \notin {None, Refused}
        /\ transport.plaintext = Plaintext(config.endpoint, config.insecure)
        /\ transport.plaintext \/ ~config.insecure_skip_verify
    BY DEF IInv, TransportInv
  <2>2. /\ config.endpoint = Or(env.endpoint, DefaultEndpoint(config.protocol))
        /\ config.insecure = (env.insecure = "true")
    BY <2>1, ConfigRead DEF IInv, ParseBool
  <2>3. config.endpoint.scheme = IF env.endpoint = None THEN "http" ELSE env.endpoint.scheme
    BY <2>2 DEF Or, DefaultEndpoint, Url
  <2>4. transport.plaintext => \/ config.endpoint.scheme = "http"
                               \/ config.endpoint.scheme # "https" /\ env.insecure = "true"
    BY <2>1, <2>2 DEF Plaintext
  <2> QED
    BY <2>1, <2>3, <2>4 DEF PlaintextOnlyOnRequest
<1> QED
  BY <1>1, Correct, PTL

\* parse_retry_after and _pushback give a delay to wait for, whatever the header
\* or the trailer holds: never a negative one and never NaN.
LEMMA RetryDelaysAreUsable == Spec => []RetryDelayIsUsable
<1>1. IInv => RetryDelayIsUsable
  BY EndedOutcome DEF IInv, RetryDelayIsUsable, Usable
<1> QED
  BY <1>1, Correct, PTL

\* So the times send() and the retry loop wait for can be waited for, whoever
\* named them: a variable, replace(), a header or a trailer.
THEOREM CallTimesAreUsable == Spec => []TimesAreUsable
<1>1. PositiveTimeout /\ RetryDelayIsUsable => TimesAreUsable
  BY DEF TimesAreUsable
<1> QED
  BY <1>1, TimeoutsArePositive, RetryDelaysAreUsable, PTL

\* send() raises over a session or channel its own transport has closed, for
\* headers that cannot be written, which no collector sees, and for three answers,
\* all of them to HTTP: a retryable status with a date that no datetime holds, and a
\* JSON body that is nested too deeply or counts the signal's rejected records as
\* Infinity.  It raises for nothing else that a collector of either protocol answers.
THEOREM RaisesAreExplained == Spec => []RaisesOnlyAsExplained
<1>1. ASSUME IInv, Ended, call.outcome.type = "raised"
      PROVE  RaisesOnlyAsExplained
  <2>1. CASE /\ call.response = None /\ call.outcome = Raised
             /\ ~transport.open \/ Illegal(call)
    <3>1. Built /\ (transport.open \/ transport.owned)
      BY <1>1 DEF IInv, TransportInv, CallInv, Ended
    <3> QED
      BY <2>1, <3>1 DEF RaisesOnlyAsExplained
  <2>2. CASE call.outcome = Retryable(None, None)
    BY <1>1, <2>2 DEF Retryable, Outcome
  <2>3. CASE /\ transport.over = "http" /\ call.response \in HttpResponses
             /\ call.response.status \in RETRYABLE_STATUSES
             /\ DateRaises(call.response.retry_after)
    BY <2>3, TransportsAssumption DEF RaisesOnlyAsExplained, PastTheExcepts, DateRaises
  <2>4. CASE /\ call.outcome = Decode(call.kind, call.response.body)
             /\ \/ /\ transport.over = "http" /\ call.response \in HttpResponses
                   /\ call.response.status \in 200 .. 299
                \/ transport.over = "grpc" /\ call.response \in GrpcResponses
    <3>1. CASE call.outcome = Success
      BY <1>1, <3>1, OutcomeFields
    <3>2. CASE Unread(call.kind, call.response.body)
      <4>1. transport.over = "grpc" <=> config.protocol = "grpc"
        BY <1>1 DEF IInv, TransportInv, CallInv, Ended
      <4>2. /\ call.response \in HttpResponses /\ call.response.status \in 200 .. 299
            /\ transport.over = "http" /\ call.response # None
        BY <2>4, <3>2, <4>1, TransportsAssumption DEF Unread
      <4> QED
        BY <3>2, <4>2 DEF RaisesOnlyAsExplained, PastTheExcepts, Unread
    <3>3. CASE \E n, m : call.outcome = PartialSuccess(n, m)
      <4>1. PICK n, m : call.outcome = PartialSuccess(n, m)
        BY <3>3
      <4> QED
        BY <1>1, <4>1 DEF PartialSuccess, Outcome
    <3> QED
      BY <2>4, <3>1, <3>2, <3>3, Decoded
  <2>5. CASE \E s, d : call.outcome = Retryable(s, d) /\ Usable(d)
    <3>1. PICK s, d : call.outcome = Retryable(s, d)
      BY <2>5
    <3> QED
      BY <1>1, <3>1 DEF Retryable, Outcome
  <2>6. CASE \E s : call.outcome = Permanent(s)
    <3>1. PICK s : call.outcome = Permanent(s)
      BY <2>6
    <3> QED
      BY <1>1, <3>1 DEF Permanent, Outcome
  <2> QED
    BY <1>1, <2>1, <2>2, <2>3, <2>4, <2>5, <2>6, EndedCalls DEF IInv, NotTaken
<1>2. IInv => RaisesOnlyAsExplained
  BY <1>1 DEF RaisesOnlyAsExplained
<1> QED
  BY <1>2, Correct, PTL

\* The count and the message of a report, as both decoders should read them.
Reported(kind, body) ==
  IF /\ body.form = "report" /\ body.rejected \notin NoInteger
     /\ config.protocol # "http/json" \/ body.key = RejectedKey[kind]
  THEN body.rejected ELSE 0
Told(body) == IF body.form = "report" THEN Or(body.message, "") ELSE ""

Relays(outcome, kind, body) ==
  /\ outcome.rejected = Reported(kind, body) /\ outcome.message = Told(body)
  /\ Reported(kind, body) # 0 \/ Told(body) # "" => outcome.type = "PartialSuccess"

LEMMA BodyIsReported ==
  ASSUME NEW kind, NEW body, NEW outcome, outcome = Decode(kind, body), outcome # Raised
  PROVE  Relays(outcome, kind, body)
<1> USE DEF Relays
<1>1. CASE config.protocol = "http/json"
  <2> DEFINE read == Or(body.rejected, 0)
             count == IF body.key = RejectedKey[kind] THEN read ELSE 0
             taken == IF count \in {Garbage, NaN} THEN 0 ELSE count
  <2>1. outcome = IF body.form # "report" \/ (body.rejected = None /\ body.message = None)
                  THEN Success ELSE PartialSuccess(taken, Or(body.message, ""))
    BY <1>1 DEF Decode, DecodeJson
  <2>2. CASE body.form # "report" \/ (body.rejected = None /\ body.message = None)
    BY <2>1, <2>2, OutcomeFields DEF Reported, Told, Or, NoInteger
  <2>3. CASE ~(body.form # "report" \/ (body.rejected = None /\ body.message = None))
    <3>1. outcome = PartialSuccess(taken, Or(body.message, ""))
      BY <2>1, <2>3
    <3>2. outcome.type = "PartialSuccess" /\ outcome.rejected = taken
          /\ outcome.message = Or(body.message, "")
      BY <3>1 DEF PartialSuccess, Outcome
    <3>3. count # Infinite
      BY <1>1, <2>3 DEF Decode, DecodeJson
    <3>4. taken = Reported(kind, body)
      BY <1>1, <2>3, <3>3, NoNumbers DEF Reported, Or, NoInteger
    <3> QED
      BY <2>3, <3>2, <3>4 DEF Told
  <2> QED
    BY <2>2, <2>3
<1>2. CASE config.protocol # "http/json"
  <2> DEFINE count == IF body.rejected \in NoInteger THEN 0 ELSE body.rejected
             message == Or(body.message, "")
  <2>1. outcome = IF body.form # "report" \/ (count = 0 /\ message = "")
                  THEN Success ELSE PartialSuccess(count, message)
    BY <1>2 DEF Decode, DecodeProtobuf
  <2>2. CASE body.form # "report" \/ (count = 0 /\ message = "")
    BY <1>2, <2>1, <2>2, OutcomeFields DEF Reported, Told
  <2>3. CASE ~(body.form # "report" \/ (count = 0 /\ message = ""))
    <3>1. outcome.type = "PartialSuccess" /\ outcome.rejected = count
          /\ outcome.message = message
      BY <2>1, <2>3 DEF PartialSuccess, Outcome
    <3> QED
      BY <1>2, <2>3, <3>1 DEF Reported, Told
  <2> QED
    BY <2>2, <2>3
<1> QED
  BY <1>1, <1>2

\* What a collector reports of rejected records reaches the caller, the count under
\* the signal's own key and the message, in either encoding, whatever it reports.
THEOREM RejectionsAreReported == Spec => []ReportsRejections
<1>1. ASSUME IInv, Answered, call.outcome.type \in {"Success", "PartialSuccess"}
      PROVE  ReportsRejections
  <2>1. call.outcome = Decode(call.kind, call.response.body)
    <3>1. CASE NotTaken(call.outcome)
      <4>1. call.outcome.type \in {"Retryable", "Permanent"}
        BY <3>1 DEF NotTaken, Retryable, Permanent, Outcome
      <4> QED
        BY <1>1, <4>1
    <3>2. CASE call.outcome \in {Raised, Retryable(None, None)}
      BY <1>1, <3>2, OutcomeFields DEF Retryable, Outcome
    <3> QED
      BY <1>1, <3>1, <3>2, EndedCalls DEF IInv, Answered
  <2>2. call.outcome # Raised
    BY <1>1, OutcomeFields
  <2>3. Relays(call.outcome, call.kind, call.response.body)
    BY <2>1, <2>2, BodyIsReported
  <2> QED
    BY <2>3 DEF ReportsRejections, Relays, Reported, Told
<1>2. IInv => ReportsRejections
  BY <1>1 DEF ReportsRejections
<1> QED
  BY <1>2, Correct, PTL

\* Over gRPC an answer earns what the HTTP status of the same meaning earns: the
\* same kind of outcome, a new credential or none, and the same delay: n milliseconds
\* of a pushback are the n thousandths of a second of a Retry-After.
THEOREM TransportsTreatAlike == Spec => []TransportsAgree
<1>1. ASSUME NEW kind, NEW r \in GrpcResponses, NEW hint, NEW twin, NEW outcome,
             r.code \in DOMAIN HttpTwin,
             hint = IF r.pushback = None THEN None ELSE [value |-> r.pushback],
             twin = [status |-> HttpTwin[r.code], body |-> r.body, retry_after |-> hint],
             outcome = GrpcClassify(kind, r)
      PROVE  /\ outcome.type = HttpClassify(kind, twin).type
             /\ IsCredentialRejection(outcome) <=> IsCredentialRejection(HttpClassify(kind, twin))
             /\ outcome.retry_after = HttpClassify(kind, twin).retry_after
  <2>1. twin.status = HttpTwin[r.code] /\ twin.body = r.body /\ twin.retry_after = hint
    BY <1>1
  <2>2. CASE r.code = "OK"
    <3>1. outcome = Decode(kind, r.body)
      BY <1>1, <2>2 DEF GrpcClassify, RetryableCodes, AuthStatuses
    <3>2. HttpClassify(kind, twin) = Decode(kind, r.body)
      BY <2>1, <2>2 DEF HttpClassify, HttpTwin, RETRYABLE_STATUSES
    <3> QED
      BY <3>1, <3>2
  <2>3. CASE r.code \in RetryableCodes
    <3>1. ParseRetryAfter(hint) = Pushback(r.pushback)
      <4>1. r.pushback # None => hint = [value |-> r.pushback] /\ hint # None
        BY <1>1, TransportsAssumption
      <4>2. r.pushback \notin {None, Garbage} => Pushback(r.pushback) = AtLeastZero(r.pushback)
        BY WholeMilliseconds DEF Pushback
      <4> QED
        BY <1>1, <4>1, <4>2 DEF ParseRetryAfter, Pushback
    <3>4. ~DateRaises(hint)
      <4>1. r.pushback \in Delays \cup {None}
        BY TransportsAssumption
      <4> QED
        BY <1>1, <4>1, NoNumbers DEF DateRaises
    <3>2. outcome = Retryable(None, Pushback(r.pushback))
      BY <1>1, <2>3 DEF GrpcClassify, RetryableCodes, AuthStatuses
    <3>3. HttpClassify(kind, twin) = Retryable(twin.status, Pushback(r.pushback))
      BY <2>1, <2>3, <3>1, <3>4 DEF HttpClassify, HttpTwin, RETRYABLE_STATUSES, RetryableCodes
    <3> QED
      BY <3>2, <3>3 DEF Retryable, Outcome, IsCredentialRejection
  <2>4. CASE r.code \in DOMAIN AuthStatuses
    <3>1. outcome = Permanent(AuthStatuses[r.code])
      BY <1>1, <2>4 DEF GrpcClassify, RetryableCodes, AuthStatuses
    <3>2. HttpClassify(kind, twin) = Permanent(AuthStatuses[r.code])
      BY <2>1, <2>4 DEF HttpClassify, HttpTwin, RETRYABLE_STATUSES, AuthStatuses
    <3> QED
      BY <3>1, <3>2
  <2>5. CASE r.code = "INVALID_ARGUMENT"
    <3>1. outcome = Permanent(None)
      BY <1>1, <2>5 DEF GrpcClassify, RetryableCodes, AuthStatuses
    <3>2. HttpClassify(kind, twin) = Permanent(400)
      BY <2>1, <2>5 DEF HttpClassify, HttpTwin, RETRYABLE_STATUSES
    <3>3. None # 401 /\ None # 403
      BY NoNumbers
    <3>4. /\ outcome.type = "Permanent" /\ outcome.status = None
          /\ outcome.retry_after = None
      BY <3>1 DEF Permanent, Outcome
    <3>5. /\ HttpClassify(kind, twin).type = "Permanent"
          /\ HttpClassify(kind, twin).status = 400
          /\ HttpClassify(kind, twin).retry_after = None
      BY <3>2 DEF Permanent, Outcome
    <3> QED
      BY <3>3, <3>4, <3>5 DEF IsCredentialRejection
  <2> QED
    BY <1>1, <2>2, <2>3, <2>4, <2>5 DEF HttpTwin, RetryableCodes, AuthStatuses
<1>2. ASSUME IInv, Answered, transport.over = "grpc" PROVE TransportsAgree
  <2>1. call.response \in GrpcResponses /\ call.outcome = GrpcClassify(call.kind, call.response)
    BY <1>2 DEF IInv, CallInv, Answered, Ended, Explained
  <2> QED
    BY <1>1, <2>1 DEF TransportsAgree
<1>3. IInv => TransportsAgree
  BY <1>2 DEF TransportsAgree
<1> QED
  BY <1>3, Correct, PTL

\* Every request goes where the variables say, with the headers, the timeout and
\* the compression they say, a signal's own before the general ones (endpoint_for,
\* headers_for, timeout_for, compression_for; _headers and the transports' send()).
THEOREM SettingsAreMostSpecific == Spec => []MostSpecificSetting
<1>1. ASSUME IInv, call # None
      PROVE  /\ config \notin {None, Refused} /\ ConfigInv /\ call.kind \in Signals
             /\ transport.over \in {"http", "grpc"}
             /\ call.request = RequestOf(call.kind, call.provider)
  BY <1>1 DEF IInv, CallInv, TransportInv, TransportRecords
<1>2. ASSUME IInv, call # None PROVE UrlIsMostSpecific
  <2> SUFFICES ASSUME transport.over = "http" PROVE UrlIsMostSpecific
    BY DEF UrlIsMostSpecific
  <2> DEFINE own == env[call.kind].endpoint
             url == call.request.url
             base == Or(env.endpoint, DefaultEndpoint(config.protocol))
  <2>1. config[call.kind].endpoint = own /\ config.endpoint = base
    <3>1. config[call.kind] = SignalSettings(env[call.kind]) /\ config.endpoint = base
      BY <1>1, <1>2, ConfigRead
    <3> QED
      BY <3>1 DEF SignalSettings
  <2>2. url = EndpointFor(config, call.kind)
    BY <1>1, <1>2 DEF RequestOf, HttpRequest
  <2>3. (own = None \/ IsUrl(own)) /\ IsUrl(base)
    <3>1. \A x \in {env} \cup {env[n] : n \in Signals} : x.endpoint = None \/ IsUrl(x.endpoint)
      BY <1>1, <1>2, ConfigRead, TransportsAssumption, Zenon
    <3>2. env[call.kind] \in {env[n] : n \in Signals}
      BY <1>1, <1>2
    <3>3. IsUrl(DefaultEndpoint(config.protocol))
      BY DEF DefaultEndpoint, Url, IsUrl
    <3> QED
      BY <3>1, <3>2, <3>3 DEF Or
  <2> HIDE DEF own, url, base
  <2>4. CASE own \in {None, EmptyUrl}
    <3>1. url = [base EXCEPT !.tail = StripSlashes(@) \o HttpPath(call.kind)]
      BY <2>1, <2>2, <2>4 DEF EndpointFor
    <3>2. IsUrl(base)
      BY <2>3
    <3>3. AppendsPath(url, base, call.kind)
      BY <1>1, <1>2, <3>1, <3>2, BaseUrl
    <3> QED
      BY <2>4, <3>3, Zenon DEF UrlIsMostSpecific, AppendsPath, own, url, base
  <2>5. CASE own \notin {None, EmptyUrl}
    <3>1. url = IF own.scheme = "" \/ PathOf(own.tail) # <<>> THEN own
                ELSE [own EXCEPT !.tail = <<"/">> \o @]
      BY <2>1, <2>2, <2>5 DEF EndpointFor
    <3> QED
      BY <2>3, <2>5, <3>1, OwnUrl DEF UrlIsMostSpecific, own, url
  <2> QED
    BY <2>4, <2>5
<1>3. ASSUME IInv, call # None PROVE HeadersAreMostSpecific
  <2> DEFINE raw == EntriesFor(call.kind)
             static == HeadersFor(config, call.kind)
             provider == IF call.provider = None THEN <<>> ELSE ProviderHeaders(call.provider)
             provided == IF call.provider = None THEN {} ELSE {"authorization"}
             added == IF transport.over = "grpc" THEN {}
                      ELSE IF call.request.gzip THEN {"content_type", "content_encoding"}
                      ELSE {"content_type"}
             sent == call.request.headers
  <2>1. /\ DOMAIN static = KeysOf(raw)
        /\ \A key \in KeysOf(raw) : LastEntry(raw, key, static[key])
    BY <1>1, <1>3, HeadersResolved, HeadersParsed
  <2>2. /\ DOMAIN ResolveHeaders(call.kind, call.provider) = DOMAIN static \cup provided
        /\ \A key \in DOMAIN static \ provided :
             ResolveHeaders(call.kind, call.provider)[key] = static[key]
    BY DEF ResolveHeaders, Over, ProviderHeaders
  <2>3. /\ DOMAIN sent = DOMAIN ResolveHeaders(call.kind, call.provider) \cup added
        /\ \A key \in DOMAIN ResolveHeaders(call.kind, call.provider) \ added :
             sent[key] = ResolveHeaders(call.kind, call.provider)[key]
    <3> DEFINE resolved == ResolveHeaders(call.kind, call.provider)
    <3> HIDE DEF resolved
    <3>1. CASE transport.over = "http"
      <4> DEFINE framing == IF CompressionFor(config, call.kind) = "gzip"
                            THEN [content_type |-> ContentType, content_encoding |-> "gzip"]
                            ELSE [content_type |-> ContentType]
      <4>1. /\ call.request.gzip = (CompressionFor(config, call.kind) = "gzip")
            /\ sent = Over(framing, resolved)
        BY <1>1, <1>3, <3>1 DEF RequestOf, HttpRequest, resolved
      <4>2. DOMAIN framing = added
        BY <3>1, <4>1
      <4> HIDE DEF framing
      <4> QED
        BY <4>1, <4>2 DEF Over, resolved
    <3>2. CASE transport.over = "grpc"
      <4>1. sent = resolved /\ added = {}
        BY <1>1, <1>3, <3>2 DEF RequestOf, GrpcRequest, resolved
      <4> QED
        BY <4>1 DEF resolved
    <3> QED
      BY <1>1, <1>3, <3>1, <3>2
  <2> HIDE DEF raw, static, provided, added, sent
  <2>4. DOMAIN sent = KeysOf(raw) \cup provided \cup added
    BY <2>1, <2>2, <2>3
  <2>5. ASSUME NEW key \in KeysOf(raw) \ (provided \cup added) PROVE LastEntry(raw, key, sent[key])
    BY <2>1, <2>2, <2>3
  <2> QED
    BY <2>4, <2>5
    DEF HeadersAreMostSpecific, raw, EntriesFor, KeysOf, LastEntry, provided, added, sent
<1>4. ASSUME IInv, call # None
      PROVE  /\ call.request.timeout = TimeoutFor(config, call.kind)
             /\ call.request.gzip <=> CompressionFor(config, call.kind) = "gzip"
  <2>1. /\ call.request.timeout = TimeoutFor(config, call.kind)
        /\ call.request.gzip = (CompressionFor(config, call.kind) = "gzip")
    BY <1>1, <1>4 DEF RequestOf, HttpRequest, GrpcRequest
  <2> QED
    BY <2>1
<1>5. ASSUME IInv, call # None PROVE TimeoutIsMostSpecific /\ CompressionIsMostSpecific
  <2>1. TimeoutIsMostSpecific
    BY <1>1, <1>4, <1>5, TimeoutResolved DEF TimeoutIsMostSpecific
  <2>2. CompressionIsMostSpecific
    BY <1>1, <1>4, <1>5, CompressionResolved DEF CompressionIsMostSpecific
  <2> QED
    BY <2>1, <2>2
<1>6. IInv => MostSpecificSetting
  BY <1>2, <1>3, <1>5 DEF MostSpecificSetting
<1> QED
  BY <1>6, Correct, PTL

\* The collector and the token endpoint read the credentials a provider was made
\* of, whatever symbols they hold (BasicAuth, _auth_header, _form, headers()).
THEOREM CredentialsAreRead == Spec => []CredentialsReadAsGiven
<1>1. ASSUME IInv, call # None, call.provider # None
      PROVE  /\ call.provider \in Providers \ {None}
             /\ call.request.headers["authorization"]
                = ProviderHeaders(call.provider)["authorization"]
  <2> DEFINE resolved == ResolveHeaders(call.kind, call.provider)
  <2>1. /\ call.provider \in Providers /\ transport.over \in {"http", "grpc"}
        /\ call.request = RequestOf(call.kind, call.provider)
    BY <1>1 DEF IInv, CallInv, TransportInv, TransportRecords
  <2>2. /\ "authorization" \in DOMAIN resolved
        /\ resolved["authorization"] = ProviderHeaders(call.provider)["authorization"]
    BY <1>1 DEF ResolveHeaders, Over, ProviderHeaders
  <2> HIDE DEF resolved
  <2>3. CASE transport.over = "http"
    <3> DEFINE framing == IF CompressionFor(config, call.kind) = "gzip"
                          THEN [content_type |-> ContentType, content_encoding |-> "gzip"]
                          ELSE [content_type |-> ContentType]
    <3>1. call.request.headers = Over(framing, resolved)
      BY <2>1, <2>3 DEF RequestOf, HttpRequest, resolved
    <3>2. "authorization" \notin DOMAIN framing
      OBVIOUS
    <3> HIDE DEF framing
    <3> QED
      BY <1>1, <2>1, <2>2, <3>1, <3>2 DEF Over
  <2>4. CASE transport.over = "grpc"
    <3>1. call.request.headers = resolved
      BY <2>1, <2>4 DEF RequestOf, GrpcRequest, resolved
    <3> QED
      BY <1>1, <2>1, <2>2, <3>1
  <2> QED
    BY <2>1, <2>3, <2>4
<1>2. ASSUME NEW p \in Providers \ {None}, p.type = "BasicAuth",
             \A i \in DOMAIN p.username : p.username[i] # ":"
      PROVE  UserRead(ProviderHeaders(p)["authorization"]) = <<p.username, p.password>>
  <2>1. p.username \in Texts /\ p.password \in Texts
    BY <1>2, TransportsAssumption
  <2>2. ProviderHeaders(p)["authorization"].base64 = p.username \o <<":">> \o p.password
    BY <1>2 DEF ProviderHeaders, BasicAuthHeader, Basic
  <2> QED
    BY <1>2, <2>1, <2>2, PairRead DEF UserRead, Texts
<1>3. ASSUME NEW p \in Providers \ {None}, p.type # "BasicAuth"
      PROVE  ProviderHeaders(p)["authorization"] = Bearer(p.token)
  BY <1>3 DEF ProviderHeaders
<1>4. ASSUME NEW p \in Providers \ {None}, p.type = "OAuth2ClientCredentials"
      PROVE  ClientRead(TokenRequest(p)) = <<p.client_id, p.client_secret>>
  <2>1. /\ p.client_id \in Texts /\ p.client_secret \in Texts
        /\ p.auth_style \in {"post", "basic"}
    BY <1>4, TransportsAssumption
  <2>2. TokenRequest(p).form = Form(p) /\ TokenRequest(p).headers = AuthHeader(p)
    BY DEF TokenRequest
  <2>3. CASE p.auth_style = "post"
    <3>1. DOMAIN AuthHeader(p) = {}
      BY <2>3 DEF AuthHeader
    <3>2. Form(p).client_id = p.client_id /\ Form(p).client_secret = p.client_secret
      BY <2>3 DEF Form, Over
    <3> QED
      BY <2>2, <3>1, <3>2 DEF ClientRead
  <2>4. CASE p.auth_style = "basic"
    <3> DEFINE id == QuotePlus(p.client_id)
               secret == QuotePlus(p.client_secret)
    <3>1. /\ DOMAIN AuthHeader(p) # {}
          /\ AuthHeader(p)["Authorization"].base64 = id \o <<":">> \o secret
      BY <2>4 DEF AuthHeader, BasicAuthHeader, Basic
    <3>2. /\ \E S : id \in Seq(S) /\ secret \in Seq(S)
          /\ \A i \in DOMAIN id : id[i] # ":"
          /\ UnquotePlus(id) = p.client_id /\ UnquotePlus(secret) = p.client_secret
      <4>1. PICK A, B : id \in Seq(A) /\ secret \in Seq(B)
        BY <2>1, TextsQuoted
      <4> HIDE DEF id, secret
      <4>2. id \in Seq(A \cup B) /\ secret \in Seq(A \cup B)
        BY <4>1
      <4> QED
        BY <2>1, <4>2, TextsQuoted DEF id, secret
    <3> HIDE DEF id, secret
    <3>3. Halves(id \o <<":">> \o secret) = <<id, secret>>
      BY <3>2, PairRead
    <3> QED
      BY <2>2, <3>1, <3>2, <3>3 DEF ClientRead
  <2> QED
    BY <2>1, <2>3, <2>4
<1>5. IInv => CredentialsReadAsGiven
  <2> SUFFICES ASSUME IInv, call # None, call.provider # None PROVE CredentialsReadAsGiven
    BY DEF CredentialsReadAsGiven
  <2> DEFINE p == call.provider
             header == call.request.headers["authorization"]
  <2>1. p \in Providers \ {None} /\ header = ProviderHeaders(p)["authorization"]
    BY <1>1
  <2> HIDE DEF p, header
  <2>2. CASE p.type = "BasicAuth"
    BY <1>2, <2>1, <2>2 DEF CredentialsReadAsGiven, p, header
  <2>3. CASE p.type = "OAuth2ClientCredentials"
    BY <1>3, <1>4, <2>1, <2>3 DEF CredentialsReadAsGiven, p, header
  <2>4. CASE p.type \notin {"BasicAuth", "OAuth2ClientCredentials"}
    BY <1>3, <2>1, <2>4 DEF CredentialsReadAsGiven, p, header
  <2> QED
    BY <2>2, <2>3, <2>4
<1> QED
  BY <1>5, Correct, PTL
=============================================================================
