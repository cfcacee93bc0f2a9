-------------------------------- MODULE Config --------------------------------
(***************************************************************************)
(* config.py: how the OTEL_EXPORTER_OTLP_* variables become an OTLPConfig, *)
(* and what each signal is sent with.                                      *)
(*                                                                         *)
(* An environment is a record of the general variables and, per signal, of *)
(* that signal's own.  An unset variable is None.  Where only its reading  *)
(* matters a value is modelled by that: a timeout is a whole number of     *)
(* milliseconds, Empty, Garbage or NaN; a list of headers is the sequence  *)
(* of its entries, <<key, value>>, <<key>> without "=", or blank <<>>; a   *)
(* URL has a scheme ("" if it has none), a host ("" if it is empty) and    *)
(* the tokens that follow.  A float has three decimals: it is the integer  *)
(* of its thousandths, so that a setting of 10000 is ten seconds.          *)
(***************************************************************************)
EXTENDS Integers, Sequences, FiniteSetsExt

CONSTANTS
  None,      \* not set
  Empty,     \* set to the empty string
  Garbage,   \* set to text that is no number
  NaN,       \* "nan", which float() accepts
  Refused    \* OTLPConfigError

(* What stands for a value that is not there, or is no number, is no number *)
(* and no text.                                                             *)
ASSUME ConfigAssumption ==
  /\ {None, Empty, Garbage, NaN, Refused} \cap Int = {}
  /\ None \notin STRING
  /\ None \notin {Empty, Garbage, NaN, Refused} /\ Refused \notin {Empty, Garbage, NaN}
  /\ NaN \notin {Empty, Garbage} /\ Empty # Garbage

Signals == {"metrics", "logs", "traces"}
Protocols == {"http/json", "http/protobuf", "grpc"}
Compressions == {"none", "gzip"}

Url(scheme, host, tail) == [scheme |-> scheme, host |-> host, tail |-> tail]
EmptyUrl == Url("", "", <<>>)
DefaultEndpoint(protocol) ==
  Url("http", IF protocol = "grpc" THEN "localhost:4317" ELSE "localhost:4318", <<>>)

(* _parse_bool after strip() and lower() *)
ParseBool(raw) == raw = "true"

(* float() of a whole number, and a float divided by 1000.0; what is no    *)
(* number stays what it is.                                                *)
Float(x) == IF x \in Int THEN 1000 * x ELSE x
DividedBy1000(x) == IF x \in Int THEN x \div 1000 ELSE x

(* From milliseconds to seconds. *)
ParseTimeout(raw) ==
  CASE raw \in {None, Empty} -> None
    [] raw = Garbage -> Refused
    [] OTHER -> DividedBy1000(Float(raw))

ParseCompression(raw) ==
  CASE raw \in {None, ""} -> None
    [] raw \in Compressions -> raw
    [] OTHER -> Refused

(* Later entries win. *)
ParseHeaders(raw) ==
  LET entries == {i \in DOMAIN raw : raw[i] # <<>>}
      last(key) == Max({i \in entries : raw[i][1] = key})
  IN  IF \E i \in entries : Len(raw[i]) = 1 THEN Refused
      ELSE [key \in {raw[i][1] : i \in entries} |-> raw[last(key)][2]]

SignalHeaders(raw) == IF raw = None THEN None ELSE ParseHeaders(raw)

(* A per-signal protocol or TLS setting cannot be honoured. *)
RejectsPerSignal(env) == \E k \in Signals : env[k].unsupported \notin {None, ""}

(* `value <= 0`, which is false of NaN *)
NotPositive(t) == t \notin {None, NaN} /\ t <= 0

(* Mutant of PostInit: looks at the general timeout alone. *)
PostInitGeneral(c) ==
  IF \/ c.endpoint = EmptyUrl
     \/ NotPositive(c.timeout) \/ NotPositive(c.max_elapsed)
  THEN Refused ELSE c

PostInit(c) ==
  IF \/ c.endpoint = EmptyUrl
     \/ NotPositive(c.timeout) \/ NotPositive(c.max_elapsed)
     \/ \E k \in Signals : NotPositive(c[k].timeout)
  THEN Refused ELSE c

Or(x, default) == IF x = None THEN default ELSE x

(* What a signal has of its own, and all the settings; not checked yet. *)
SignalSettings(own) ==
  [endpoint |-> own.endpoint, headers |-> SignalHeaders(own.headers),
   timeout |-> ParseTimeout(own.timeout), compression |-> ParseCompression(own.compression)]

Settings(env) ==
  LET protocol == Or(env.protocol, "http/json")
  IN  [protocol |-> protocol,
       endpoint |-> Or(env.endpoint, DefaultEndpoint(protocol)),
       headers |-> ParseHeaders(Or(env.headers, <<>>)),
       timeout |-> Or(ParseTimeout(env.timeout), 10000),
       compression |-> Or(ParseCompression(env.compression), "none"),
       insecure |-> ParseBool(env.insecure),
       insecure_skip_verify |-> FALSE,
       max_elapsed |-> 90000,
       metrics |-> SignalSettings(env["metrics"]),
       logs |-> SignalSettings(env["logs"]),
       traces |-> SignalSettings(env["traces"])]

Unreadable(s) == s.headers = Refused \/ s.timeout = Refused \/ s.compression = Refused

FromEnv(env) ==
  LET c == Settings(env)
  IN  IF \/ RejectsPerSignal(env) \/ c.protocol \notin Protocols
         \/ Unreadable(c) \/ \E k \in Signals : Unreadable(c[k])
      THEN Refused ELSE PostInit(c)

-----------------------------------------------------------------------------
(* After a scheme, what follows the host begins with a slash or a query; a *)
(* header entry is blank, a key without a value, or both.                  *)
IsUrl(u) ==
  /\ u = Url(u.scheme, u.host, u.tail) /\ u.tail \in Seq({u.tail[i] : i \in DOMAIN u.tail})
  /\ u.scheme # "" /\ u.tail # <<>> => u.tail[1] \in {"/", "?"}
HeaderLists == {h \in Seq(Seq(STRING)) : \A i \in DOMAIN h : Len(h[i]) \in 0 .. 2}

(* urlparse(...).path of a URL with a scheme: what comes before a query.   *)
(* Of a URL without one it takes the host for the path.                    *)
PathOf(tail) ==
  LET ends == {i \in DOMAIN tail : tail[i] = "?"}
  IN  IF ends = {} THEN tail ELSE SubSeq(tail, 1, Min(ends) - 1)

StripSlashes(tail) ==
  SubSeq(tail, 1, Max({0} \cup {i \in DOMAIN tail : tail[i] # "/"}))

HttpPath(kind) == <<"/", "v1", "/", kind>>

EndpointFor(c, kind) ==
  LET own == c[kind].endpoint
  IN  IF own \in {None, EmptyUrl}
      THEN [c.endpoint EXCEPT !.tail = StripSlashes(@) \o HttpPath(kind)]
      ELSE IF own.scheme = "" \/ PathOf(own.tail) # <<>> THEN own ELSE [own EXCEPT !.tail = <<"/">> \o @]

(* Mutant of HeadersFor: an empty override counts as no override. *)
HeadersForIfAny(c, kind) ==
  IF c[kind].headers = None THEN c.headers
  ELSE IF DOMAIN c[kind].headers = {} THEN c.headers ELSE c[kind].headers

HeadersFor(c, kind) == Or(c[kind].headers, c.headers)
TimeoutFor(c, kind) == Or(c[kind].timeout, c.timeout)
CompressionFor(c, kind) == Or(c[kind].compression, c.compression)
=============================================================================
