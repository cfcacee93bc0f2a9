------------------------------ MODULE ExportCalls ------------------------------
(***************************************************************************)
(* export_metrics, export_logs and export_traces of client.py: what a      *)
(* builder of the data model makes of its arguments, the envelope the      *)
(* client puts round it, and the two encoders behind it, so that what the  *)
(* application said can be compared with what a collector reads.           *)
(* export_resource_* pass their envelopes on to the encoder as they are.   *)
(***************************************************************************)
EXTENDS Encoding

INSTANCE DataModel

CONSTANTS
  Told,       \* arguments of a builder, its name and the signal; those
              \* of span_flags stand for the flags of a span
  Resources,  \* Resource objects the application has
  Scopes      \* InstrumentationScope objects it has

VARIABLE call  \* the call of export_*, None before it

callVars == <<request, json, proto, call>>

DEFAULT_SCOPE == [NewInstrumentationScope("otlp_client") EXCEPT !.version = "0.5.0"]

Built(a) ==
  CASE a.builder = "gauge" -> gauge(a)
    [] a.builder = "sum_" -> sum_(a)
    [] a.builder = "log_record" -> log_record(a)
    [] a.builder = "span" -> span([flags |-> span_flags(a.sampled, a.is_remote)] @@ a)

(* Mutant of ChosenResource: an empty resource is taken for none. *)
ChosenResourceIfAny(given, configured) ==
  LET known == {r \in {given, configured} : r \notin {None, NewResource}}
  IN  IF given \in known THEN given ELSE IF configured \in known THEN configured ELSE NewResource

(* resource or self.resource: a Resource is true, an empty one included. *)
ChosenResource(given, configured) == Or(given, Or(configured, NewResource))

ChosenScope(given, own) == Or(given, Or(own, DEFAULT_SCOPE))

(* A call: what the items are made of, its own resource and scope, and     *)
(* config.resource and the scope of the client.                            *)
Call(kind, told, resource, scope, configured, own) ==
  [kind |-> kind, told |-> told, resource |-> resource, scope |-> scope,
   configured |-> configured, own |-> own]

(* Mutant of ExportItems: the newest item first. *)
ExportItemsNewestFirst(c) ==
  LET newestFirst == [i \in DOMAIN c.told |-> c.told[Len(c.told) - i + 1]]
  IN  /\ call' = c
      /\ IF c.told = <<>>
         THEN UNCHANGED <<request, json, proto>>
         ELSE Encode(c.kind, <<NewEnvelope(ChosenResource(c.resource, c.configured),
                                           <<NewScopeGroup(ChosenScope(c.scope, c.own),
                                                           Map(newestFirst, Built))>>)>>)

ExportItems(c) ==
  /\ call' = c
  /\ IF c.told = <<>>
     THEN UNCHANGED <<request, json, proto>>  \* Success() at once
     ELSE Encode(c.kind, <<NewEnvelope(ChosenResource(c.resource, c.configured),
                                       <<NewScopeGroup(ChosenScope(c.scope, c.own),
                                                       Map(c.told, Built))>>)>>)

ExportResourceItems == Next /\ UNCHANGED call

CallInit == Init /\ call = None

(* What tells the items of an application apart. *)
NameTold(a) == IF a.builder = "log_record" THEN a.event_name ELSE a.name

(* Two items with different names, in either order. *)
Pairs(kind) ==
  LET a == CHOOSE a \in Told : a.signal = kind
      b == CHOOSE b \in Told : b.signal = kind /\ NameTold(b) # NameTold(a)
  IN  {<<a, b>>, <<b, a>>}

(* No items, any one item, or two of them with any resource and scope. *)
Calls ==
  {Call(kind, <<>>, None, None, None, None) : kind \in DOMAIN Names}
  \cup {Call(a.signal, <<a>>, None, None, None, None) : a \in Told}
  \cup {Call(told[1].signal, told, resource, scope, configured, own) :
           told \in UNION {Pairs(kind) : kind \in DOMAIN Names},
           resource \in Resources \cup {None}, configured \in Resources \cup {None},
           scope \in Scopes \cup {None}, own \in Scopes \cup {None}}

(* One call of the client; it has no state that a next one could find. *)
CallNext ==
  /\ request = None /\ call = None
  /\ ExportResourceItems \/ \E c \in Calls : ExportItems(c)

CallSpec == CallInit /\ [][CallNext]_callVars

-----------------------------------------------------------------------------
(* The messages that leave the client for the call. *)
Messages == IF call = None \/ request = None THEN {}
            ELSE {Received, proto} \ {Raises, Unreadable}

Items(m) == LET name == Names[request.kind]
            IN  m[name.envelopes][1][name.groups][1][name.items]

FieldOf(m, k, default) == IF k \in DOMAIN m THEN m[k] ELSE default

(***************************************************************************)
(* Everything of a call arrives in one envelope, every item once and in    *)
(* the order of the call, as its names tell, under the most specific       *)
(* resource and scope: those of the call, an empty one included, else      *)
(* those of the client, never a mixture (client.py:114-116, 187-243).      *)
(***************************************************************************)
NameRead(item) ==
  FieldOf(item, IF request.kind = "logs" THEN "eventName" ELSE "name", "")

FirstGiven(candidates) ==
  LET given == {i \in DOMAIN candidates : candidates[i] # None}
  IN  candidates[CHOOSE i \in given : \A j \in given : i <= j]

EnvelopeOfTheCall ==
  \A m \in Messages :
    LET name == Names[request.kind]
        envelope == m[name.envelopes][1]
        group == envelope[name.groups][1]
        resource == FirstGiven(<<call.resource, call.configured, NewResource>>)
        scope == FirstGiven(<<call.scope, call.own, DEFAULT_SCOPE>>)
    IN  /\ Len(m[name.envelopes]) = 1 /\ Len(envelope[name.groups]) = 1
        /\ FieldOf(envelope, "resource", None) = Resource(resource)
        /\ FieldOf(group, "scope", None) = Scope(scope)
        /\ Map(Items(m), NameRead) = Map(call.told, NameTold)

(***************************************************************************)
(* What a builder was told is what a collector reads: a default stands in  *)
(* only for what was not said, never for a zero or an empty text that was, *)
(* a span without status has none on the wire, and a parent known to be    *)
(* local differs from one of which nothing is known (model/logs.py:66-88,  *)
(* model/traces.py:97-144, model/metrics.py:164-206).                      *)
(***************************************************************************)
LogAsTold(a, r) ==
  /\ FieldOf(r, "observedTimeUnixNano", 0) = Or(a.observed_time_unix_nano, a.time_unix_nano)
  /\ FieldOf(r, "severityNumber", 0) = a.severity
  /\ FieldOf(r, "severityText", "") =
       IF a.severity_text # None THEN a.severity_text
       ELSE IF a.severity = 0 THEN "" ELSE "INFO"

ContextAsTold(a, flags) ==
  LET has(weight) == (flags \div weight) % 2 = 1
  IN  /\ has(SAMPLED) <=> a.sampled
      /\ has(SPAN_FLAGS_CONTEXT_HAS_IS_REMOTE) <=> a.is_remote # None
      /\ has(SPAN_FLAGS_CONTEXT_IS_REMOTE) <=> a.is_remote = TRUE

SpanAsTold(a, s) ==
  LET unreported == a.status_code = StatusCode.UNSET /\ a.status_message = ""
  IN  /\ "status" \in DOMAIN s <=> ~ unreported
      /\ ~ unreported => /\ FieldOf(s.status, "code", 0) = a.status_code
                         /\ FieldOf(s.status, "message", "") = a.status_message
      /\ FieldOf(s, "parentSpanId", "") = Or(a.parent_span_id, "")
      /\ ContextAsTold(a, FieldOf(s, "flags", 0))

MetricAsTold(a, m) ==
  LET data == m[IF a.builder = "gauge" THEN "gauge" ELSE "sum"]
      point == data.dataPoints[1]
  IN  /\ FieldOf(point, "timeUnixNano", 0) = a.time_unix_nano
      /\ point[IF a.value[1] = "int" THEN "asInt" ELSE "asDouble"] = a.value[2]
      /\ a.builder = "sum_" =>
           /\ FieldOf(point, "startTimeUnixNano", 0) = Or(a.start_time_unix_nano, 0)
           /\ FieldOf(data, "isMonotonic", FALSE) = a.is_monotonic
           /\ FieldOf(data, "aggregationTemporality", 0) = a.temporality

ToldIsReceived ==
  \A m \in Messages : \A i \in DOMAIN call.told :
    LET a == call.told[i] IN
    CASE a.builder = "log_record" -> LogAsTold(a, Items(m)[i])
      [] a.builder = "span" -> SpanAsTold(a, Items(m)[i])
      [] OTHER -> MetricAsTold(a, Items(m)[i])
=============================================================================
