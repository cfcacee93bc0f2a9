------------------------------- MODULE Encoding -------------------------------
(***************************************************************************)
(* The two encoders of encoding/json.py and encoding/protobuf.py, side by  *)
(* side: every envelope is given to both, and what a collector reads in    *)
(* the JSON document is compared with the protobuf message.                *)
(*                                                                         *)
(* Objects of the data model are records with the attribute names of       *)
(* model/*.py.  An attribute value is a pair of its Python type and its    *)
(* content, a mapping a sequence of pairs.  A float is one of the strings  *)
(* "+0", "-0", "1", "nan"...; a text or a run of bytes is "" or another    *)
(* string.  Field names of the protobuf side are written as in the schema. *)
(***************************************************************************)
EXTENDS WireFormat, Functions

CONSTANTS
  Metrics, Logs, Traces,  \* the arguments of encode(), by signal
  Orjson                  \* orjson is installed

VARIABLES
  request,  \* the call under way: kind and data; None before it
  json,     \* what JSONEncoder.encode makes of it
  proto     \* what ProtobufEncoder.encode makes of it

vars == <<request, json, proto>>

NonFinite == {"nan", "inf"}

-----------------------------------------------------------------------------
(* encoding/primitives.py *)

String(s) == <<"string", s>>
Num(n) == <<"int", n>>
U64(n) == <<"decimal", n>>
HexId(b) == IF b = "" THEN String("") ELSE <<"hex", b>>
List(s) == <<"list", s>>

(* orjson writes a float that is not finite as null; the standard library *)
(* writes a bare NaN or Infinity, which no reader of JSON has to accept.  *)
Double(x) == CASE x \notin NonFinite -> <<"double", x>>
               [] x \in NonFinite /\ Orjson -> Null
               [] OTHER -> <<"bare", x>>

Object(fields) ==
  LET fails(v) == \/ v = Raises
                  \/ v \notin {None, Null} /\ v[1] = "list" /\ \E i \in DOMAIN v[2] : v[2][i] = Raises
  IN  IF \E k \in DOMAIN fields : fails(fields[k]) THEN Raises ELSE <<"object", fields>>

IsEmpty(v) ==
  v \notin {Null, Raises} /\ (v = String("") \/ (v[1] \in {"list", "object"} /\ DOMAIN v[2] = {}))

OmitEmpty(fields) == Object(Keep(fields, LAMBDA k, v : v # None /\ ~ IsEmpty(v)))

RECURSIVE JsonAnyValue(_)
JsonAttributes(attributes) ==
  List(Map(attributes, LAMBDA a : Object([key |-> String(a[1]), value |-> JsonAnyValue(a[2])])))
JsonAnyValue(v) ==
  LET only(name, x) == Object(name :> x)
  IN  CASE v[1] = "bool" -> only("boolValue", <<"bool", v[2]>>)
        [] v[1] = "int" -> only("intValue", U64(v[2]))
        [] v[1] = "float" -> only("doubleValue", Double(v[2]))
        [] v[1] = "str" -> only("stringValue", String(v[2]))
        [] v[1] = "bytes" -> only("bytesValue", <<"base64", v[2]>>)
        [] v[1] = "mapping" -> only("kvlistValue", Object("values" :> JsonAttributes(v[2])))
        [] v[1] = "sequence" -> only("arrayValue", Object("values" :> List(Map(v[2], JsonAnyValue))))
        [] OTHER -> Raises

OrNone(n) == IF n = 0 THEN None ELSE Num(n)
U64OrNone(n) == IF n = None THEN None ELSE U64(n)
DoubleOrNone(x) == IF x = None THEN None ELSE Double(x)
IdOrNone(b) == IF b = None THEN None ELSE HexId(b)

(* Mutant of Nonzero: `x or None`, which takes -0.0 for absent. *)
NonzeroByTruth(x) == IF x \in {"+0", "-0"} THEN None ELSE Double(x)

Nonzero(x) == IF x = "+0" THEN None ELSE Double(x)

-----------------------------------------------------------------------------
(* encoding/json.py *)

JsonResource(r) ==
  OmitEmpty([attributes |-> JsonAttributes(r.attributes),
             droppedAttributesCount |-> OrNone(r.dropped_attributes_count)])

JsonScope(s) ==
  OmitEmpty([name |-> String(s.name),
             version |-> IF s.version = None THEN None ELSE String(s.version),
             attributes |-> JsonAttributes(s.attributes)])

(* Mutant of JsonNumber: a measured zero is left out like a default. *)
JsonNumberIfAny(v) ==
  CASE v[1] = "bool" -> "asInt" :> Raises
    [] v[1] = "int" -> "asInt" :> (IF v[2] = 0 THEN None ELSE U64(v[2]))
    [] OTHER -> "asDouble" :> Nonzero(v[2])

(* bool is a subclass of int, and no measurement. *)
JsonNumber(v) ==
  CASE v[1] = "bool" -> "asInt" :> Raises
    [] v[1] = "int" -> "asInt" :> U64(v[2])
    [] OTHER -> "asDouble" :> Double(v[2])

JsonExemplar(e) ==
  OmitEmpty([filteredAttributes |-> JsonAttributes(e.filtered_attributes),
             timeUnixNano |-> U64(e.time_unix_nano),
             spanId |-> IdOrNone(e.span_id),
             traceId |-> IdOrNone(e.trace_id)] @@ JsonNumber(e.value))

JsonTimes(p) ==
  [attributes |-> JsonAttributes(p.attributes),
   startTimeUnixNano |-> U64OrNone(p.start_time_unix_nano),
   timeUnixNano |-> U64(p.time_unix_nano),
   flags |-> OrNone(p.flags)]

JsonExemplars(p) == "exemplars" :> List(Map(p.exemplars, JsonExemplar))

JsonExtremes(p) ==
  [sum |-> DoubleOrNone(p.sum), min |-> DoubleOrNone(p.min), max |-> DoubleOrNone(p.max)]

JsonNumberPoint(p) == OmitEmpty(JsonTimes(p) @@ JsonExemplars(p) @@ JsonNumber(p.value))

JsonHistogramPoint(p) ==
  OmitEmpty(JsonTimes(p) @@ JsonExemplars(p) @@ JsonExtremes(p) @@
            [count |-> U64(p.count),
             bucketCounts |-> List(Map(p.bucket_counts, U64)),
             explicitBounds |-> List(Map(p.explicit_bounds, Double))])

JsonBuckets(b) ==
  OmitEmpty([offset |-> OrNone(b.offset), bucketCounts |-> List(Map(b.bucket_counts, U64))])

JsonExponentialPoint(p) ==
  OmitEmpty(JsonTimes(p) @@ JsonExemplars(p) @@ JsonExtremes(p) @@
            [count |-> U64(p.count),
             scale |-> OrNone(p.scale),
             zeroCount |-> IF p.zero_count = 0 THEN None ELSE U64(p.zero_count),
             positive |-> JsonBuckets(p.positive),
             negative |-> JsonBuckets(p.negative),
             zeroThreshold |-> Nonzero(p.zero_threshold)])

JsonSummaryPoint(p) ==
  OmitEmpty(JsonTimes(p) @@
            [count |-> U64(p.count),
             sum |-> Nonzero(p.sum),
             quantileValues |-> List(Map(p.quantile_values,
               LAMBDA q : Object([quantile |-> Double(q.quantile), value |-> Double(q.value)])))])

JsonMetric(m) ==
  LET data == m.data
      points(Point(_)) == "dataPoints" :> List(Map(data.data_points, Point))
      temporality == "aggregationTemporality" :> Num(data.aggregation_temporality)
      body ==
        CASE data.type = "Gauge" -> "gauge" :> Object(points(JsonNumberPoint))
          [] data.type = "Sum" ->
               "sum" :> Object(points(JsonNumberPoint) @@ temporality @@
                               ("isMonotonic" :> <<"bool", data.is_monotonic>>))
          [] data.type = "Histogram" ->
               "histogram" :> Object(points(JsonHistogramPoint) @@ temporality)
          [] data.type = "ExponentialHistogram" ->
               "exponentialHistogram" :> Object(points(JsonExponentialPoint) @@ temporality)
          [] data.type = "Summary" -> "summary" :> Object(points(JsonSummaryPoint))
  IN  OmitEmpty([name |-> String(m.name), description |-> String(m.description),
                 unit |-> String(m.unit)] @@ body)

JsonLogRecord(r) ==
  OmitEmpty([timeUnixNano |-> U64(r.time_unix_nano),
             observedTimeUnixNano |-> U64(r.observed_time_unix_nano),
             severityNumber |-> OrNone(r.severity_number),
             severityText |-> String(r.severity_text),
             body |-> JsonAnyValue(r.body),
             attributes |-> JsonAttributes(r.attributes),
             traceId |-> IdOrNone(r.trace_id),
             spanId |-> IdOrNone(r.span_id),
             eventName |-> String(r.event_name),
             flags |-> OrNone(r.flags)])

JsonEvent(e) ==
  OmitEmpty([timeUnixNano |-> U64(e.time_unix_nano), name |-> String(e.name),
             attributes |-> JsonAttributes(e.attributes)])

JsonLink(l) ==
  OmitEmpty([traceId |-> HexId(l.trace_id), spanId |-> HexId(l.span_id),
             traceState |-> String(l.trace_state), flags |-> OrNone(l.flags),
             attributes |-> JsonAttributes(l.attributes)])

JsonStatus(s) ==
  IF s = None THEN None ELSE OmitEmpty([code |-> OrNone(s.code), message |-> String(s.message)])

JsonSpan(s) ==
  OmitEmpty([traceId |-> HexId(s.trace_id),
             spanId |-> HexId(s.span_id),
             parentSpanId |-> IdOrNone(s.parent_span_id),
             name |-> String(s.name),
             kind |-> OrNone(s.kind),
             startTimeUnixNano |-> U64(s.start_time_unix_nano),
             endTimeUnixNano |-> U64(s.end_time_unix_nano),
             traceState |-> String(s.trace_state),
             flags |-> OrNone(s.flags),
             attributes |-> JsonAttributes(s.attributes),
             events |-> List(Map(s.events, JsonEvent)),
             links |-> List(Map(s.links, JsonLink)),
             status |-> JsonStatus(s.status)])

(* An envelope is a resource with groups, a group a scope with items; the *)
(* three signals differ in the names and in what an item is.              *)
Names == [metrics |-> [envelopes |-> "resourceMetrics", groups |-> "scopeMetrics", items |-> "metrics"],
          logs |-> [envelopes |-> "resourceLogs", groups |-> "scopeLogs", items |-> "logRecords"],
          traces |-> [envelopes |-> "resourceSpans", groups |-> "scopeSpans", items |-> "spans"]]

JsonItem(kind, item) == CASE kind = "metrics" -> JsonMetric(item)
                          [] kind = "logs" -> JsonLogRecord(item)
                          [] kind = "traces" -> JsonSpan(item)

JsonRequest(kind, data) ==
  Object(Names[kind].envelopes :> List(Map(data, LAMBDA envelope :
    OmitEmpty("resource" :> JsonResource(envelope.resource) @@
      (Names[kind].groups :> List(Map(envelope.groups, LAMBDA group :
        OmitEmpty("scope" :> JsonScope(group.scope) @@
          (Names[kind].items :> List(Map(group.items, LAMBDA item : JsonItem(kind, item))))))))))))

(* encode(kind, data): the profiles signal has no encoder. *)
JsonEncode(kind, data) == IF kind \in DOMAIN Names THEN JsonRequest(kind, data) ELSE Raises

-----------------------------------------------------------------------------
(* encoding/protobuf.py *)

RECURSIVE AnyValue(_)
KeyValues(attributes) ==
  Map(attributes, LAMBDA a : Construct("KeyValue", [key |-> a[1], value |-> AnyValue(a[2])]))
AnyValue(v) ==
  LET only(name, x) == Construct("AnyValue", name :> x)
  IN  CASE v[1] = "bool" -> only("boolValue", v[2])
        [] v[1] = "int" -> only("intValue", v[2])
        [] v[1] = "float" -> only("doubleValue", v[2])
        [] v[1] = "str" -> only("stringValue", v[2])
        [] v[1] = "bytes" -> only("bytesValue", v[2])
        [] v[1] = "mapping" ->
             only("kvlistValue", Construct("KeyValueList", "values" :> KeyValues(v[2])))
        [] v[1] = "sequence" ->
             only("arrayValue", Construct("ArrayValue", "values" :> Map(v[2], AnyValue)))
        [] OTHER -> Raises

Or(x, default) == IF x = None THEN default ELSE x

Resource(r) ==
  IF r.attributes = <<>> /\ r.dropped_attributes_count = 0
  THEN None
  ELSE Construct("Resource", [attributes |-> KeyValues(r.attributes),
                              droppedAttributesCount |-> r.dropped_attributes_count])

Scope(s) ==
  IF s.name = "" /\ Or(s.version, "") = "" /\ s.attributes = <<>>
  THEN None
  ELSE Construct("Scope", [name |-> s.name, version |-> Or(s.version, ""),
                           attributes |-> KeyValues(s.attributes)])

Number(v) ==
  CASE v[1] = "bool" -> "asInt" :> Raises
    [] v[1] = "int" -> "asInt" :> v[2]
    [] OTHER -> "asDouble" :> v[2]

Exemplar(e) ==
  Construct("Exemplar", [filteredAttributes |-> KeyValues(e.filtered_attributes),
                         timeUnixNano |-> e.time_unix_nano,
                         spanId |-> Or(e.span_id, ""),
                         traceId |-> Or(e.trace_id, "")] @@ Number(e.value))

PointTimes(p) ==
  [attributes |-> KeyValues(p.attributes), timeUnixNano |-> p.time_unix_nano,
   startTimeUnixNano |-> Or(p.start_time_unix_nano, 0), flags |-> p.flags]
PointExemplars(p) == "exemplars" :> Map(p.exemplars, Exemplar)
PointExtremes(p) == [sum |-> p.sum, min |-> p.min, max |-> p.max]

NumberPoint(p) ==
  Construct("NumberPoint", PointTimes(p) @@ PointExemplars(p) @@ Number(p.value))

HistogramPoint(p) ==
  Construct("HistogramPoint", PointTimes(p) @@ PointExemplars(p) @@ PointExtremes(p) @@
            [count |-> p.count, bucketCounts |-> p.bucket_counts,
             explicitBounds |-> p.explicit_bounds])

Buckets(b) ==
  IF b.offset = 0 /\ b.bucket_counts = <<>>
  THEN None
  ELSE Construct("Buckets", [offset |-> b.offset, bucketCounts |-> b.bucket_counts])

ExponentialPoint(p) ==
  Construct("ExponentialPoint", PointTimes(p) @@ PointExemplars(p) @@ PointExtremes(p) @@
            [count |-> p.count, scale |-> p.scale, zeroCount |-> p.zero_count,
             zeroThreshold |-> p.zero_threshold,
             positive |-> Buckets(p.positive), negative |-> Buckets(p.negative)])

SummaryPoint(p) ==
  Construct("SummaryPoint", PointTimes(p) @@
            [count |-> p.count, sum |-> p.sum,
             quantileValues |-> Map(p.quantile_values, LAMBDA q :
               Construct("Quantile", [quantile |-> q.quantile, value |-> q.value]))])

Metric(m) ==
  LET data == m.data
      points(Point(_)) == "dataPoints" :> Map(data.data_points, Point)
      temporality == "aggregationTemporality" :> data.aggregation_temporality
      body ==
        CASE data.type = "Gauge" -> "gauge" :> Construct("Gauge", points(NumberPoint))
          [] data.type = "Sum" ->
               "sum" :> Construct("Sum", points(NumberPoint) @@ temporality @@
                                         ("isMonotonic" :> data.is_monotonic))
          [] data.type = "Histogram" ->
               "histogram" :> Construct("Histogram", points(HistogramPoint) @@ temporality)
          [] data.type = "ExponentialHistogram" ->
               "exponentialHistogram" :>
                 Construct("ExponentialHistogram", points(ExponentialPoint) @@ temporality)
          [] data.type = "Summary" ->
               "summary" :> Construct("Summary", points(SummaryPoint))
  IN  Construct("Metric", [name |-> m.name, description |-> m.description,
                           unit |-> m.unit] @@ body)

LogRecord(r) ==
  Construct("LogRecord", [timeUnixNano |-> r.time_unix_nano,
                          observedTimeUnixNano |-> r.observed_time_unix_nano,
                          severityNumber |-> r.severity_number,
                          severityText |-> r.severity_text,
                          body |-> AnyValue(r.body),
                          attributes |-> KeyValues(r.attributes),
                          traceId |-> Or(r.trace_id, ""),
                          spanId |-> Or(r.span_id, ""),
                          eventName |-> r.event_name,
                          flags |-> r.flags])

(* Mutant of Status: sets it whenever the span has one. *)
StatusIfGiven(s) ==
  IF s = None THEN None ELSE Construct("Status", [code |-> s.code, message |-> s.message])

Status(s) ==
  IF s = None \/ (s.code = 0 /\ s.message = "")
  THEN None
  ELSE Construct("Status", [code |-> s.code, message |-> s.message])

Span(s) ==
  Construct("Span", [traceId |-> s.trace_id, spanId |-> s.span_id,
                     parentSpanId |-> Or(s.parent_span_id, ""), name |-> s.name,
                     kind |-> s.kind, startTimeUnixNano |-> s.start_time_unix_nano,
                     endTimeUnixNano |-> s.end_time_unix_nano,
                     traceState |-> s.trace_state, flags |-> s.flags,
                     attributes |-> KeyValues(s.attributes),
                     events |-> Map(s.events, LAMBDA e :
                       Construct("Event", [timeUnixNano |-> e.time_unix_nano, name |-> e.name,
                                           attributes |-> KeyValues(e.attributes)])),
                     links |-> Map(s.links, LAMBDA l :
                       Construct("Link", [traceId |-> l.trace_id, spanId |-> l.span_id,
                                          traceState |-> l.trace_state, flags |-> l.flags,
                                          attributes |-> KeyValues(l.attributes)])),
                     status |-> Status(s.status)])

Types == [metrics |-> [request |-> "MetricsRequest", envelope |-> "ResourceMetrics", group |-> "ScopeMetrics"],
          logs |-> [request |-> "LogsRequest", envelope |-> "ResourceLogs", group |-> "ScopeLogs"],
          traces |-> [request |-> "TracesRequest", envelope |-> "ResourceSpans", group |-> "ScopeSpans"]]

ProtoItem(kind, item) == CASE kind = "metrics" -> Metric(item)
                           [] kind = "logs" -> LogRecord(item)
                           [] kind = "traces" -> Span(item)

ProtoRequest(kind, data) ==
  Construct(Types[kind].request, Names[kind].envelopes :> Map(data, LAMBDA envelope :
    Construct(Types[kind].envelope, "resource" :> Resource(envelope.resource) @@
      (Names[kind].groups :> Map(envelope.groups, LAMBDA group :
        Construct(Types[kind].group, "scope" :> Scope(group.scope) @@
          (Names[kind].items :> Map(group.items, LAMBDA item : ProtoItem(kind, item)))))))))

ProtoEncode(kind, data) == IF kind \in DOMAIN Names THEN ProtoRequest(kind, data) ELSE Raises

-----------------------------------------------------------------------------
Init == request = None /\ json = None /\ proto = None

(* encode(kind, data) of either encoder. *)
Encode(kind, data) ==
  /\ request = None
  /\ request' = [kind |-> kind, data |-> data]
  /\ json' = JsonEncode(kind, data)
  /\ proto' = ProtoEncode(kind, data)

(* Envelopes by signal; of profiles there is no model yet. *)
EnvelopesOf == [metrics |-> Metrics, logs |-> Logs, traces |-> Traces, profiles |-> {<<>>}]

Next == \E kind \in DOMAIN EnvelopesOf : \E data \in EnvelopesOf[kind] : Encode(kind, data)

Spec == Init /\ [][Next]_vars

-----------------------------------------------------------------------------
(* What the collector receives from JSONEncoder. *)
Received == IF json = Raises THEN Raises ELSE Reading(Types[request.kind].request, json)

(* Both encoders describe the same message, presence of fields included;   *)
(* what protobuf refuses (a number that does not fit) the JSON encoder     *)
(* refuses too, or writes a document no collector accepts.                 *)
EncodersAgree ==
  request # None =>
    \/ Received = proto
    \/ proto = Raises /\ Received = Unreadable

(* The assertion of tests/test_encoder_oracle.py, for every float.         *)
SameMessage == request # None /\ proto # Raises => Received = proto

Part(m, k) == IF k \in DOMAIN m THEN m[k] ELSE <<>>
Envelopes(m) ==
  UNION {Range(Part(m, k)) : k \in {"resourceMetrics", "resourceLogs", "resourceSpans"}}
Groups(m) ==
  UNION {UNION {Range(Part(e, k)) : k \in {"scopeMetrics", "scopeLogs", "scopeSpans"}}
           : e \in Envelopes(m)}
Spans(m) == UNION {Range(Part(g, "spans")) : g \in Groups(m)}

(* No resource, scope or status is sent without information: README.md     *)
(* promises that both encoders leave such a part out, not that it is empty.*)
OmitsEmptyParts ==
  LET informs(parts, k) == \A m \in parts : k \in DOMAIN m => DOMAIN m[k] # {}
      clean(m) == \/ m \in {Raises, Unreadable}
                  \/ /\ informs(Envelopes(m), "resource")
                     /\ informs(Groups(m), "scope")
                     /\ informs(Spans(m), "status")
  IN  request # None => clean(Received) /\ clean(proto)

(* The collector can tell a measured zero from no measurement: whatever    *)
(* the program measured is in the message, with its type and its value.    *)
MeasurementsSurvive ==
  LET sameValue(v, got) == LET k == IF v[1] = "int" THEN "asInt" ELSE "asDouble"
                           IN  k \in DOMAIN got /\ got[k] = v[2]
      sameExtremes(p, got) ==
        \A k \in {"sum", "min", "max"} : p[k] # None => k \in DOMAIN got /\ got[k] = p[k]
      survive(metric, m) ==
        LET points == metric.data.data_points
        IN  \A l \in DOMAIN points :
              CASE metric.data.type = "Gauge" -> sameValue(points[l].value, m.gauge.dataPoints[l])
                [] metric.data.type = "Sum" -> sameValue(points[l].value, m.sum.dataPoints[l])
                [] metric.data.type = "Histogram" ->
                     sameExtremes(points[l], m.histogram.dataPoints[l])
                [] metric.data.type = "ExponentialHistogram" ->
                     sameExtremes(points[l], m.exponentialHistogram.dataPoints[l])
                [] OTHER -> TRUE
  IN  request # None /\ request.kind = "metrics" /\ Received \notin {Raises, Unreadable} =>
        \A i \in DOMAIN request.data :
        \A j \in DOMAIN request.data[i].groups :
        \A k \in DOMAIN request.data[i].groups[j].items :
          survive(request.data[i].groups[j].items[k],
                  Received.resourceMetrics[i].scopeMetrics[j].metrics[k])

=============================================================================
