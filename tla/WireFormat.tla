------------------------------ MODULE WireFormat ------------------------------
(***************************************************************************)
(* OTLP messages as a collector sees them.  None of this is code of the    *)
(* repository: the schema is that of opentelemetry-proto, Construct is the *)
(* constructor of a generated protobuf class, and ReadMessage is a reader  *)
(* of OTLP/JSON, the parser of tests/test_encoder_oracle.py.  A message is *)
(* the function from its present fields to their values, so that two       *)
(* messages are equal exactly when they have the same fields present.      *)
(***************************************************************************)
EXTENDS Integers, Sequences, TLC

CONSTANTS
  None,         \* Python's None: an argument that is not given
  Null,         \* JSON null
  Raises,       \* building the message raises an exception
  Unreadable,   \* a document that is no message of its type
  MaxU32,       \* largest unsigned 32-bit number, kept small
  MaxU64        \* largest unsigned 64-bit number, kept small

(* The joins with <<>> change nothing; TLC evaluates a joined value once. *)
Map(s, Op(_)) == [i \in DOMAIN s |-> Op(s[i])] \o <<>>
Keep(f, Test(_, _)) == [k \in {k \in DOMAIN f : Test(k, f[k])} |-> f[k]] @@ <<>>

(* How a field says that it is present. *)
Field(t) == [presence |-> "implicit", type |-> t]      \* a default is absent
Optional(t) == [presence |-> "explicit", type |-> t]   \* optional, or a oneof
Repeated(t) == [presence |-> "scalars", type |-> t]
Sub(t) == [presence |-> "message", type |-> t]
Subs(t) == [presence |-> "messages", type |-> t]

Attributes == Subs("KeyValue")
Times == [startTimeUnixNano |-> Field("u64"), timeUnixNano |-> Field("u64"),
          flags |-> Field("u32"), attributes |-> Attributes]
Extremes == [sum |-> Optional("double"), min |-> Optional("double"),
             max |-> Optional("double")]
Measured == [asInt |-> Optional("i64"), asDouble |-> Optional("double")]
Exemplars == [exemplars |-> Subs("Exemplar")]
Temporal(point) == [dataPoints |-> Subs(point), aggregationTemporality |-> Field("enum")]

Schema ==
  [ MetricsRequest |-> [resourceMetrics |-> Subs("ResourceMetrics")],
    LogsRequest |-> [resourceLogs |-> Subs("ResourceLogs")],
    TracesRequest |-> [resourceSpans |-> Subs("ResourceSpans")],
    ResourceMetrics |-> [resource |-> Sub("Resource"), scopeMetrics |-> Subs("ScopeMetrics")],
    ResourceLogs |-> [resource |-> Sub("Resource"), scopeLogs |-> Subs("ScopeLogs")],
    ResourceSpans |-> [resource |-> Sub("Resource"), scopeSpans |-> Subs("ScopeSpans")],
    ScopeMetrics |-> [scope |-> Sub("Scope"), metrics |-> Subs("Metric")],
    ScopeLogs |-> [scope |-> Sub("Scope"), logRecords |-> Subs("LogRecord")],
    ScopeSpans |-> [scope |-> Sub("Scope"), spans |-> Subs("Span")],
    Resource |-> [attributes |-> Attributes, droppedAttributesCount |-> Field("u32")],
    Scope |-> [name |-> Field("text"), version |-> Field("text"), attributes |-> Attributes],
    KeyValue |-> [key |-> Field("text"), value |-> Sub("AnyValue")],
    AnyValue |-> [boolValue |-> Optional("bool"), intValue |-> Optional("i64"),
                  doubleValue |-> Optional("double"), stringValue |-> Optional("text"),
                  bytesValue |-> Optional("bytes"), kvlistValue |-> Sub("KeyValueList"),
                  arrayValue |-> Sub("ArrayValue")],
    KeyValueList |-> [values |-> Subs("KeyValue")],
    ArrayValue |-> [values |-> Subs("AnyValue")],
    Metric |-> [name |-> Field("text"), description |-> Field("text"), unit |-> Field("text"),
                gauge |-> Sub("Gauge"), sum |-> Sub("Sum"), histogram |-> Sub("Histogram"),
                exponentialHistogram |-> Sub("ExponentialHistogram"), summary |-> Sub("Summary")],
    Gauge |-> [dataPoints |-> Subs("NumberPoint")],
    Sum |-> Temporal("NumberPoint") @@ [isMonotonic |-> Field("bool")],
    Histogram |-> Temporal("HistogramPoint"),
    ExponentialHistogram |-> Temporal("ExponentialPoint"),
    Summary |-> [dataPoints |-> Subs("SummaryPoint")],
    Exemplar |-> [filteredAttributes |-> Attributes, timeUnixNano |-> Field("u64"),
                  spanId |-> Field("id"), traceId |-> Field("id")] @@ Measured,
    NumberPoint |-> Times @@ Exemplars @@ Measured,
    HistogramPoint |-> Times @@ Exemplars @@ Extremes @@
                  [count |-> Field("u64"), bucketCounts |-> Repeated("u64"),
                   explicitBounds |-> Repeated("double")],
    ExponentialPoint |-> Times @@ Exemplars @@ Extremes @@
                  [count |-> Field("u64"), scale |-> Field("i32"), zeroCount |-> Field("u64"),
                   positive |-> Sub("Buckets"), negative |-> Sub("Buckets"),
                   zeroThreshold |-> Field("double")],
    Buckets |-> [offset |-> Field("i32"), bucketCounts |-> Repeated("u64")],
    SummaryPoint |-> Times @@ [count |-> Field("u64"), sum |-> Field("double"),
                   quantileValues |-> Subs("Quantile")],
    Quantile |-> [quantile |-> Field("double"), value |-> Field("double")],
    LogRecord |-> [timeUnixNano |-> Field("u64"), observedTimeUnixNano |-> Field("u64"),
                   severityNumber |-> Field("enum"), severityText |-> Field("text"),
                   body |-> Sub("AnyValue"), attributes |-> Attributes, traceId |-> Field("id"),
                   spanId |-> Field("id"), eventName |-> Field("text"), flags |-> Field("u32")],
    Span |-> [traceId |-> Field("id"), spanId |-> Field("id"), parentSpanId |-> Field("id"),
              name |-> Field("text"), kind |-> Field("enum"), startTimeUnixNano |-> Field("u64"),
              endTimeUnixNano |-> Field("u64"), traceState |-> Field("text"),
              flags |-> Field("u32"), attributes |-> Attributes, events |-> Subs("Event"),
              links |-> Subs("Link"), status |-> Sub("Status")],
    Event |-> [timeUnixNano |-> Field("u64"), name |-> Field("text"), attributes |-> Attributes],
    Link |-> [traceId |-> Field("id"), spanId |-> Field("id"), traceState |-> Field("text"),
              attributes |-> Attributes, flags |-> Field("u32")],
    Status |-> [code |-> Field("enum"), message |-> Field("text")] ]

Default(type) ==
  CASE type \in {"u32", "i32", "u64", "i64", "enum"} -> 0
    [] type = "double" -> "+0"
    [] type = "bool" -> FALSE
    [] OTHER -> ""

Fits(type, x) ==
  CASE type = "u32" -> x \in 0 .. MaxU32
    [] type = "u64" -> x \in 0 .. MaxU64
    [] type = "i32" -> 2 * x \in -(MaxU32 + 1) .. MaxU32
    [] type = "i64" -> 2 * x \in -(MaxU64 + 1) .. MaxU64
    [] OTHER -> TRUE

Many(slot) == slot.presence \in {"scalars", "messages"}
Scalar(slot) == slot.presence \notin {"message", "messages"}

(* Some value held by a field passes the test. *)
Holds(slot, v, Test(_)) == IF Many(slot) THEN \E i \in DOMAIN v : Test(v[i]) ELSE Test(v)

Present(slot, v) ==
  CASE slot.presence = "implicit" -> v # Default(slot.type)
    [] slot.presence \in {"explicit", "message"} -> v # None
    [] OTHER -> v # <<>>

Canonical(type, fields) ==
  Keep(fields, LAMBDA k, v : Present(Schema[type][k], v))

(* A generated class refuses a number that does not fit its field. *)
Refuses(slot, x) == x = Raises \/ (Scalar(slot) /\ x # None /\ ~ Fits(slot.type, x))

Construct(type, fields) ==
  IF \E k \in DOMAIN fields :
       LET slot == Schema[type][k] IN Holds(slot, fields[k], LAMBDA x : Refuses(slot, x))
  THEN Raises
  ELSE Canonical(type, fields)

(***************************************************************************)
(* A JSON value is a pair of its form and its content.  The JSON mapping   *)
(* demands a form of every type: 64-bit numbers are strings of digits,     *)
(* identifiers are hex, other bytes base64, enums numbers.                 *)
(***************************************************************************)
Form == [u32 |-> "int", i32 |-> "int", enum |-> "int", u64 |-> "decimal", i64 |-> "decimal",
         double |-> "double", bool |-> "bool", text |-> "string", id |-> "hex",
         bytes |-> "base64"]

RECURSIVE ReadMessage(_, _)

ReadOne(slot, v) ==
  IF v = Null THEN Unreadable
  ELSE IF ~ Scalar(slot)
  THEN IF v[1] = "object" THEN ReadMessage(slot.type, v[2]) ELSE Unreadable
  ELSE IF v[1] = Form[slot.type] /\ Fits(slot.type, v[2]) THEN v[2] ELSE Unreadable

ReadField(slot, v) ==
  IF ~ Many(slot) THEN ReadOne(slot, v)
  ELSE IF v[1] = "list" THEN Map(v[2], LAMBDA x : ReadOne(slot, x)) ELSE <<Unreadable>>

(* A field whose value is null counts as absent. *)
ReadMessage(type, object) ==
  LET given == {k \in DOMAIN object : object[k] # Null}
      read == [k \in given |-> ReadField(Schema[type][k], object[k])] @@ <<>>
  IN  IF \/ ~ given \subseteq DOMAIN Schema[type]
         \/ \E k \in given : Holds(Schema[type][k], read[k], LAMBDA x : x = Unreadable)
      THEN Unreadable
      ELSE Canonical(type, read)

(* What a collector makes of a JSON document, or of the failure to write one. *)
Reading(type, json) == IF json = Raises THEN Raises ELSE ReadMessage(type, json[2])
=============================================================================
