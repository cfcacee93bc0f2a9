------------------------------ MODULE DataModel ------------------------------
(***************************************************************************)
(* model/*.py: NewX is the constructor of class X, from its required       *)
(* attributes to the record with every other attribute at its default;     *)
(* gauge, sum_, log_record and span are the builders, from the record of   *)
(* their arguments, and there are the two functions for flags.  An         *)
(* envelope is a resource with groups, a group a scope with items,         *)
(* whatever the signal.                                                    *)
(***************************************************************************)
EXTENDS Integers

CONSTANT None

EMPTY == <<>>
OrEmpty(attributes) == IF attributes = None THEN EMPTY ELSE attributes

-----------------------------------------------------------------------------
(* model/common.py *)

NewResource == [attributes |-> EMPTY, dropped_attributes_count |-> 0]
NewInstrumentationScope(name) == [name |-> name, version |-> None, attributes |-> EMPTY]

NewScopeGroup(scope, items) == [scope |-> scope, items |-> items]
NewEnvelope(resource, groups) == [resource |-> resource, groups |-> groups]

-----------------------------------------------------------------------------
(* model/metrics.py *)

AggregationTemporality == [UNSPECIFIED |-> 0, DELTA |-> 1, CUMULATIVE |-> 2]

NewExemplar(time_unix_nano, value) ==
  [time_unix_nano |-> time_unix_nano, value |-> value,
   filtered_attributes |-> EMPTY, span_id |-> None, trace_id |-> None]

NewNumberDataPoint(time_unix_nano, value) ==
  [time_unix_nano |-> time_unix_nano, value |-> value,
   attributes |-> EMPTY, start_time_unix_nano |-> None, exemplars |-> <<>>, flags |-> 0]

NewHistogramDataPoint(time_unix_nano, count, bucket_counts, explicit_bounds) ==
  [time_unix_nano |-> time_unix_nano, count |-> count, bucket_counts |-> bucket_counts,
   explicit_bounds |-> explicit_bounds, sum |-> None, min |-> None, max |-> None,
   attributes |-> EMPTY, start_time_unix_nano |-> None, exemplars |-> <<>>, flags |-> 0]

NewGauge(data_points) == [type |-> "Gauge", data_points |-> data_points]
NewSum(data_points) ==
  [type |-> "Sum", data_points |-> data_points, is_monotonic |-> TRUE,
   aggregation_temporality |-> AggregationTemporality.CUMULATIVE]
NewHistogram(data_points) ==
  [type |-> "Histogram", data_points |-> data_points,
   aggregation_temporality |-> AggregationTemporality.CUMULATIVE]

NewBuckets == [offset |-> 0, bucket_counts |-> <<>>]
NewExponentialHistogramDataPoint(time_unix_nano, count) ==
  [time_unix_nano |-> time_unix_nano, count |-> count, scale |-> 0, zero_count |-> 0,
   positive |-> NewBuckets, negative |-> NewBuckets, zero_threshold |-> "+0",
   sum |-> None, min |-> None, max |-> None,
   attributes |-> EMPTY, start_time_unix_nano |-> None, exemplars |-> <<>>, flags |-> 0]
NewExponentialHistogram(data_points) ==
  [type |-> "ExponentialHistogram", data_points |-> data_points,
   aggregation_temporality |-> AggregationTemporality.CUMULATIVE]

NewValueAtQuantile(quantile, value) == [quantile |-> quantile, value |-> value]
NewSummaryDataPoint(time_unix_nano, count) ==
  [time_unix_nano |-> time_unix_nano, count |-> count, sum |-> "+0", quantile_values |-> <<>>,
   attributes |-> EMPTY, start_time_unix_nano |-> None, flags |-> 0]
NewSummary(data_points) == [type |-> "Summary", data_points |-> data_points]

NewMetric(name, data) == [name |-> name, data |-> data, description |-> "", unit |-> ""]

gauge(a) ==
  LET point == [NewNumberDataPoint(a.time_unix_nano, a.value)
                  EXCEPT !.attributes = OrEmpty(a.attributes)]
  IN  [NewMetric(a.name, NewGauge(<<point>>))
         EXCEPT !.unit = a.unit, !.description = a.description]

sum_(a) ==
  LET point == [NewNumberDataPoint(a.time_unix_nano, a.value)
                  EXCEPT !.attributes = OrEmpty(a.attributes),
                         !.start_time_unix_nano = a.start_time_unix_nano]
      data == [NewSum(<<point>>) EXCEPT !.aggregation_temporality = a.temporality,
                                        !.is_monotonic = a.is_monotonic]
  IN  [NewMetric(a.name, data) EXCEPT !.unit = a.unit, !.description = a.description]

data_point_flags(no_recorded_value) == IF no_recorded_value THEN 1 ELSE 0

-----------------------------------------------------------------------------
(* model/logs.py *)

SeverityNumber == [UNSPECIFIED |-> 0, TRACE |-> 1, DEBUG |-> 5, INFO |-> 9, WARN |-> 13,
                   ERROR |-> 17, FATAL |-> 21]
SeverityName(severity) ==
  IF severity = SeverityNumber.UNSPECIFIED THEN ""
  ELSE CHOOSE name \in DOMAIN SeverityNumber : SeverityNumber[name] = severity

NewLogRecord(time_unix_nano, body, observed_time_unix_nano) ==
  [time_unix_nano |-> time_unix_nano, body |-> body,
   observed_time_unix_nano |-> observed_time_unix_nano,
   severity_number |-> SeverityNumber.UNSPECIFIED, severity_text |-> "", attributes |-> EMPTY,
   trace_id |-> None, span_id |-> None, event_name |-> "", flags |-> 0]

(* Mutant of ObservedTime: `observed_time_unix_nano or time_unix_nano`. *)
ObservedTimeByTruth(observed, time) == IF observed \in {None, 0} THEN time ELSE observed

ObservedTime(observed, time) == IF observed = None THEN time ELSE observed

SeverityText(text, severity) == IF text = None THEN SeverityName(severity) ELSE text

log_record(a) ==
  [NewLogRecord(a.time_unix_nano, a.body, ObservedTime(a.observed_time_unix_nano, a.time_unix_nano))
     EXCEPT !.severity_number = a.severity,
            !.severity_text = SeverityText(a.severity_text, a.severity),
            !.attributes = OrEmpty(a.attributes), !.trace_id = a.trace_id,
            !.span_id = a.span_id, !.event_name = a.event_name]

-----------------------------------------------------------------------------
(* model/traces.py *)

SpanKind == [UNSPECIFIED |-> 0, INTERNAL |-> 1, SERVER |-> 2, CLIENT |-> 3, PRODUCER |-> 4,
             CONSUMER |-> 5]
StatusCode == [UNSET |-> 0, OK |-> 1, ERROR |-> 2]

NewStatus == [code |-> StatusCode.UNSET, message |-> ""]
NewSpanEvent(time_unix_nano, name) ==
  [time_unix_nano |-> time_unix_nano, name |-> name, attributes |-> EMPTY]
NewSpanLink(trace_id, span_id) ==
  [trace_id |-> trace_id, span_id |-> span_id, trace_state |-> "", attributes |-> EMPTY,
   flags |-> 0]
NewSpan(trace_id, span_id, name, start_time_unix_nano, end_time_unix_nano) ==
  [trace_id |-> trace_id, span_id |-> span_id, name |-> name,
   start_time_unix_nano |-> start_time_unix_nano, end_time_unix_nano |-> end_time_unix_nano,
   kind |-> SpanKind.UNSPECIFIED, parent_span_id |-> None, trace_state |-> "", flags |-> 0,
   attributes |-> EMPTY, events |-> <<>>, links |-> <<>>, status |-> None]

span(a) ==
  [NewSpan(a.trace_id, a.span_id, a.name, a.start_time_unix_nano, a.end_time_unix_nano)
     EXCEPT !.kind = a.kind, !.parent_span_id = a.parent_span_id,
            !.trace_state = a.trace_state, !.flags = a.flags,
            !.attributes = OrEmpty(a.attributes), !.events = a.events, !.links = a.links,
            !.status = IF a.status_code = StatusCode.UNSET /\ a.status_message = "" THEN None
                       ELSE [NewStatus EXCEPT !.code = a.status_code,
                                              !.message = a.status_message]]

(* The flags of span_flags and their weights. *)
SAMPLED == 1
SPAN_FLAGS_CONTEXT_HAS_IS_REMOTE == 256
SPAN_FLAGS_CONTEXT_IS_REMOTE == 512

(* Mutant of span_flags: `if is_remote` for `if is_remote is not None`. *)
span_flags_by_truth(sampled, is_remote) ==
  (IF sampled THEN SAMPLED ELSE 0)
  + (IF is_remote = TRUE THEN SPAN_FLAGS_CONTEXT_HAS_IS_REMOTE + SPAN_FLAGS_CONTEXT_IS_REMOTE
                         ELSE 0)

span_flags(sampled, is_remote) ==
  (IF sampled THEN SAMPLED ELSE 0)
  + (IF is_remote # None THEN SPAN_FLAGS_CONTEXT_HAS_IS_REMOTE ELSE 0)
  + (IF is_remote = TRUE THEN SPAN_FLAGS_CONTEXT_IS_REMOTE ELSE 0)
=============================================================================
