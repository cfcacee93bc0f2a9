------------------------------ MODULE MCEncoding ------------------------------
(***************************************************************************)
(* Inputs for TLC.  An object is described by a base, every attribute at   *)
(* its default, and by the other values each attribute may take.  The      *)
(* encoders look at one attribute at a time, so Variants alters at most    *)
(* two of them at once.                                                    *)
(***************************************************************************)
EXTENDS ExportCalls

CONSTANT Floats  \* the floats that occur, +0 apart

Variants(base, others) ==
  LET one(r, f) == {[r EXCEPT ![f] = x] : x \in others[f]}
      two(f, g) == IF f = g THEN one(base, f) ELSE UNION {one(r, g) : r \in one(base, f)}
  IN  {base} \cup UNION {two(f, g) : f, g \in DOMAIN others}

Numbers == {1, MaxU32 + 1}
LargeNumbers == {1, MaxU32 + 1, MaxU64 + 1}
Double0 == Floats \cup {"+0"}

Scalars ==
  {<<"bool", TRUE>>, <<"int", 0>>, <<"int", -1>>, <<"int", 2>>, <<"int", MaxU64>>, <<"float", "+0">>,
   <<"float", "-0">>, <<"str", "">>, <<"str", "t">>, <<"bytes", "">>, <<"bytes", "b">>,
   <<"mapping", <<>>>>, <<"sequence", <<>>>>, <<"other", "">>}
AnyValues ==
  Scalars \cup {<<"mapping", <<<<"k", v>>>>>> : v \in Scalars}
          \cup {<<"sequence", <<v, <<"str", "">>>>>> : v \in Scalars}
          \cup {<<"float", x>> : x \in Floats}
SomeAttributes == {<<<<"k", v>>>> : v \in {<<"str", "">>, <<"other", "">>}}
                  \cup {<<<<"", <<"int", 1>>>>, <<"k", <<"bool", FALSE>>>>>>}
AllAttributes == {<<<<"k", v>>>> : v \in AnyValues}
Ids == {"", "id"}

ResourceVariants ==
  Variants(NewResource,
           [attributes |-> AllAttributes, dropped_attributes_count |-> Numbers])
ScopeVariants ==
  Variants(NewInstrumentationScope(""),
           [name |-> {"n"}, version |-> {"", "v"}, attributes |-> SomeAttributes])

Plain == NewInstrumentationScope("n")
Group(items) == NewScopeGroup(Plain, items)

Alone(item) == <<NewEnvelope(NewResource, <<Group(<<item>>)>>)>>
Enveloped(item) ==
  {<<>>}
  \cup {<<NewEnvelope(r, <<>>)>> : r \in ResourceVariants}
  \cup {<<NewEnvelope(NewResource, <<NewScopeGroup(s, <<item>>)>>)>> : s \in ScopeVariants}
  \cup {<<NewEnvelope(r, <<Group(<<>>), Group(<<item, item>>)>>), NewEnvelope(NewResource, <<>>)>>
          : r \in ResourceVariants}

-----------------------------------------------------------------------------
Value == {<<"int", 0>>, <<"int", 1>>, <<"int", -1>>, <<"int", 2>>, <<"int", MaxU64>>,
          <<"bool", TRUE>>}
         \cup {<<"float", x>> : x \in Double0}

Exemplar0 == NewExemplar(0, <<"int", 0>>)
SomeExemplars ==
  {<<[Exemplar0 EXCEPT !.value = v, !.span_id = id, !.trace_id = id]>>
     : v \in Value, id \in Ids \cup {None}}
  \cup {<<[Exemplar0 EXCEPT !.filtered_attributes = a, !.time_unix_nano = t], Exemplar0>>
     : a \in SomeAttributes, t \in {0, 1}}

TimesOthers ==
  [attributes |-> SomeAttributes, start_time_unix_nano |-> {0, 1}, time_unix_nano |-> LargeNumbers,
   flags |-> {data_point_flags(TRUE), MaxU32 + 1}]

NumberPoints ==
  Variants(NewNumberDataPoint(0, <<"int", 0>>),
           TimesOthers @@ [value |-> Value, exemplars |-> SomeExemplars])

DistributionOthers ==
  TimesOthers @@ [count |-> LargeNumbers, sum |-> Double0, min |-> Double0, max |-> Double0,
                  exemplars |-> {<<Exemplar0>>}]

HistogramPoints ==
  Variants(NewHistogramDataPoint(0, 0, <<>>, <<>>),
           DistributionOthers @@ [bucket_counts |-> {<<0>>, <<0, 1>>, <<MaxU64 + 1>>},
                                  explicit_bounds |-> {<<x>> : x \in Double0}])

Sides == Variants(NewBuckets, [offset |-> {1, -1}, bucket_counts |-> {<<0>>, <<1>>}])
ExponentialPoints ==
  Variants(NewExponentialHistogramDataPoint(0, 0),
           DistributionOthers @@ [scale |-> {-1}, zero_count |-> {1}, zero_threshold |-> Floats,
                                  positive |-> Sides, negative |-> Sides])

SummaryPoints ==
  Variants(NewSummaryDataPoint(0, 0),
           TimesOthers @@ [count |-> LargeNumbers, sum |-> Floats,
                           quantile_values |-> {<<NewValueAtQuantile("+0", x)>> : x \in Double0}])

MetricItems ==
  {NewMetric("m", data) : data \in
     {NewGauge(<<p>>) : p \in NumberPoints}
     \cup {NewHistogram(<<p>>) : p \in HistogramPoints}
     \cup {NewExponentialHistogram(<<p>>) : p \in ExponentialPoints}
     \cup {NewSummary(<<p>>) : p \in SummaryPoints}
     \cup Variants(NewSum(<<>>),
                   [data_points |-> {<<p>> : p \in NumberPoints},
                    aggregation_temporality |-> {0, 1}, is_monotonic |-> {FALSE}])}
  \cup Variants(NewMetric("", NewSum(<<>>)),
                [name |-> {"m"}, description |-> {"d"}, unit |-> {"1"}])

LogItems ==
  Variants(NewLogRecord(0, <<"str", "">>, 0),
           [time_unix_nano |-> LargeNumbers, observed_time_unix_nano |-> {1},
            severity_number |-> {9}, severity_text |-> {"t"}, body |-> AnyValues,
            attributes |-> SomeAttributes, trace_id |-> Ids, span_id |-> Ids,
            event_name |-> {"e"}, flags |-> Numbers])

Events == Variants(NewSpanEvent(0, ""),
                   [time_unix_nano |-> LargeNumbers, name |-> {"e"}, attributes |-> SomeAttributes])
Links == Variants(NewSpanLink("", ""),
                  [trace_id |-> {"id"}, span_id |-> {"id"}, trace_state |-> {"s"},
                   attributes |-> SomeAttributes, flags |-> Numbers])
SpanItems ==
  Variants(NewSpan("", "", "", 0, 0),
           [trace_id |-> {"id"}, span_id |-> {"id"}, name |-> {"n"},
            start_time_unix_nano |-> LargeNumbers, end_time_unix_nano |-> {1}, kind |-> {2},
            parent_span_id |-> Ids, trace_state |-> {"s"}, flags |-> Numbers,
            attributes |-> SomeAttributes, events |-> {<<e>> : e \in Events},
            links |-> {<<l>> : l \in Links},
            status |-> {[code |-> c, message |-> m] : c \in {0, 2}, m \in {"", "m"}}])

MCMetrics == {Alone(m) : m \in MetricItems} \cup Enveloped(NewMetric("m", NewSum(<<>>)))
MCLogs == {Alone(r) : r \in LogItems}
MCTraces == {Alone(s) : s \in SpanItems}

-----------------------------------------------------------------------------
(* Arguments of the builders. *)
ToldMetrics ==
  [signal : {"metrics"}, builder : {"gauge", "sum_"}, name : {"m", "n"}, time_unix_nano : {0, 1},
   start_time_unix_nano : {None, 0, 1}, unit : {""}, description : {"d"}, attributes : {None},
   value : {<<"int", 0>>, <<"float", "-0">>, <<"float", "1">>},
   is_monotonic : BOOLEAN, temporality : {1, 2}]
ToldLogs ==
  [signal : {"logs"}, builder : {"log_record"}, body : {<<"str", "t">>}, time_unix_nano : {0, 1},
   observed_time_unix_nano : {None, 0, 2}, severity : {0, 9}, severity_text : {None, "", "note"},
   attributes : {None, <<<<"k", <<"str", "">>>>>>}, trace_id : {None, "id"}, span_id : {None, "id"},
   event_name : {"", "e"}]
ToldSpans ==
  [signal : {"traces"}, builder : {"span"}, name : {"n", "o"}, trace_id : {"id"}, span_id : {"id"},
   start_time_unix_nano : {1}, end_time_unix_nano : {2}, kind : {0, 3},
   parent_span_id : {None, "id"}, trace_state : {""}, sampled : BOOLEAN,
   is_remote : BOOLEAN \cup {None}, attributes : {None}, events : {<<>>}, links : {<<>>},
   status_code : {0, 1, 2}, status_message : {"", "m"}]
MCTold == ToldMetrics \cup ToldLogs \cup ToldSpans

MCResources ==
  {NewResource, [NewResource EXCEPT !.attributes = <<<<"k", <<"str", "r">>>>>>],
   [NewResource EXCEPT !.dropped_attributes_count = 1]}
MCScopes == {NewInstrumentationScope("n"), NewInstrumentationScope("")}
=============================================================================
