--------------------------- MODULE MCExportPipeline ---------------------------
(* Small instances of ExportPipeline for TLC.                                 *)
EXTENDS ExportPipeline

\* The endpoint issues a token, refuses, is down, or answers what float() cannot
\* take: headers() ends in each way it can.
OneOfEach ==
  {[status |-> 200, token |-> TRUE, expires_in |-> e] : e \in {Absent, TooLarge}}
  \union {[status |-> s, token |-> FALSE, expires_in |-> Absent] : s \in {401, 503}}

\* The endpoint issues a token; a request for one may fail all the same.
Issued == {[status |-> 200, token |-> TRUE, expires_in |-> Absent]}
=============================================================================
