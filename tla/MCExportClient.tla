--------------------------- MODULE MCExportClient ---------------------------
(* Small instances of ExportClient for TLC.                                  *)
EXTENDS ExportClient, TLC

\* An answer of the endpoint.
TokenAnswer(status, issued, expires_in) ==
  [status |-> status, token |-> issued, expires_in |-> expires_in]

\* One of every kind; the lifetime is in the past, worth caching or not given.
OneOfEach ==
  {TokenAnswer(200, TRUE, e) : e \in {-1, 3, Absent, Malformed}}
  \union {TokenAnswer(200, FALSE, Absent), TokenAnswer(401, TRUE, 3), TokenAnswer(503, TRUE, 3)}

\* Exports of clients with a provider play the same part.
ExportSymmetry == Permutations(Exports \ Anonymous)
=============================================================================
