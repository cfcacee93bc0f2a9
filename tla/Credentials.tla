----------------------------- MODULE Credentials -----------------------------
(***************************************************************************)
(* How the providers of credentials.py present what they were made of:     *)
(* the header of BearerToken and BasicAuth, and the request that           *)
(* OAuth2ClientCredentials sends to the token endpoint, of which           *)
(* OAuth2Provider has the rest.  A text is a sequence of symbols, an       *)
(* escape such as "%3A" being one of them; base64 is a wrapper to take     *)
(* off again.                                                              *)
(***************************************************************************)
EXTENDS Naturals, SequencesExt

(* What an application writes: "%3A" is three symbols there, and no escape. *)
Texts == Seq(STRING \ {"%3A", "%25", "%2B"})

(* A provider.  `token` is what the source of a BearerToken, or the token  *)
(* endpoint, says at the time of the call.                                 *)
NewBearerToken(token) == [type |-> "BearerToken", token |-> token]
NewBasicAuth(username, password) ==
  [type |-> "BasicAuth", username |-> username, password |-> password]
NewOAuth2(client_id, client_secret, auth_style, scope, extra_params, token) ==
  [type |-> "OAuth2ClientCredentials", client_id |-> client_id, client_secret |-> client_secret,
   auth_style |-> auth_style, scope |-> scope, extra_params |-> extra_params, token |-> token]

Bearer(token) == [scheme |-> "Bearer", token |-> token]
Basic(raw) == [scheme |-> "Basic", base64 |-> raw]

(* RFC 7617: the raw pair. *)
BasicAuthHeader(username, password) == Basic(username \o <<":">> \o password)

ProviderHeaders(p) ==
  [authorization |-> IF p.type = "BasicAuth" THEN BasicAuthHeader(p.username, p.password)
                                             ELSE Bearer(p.token)]

(* quote_plus of the symbols that occur: letters stay. *)
Quoted(symbol) == CASE symbol = ":" -> "%3A"
                    [] symbol = "%" -> "%25"
                    [] symbol = "+" -> "%2B"
                    [] symbol = " " -> "+"
                    [] OTHER -> symbol
QuotePlus(text) == [i \in DOMAIN text |-> Quoted(text[i])]

(* Mutant of AuthHeader: one form of Basic for both RFCs. *)
AuthHeaderRaw(p) ==
  IF p.auth_style # "basic" THEN <<>>
  ELSE [Authorization |-> BasicAuthHeader(p.client_id, p.client_secret)]

(* RFC 6749, 2.3.1: each half is form-urlencoded first. *)
AuthHeader(p) ==
  IF p.auth_style # "basic" THEN <<>>
  ELSE [Authorization |-> BasicAuthHeader(QuotePlus(p.client_id), QuotePlus(p.client_secret))]

(* {**g, **f} *)
Over(f, g) == [x \in DOMAIN f \cup DOMAIN g |-> IF x \in DOMAIN f THEN f[x] ELSE g[x]]

(* Later keys replace earlier ones. *)
Form(p) ==
  LET credentials == IF p.auth_style = "post"
                     THEN [client_id |-> p.client_id, client_secret |-> p.client_secret]
                     ELSE <<>>
      scope == IF p.scope = <<>> THEN <<>> ELSE [scope |-> p.scope]
  IN  Over(credentials, Over(scope, Over(p.extra_params, [grant_type |-> "client_credentials"])))

TokenRequest(p) == [form |-> Form(p), headers |-> AuthHeader(p)]

-----------------------------------------------------------------------------
(* How a server reads them: the user name ends at the first colon.         *)

Halves(raw) ==
  LET colon == CHOOSE i \in DOMAIN raw : raw[i] = ":" /\ \A j \in 1 .. i - 1 : raw[j] # ":"
  IN  <<SubSeq(raw, 1, colon - 1), SubSeq(raw, colon + 1, Len(raw))>>

Unquoted(symbol) == CASE symbol = "%3A" -> ":"
                      [] symbol = "%25" -> "%"
                      [] symbol = "%2B" -> "+"
                      [] symbol = "+" -> " "
                      [] OTHER -> symbol
UnquotePlus(text) == [i \in DOMAIN text |-> Unquoted(text[i])]

UserRead(header) == Halves(header.base64)

ClientRead(request) ==
  IF DOMAIN request.headers = {}
  THEN <<request.form.client_id, request.form.client_secret>>
  ELSE LET halves == Halves(request.headers["Authorization"].base64)
       IN  <<UnquotePlus(halves[1]), UnquotePlus(halves[2])>>
=============================================================================
