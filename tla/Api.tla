--------------------------------- MODULE Api ---------------------------------
(* The management API: who may ask for what (crates/statik_server/src/api.rs). *)
(* A request is one line of JSON; a line that does not parse is the action     *)
(* "malformed".  Token and reason texts are model values.                      *)
CONSTANTS
  Tokens,         \* every token text a request may carry
  NoToken,        \* Option::None of `token`
  ConfigToken,    \* config.api.token
  Reasons,        \* disconnect message templates
  NoReason,       \* Option::None of `reason`
  DisconnectMsg   \* config.mc.disconnect_msg

ASSUME ApiAssumption ==
  /\ NoToken \notin Tokens
  /\ ConfigToken \in Tokens \union {NoToken}
  /\ NoReason \notin Reasons
  /\ DisconnectMsg \in Reasons

Actions == {"ping", "status", "shutdown", "other", "malformed"}

ApiRequest == [action : Actions,
               token  : Tokens \union {NoToken},
               reason : Reasons \union {NoReason}]

ApiResponse == {"invalid request", "unauthorized", "pong", "status", "disabled",
                "ok", "send failed", "unknown action"}

Parses(request) == request.action # "malformed"

(* Variant: a request without a token is let through.                          *)
AuthorizedIfAbsent(request) ==
  ConfigToken # NoToken /\ request.token # NoToken => request.token = ConfigToken

(* A configured token is required of every action.                             *)
Authorized(request) == ConfigToken # NoToken => request.token = ConfigToken

(* The one request that acts: it needs a configured token as well.             *)
MayShutDown(request) ==
  /\ Parses(request)
  /\ Authorized(request)
  /\ request.action = "shutdown"
  /\ ConfigToken # NoToken

(* Variant: the default message is not filled in.                              *)
ReasonAsGiven(request) == request.reason

ReasonOf(request) ==
  IF request.reason = NoReason THEN DisconnectMsg ELSE request.reason

(* The answer, given whether the broadcast channel has a receiver.             *)
dispatch(request, receivers) ==
  IF ~Parses(request) THEN "invalid request"
  ELSE IF ~Authorized(request) THEN "unauthorized"
  ELSE CASE request.action = "ping"     -> "pong"
         [] request.action = "status"   -> "status"
         [] request.action = "shutdown" ->
              IF ConfigToken = NoToken THEN "disabled"
              ELSE IF receivers THEN "ok" ELSE "send failed"
         [] request.action = "other"    -> "unknown action"
==============================================================================
