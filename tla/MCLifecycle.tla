----------------------------- MODULE MCLifecycle -----------------------------
(* Small instances of Lifecycle for TLC.                                       *)
EXTENDS Lifecycle

CONSTANTS h1, h2, a1, a2, good, bad, none, default, custom, noReason

MCHandlers == {h1, h2}
MCApiTasks == {a1, a2}
MCTokens == {good, bad}
MCReasons == {default, custom}

(* One request of every kind the dispatcher tells apart.                       *)
Req(act, tok, why) == [action |-> act, token |-> tok, reason |-> why]
MCRequests ==
  {Req("malformed", none, noReason), Req("ping", none, noReason),
   Req("status", good, noReason), Req("other", good, noReason),
   Req("shutdown", none, custom), Req("shutdown", bad, custom),
   Req("shutdown", good, custom), Req("shutdown", good, noReason)}
==============================================================================
