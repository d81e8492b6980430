---------------------------- MODULE GateResults -----------------------------
(***************************************************************************)
(* GateResult, the value a gate run ends with.  An exception that escapes  *)
(* the run is a result too, with the reason "raised".                      *)
(***************************************************************************)
EXTENDS Integers

CONSTANT RetryHints   \* Retry-After values of a 429; 0 is also "no hint"

ASSUME HintAssumption == RetryHints \subseteq Int

\* Reasons Bridge.run parks on.
PARK_REASONS == {"no_piv_applet", "no_gate_cert", "pin_blocked",
                 "user_ssh", "user_dismissed"}

\* "refused" stands for every verdict of the server that Bridge.run has no
\* case for.
AllReasons == PARK_REASONS \cup
  {"rate_limited", "card_error", "server_unreachable", "card_removed",
   "pin_verify_failed", "refused"}

\* `located': the reader and the generation are in the result.
GateResult == [passed : BOOLEAN, want : BOOLEAN, located : BOOLEAN,
               reason : AllReasons \cup {"none", "raised"},
               retry : RetryHints \cup {0}]

Outcome(passed, want, reason, located, retry) ==
  [passed |-> passed, want |-> want, reason |-> reason,
   located |-> located, retry |-> retry]

NoResult          == Outcome(FALSE, FALSE, "none", FALSE, 0)
Raised            == Outcome(FALSE, FALSE, "raised", FALSE, 0)
Passed(want)      == Outcome(TRUE, want, "none", FALSE, 0)
Failed(reason)    == Outcome(FALSE, FALSE, reason, FALSE, 0)
FailedAt(reason)  == Outcome(FALSE, FALSE, reason, TRUE, 0)
Limited(retry)    == Outcome(FALSE, FALSE, "rate_limited", TRUE, retry)
=============================================================================
