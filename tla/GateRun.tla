------------------------------ MODULE GateRun -------------------------------
(***************************************************************************)
(* A gate run as Bridge.run sees it: the contract of Bridge.run_gate and   *)
(* Gate.run.  The run waits for a card, remembers its insertion, and ends  *)
(* with a GateResult or with an exception.  GateCeremony is the detailed   *)
(* model and is shown to implement this one.                               *)
(***************************************************************************)
EXTENDS CardSlot, GateResults

CONSTANT FailReasons   \* the reasons a behaviour uses

ASSUME GateAssumption == FailReasons \subseteq AllReasons

VARIABLES
  gate,       \* "idle" | "waiting" | "running" | "done"
  seenGen,    \* generation wait_for_insertion returned
  seenIns,    \* history: the insertion it was read from, 0 before
  result      \* the GateResult; reason "raised" for an exception

gateVars == <<gate, seenGen, seenIns, result>>

GateTypeOK ==
  /\ gate \in {"idle", "waiting", "running", "done"}
  /\ seenGen \in Generations
  /\ seenIns \in Insertions
  /\ result \in GateResult

GateInit == gate = "waiting" /\ seenGen = 0 /\ seenIns = 0 /\ result = NoResult

\* Bridge.run_gate: a fresh CardLink, GateHTTP and Gate for each run.
GateBegin ==
  /\ gate' = "waiting"
  /\ seenGen' = 0
  /\ seenIns' = 0
  /\ result' = NoResult

\* wait_for_insertion returns: a card is seated now.
GateSees ==
  /\ gate = "waiting"
  /\ attached
  /\ seated
  /\ gate' = "running"
  /\ seenGen' = gen
  /\ seenIns' = ins
  /\ UNCHANGED result

Finish(r) ==
  /\ gate' = "done"
  /\ result' = r
  /\ UNCHANGED <<seenGen, seenIns>>

\* Mutant: the pass is not checked against the insertion.
GatePasses_Unchecked ==
  /\ gate = "running"
  /\ \E want \in BOOLEAN : Finish(Passed(want))

\* The last still_present of the ceremony succeeds, and run returns a pass,
\* with the TOTP label the user picked, if any.
GatePasses ==
  /\ gate = "running"
  /\ StillPresent(seenGen)
  /\ \E want \in BOOLEAN : Finish(Passed(want))

\* A failed GateResult.  Only the local reasons name the reader and the
\* generation; the server may give any reason, and then they are missing.
\* Only a 429 carries a Retry-After.
GateFails ==
  /\ gate = "running"
  /\ \E reason \in FailReasons, located \in BOOLEAN, retry \in RetryHints \cup {0} :
       /\ located => reason \in PARK_REASONS \cup {"rate_limited"}
       /\ retry # 0 => reason = "rate_limited" /\ located
       /\ Finish(Outcome(FALSE, FALSE, reason, located, retry))

\* CardLink() cannot get a context, or an exception that is not a CardError
\* escapes the ceremony.
GateRaises ==
  /\ gate \in {"waiting", "running"}
  /\ Finish(Raised)

GateNext == GateSees \/ GatePasses \/ GateFails \/ GateRaises

\* The contract on its own, with the reader: Bridge.run starts the next run
\* some time after the last one is over.
RunInit == SlotInit /\ GateInit
RunNext ==
  \/ SlotNext /\ UNCHANGED gateVars
  \/ GateNext /\ UNCHANGED slotVars
  \/ gate = "done" /\ GateBegin /\ UNCHANGED slotVars
RunSpec == RunInit /\ [][RunNext]_<<slotVars, gateVars>>
=============================================================================
