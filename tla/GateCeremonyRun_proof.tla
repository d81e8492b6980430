------------------------ MODULE GateCeremonyRun_proof ------------------------
(***************************************************************************)
(* What Bridge.run may rely on: the ceremony implements GateRun.           *)
(***************************************************************************)
EXTENDS GateCeremony_proof

----------------------------------------------------------------------------
(* Steps of the ceremony as steps of the gate run. *)

\* Inside the run: seen by Bridge.run, this is nothing.
LEMMA RunGoesOn ==
  ASSUME step \in Steps \ {"wait", "done"}, step' \in Steps \ {"wait", "done"},
         UNCHANGED <<seenGen, seenIns, result>>
  PROVE  UNCHANGED Run!gateVars
  BY DEF Steps, GateBar, Run!gateVars

\* Out of the run, with result r.
LEMMA RunFinishes ==
  ASSUME NEW r, step \in Steps \ {"wait", "done"}, Return(r),
         UNCHANGED <<seenGen, seenIns>>
  PROVE  GateBar = "running" /\ Run!Finish(r)
  BY DEF Steps, Return, GateBar, Run!Finish

\* A failed result is one that Bridge.run expects.
LEMMA RunFails ==
  ASSUME GateBar = "running",
         NEW reason \in AllReasons, NEW located \in BOOLEAN, NEW retry \in RetryHints \cup {0},
         located => reason \in PARK_REASONS \cup {"rate_limited"},
         retry # 0 => reason = "rate_limited" /\ located,
         Run!Finish(Outcome(FALSE, FALSE, reason, located, retry))
  PROVE  Run!GateFails
  BY DEF Run!GateFails, Run!Outcome, Outcome, Run!PARK_REASONS, PARK_REASONS, Run!AllReasons, AllReasons

\* The kinds of results that the code fails with.
LEMMA FailedResults ==
  ASSUME GateBar = "running"
  PROVE  /\ \A reason \in AllReasons : Run!Finish(Failed(reason)) => Run!GateFails
         /\ \A reason \in PARK_REASONS : Run!Finish(FailedAt(reason)) => Run!GateFails
         /\ \A retry \in RetryHints \cup {0} : Run!Finish(Limited(retry)) => Run!GateFails
<1>1. ASSUME NEW reason \in AllReasons, Run!Finish(Failed(reason)) PROVE Run!GateFails
  BY <1>1, RunFails DEF Failed
<1>2. ASSUME NEW reason \in PARK_REASONS, Run!Finish(FailedAt(reason)) PROVE Run!GateFails
  <2>1. reason \in AllReasons
    BY DEF AllReasons
  <2> QED
    BY <1>2, <2>1, RunFails DEF FailedAt
<1>3. ASSUME NEW retry \in RetryHints \cup {0}, Run!Finish(Limited(retry)) PROVE Run!GateFails
  <2>1. "rate_limited" \in AllReasons
    BY DEF AllReasons
  <2> QED
    BY <1>3, <2>1, RunFails DEF Limited
<1> QED
  BY <1>1, <1>2, <1>3

LEMMA RaisedResult ==
  ASSUME GateBar \in {"waiting", "running"}, Run!Finish(Raised)
  PROVE  Run!GateRaises
  BY DEF Run!GateRaises, Run!Raised, Run!Outcome, Raised, Outcome

LEMMA RunPasses ==
  ASSUME TypeOK, Confirm
  PROVE  Run!GatePasses
<1>1. GateBar = "running" /\ Run!Finish(Passed(want))
  <2>1. step \in Steps \ {"wait", "done"} /\ Return(Passed(want)) /\ UNCHANGED <<seenGen, seenIns>>
    BY DEF Confirm, Steps, runVars
  <2> QED
    BY <2>1, RunFinishes
<1>2. Run!StillPresent(seenGen)
  BY DEF Confirm, StillPresent, Run!StillPresent
<1>3. want \in BOOLEAN /\ Run!Passed(want) = Passed(want)
  BY DEF TypeOK, Run!Passed, Run!Outcome, Passed, Outcome
<1> QED
  BY <1>1, <1>2, <1>3 DEF Run!GatePasses

\* A step of the ceremony is a step of the gate run or none.
LEMMA GateStepRefines ==
  ASSUME TypeOK, GateStep
  PROVE  Run!GateNext \/ UNCHANGED Run!gateVars
<1> DEFINE Middle == Steps \ {"wait", "done"}
<1>a. ASSUME NEW r, step \in Middle, Return(r), UNCHANGED runVars
      PROVE  GateBar = "running" /\ Run!Finish(r)
  BY <1>a, RunFinishes DEF runVars
<1>b. ASSUME step \in Middle, step' \in Middle, UNCHANGED <<runVars, result>>
      PROVE  UNCHANGED Run!gateVars
  BY <1>b, RunGoesOn DEF runVars
<1>1. CASE Confirm
  BY <1>1, RunPasses DEF Run!GateNext
<1>2. CASE NothingToAsk \/ OpenSession \/ SelectPiv \/ PinRight \/ PinWrong \/ ReadCert
           \/ ChallengeAnswered \/ ChallengeRetried \/ Sign \/ VerdictPass \/ VerdictNonce
           \/ Recheck \/ Reset
  <2>1. step \in Middle /\ step' \in Middle /\ UNCHANGED <<runVars, result>>
    BY <1>2 DEF NothingToAsk, OpenSession, SelectPiv, PinRight, PinWrong, ReadCert,
       ChallengeAnswered, ChallengeRetried, Sign, VerdictPass, VerdictNonce, Submitting, Recheck,
       Reset, GoTo, Steps
  <2> QED
    BY <1>b, <2>1
<1>3. CASE AskUser \/ AnswerFromMemo
  <2>1. /\ step = "arbiter" /\ UNCHANGED <<seenGen, seenIns>>
        /\ \/ Return(FailedAt("user_ssh"))
           \/ Return(FailedAt("user_dismissed"))
           \/ step' = "open" /\ UNCHANGED result
    BY <1>3 DEF AskUser, AnswerFromMemo, Follow, GoTo
  <2>2. CASE step' = "open" /\ UNCHANGED result
    BY <2>1, <2>2, RunGoesOn DEF Steps
  <2>3. ASSUME NEW reason \in PARK_REASONS, Return(FailedAt(reason))
        PROVE  Run!GateNext
    <3>1. GateBar = "running" /\ Run!Finish(FailedAt(reason))
      BY <2>1, <2>3, RunFinishes DEF Steps
    <3> QED
      BY <3>1, FailedResults DEF Run!GateNext
  <2>4. "user_ssh" \in PARK_REASONS /\ "user_dismissed" \in PARK_REASONS
    BY DEF PARK_REASONS
  <2> QED
    BY <2>1, <2>2, <2>3, <2>4
<1>4. CASE AskRaises \/ TransmitRaises
  <2>1. step \in Middle /\ Return(Raised) /\ UNCHANGED runVars
    BY <1>4 DEF AskRaises, TransmitRaises, GatingReturns, Steps
  <2> QED
    BY <1>a, <2>1, RaisedResult DEF Run!GateNext
<1>5. CASE SelectRefused \/ PinBlocked \/ CertMissing
  <2>1. /\ step \in Middle /\ UNCHANGED runVars
        /\ \E r \in {FailedAt("no_piv_applet"), FailedAt("pin_blocked"),
                     FailedAt("no_gate_cert"), Failed("card_error")} : Return(r)
    BY <1>5 DEF SelectRefused, PinBlocked, CertMissing, GatingReturns, Steps
  <2>2. /\ {"no_piv_applet", "pin_blocked", "no_gate_cert"} \subseteq PARK_REASONS
        /\ "card_error" \in AllReasons
    BY DEF PARK_REASONS, AllReasons
  <2> QED
    BY <1>a, <2>1, <2>2, FailedResults DEF Run!GateNext
<1>6. CASE OpenFails \/ BeginFails \/ PinGivenUp \/ ChallengeFails \/ VerifyLost
           \/ VerdictFail \/ CardGone
  <2>1. /\ step \in Middle /\ UNCHANGED runVars
        /\ Return(Raised) \/ \E reason \in AllReasons : Return(Failed(reason))
    BY <1>6, LocalReasons, CeremonyAssumption
       DEF OpenFails, BeginFails, PinGivenUp, ChallengeFails, VerifyLost, VerdictFail,
           Submitting, CardGone, GatingReturns, NetworkFails, Steps
  <2> QED
    BY <1>a, <2>1, FailedResults, RaisedResult DEF Run!GateNext
<1>7. CASE RateLimited
  <2>1. /\ step \in Middle /\ UNCHANGED runVars
        /\ \E retry \in RetryHints \cup {0} : Return(Limited(retry))
    BY <1>7 DEF RateLimited, NetworkFails, Steps
  <2> QED
    BY <1>a, <2>1, FailedResults DEF Run!GateNext
<1>8. CASE SignStale
  <2>1. /\ step = "sign" /\ UNCHANGED <<seenGen, seenIns>>
        /\ \/ Return(Failed("card_error"))
           \/ step' = "open" /\ UNCHANGED result
    BY <1>8 DEF SignStale, GoTo
  <2>2. CASE step' = "open" /\ UNCHANGED result
    BY <2>1, <2>2, RunGoesOn DEF Steps
  <2>3. CASE Return(Failed("card_error"))
    <3>1. GateBar = "running" /\ Run!Finish(Failed("card_error"))
      BY <2>1, <2>3, RunFinishes DEF Steps
    <3> QED
      BY <3>1, LocalReasons, FailedResults DEF Run!GateNext
  <2> QED
    BY <2>1, <2>2, <2>3
<1> QED
  BY <1>1, <1>2, <1>3, <1>4, <1>5, <1>6, <1>7, <1>8 DEF GateStep

----------------------------------------------------------------------------
(* The refinement. *)

LEMMA SlotSteps ==
  /\ Run!SlotInit <=> SlotInit
  /\ Run!SlotNext <=> SlotNext
  /\ UNCHANGED Run!slotVars <=> UNCHANGED slotVars
<1>1. Run!SlotInit <=> SlotInit
  BY DEF Run!SlotInit, SlotInit
<1>2. Run!Insert <=> Insert
  BY DEF Run!Insert, Insert, Run!Bump, Bump
<1>3. Run!Remove <=> Remove
  BY DEF Run!Remove, Remove
<1>4. (Run!Lift <=> Lift) /\ (Run!Unplug <=> Unplug) /\ (Run!Replug <=> Replug)
  BY DEF Run!Lift, Lift, Run!Unplug, Unplug, Run!Replug, Replug
<1>5. UNCHANGED Run!slotVars <=> UNCHANGED slotVars
  BY DEF Run!slotVars, slotVars
<1> QED
  BY <1>1, <1>2, <1>3, <1>4, <1>5 DEF Run!SlotNext, SlotNext

LEMMA RunStarts ==
  ASSUME Init
  PROVE  Run!RunInit
  BY SlotSteps DEF Init, RunVarsInit, Run!RunInit, Run!GateInit, GateBar,
     NoResult, Outcome, Run!NoResult, Run!Outcome

LEMMA StepRefines ==
  ASSUME TypeOK, [Next]_vars
  PROVE  Run!RunNext \/ UNCHANGED <<Run!slotVars, Run!gateVars>>
<1>1. CASE CardMoves
  <2>1. UNCHANGED Run!gateVars
    BY <1>1 DEF CardMoves, runVars, GateBar, Run!gateVars
  <2> QED
    BY <1>1, <2>1, SlotSteps DEF CardMoves, Run!RunNext
<1>2. CASE WaitForInsertion
  <2>1. Run!GateSees
    BY <1>2 DEF WaitForInsertion, GoTo, GateBar, Run!GateSees
  <2> QED
    BY <1>2, <2>1, SlotSteps DEF WaitForInsertion, Run!GateNext, Run!RunNext
<1>3. CASE SetupRaises
  <2>1. GateBar = "waiting" /\ Run!Finish(Raised)
    BY <1>3 DEF SetupRaises, Return, runVars, GateBar, Run!Finish
  <2>2. Run!GateRaises
    BY <2>1, RaisedResult
  <2> QED
    BY <1>3, <2>2, SlotSteps DEF SetupRaises, Run!GateNext, Run!RunNext
<1>4. CASE GateStep
  <2>1. UNCHANGED slotVars
    BY <1>4, GateFrame
  <2> QED
    BY <1>4, <2>1, GateStepRefines, SlotSteps DEF Run!RunNext
<1>5. CASE NextRun
  <2>1. GateBar = "done" /\ Run!GateBegin
    BY <1>5 DEF NextRun, GateBar, Run!GateBegin, NoResult, Outcome, Run!NoResult, Run!Outcome
  <2> QED
    BY <1>5, <2>1, SlotSteps DEF NextRun, Run!RunNext
<1>6. CASE Collect \/ UNCHANGED vars
  BY <1>6 DEF Collect, vars, slotVars, runVars, Run!slotVars, Run!gateVars, GateBar
<1> QED
  BY <1>1, <1>2, <1>3, <1>4, <1>5, <1>6 DEF Next

\* Every gate run is one that Bridge.run is written for: it passes only for the
\* generation that is seated, and names the reader only with the reasons that
\* park or limit.
THEOREM GateRunImplemented == Spec => ImplementsGateRun
<1>1. Init => Run!RunInit
  BY RunStarts
<1>2. TypeOK /\ [Next]_vars => [Run!RunNext]_<<Run!slotVars, Run!gateVars>>
  BY StepRefines
<1> QED
  BY <1>1, <1>2, TypeCorrect, PTL DEF Spec, ImplementsGateRun, Run!RunSpec

=============================================================================
