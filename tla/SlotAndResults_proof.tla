------------------------ MODULE SlotAndResults_proof ------------------------
(* Lemmas about the reader and the gate results that both proofs rest on.   *)
EXTENDS CardSlot, GateResults, TLAPS

LEMMA SlotType ==
  ASSUME SlotTypeOK, SlotNext
  PROVE  SlotTypeOK'
<1>1. CASE Insert
  <2>1. Bump(gen) \in Generations
    BY SlotAssumption DEF SlotTypeOK, Bump, Generations
  <2>2. ins + 1 \in Insertions
    BY <1>1, SlotAssumption DEF Insert, SlotTypeOK, Insertions
  <2> QED
    BY <1>1, <2>1, <2>2 DEF Insert, SlotTypeOK
<1>2. CASE Remove \/ Lift \/ Unplug
  BY <1>2 DEF Remove, Lift, Unplug, SlotTypeOK
<1>3. CASE Replug
  BY <1>3, SlotAssumption DEF Replug, SlotTypeOK, Generations
<1> QED
  BY <1>1, <1>2, <1>3 DEF SlotNext

LEMMA SlotInitType == SlotInit => SlotTypeOK
<1> SUFFICES ASSUME SlotInit PROVE SlotTypeOK
  OBVIOUS
<1>1. attached \in BOOLEAN /\ seated \in BOOLEAN /\ lifted \in BOOLEAN
  BY DEF SlotInit
<1>2. gen \in Generations
  BY SlotAssumption DEF SlotInit, Generations
<1>3. ins \in Insertions
  BY SlotAssumption DEF SlotInit, Insertions
<1> QED
  BY <1>1, <1>2, <1>3 DEF SlotTypeOK

LEMMA OutcomeType ==
  ASSUME NEW passed \in BOOLEAN, NEW wants \in BOOLEAN,
         NEW reason \in AllReasons \cup {"none", "raised"},
         NEW located \in BOOLEAN, NEW retry \in RetryHints \cup {0}
  PROVE  Outcome(passed, wants, reason, located, retry) \in GateResult
  BY DEF Outcome, GateResult

LEMMA OutcomeFields ==
  ASSUME NEW passed, NEW wants, NEW reason, NEW located, NEW retry
  PROVE  /\ Outcome(passed, wants, reason, located, retry).passed = passed
         /\ Outcome(passed, wants, reason, located, retry).want = wants
         /\ Outcome(passed, wants, reason, located, retry).reason = reason
         /\ Outcome(passed, wants, reason, located, retry).located = located
         /\ Outcome(passed, wants, reason, located, retry).retry = retry
  BY DEF Outcome

\* The results that the code makes are results.
LEMMA ResultTypes ==
  /\ NoResult \in GateResult /\ Raised \in GateResult
  /\ \A wants \in BOOLEAN : Passed(wants) \in GateResult
  /\ \A reason \in AllReasons : Failed(reason) \in GateResult /\ FailedAt(reason) \in GateResult
  /\ \A retry \in RetryHints \cup {0} : Limited(retry) \in GateResult
<1>1. NoResult \in GateResult /\ Raised \in GateResult
  BY OutcomeType DEF NoResult, Raised
<1>2. ASSUME NEW wants \in BOOLEAN PROVE Passed(wants) \in GateResult
  BY OutcomeType DEF Passed
<1>3. ASSUME NEW reason \in AllReasons
      PROVE  Failed(reason) \in GateResult /\ FailedAt(reason) \in GateResult
  BY OutcomeType DEF Failed, FailedAt
<1>4. ASSUME NEW retry \in RetryHints \cup {0} PROVE Limited(retry) \in GateResult
  <2>1. "rate_limited" \in AllReasons
    BY DEF AllReasons
  <2> QED
    BY <2>1, OutcomeType DEF Limited
<1> QED
  BY <1>1, <1>2, <1>3, <1>4

\* Only Passed makes a pass.
LEMMA NotPassed ==
  /\ ~NoResult.passed /\ ~Raised.passed
  /\ \A reason : ~Failed(reason).passed /\ ~FailedAt(reason).passed
  /\ \A retry : ~Limited(retry).passed
<1>1. ~NoResult.passed /\ ~Raised.passed
  BY OutcomeFields DEF NoResult, Raised
<1>2. ASSUME NEW reason PROVE ~Failed(reason).passed /\ ~FailedAt(reason).passed
  BY OutcomeFields DEF Failed, FailedAt
<1>3. ASSUME NEW retry PROVE ~Limited(retry).passed
  BY OutcomeFields DEF Limited
<1> QED
  BY <1>1, <1>2, <1>3
=============================================================================
