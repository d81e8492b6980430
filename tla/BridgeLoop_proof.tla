-------------------------- MODULE BridgeLoop_proof --------------------------
(***************************************************************************)
(* Theorems about BridgeLoop, for every number of sessions, insertions and *)
(* counter values.  TLC checks the same invariants on small instances.     *)
(***************************************************************************)
EXTENDS BridgeLoop, SlotAndResults_proof

----------------------------------------------------------------------------
(* The monitors. *)

LEMMA UnusedType == Unused \in LiveSession
  BY SlotAssumption DEF Unused, LiveSession, Generations

LEMMA StartedType ==
  ASSUME NEW g \in Generations
  PROVE  Started(g) \in LiveSession
  BY DEF Started, LiveSession

\* What the test of a teardown, its assignment, and a thread that leaves its loop
\* make of an object.
LEMMA TeardownTests ==
  ASSUME NEW x, NEW c
  PROVE  /\ x.cause = "none" => Teardown(x, c) = c
         /\ x.cause # "none" => Teardown(x, c) = "done"
  BY DEF Teardown

LEMMA CausedType ==
  ASSUME NEW x \in LiveSession, NEW c \in Causes
  PROVE  /\ Caused(x, c) \in LiveSession
         /\ Caused(x, c).cause = c /\ c # "none"
         /\ Caused(x, c).held = x.held /\ Caused(x, c).bound = x.bound
         /\ Caused(x, c).presence = x.presence /\ Caused(x, c).timer = x.timer
  BY DEF Caused, LiveSession, Causes

LEMMA PresenceLeavesType ==
  ASSUME NEW x \in LiveSession, NEW place \in PresenceCauses \cup {"done"}
  PROVE  /\ PresenceLeaves(x, place) \in LiveSession
         /\ PresenceLeaves(x, place).presence = place
         /\ PresenceLeaves(x, place).cause = x.cause
         /\ PresenceLeaves(x, place).held = x.held
         /\ PresenceLeaves(x, place).bound = x.bound
         /\ PresenceLeaves(x, place).timer = x.timer
<1>1. 0 \in 0 .. 1
  OBVIOUS
<1> QED
  BY <1>1 DEF PresenceLeaves, LiveSession

LEMMA PlacesOfCauses ==
  /\ PresenceCauses \subseteq Causes /\ TimerCauses \subseteq Causes
  /\ "removed" \in PresenceCauses
  /\ {"wait", "check", "probe", "done"} \cap PresenceCauses = {}
  /\ {"wait", "check", "done"} \cap TimerCauses = {}
  BY DEF PresenceCauses, TimerCauses, Causes

\* No caller of teardown is past its test, nor will one be: the cause is set.
Quiet(x) ==
  /\ x.cause # "none"
  /\ x.timer = "done"
  /\ x.presence \notin PresenceCauses

\* x is what a thread may make of the object y.
Advances(y, x) ==
  /\ x \in LiveSession
  /\ x.held = y.held
  /\ y.cause # "none" => x.cause # "none"
  /\ Quiet(y) => Quiet(x) /\ x.cause = y.cause

\* The presence thread calls teardown.
LEMMA LeavesAdvances ==
  ASSUME NEW x \in LiveSession, NEW c \in PresenceCauses
  PROVE  /\ PresenceLeaves(x, Teardown(x, c)) \in LiveSession
         /\ Advances(x, PresenceLeaves(x, Teardown(x, c)))
<1>1. Teardown(x, c) \in PresenceCauses \cup {"done"}
  BY TeardownTests
<1> QED
  BY <1>1, PresenceLeavesType, TeardownTests, PlacesOfCauses DEF Advances, Quiet

LEMMA CountedAdvances ==
  ASSUME NEW x \in LiveSession, NEW alive \in BOOLEAN
  PROVE  Advances(x, Counted(x, alive))
<1>1. CASE ~alive /\ x.failures + 1 >= 2
  BY <1>1, LeavesAdvances, PlacesOfCauses DEF Counted
<1>2. CASE ~(~alive /\ x.failures + 1 >= 2)
  <2> DEFINE n == IF alive THEN 0 ELSE x.failures + 1
  <2>1. n \in 0 .. 1
    BY <1>2 DEF LiveSession
  <2>2. Counted(x, alive) = [x EXCEPT !.presence = "wait", !.failures = n]
    BY <1>2 DEF Counted
  <2> HIDE DEF n
  <2> QED
    BY <2>1, <2>2, PlacesOfCauses DEF Advances, Quiet, LiveSession
<1> QED
  BY <1>1, <1>2

\* Every step of a monitor is taken on an object in use, and leaves the holder
\* alone, and the cause too once nobody is about to set one.
LEMMA MonitorStepAdvances ==
  ASSUME MonitorTypeOK,
         NEW s \in Sessions,
         MonitorStep(s)
  PROVE  /\ sess[s] # Unused
         /\ \E x : Becomes(s, x) /\ Advances(sess[s], x)
<1> DEFINE y == sess[s]
<1>0. y \in LiveSession
  BY DEF MonitorTypeOK
<1>a. Unused.presence = "done" /\ Unused.timer = "done" /\ Unused.worker = "idle"
  BY DEF Unused
<1>1. CASE PresenceWakes(s)
  <2>1. Advances(y, [y EXCEPT !.presence = "check"])
    BY <1>0, PlacesOfCauses DEF Advances, Quiet, LiveSession
  <2>2. Advances(y, PresenceDone(y))
    BY <1>0, PresenceLeavesType, PlacesOfCauses DEF PresenceDone, Advances, Quiet
  <2> QED
    BY <1>1, <2>1, <2>2, <1>a DEF PresenceWakes
<1>2. CASE PresenceConfirmed(s)
  <2>1. Advances(y, [y EXCEPT !.even = ~@,
                              !.presence = IF y.even THEN "probe" ELSE "wait",
                              !.worker = IF y.even /\ @ = "idle" THEN "busy" ELSE @])
    BY <1>0, PlacesOfCauses DEF Advances, Quiet, LiveSession
  <2> QED
    BY <1>2, <2>1, <1>a DEF PresenceConfirmed
<1>3. CASE PresenceLost(s)
  <2>1. PICK c \in PresenceCauses : Becomes(s, PresenceLeaves(y, Teardown(y, c)))
    BY <1>3 DEF PresenceLost
  <2> QED
    BY <1>0, <1>3, <2>1, <1>a, LeavesAdvances DEF PresenceLost
<1>4. CASE ProbeReturns(s)
  <2>1. PICK alive \in BOOLEAN : Becomes(s, Counted([y EXCEPT !.worker = "idle"], alive))
    BY <1>4 DEF ProbeReturns
  <2>2. Advances(y, [y EXCEPT !.worker = "idle"])
    BY <1>0 DEF Advances, Quiet, LiveSession
  <2>3. Advances(y, Counted([y EXCEPT !.worker = "idle"], alive))
    BY <2>2, CountedAdvances DEF Advances
  <2> QED
    BY <1>4, <2>1, <2>3, <1>a DEF ProbeReturns
<1>5. CASE ProbeTimesOut(s)
  <2>2. Advances(y, [y EXCEPT !.worker = "stuck"])
    BY <1>0 DEF Advances, Quiet, LiveSession
  <2>3. Advances(y, Counted([y EXCEPT !.worker = "stuck"], FALSE))
    BY <2>2, CountedAdvances DEF Advances
  <2>4. Becomes(s, Counted([y EXCEPT !.worker = "stuck"], FALSE))
    BY <1>5, Zenon DEF ProbeTimesOut
  <2>5. y # Unused
    BY <1>5, <1>a DEF ProbeTimesOut
  <2> QED
    BY <2>3, <2>4, <2>5, Zenon
<1>6. CASE WorkerReturns(s)
  <2>1. Advances(y, [y EXCEPT !.worker = IF y.presence = "probe" THEN "busy" ELSE "idle"])
    BY <1>0 DEF Advances, Quiet, LiveSession
  <2> QED
    BY <1>6, <2>1, <1>a DEF WorkerReturns
<1>7. CASE TimerWakes(s)
  <2>1. Advances(y, [y EXCEPT !.timer = IF y.cause = "none" THEN "check" ELSE "done"])
    BY <1>0 DEF Advances, Quiet, LiveSession
  <2> QED
    BY <1>7, <2>1, <1>a DEF TimerWakes
<1>8. CASE TimerWaits(s)
  <2>1. y.timer = "check" /\ Advances(y, [y EXCEPT !.timer = "wait"])
    BY <1>0, <1>8 DEF TimerWaits, Advances, Quiet, LiveSession
  <2> QED
    BY <1>8, <2>1, <1>a DEF TimerWaits
<1>9. CASE TimerExpires(s)
  <2>1. PICK c \in TimerCauses : Becomes(s, [y EXCEPT !.timer = Teardown(y, c)])
    BY <1>9 DEF TimerExpires
  <2>2. y.timer = "check" /\ Teardown(y, c) \in TimerCauses \cup {"done"}
    BY <1>9, TeardownTests DEF TimerExpires
  <2>3. Advances(y, [y EXCEPT !.timer = Teardown(y, c)])
    BY <1>0, <2>2 DEF Advances, Quiet, LiveSession
  <2> QED
    BY <2>1, <2>2, <2>3, <1>a
<1>10. CASE PresenceSets(s)
  <2>1. y.presence \in PresenceCauses /\ Becomes(s, PresenceDone(Caused(y, y.presence)))
    BY <1>10 DEF PresenceSets
  <2>2. /\ Caused(y, y.presence) \in LiveSession
        /\ Caused(y, y.presence).cause # "none"
        /\ Caused(y, y.presence).held = y.held
    BY <1>0, <2>1, CausedType, PlacesOfCauses
  <2>3. Advances(y, PresenceDone(Caused(y, y.presence)))
    BY <2>1, <2>2, PresenceLeavesType DEF PresenceDone, Advances, Quiet
  <2> QED
    BY <2>1, <2>3, <1>a, PlacesOfCauses
<1>11. CASE TimerSets(s)
  <2>1. y.timer \in TimerCauses /\ Becomes(s, [Caused(y, y.timer) EXCEPT !.timer = "done"])
    BY <1>11 DEF TimerSets
  <2> DEFINE z == Caused(y, y.timer)
  <2>2. z \in LiveSession /\ z.cause # "none" /\ z.held = y.held
    BY <1>0, <2>1, CausedType, PlacesOfCauses
  <2> HIDE DEF z
  <2>3. y.timer # "done" /\ Advances(y, [z EXCEPT !.timer = "done"])
    BY <2>1, <2>2, PlacesOfCauses DEF Advances, Quiet, LiveSession
  <2> QED
    BY <2>1, <2>3, <1>a DEF z
<1> QED
  BY <1>1, <1>2, <1>3, <1>4, <1>5, <1>6, <1>7, <1>8, <1>9, <1>10, <1>11
     DEF MonitorStep, PresenceStep, TimerStep
----------------------------------------------------------------------------
(* The parts of a state that an action of the environment, of the gate      *)
(* thread or of a monitor thread changes keep their types.                  *)

LEMMA GateType ==
  ASSUME SlotTypeOK, GateTypeOK, GateNext
  PROVE  GateTypeOK'
<1>1. CASE GateSees
  BY <1>1 DEF GateSees, GateTypeOK, SlotTypeOK
<1>2. CASE GatePasses
  BY <1>2, ResultTypes DEF GatePasses, Finish, GateTypeOK
<1>3. CASE GateFails
  <2>1. PICK reason \in FailReasons, located \in BOOLEAN, retry \in RetryHints \cup {0} :
          Finish(Outcome(FALSE, FALSE, reason, located, retry))
    BY <1>3 DEF GateFails
  <2>2. Outcome(FALSE, FALSE, reason, located, retry) \in GateResult
    BY OutcomeType, GateAssumption
  <2> QED
    BY <2>1, <2>2 DEF Finish, GateTypeOK
<1>4. CASE GateRaises
  BY <1>4, ResultTypes DEF GateRaises, Finish, GateTypeOK
<1> QED
  BY <1>1, <1>2, <1>3, <1>4 DEF GateNext

LEMMA GateBeginType ==
  ASSUME GateBegin
  PROVE  GateTypeOK'
  BY ResultTypes, SlotAssumption DEF GateBegin, GateTypeOK, Generations, Insertions

LEMMA BecomesType ==
  ASSUME MonitorTypeOK, NEW s \in Sessions, NEW x \in LiveSession, Becomes(s, x)
  PROVE  MonitorTypeOK'
  BY UnusedType DEF Becomes, MonitorTypeOK

\* The loop lets go of the object it holds.
LEMMA DroppedType ==
  ASSUME MonitorTypeOK, Becomes(session, [sess[session] EXCEPT !.held = FALSE])
  PROVE  MonitorTypeOK'
<1>1. CASE session \in Sessions
  <2>1. [sess[session] EXCEPT !.held = FALSE] \in LiveSession
    BY <1>1 DEF MonitorTypeOK, LiveSession
  <2> QED
    BY <1>1, <2>1, BecomesType
<1>2. CASE session \notin Sessions
  BY <1>2 DEF Becomes, MonitorTypeOK
<1> QED
  BY <1>1, <1>2

----------------------------------------------------------------------------
(* Type correctness. *)

LEMMA RateDelayRange ==
  ASSUME NEW retry \in Int
  PROVE  RateDelay(retry) \in 30 .. 300
  BY DEF RateDelay

LEMMA EscalatedRange ==
  ASSUME backoff \in MIN_BACKOFF .. MAX_BACKOFF
  PROVE  /\ Escalated \in MIN_BACKOFF .. MAX_BACKOFF
         /\ backoff <= Escalated
  BY BackoffAssumption DEF Escalated, MIN_BACKOFF

LEMMA HandledType ==
  ASSUME SlotTypeOK, GateTypeOK, NEW how \in {"none", "parked", "served"}
  PROVE  /\ [ins |-> seenIns, how |-> how] \in
              [ins : Insertions, how : {"none", "parked", "served"}]
         /\ Nothing \in [ins : Insertions, how : {"none", "parked", "served"}]
  BY SlotAssumption DEF GateTypeOK, Nothing, Insertions

LEMMA InitType == Init => TypeOK
<1> SUFFICES ASSUME Init PROVE TypeOK
  OBVIOUS
<1>1. SlotTypeOK
  BY SlotInitType DEF Init
<1>2. GateTypeOK
  BY ResultTypes, SlotAssumption DEF Init, GateInit, GateTypeOK, Generations, Insertions
<1>3. MonitorTypeOK
  BY UnusedType DEF Init, MonitorInit, MonitorTypeOK
<1>4. LoopTypeOK
  <2>1. pc \in Places /\ dev \in {NoSession} /\ session \in {NoSession}
    BY DEF Init, Places
  <2>2. backoff \in MIN_BACKOFF .. MAX_BACKOFF /\ delay \in 0 .. 300 /\ absent \in 0 .. 1
    BY BackoffAssumption DEF Init, MIN_BACKOFF
  <2>3. pending \in BOOLEAN /\ signalExit \in BOOLEAN /\ handling \in BOOLEAN
    BY DEF Init
  <2>4. handled \in [ins : Insertions, how : {"none", "parked", "served"}]
    BY <1>1, <1>2, HandledType DEF Init
  <2> QED
    BY <2>1, <2>2, <2>3, <2>4 DEF LoopTypeOK
<1> QED
  BY <1>1, <1>2, <1>3, <1>4 DEF TypeOK

LEMMA LoopStepType ==
  ASSUME TypeOK, LoopStep \/ LoopFails
  PROVE  TypeOK'
<1> USE DEF TypeOK, signalVars
<1>a. ASSUME UNCHANGED slotVars PROVE SlotTypeOK'
  BY <1>a DEF slotVars, SlotTypeOK
<1>b. ASSUME UNCHANGED gateVars PROVE GateTypeOK'
  BY <1>b DEF gateVars, GateTypeOK
<1>c. ASSUME UNCHANGED sess PROVE MonitorTypeOK'
  BY <1>c DEF MonitorTypeOK
<1>d. MIN_BACKOFF \in MIN_BACKOFF .. MAX_BACKOFF /\ MIN_BACKOFF .. MAX_BACKOFF \subseteq 0 .. 300
  BY BackoffAssumption DEF MIN_BACKOFF
<1>1. CASE RateLimited
  <2>1. result.retry \in Int
    <3>1. result.retry \in RetryHints \cup {0}
      BY DEF GateTypeOK, GateResult
    <3>2. RetryHints \cup {0} \subseteq Int
      BY HintAssumption
    <3> QED
      BY <3>1, <3>2, Zenon
  <2>2. RateDelay(result.retry) \in 0 .. 300
    BY <2>1, RateDelayRange
  <2>3. delay' \in 0 .. 300
    BY <1>1, <2>2 DEF RateLimited, Sleep
  <2>4. /\ pc' \in Places
        /\ UNCHANGED <<slotVars, gateVars, sess>>
        /\ UNCHANGED <<dev, session, backoff, absent, signalVars, handled>>
    BY <1>1 DEF RateLimited, Sleep, Places
  <2> QED
    BY <1>a, <1>b, <1>c, <2>3, <2>4 DEF LoopTypeOK
<1>2. CASE GateRefused
  BY <1>2, <1>a, <1>b, <1>c, <1>d DEF GateRefused, Sleep, LoopTypeOK, Places
<1>3. CASE Wake
  BY <1>3, <1>a, <1>c, <1>d, GateBeginType, EscalatedRange DEF Wake, LoopTypeOK, Places
<1>4. CASE Park
  BY <1>4, <1>a, <1>b, <1>c, HandledType DEF Park, LoopTypeOK, Places
<1>5. CASE HandoffDone
  BY <1>5, <1>a, <1>b, <1>c DEF HandoffDone, LoopTypeOK, Places
<1>6. CASE TotpPassed
  BY <1>6, <1>a, <1>b, <1>c, <1>d DEF TotpPassed, LoopTypeOK, Places
<1>7. CASE TotpAnswered
  BY <1>7, <1>a, <1>b, <1>c, HandledType DEF TotpAnswered, LoopTypeOK, Places
<1>8. ASSUME Unpark, UNCHANGED handled \/ handled' = Nothing PROVE TypeOK'
  <2>1. GateTypeOK'
    BY <1>8, <1>b, GateBeginType DEF Unpark
  <2> QED
    BY <1>8, <1>a, <1>c, <2>1, HandledType DEF Unpark, LoopTypeOK, Places
<1>9. CASE ParkPollWakes
  BY <1>8, <1>9 DEF ParkPollWakes
<1>10. CASE ParkPollStays
  BY <1>10, <1>a, <1>b, <1>c DEF ParkPollStays, LoopTypeOK, Places
<1>11. CASE ParkPollAbsent \/ ParkListFails
  <2>1. /\ Parked /\ PollMisses
        /\ handled' \in [ins : Insertions, how : {"none", "parked", "served"}]
        /\ UNCHANGED handled \/ handled' = Nothing
    BY <1>11, HandledType DEF ParkPollAbsent, ParkListFails, LoopTypeOK
  <2>2. CASE absent + 1 >= 2
    BY <1>8, <2>1, <2>2 DEF PollMisses
  <2>3. CASE ~(absent + 1 >= 2)
    BY <1>a, <1>b, <1>c, <2>1, <2>3 DEF PollMisses, LoopTypeOK
  <2> QED
    BY <2>2, <2>3
<1>12. CASE ParkWaitFails
  BY <1>8, <1>12 DEF ParkWaitFails
<1>13. CASE GatePassed
  BY <1>13, <1>a, <1>b, <1>c, <1>d DEF GatePassed, LoopTypeOK, Places
<1>14. CASE StartFails
  BY <1>14, <1>a, <1>b, <1>c DEF StartFails, LoopTypeOK, Places
<1>15. CASE GoLive
  <2>1. Started(seenGen) \in LiveSession
    BY StartedType DEF GateTypeOK
  <2>2. MonitorTypeOK'
    BY <1>15, <2>1 DEF GoLive, MonitorTypeOK
  <2> QED
    BY <1>15, <1>a, <1>b, <2>2 DEF GoLive, LoopTypeOK, Places
<1>16. CASE CauseSeen
  BY <1>16, <1>a, <1>b, <1>c DEF CauseSeen, LoopTypeOK, Places
<1>18. CASE ProcessEnds
  BY <1>18, <1>a, <1>b, <1>c DEF ProcessEnds, LoopTypeOK, Places
<1>17. CASE EndSession
  <2>1. MonitorTypeOK'
    BY <1>17, DroppedType DEF EndSession, DropSession
  <2>2. GateTypeOK'
    BY <1>17, <1>b, GateBeginType DEF EndSession, GateAgainOrExit
  <2>3. handled' \in [ins : Insertions, how : {"none", "parked", "served"}]
    BY <1>17, HandledType DEF EndSession, DropSession
  <2> QED
    BY <1>17, <1>a, <2>1, <2>2, <2>3
       DEF EndSession, DropSession, GateAgainOrExit, LoopTypeOK, Places
<1> QED
  BY <1>1, <1>2, <1>3, <1>4, <1>5, <1>6, <1>7, <1>9, <1>10, <1>11, <1>12, <1>13,
     <1>14, <1>15, <1>16, <1>17, <1>18
     DEF LoopStep, LoopFails

LEMMA SignalType ==
  ASSUME TypeOK, SendSignal \/ OnSignal \/ OnSignalSets
  PROVE  TypeOK'
<1> USE DEF TypeOK
<1>1. CASE SendSignal
  BY <1>1 DEF SendSignal, slotVars, gateVars, SlotTypeOK, GateTypeOK, MonitorTypeOK,
              LoopTypeOK
<1>2. CASE OnSignal
  <2>1. SlotTypeOK' /\ GateTypeOK' /\ MonitorTypeOK'
    BY <1>2 DEF OnSignal, slotVars, gateVars, SlotTypeOK, GateTypeOK, MonitorTypeOK
  <2>2. LoopTypeOK'
    BY <1>2 DEF OnSignal, LoopTypeOK, Places
  <2> QED
    BY <2>1, <2>2
<1>3. CASE OnSignalSets
  <2>1. ASSUME session \in Sessions PROVE MonitorTypeOK'
    <3>1. Caused(sess[session], "sigterm") \in LiveSession
      BY <2>1, CausedType DEF MonitorTypeOK, Causes
    <3> QED
      BY <1>3, <2>1, <3>1, BecomesType DEF OnSignalSets
  <2>2. ASSUME session \notin Sessions PROVE MonitorTypeOK'
    BY <1>3, <2>2 DEF OnSignalSets, Becomes, MonitorTypeOK
  <2>3. SlotTypeOK' /\ GateTypeOK'
    BY <1>3 DEF OnSignalSets, slotVars, gateVars, SlotTypeOK, GateTypeOK
  <2>4. LoopTypeOK'
    BY <1>3 DEF OnSignalSets, LoopTypeOK
  <2> QED
    BY <2>1, <2>2, <2>3, <2>4
<1> QED
  BY <1>1, <1>2, <1>3

\* Every step keeps the types.
LEMMA NextType ==
  ASSUME TypeOK, [Next]_vars
  PROVE  TypeOK'
<1>1. CASE Environment
  BY <1>1, SlotType DEF Environment, TypeOK, gateVars, loopVars, signalVars, GateTypeOK,
                        MonitorTypeOK, LoopTypeOK
<1>2. CASE GateThread
  <2>1. GateTypeOK'
    BY <1>2, GateType DEF GateThread, TypeOK
  <2> QED
    BY <1>2, <2>1 DEF GateThread, TypeOK, slotVars, loopVars, signalVars, SlotTypeOK,
                      MonitorTypeOK, LoopTypeOK
<1>3. ASSUME NEW s \in Sessions, MonitorThread(s) PROVE TypeOK'
  <2>1. PICK x : Becomes(s, x) /\ Advances(sess[s], x)
    BY <1>3, MonitorStepAdvances DEF MonitorThread, TypeOK
  <2>2. MonitorTypeOK'
    BY <2>1, BecomesType DEF Advances, TypeOK
  <2> QED
    BY <1>3, <2>2 DEF MonitorThread, TypeOK, slotVars, gateVars, loopVars, signalVars,
                      SlotTypeOK,
                      GateTypeOK, LoopTypeOK
<1>4. CASE LoopStep \/ LoopFails
  BY <1>4, LoopStepType
<1>5. CASE SendSignal \/ OnSignal \/ OnSignalSets
  BY <1>5, SignalType
<1>6. CASE UNCHANGED vars
  BY <1>6 DEF vars, slotVars, gateVars, loopVars, signalVars, TypeOK, SlotTypeOK,
              GateTypeOK,
              MonitorTypeOK, LoopTypeOK
<1> QED
  BY <1>1, <1>2, <1>3, <1>4, <1>5, <1>6 DEF Next

\* Every variable of the loop, its threads and the reader keeps its type; in
\* particular no backoff exceeds MAX_BACKOFF and no sleep 300 seconds.
THEOREM TypeCorrect == Spec => []TypeOK
<1>1. Init => TypeOK
  BY InitType
<1>2. TypeOK /\ [Next]_vars => TypeOK'
  BY NextType
<1> QED
  BY <1>1, <1>2, PTL DEF Spec

----------------------------------------------------------------------------
(* Where the loop is, and what it holds there.                              *)

\* What the gate run left, wherever the loop still needs it.
GateOver ==
  /\ pc \notin {"gating", "stopped"} => gate = "done"
  /\ pc \in {"starting", "live", "joining"} =>
       dev # NoSession /\ result.passed /\ ~result.want

\* The handler is in teardown only where there is a session to tear down.
HandlerHolds == handling => session # NoSession

Control ==
  /\ GateOver
  /\ HandlerHolds
  /\ DeviceOnlyAfterPass
  /\ SessionOwnsDevice
  /\ NoGateAfterSignal
  /\ PauseInBounds

LEMMA ControlInit == Init => Control
  BY DEF Init, Control, GateOver, HandlerHolds, DeviceOnlyAfterPass, SessionOwnsDevice,
         NoGateAfterSignal, PauseInBounds

\* A step that changes neither the loop nor the gate run.
LEMMA ControlUnchanged ==
  ASSUME Control, UNCHANGED <<gateVars, loopVars>>
  PROVE  Control'
  BY DEF Control, GateOver, HandlerHolds, DeviceOnlyAfterPass, SessionOwnsDevice,
         NoGateAfterSignal,
         PauseInBounds, gateVars, loopVars, signalVars

LEMMA ControlGate ==
  ASSUME Control, GateThread
  PROVE  Control'
  BY DEF GateThread, loopVars, signalVars, Control, GateOver, HandlerHolds,
         DeviceOnlyAfterPass,
         SessionOwnsDevice, NoGateAfterSignal, PauseInBounds

LEMMA ControlLoop ==
  ASSUME TypeOK, Control, LoopStep \/ LoopFails
  PROVE  Control'
<1> USE DEF Control, GateOver, HandlerHolds, signalVars, DeviceOnlyAfterPass,
            SessionOwnsDevice,
            NoGateAfterSignal, GateReturned
<1>0. TypeOK'
  BY LoopStepType
<1>a. ASSUME pc' # "sleeping" PROVE PauseInBounds'
  BY <1>a DEF PauseInBounds
<1>1. CASE RateLimited
  <2>1. result.retry \in Int
    <3>1. result.retry \in RetryHints \cup {0}
      BY DEF TypeOK, GateTypeOK, GateResult
    <3>2. RetryHints \cup {0} \subseteq Int
      BY HintAssumption
    <3> QED
      BY <3>1, <3>2, Zenon
  <2>2. PauseInBounds'
    BY <1>1, <2>1, RateDelayRange DEF RateLimited, Sleep, gateVars, PauseInBounds
  <2> QED
    BY <1>1, <2>2 DEF RateLimited, Sleep, gateVars
<1>2. CASE GateRefused
  <2>1. PauseInBounds'
    BY <1>2 DEF GateRefused, Sleep, gateVars, PauseInBounds, TypeOK, LoopTypeOK
  <2> QED
    BY <1>2, <2>1 DEF GateRefused, Sleep, gateVars
<1>3. CASE Wake
  BY <1>3, <1>a DEF Wake
<1>4. CASE Park
  BY <1>4, <1>a DEF Park, gateVars
<1>5. CASE HandoffDone
  BY <1>5, <1>a DEF HandoffDone, gateVars
<1>6. CASE TotpPassed
  BY <1>6, <1>a DEF TotpPassed, gateVars
<1>7. CASE TotpAnswered
  BY <1>7, <1>a DEF TotpAnswered, gateVars
<1>8. ASSUME Parked, Unpark PROVE Control'
  BY <1>8, <1>a DEF Parked, Unpark, gateVars
<1>9. CASE ParkPollWakes
  BY <1>8, <1>9 DEF ParkPollWakes
<1>10. CASE ParkPollStays
  BY <1>10, <1>a DEF ParkPollStays, Parked, gateVars
<1>11. CASE ParkPollAbsent \/ ParkListFails
  <2>1. Parked /\ PollMisses
    BY <1>11 DEF ParkPollAbsent, ParkListFails
  <2> QED
    BY <1>8, <2>1, <1>a DEF PollMisses, Parked, gateVars
<1>12. CASE ParkWaitFails
  BY <1>8, <1>12 DEF ParkWaitFails
<1>13. CASE GatePassed
  <2>1. dev' # NoSession
    BY <1>13, SessionAssumption DEF GatePassed
  <2> QED
    BY <1>13, <1>a, <2>1 DEF GatePassed, gateVars
<1>14. CASE StartFails
  BY <1>14, <1>a DEF StartFails, gateVars
<1>15. CASE GoLive
  BY <1>15, <1>a DEF GoLive, gateVars
<1>16. CASE CauseSeen
  BY <1>16, <1>a DEF CauseSeen, gateVars
<1>17. CASE EndSession
  BY <1>17, <1>a DEF EndSession, DropSession, GateAgainOrExit, gateVars
<1>18. CASE ProcessEnds
  BY <1>18, <1>a DEF ProcessEnds, gateVars
<1> QED
  BY <1>1, <1>2, <1>3, <1>4, <1>5, <1>6, <1>7, <1>9, <1>10, <1>11, <1>12, <1>13,
     <1>14, <1>15, <1>16, <1>17, <1>18
     DEF LoopStep, LoopFails

LEMMA ControlSignal ==
  ASSUME Control, SendSignal \/ OnSignal \/ OnSignalSets
  PROVE  Control'
<1>1. CASE SendSignal
  BY <1>1 DEF SendSignal, gateVars, Control, GateOver, HandlerHolds, DeviceOnlyAfterPass,
              SessionOwnsDevice, NoGateAfterSignal, PauseInBounds
<1>2. CASE OnSignal
  BY <1>2 DEF OnSignal, InLoop, gateVars, Control, GateOver, HandlerHolds,
              DeviceOnlyAfterPass,
              SessionOwnsDevice, NoGateAfterSignal, PauseInBounds
<1>3. CASE OnSignalSets
  BY <1>3 DEF OnSignalSets, gateVars, Control, GateOver, HandlerHolds,
              DeviceOnlyAfterPass, SessionOwnsDevice, NoGateAfterSignal, PauseInBounds
<1> QED
  BY <1>1, <1>2, <1>3

LEMMA ControlNext ==
  ASSUME TypeOK, Control, [Next]_vars
  PROVE  Control'
<1>1. CASE Environment
  BY <1>1, ControlUnchanged DEF Environment
<1>2. CASE GateThread
  BY <1>2, ControlGate
<1>3. ASSUME NEW s \in Sessions, MonitorThread(s) PROVE Control'
  BY <1>3, ControlUnchanged DEF MonitorThread
<1>4. CASE LoopStep \/ LoopFails
  BY <1>4, ControlLoop
<1>5. CASE SendSignal \/ OnSignal \/ OnSignalSets
  BY <1>5, ControlSignal
<1>6. CASE UNCHANGED vars
  BY <1>6, ControlUnchanged DEF vars
<1> QED
  BY <1>1, <1>2, <1>3, <1>4, <1>5, <1>6 DEF Next

LEMMA ControlInvariant == Spec => [](TypeOK /\ Control)
<1>1. Init => TypeOK /\ Control
  BY InitType, ControlInit
<1>2. TypeOK /\ Control /\ [Next]_vars => TypeOK' /\ Control'
  BY NextType, ControlNext
<1> QED
  BY <1>1, <1>2, PTL DEF Spec

\* bridge.py: a failed or unreachable gate never creates a device, and no gate
\* run is under way while a device exists.
THEOREM DeviceGated == Spec => []DeviceOnlyAfterPass
<1>1. Control => DeviceOnlyAfterPass
  BY DEF Control
<1> QED
  BY <1>1, ControlInvariant, PTL

\* Bridge.session is the session of the device that exists, so a signal's
\* teardown reaches the monitors of that device.
THEOREM SessionOwned == Spec => []SessionOwnsDevice
<1>1. Control => SessionOwnsDevice
  BY DEF Control
<1> QED
  BY <1>1, ControlInvariant, PTL

\* After the handler has run the loop never gates again.
THEOREM SignalHeeded == Spec => []NoGateAfterSignal
<1>1. Control => NoGateAfterSignal
  BY DEF Control
<1> QED
  BY <1>1, ControlInvariant, PTL

\* Whatever Retry-After a server sends, and however often a gate run fails, the
\* loop's pause stays within its bounds.
THEOREM PauseBounded == Spec => []PauseInBounds
<1>1. Control => PauseInBounds
  BY DEF Control
<1> QED
  BY <1>1, ControlInvariant, PTL

----------------------------------------------------------------------------
(* The sessions the loop has left.                                          *)

\* Nobody is about to set a cause of an object that the loop has let go of.
LeftQuiet == \A s \in Sessions : sess[s] # Unused /\ ~sess[s].held => Quiet(sess[s])

Watched ==
  /\ pc = "starting" => sess[dev] = Unused
  /\ pc = "joining" => sess[session].cause # "none"
  /\ session # NoSession => sess[session].held
  /\ NoOrphanMonitor
  /\ LeftQuiet

LEMMA WatchedInit == Init => Watched
  BY DEF Init, MonitorInit, Watched, NoOrphanMonitor, LeftQuiet

LEMMA WatchedUnchanged ==
  ASSUME Watched, UNCHANGED <<sess, pc, dev, session>>
  PROVE  Watched'
  BY DEF Watched, NoOrphanMonitor, LeftQuiet

LEMMA WatchedMonitor ==
  ASSUME TypeOK, Control, Watched, NEW s \in Sessions, MonitorThread(s)
  PROVE  Watched'
<1>0. sess \in [Sessions -> LiveSession] /\ UNCHANGED <<pc, dev, session>>
  BY DEF TypeOK, MonitorTypeOK, MonitorThread, loopVars
<1>1. PICK x : Becomes(s, x) /\ Advances(sess[s], x)
  BY MonitorStepAdvances DEF MonitorThread, TypeOK
<1>2. sess[s] # Unused
  BY MonitorStepAdvances DEF MonitorThread, TypeOK
<1>3. /\ sess'[s] = IF Abandoned(x) THEN Unused ELSE x
      /\ \A r \in Sessions \ {s} : sess'[r] = sess[r]
  BY <1>0, <1>1 DEF Becomes
<1>4. ASSUME session = s PROVE sess'[s] = x
  BY <1>1, <1>3, <1>4, SessionAssumption DEF Advances, Abandoned, Watched
<1>5. pc = "starting" => sess'[dev] = Unused
  <2>1. pc = "starting" => dev \in Sessions
    BY DEF TypeOK, LoopTypeOK, Control, GateOver
  <2> QED
    BY <1>2, <1>3, <2>1 DEF Watched
<1>6. pc = "joining" => sess'[session].cause # "none"
  <2>1. pc = "joining" => session \in Sessions
    BY DEF TypeOK, LoopTypeOK, Control, SessionOwnsDevice
  <2> QED
    BY <1>1, <1>3, <1>4, <2>1 DEF Watched, Advances
<1>7. session # NoSession => sess'[session].held
  <2>1. session # NoSession => session \in Sessions
    BY DEF TypeOK, LoopTypeOK
  <2> QED
    BY <1>1, <1>3, <1>4, <2>1 DEF Watched, Advances
<1>8. ASSUME NEW r \in Sessions, sess'[r] # Unused, sess'[r].cause = "none"
      PROVE  r = session
  BY <1>1, <1>2, <1>3, <1>8 DEF Watched, NoOrphanMonitor, Advances
<1>9. ASSUME NEW r \in Sessions, sess'[r] # Unused, ~sess'[r].held
      PROVE  Quiet(sess'[r])
  BY <1>1, <1>2, <1>3, <1>9 DEF Watched, LeftQuiet, Advances
<1> QED
  BY <1>0, <1>5, <1>6, <1>7, <1>8, <1>9 DEF Watched, NoOrphanMonitor, LeftQuiet

LEMMA WatchedLoop ==
  ASSUME TypeOK, Control, Watched, LoopStep \/ LoopFails
  PROVE  Watched'
<1>0. sess \in [Sessions -> LiveSession]
  BY DEF TypeOK, MonitorTypeOK
<1>1. CASE RateLimited \/ GateRefused
  BY <1>1 DEF RateLimited, GateRefused, Sleep, Watched, NoOrphanMonitor, LeftQuiet
<1>2. CASE Wake \/ Park \/ HandoffDone \/ TotpPassed \/ TotpAnswered
  BY <1>2 DEF Wake, Park, HandoffDone, TotpPassed, TotpAnswered, Watched,
              NoOrphanMonitor, LeftQuiet
<1>3. CASE ParkPollWakes \/ ParkPollStays \/ ParkPollAbsent \/ ParkListFails \/ ParkWaitFails
  BY <1>3 DEF ParkPollWakes, ParkPollStays, ParkPollAbsent, ParkListFails, PollMisses,
              ParkWaitFails, Unpark, Watched, NoOrphanMonitor, LeftQuiet
<1>4. CASE GatePassed
  BY <1>4 DEF GatePassed, Watched, NoOrphanMonitor, LeftQuiet
<1>5. CASE StartFails \/ ProcessEnds
  BY <1>5 DEF StartFails, ProcessEnds, Watched, NoOrphanMonitor, LeftQuiet
<1>6. CASE GoLive
  <2>1. dev \in Sessions /\ session = NoSession
    BY <1>6 DEF GoLive, TypeOK, LoopTypeOK, Control, GateOver, SessionOwnsDevice
  <2>2. sess'[dev].held /\ session' = dev /\ pc' = "live"
    BY <1>0, <1>6, <2>1 DEF GoLive, Started
  <2>3. \A r \in Sessions \ {dev} : sess'[r] = sess[r]
    BY <1>0, <1>6 DEF GoLive
  <2> QED
    BY <2>1, <2>2, <2>3, SessionAssumption DEF Watched, NoOrphanMonitor, LeftQuiet
<1>7. CASE CauseSeen
  BY <1>7 DEF CauseSeen, Watched, NoOrphanMonitor, LeftQuiet
<1>8. CASE EndSession
  <2>1. session \in Sessions /\ session' = NoSession /\ pc' \in {"exiting", "gating"}
    BY <1>8 DEF EndSession, DropSession, GateAgainOrExit, TypeOK, LoopTypeOK, Control,
                SessionOwnsDevice
  <2> DEFINE x == [sess[session] EXCEPT !.held = FALSE]
  <2>2. sess' = [sess EXCEPT ![session] = IF Abandoned(x) THEN Unused ELSE x]
    BY <1>8 DEF EndSession, DropSession, Becomes
  <2>3. Quiet(x)
    BY <1>0, <1>8, <2>1 DEF EndSession, Joined, Watched, LiveSession, Quiet,
                            PresenceCauses
  <2> HIDE DEF x
  <2>4. ASSUME NEW r \in Sessions, sess'[r] # Unused PROVE sess'[r].cause # "none"
    BY <1>0, <2>1, <2>2, <2>3, <2>4 DEF Watched, NoOrphanMonitor, Quiet
  <2>5. ASSUME NEW r \in Sessions, sess'[r] # Unused, ~sess'[r].held PROVE Quiet(sess'[r])
    BY <1>0, <2>1, <2>2, <2>3, <2>5 DEF Watched, LeftQuiet
  <2> QED
    BY <2>1, <2>4, <2>5 DEF Watched, NoOrphanMonitor, LeftQuiet
<1> QED
  BY <1>1, <1>2, <1>3, <1>4, <1>5, <1>6, <1>7, <1>8 DEF LoopStep, LoopFails

LEMMA WatchedSignal ==
  ASSUME TypeOK, Control, Watched, OnSignalSets
  PROVE  Watched'
<1>1. session \in Sessions /\ session # NoSession /\ UNCHANGED <<pc, dev, session>>
  BY DEF OnSignalSets, TypeOK, LoopTypeOK, Control, HandlerHolds
<1>2. sess[session] \in LiveSession /\ "sigterm" \in Causes
  BY <1>1 DEF TypeOK, MonitorTypeOK, Causes
<1> DEFINE x == Caused(sess[session], "sigterm")
<1>3. x.held /\ x.cause # "none"
  BY <1>1, <1>2, CausedType DEF Watched
<1>4. sess' = [sess EXCEPT ![session] = x]
  BY <1>3 DEF OnSignalSets, Becomes, Abandoned
<1>5. pc \in {"live", "joining"}
  BY <1>1 DEF Control, SessionOwnsDevice
<1> HIDE DEF x
<1>6. sess'[session] = x /\ \A r \in Sessions \ {session} : sess'[r] = sess[r]
  BY <1>1, <1>4 DEF TypeOK, MonitorTypeOK
<1> QED
  BY <1>1, <1>3, <1>5, <1>6 DEF Watched, NoOrphanMonitor, LeftQuiet

LEMMA WatchedNext ==
  ASSUME TypeOK, Control, Watched, [Next]_vars
  PROVE  Watched'
<1>1. CASE Environment
  BY <1>1, WatchedUnchanged DEF Environment, loopVars
<1>2. CASE GateThread
  BY <1>2, WatchedUnchanged DEF GateThread, loopVars
<1>3. ASSUME NEW s \in Sessions, MonitorThread(s) PROVE Watched'
  BY <1>3, WatchedMonitor
<1>4. CASE LoopStep \/ LoopFails
  BY <1>4, WatchedLoop
<1>5. CASE SendSignal
  BY <1>5, WatchedUnchanged DEF SendSignal
<1>6. CASE OnSignal
  BY <1>6 DEF OnSignal, InLoop, Watched, NoOrphanMonitor, LeftQuiet
<1>7. CASE UNCHANGED vars
  BY <1>7, WatchedUnchanged DEF vars, loopVars
<1>8. CASE OnSignalSets
  BY <1>8, WatchedSignal
<1> QED
  BY <1>1, <1>2, <1>3, <1>4, <1>5, <1>6, <1>7, <1>8 DEF Next

\* The inductive invariant that needs nothing of the constants.
IInv == TypeOK /\ Control /\ Watched

LEMMA Invariant == Spec => []IInv
<1>1. Init => IInv
  BY InitType, ControlInit, WatchedInit DEF IInv
<1>2. IInv /\ [Next]_vars => IInv'
  BY NextType, ControlNext, WatchedNext DEF IInv
<1> QED
  BY <1>1, <1>2, PTL DEF Spec

\* A session the loop has left never acts again: the slow threads of a former
\* session can only find their stop event set.
THEOREM OrphansStopped == Spec => []NoOrphanMonitor
<1>1. IInv => NoOrphanMonitor
  BY DEF IInv, Watched
<1> QED
  BY <1>1, Invariant, PTL

----------------------------------------------------------------------------
(* What a step may never do.                                                *)

\* A cause that is set stays set, and the cause of an object that the loop has let go
\* of stays as it is.
CauseKept(s) ==
  /\ sess[s].cause # "none" => sess'[s].cause # "none" \/ sess'[s] = Unused
  /\ sess[s] # Unused /\ ~sess[s].held =>
       sess'[s].cause = sess[s].cause \/ sess'[s] = Unused

LEMMA CauseKeptStep ==
  ASSUME IInv, [Next]_vars, NEW s \in Sessions
  PROVE  CauseKept(s)
<1>0. sess \in [Sessions -> LiveSession]
  BY DEF IInv, TypeOK, MonitorTypeOK
<1>1. ASSUME UNCHANGED sess PROVE CauseKept(s)
  BY <1>1 DEF CauseKept
<1>2. ASSUME NEW r \in Sessions, MonitorThread(r) PROVE CauseKept(s)
  <2>1. PICK x : Becomes(r, x) /\ Advances(sess[r], x)
    BY <1>2, MonitorStepAdvances DEF MonitorThread, IInv, TypeOK
  <2>2. sess[s] # Unused /\ ~sess[s].held => Quiet(sess[s])
    BY DEF IInv, Watched, LeftQuiet
  <2> QED
    BY <1>0, <2>1, <2>2 DEF Becomes, Advances, CauseKept
<1>3. CASE GoLive
  <2>1. sess[dev] = Unused /\ Unused.cause = "none"
    BY <1>3 DEF GoLive, IInv, Watched, Unused
  <2> QED
    BY <1>0, <1>3, <2>1 DEF GoLive, CauseKept
<1>4. CASE EndSession
  <2>1. sess[session].held
    BY <1>4 DEF EndSession, IInv, Control, SessionOwnsDevice, Watched
  <2> QED
    BY <1>0, <1>4, <2>1 DEF EndSession, DropSession, Becomes, LiveSession, CauseKept
<1>5. CASE OnSignalSets
  <2>1. session \in Sessions /\ sess[session] \in LiveSession /\ sess[session].held
    BY <1>5 DEF OnSignalSets, IInv, TypeOK, LoopTypeOK, MonitorTypeOK, Control,
                HandlerHolds, Watched
  <2> DEFINE x == Caused(sess[session], "sigterm")
  <2>2. x.cause # "none" /\ Becomes(session, x)
    BY <1>5, <2>1, CausedType DEF OnSignalSets, Causes
  <2> HIDE DEF x
  <2> QED
    BY <1>0, <2>1, <2>2 DEF Becomes, CauseKept
<1>6. CASE LoopStep \/ LoopFails
  <2>1. CASE GoLive \/ EndSession
    BY <1>3, <1>4, <2>1
  <2>2. CASE ~GoLive /\ ~EndSession
    BY <1>1, <1>6, <2>2
       DEF LoopStep, LoopFails, RateLimited, GateRefused, Sleep, Wake, Park, HandoffDone,
           TotpPassed, TotpAnswered, ParkPollWakes, ParkPollStays, ParkPollAbsent,
           ParkListFails, PollMisses, ParkWaitFails, Unpark, GatePassed, StartFails,
           CauseSeen, ProcessEnds
  <2> QED
    BY <2>1, <2>2
<1> QED
  BY <1>1, <1>2, <1>5, <1>6
     DEF Next, Environment, GateThread, SendSignal, OnSignal, vars

\* The cause that finish_async returns is the session's for good: the joins outlast
\* every caller of teardown that was past its test, and a thread that outlasts the
\* joins finds the cause set.
THEOREM ReportedCauseKept == Spec => ReportedCauseStands
<1>1. IInv /\ [Next]_vars =>
        [\A s \in Sessions :
           sess[s] # Unused /\ ~sess[s].held =>
             sess'[s].cause = sess[s].cause \/ sess'[s] = Unused]_vars
  BY CauseKeptStep DEF CauseKept
<1> QED
  BY <1>1, Invariant, PTL DEF Spec, ReportedCauseStands

LEMMA BackoffStep ==
  ASSUME TypeOK, [Next]_vars, backoff' < backoff
  PROVE  GateReturned /\ result.passed
<1>0. backoff \in Int /\ (UNCHANGED backoff => ~(backoff' < backoff))
  BY DEF TypeOK, LoopTypeOK
<1>1. CASE Environment \/ GateThread \/ \E s \in Sessions : MonitorThread(s)
  BY <1>0, <1>1 DEF Environment, GateThread, MonitorThread, loopVars
<1>2. CASE LoopStep \/ LoopFails
  <2>1. CASE Wake
    <3>1. backoff' = backoff \/ backoff' = Escalated
      BY <2>1 DEF Wake
    <3>2. backoff <= Escalated /\ Escalated \in Int
      BY EscalatedRange DEF TypeOK, LoopTypeOK
    <3> QED
      BY <1>0, <3>1, <3>2
  <2>2. CASE TotpPassed \/ GatePassed
    BY <2>2 DEF TotpPassed, GatePassed
  <2>3. CASE ~Wake /\ ~TotpPassed /\ ~GatePassed
    BY <1>0, <1>2, <2>3
       DEF LoopStep, LoopFails, RateLimited, GateRefused, Sleep, Park, HandoffDone,
           TotpAnswered, ParkPollWakes, ParkPollStays, ParkPollAbsent, ParkListFails,
           PollMisses, ParkWaitFails, Unpark, StartFails, GoLive, CauseSeen,
           EndSession, ProcessEnds
  <2> QED
    BY <2>1, <2>2, <2>3
<1>3. CASE SendSignal \/ OnSignal \/ OnSignalSets
  BY <1>0, <1>3 DEF SendSignal, OnSignal, OnSignalSets
<1>4. CASE UNCHANGED vars
  BY <1>0, <1>4 DEF vars, loopVars
<1> QED
  BY <1>1, <1>2, <1>3, <1>4 DEF Next

\* Only a pass resets the escalation: parks, rate limits and failures in any
\* order never make the next pause shorter.
THEOREM BackoffMonotone == Spec => OnlyAPassResetsBackoff
<1>1. TypeOK /\ [Next]_vars => [backoff' < backoff => GateReturned /\ result.passed]_vars
  BY BackoffStep
<1> QED
  BY <1>1, TypeCorrect, PTL DEF Spec, OnlyAPassResetsBackoff

----------------------------------------------------------------------------
(* With a counter that does not wrap, a generation names an insertion.      *)

\* The generation and the insertion that the gate run saw are as far behind the
\* reader as each other.
SeenTracks ==
  /\ attached = TRUE
  /\ gen <= FirstGen + ins
  /\ seated => ins > 0
  /\ gate = "waiting" => seenIns = 0
  /\ gate = "running" => seenIns # 0
  /\ gate = "done" /\ seenIns = 0 => result = Raised
  /\ seenIns # 0 => seenIns <= ins /\ gen + seenIns = seenGen + ins

Waiting == pc \in {"handoff", "parked", "totp_parked"}

\* The card the loop parked on is the one it waits on, or an earlier one.
ParkedBefore ==
  handled.how = "parked" =>
    /\ Waiting => handled.ins = seenIns
    /\ ~Waiting /\ (pc = "stopped" => gate # "done") =>
         handled.ins < ins /\ (seenIns # 0 => handled.ins < seenIns)

Tracking == SeenTracks /\ ParkedBefore

LEMMA TrackingInit ==
  ASSUME GensUnique, Init
  PROVE  Tracking
  BY SlotAssumption DEF GensUnique, Init, SlotInit, GateInit, Tracking, SeenTracks,
     ParkedBefore, Nothing

LEMMA TrackingSlot ==
  ASSUME GensUnique, TypeOK, Tracking, Environment
  PROVE  Tracking'
<1>0. /\ gen \in Nat /\ ins \in Nat /\ seenGen \in Nat /\ seenIns \in Nat
      /\ handled.ins \in Nat /\ GenMod \in Nat /\ FirstGen \in Nat /\ MaxIns \in Nat
  BY SlotAssumption DEF TypeOK, SlotTypeOK, GateTypeOK, LoopTypeOK, Generations,
                        Insertions
<1>1. CASE Insert
  <2>1. gen' = gen + 1 /\ ins' = ins + 1
    BY <1>0, <1>1 DEF Insert, Bump, GensUnique, Tracking, SeenTracks
  <2>2. SeenTracks'
    BY <1>0, <1>1, <2>1 DEF Environment, Insert, gateVars, Tracking, SeenTracks
  <2>3. ParkedBefore'
    BY <1>0, <2>1 DEF Environment, gateVars, loopVars, Tracking, ParkedBefore, Waiting
  <2> QED
    BY <2>2, <2>3 DEF Tracking
<1>2. CASE Remove \/ Lift
  BY <1>2 DEF Remove, Lift, Environment, gateVars, loopVars, Tracking, SeenTracks,
              ParkedBefore, Waiting
<1>3. CASE Unplug \/ Replug
  BY <1>3 DEF Unplug, Replug, GensUnique, Tracking, SeenTracks
<1> QED
  BY <1>1, <1>2, <1>3 DEF Environment, SlotNext

LEMMA TrackingGate ==
  ASSUME TypeOK, Tracking, GateThread
  PROVE  Tracking'
<1>0. /\ gen \in Nat /\ ins \in Nat /\ seenGen \in Nat /\ seenIns \in Nat
      /\ handled.ins \in Nat
  BY SlotAssumption DEF TypeOK, SlotTypeOK, GateTypeOK, LoopTypeOK, Generations,
                        Insertions
<1>1. CASE GateSees
  BY <1>0, <1>1 DEF GateSees, GateThread, slotVars, loopVars, Tracking, SeenTracks,
                    ParkedBefore, Waiting
<1>2. CASE GatePasses \/ GateFails
  BY <1>0, <1>2 DEF GatePasses, GateFails, Finish, GateThread, slotVars, loopVars,
                    Tracking, SeenTracks, ParkedBefore, Waiting
<1>3. CASE GateRaises
  BY <1>0, <1>3 DEF GateRaises, Finish, GateThread, slotVars, loopVars, Tracking,
                    SeenTracks, ParkedBefore, Waiting
<1> QED
  BY <1>1, <1>2, <1>3 DEF GateThread, GateNext

\* The loop leaves the reader alone, and the gate run too unless it begins one.
LEMMA LoopFrame ==
  ASSUME LoopStep \/ LoopFails \/ SendSignal \/ OnSignal \/ OnSignalSets
  PROVE  UNCHANGED slotVars /\ (UNCHANGED gateVars \/ GateBegin)
  BY DEF LoopStep, LoopFails, RateLimited, GateRefused, Sleep, Wake, Park, HandoffDone,
     TotpPassed, TotpAnswered, ParkPollWakes, ParkPollStays, ParkPollAbsent,
     ParkListFails, PollMisses, ParkWaitFails, Unpark, GatePassed, StartFails, GoLive,
     CauseSeen, EndSession, GateAgainOrExit, ProcessEnds, SendSignal, OnSignal,
     OnSignalSets

LEMMA SeenTracksLoop ==
  ASSUME SeenTracks, LoopStep \/ LoopFails \/ SendSignal \/ OnSignal \/ OnSignalSets
  PROVE  SeenTracks'
<1>1. UNCHANGED slotVars
  BY LoopFrame
<1>2. CASE UNCHANGED gateVars
  BY <1>1, <1>2 DEF slotVars, gateVars, SeenTracks
<1>3. CASE GateBegin
  BY <1>1, <1>3 DEF slotVars, GateBegin, SeenTracks
<1> QED
  BY <1>2, <1>3, LoopFrame

LEMMA ParkedBeforeLoop ==
  ASSUME TypeOK, Control, Tracking,
         LoopStep \/ LoopFails \/ SendSignal \/ OnSignal \/ OnSignalSets
  PROVE  ParkedBefore'
<1>0. /\ gen \in Nat /\ ins \in Nat /\ seenGen \in Nat /\ seenIns \in Nat
      /\ handled.ins \in Nat
  BY SlotAssumption DEF TypeOK, SlotTypeOK, GateTypeOK, LoopTypeOK, Generations,
                        Insertions
<1>1. CASE RateLimited \/ GateRefused
  BY <1>1 DEF RateLimited, GateRefused, Sleep, GateReturned, slotVars, gateVars, Tracking,
              ParkedBefore, Waiting
<1>2. CASE Wake
  BY <1>2 DEF Wake, GateBegin, slotVars, Tracking, ParkedBefore, Waiting
<1>3. CASE Park \/ HandoffDone \/ TotpAnswered
  BY <1>3 DEF Park, HandoffDone, TotpAnswered, slotVars, gateVars, Tracking, ParkedBefore,
              Waiting
<1>4. CASE TotpPassed \/ GatePassed \/ StartFails \/ GoLive \/ CauseSeen
  BY <1>4 DEF TotpPassed, GatePassed, StartFails, GoLive, CauseSeen, GateReturned,
              slotVars, gateVars, Tracking, ParkedBefore, Waiting
<1>5. CASE ParkPollWakes
  <2>1. gate = "done" /\ pc' = "gating" /\ GateBegin /\ UNCHANGED <<slotVars, handled>>
    BY <1>5 DEF ParkPollWakes, Parked, Unpark, Control, GateOver, NoGateAfterSignal
  <2>2. handled.how = "parked" => handled.ins < ins
    <3>1. Superseded(seenGen) /\ Waiting
      BY <1>5 DEF ParkPollWakes, Parked, Waiting
    <3> QED
      BY <1>0, <3>1 DEF Superseded, Tracking, SeenTracks, ParkedBefore
  <2> QED
    BY <2>1, <2>2 DEF GateBegin, slotVars, ParkedBefore, Waiting
<1>6. CASE ParkPollStays
  BY <1>6 DEF ParkPollStays, slotVars, gateVars, Tracking, ParkedBefore, Waiting
<1>7. CASE ParkPollAbsent \/ ParkListFails
  <2>1. Parked /\ PollMisses /\ handled' = IF absent + 1 >= 2 THEN Nothing ELSE handled
    BY <1>7 DEF ParkPollAbsent, ParkListFails, Tracking, SeenTracks
  <2>2. CASE absent + 1 >= 2
    BY <2>1, <2>2 DEF Nothing, ParkedBefore
  <2>3. CASE ~(absent + 1 >= 2)
    BY <2>1, <2>3 DEF PollMisses, slotVars, gateVars, Tracking, ParkedBefore, Waiting
  <2> QED
    BY <2>2, <2>3
<1>8. CASE ParkWaitFails
  BY <1>8 DEF ParkWaitFails, Nothing, ParkedBefore
<1>9. CASE EndSession
  BY <1>9 DEF EndSession, DropSession, ParkedBefore
<1>10. CASE ProcessEnds
  BY <1>10 DEF ProcessEnds, slotVars, gateVars, Tracking, ParkedBefore, Waiting
<1>11. CASE SendSignal
  BY <1>11 DEF SendSignal, slotVars, gateVars, Tracking, ParkedBefore, Waiting
<1>12. CASE OnSignal
  BY <1>12 DEF OnSignal, InLoop, slotVars, gateVars, Tracking, ParkedBefore, Waiting,
               Control, GateOver
<1>13. CASE OnSignalSets
  BY <1>13 DEF OnSignalSets, slotVars, gateVars, Tracking, ParkedBefore, Waiting
<1> QED
  BY <1>1, <1>2, <1>3, <1>4, <1>5, <1>6, <1>7, <1>8, <1>9, <1>10, <1>11, <1>12, <1>13
     DEF LoopStep, LoopFails

LEMMA TrackingUnchanged ==
  ASSUME Tracking, UNCHANGED <<slotVars, gateVars, loopVars>>
  PROVE  Tracking'
<1>1. SeenTracks'
  BY DEF slotVars, gateVars, Tracking, SeenTracks
<1>2. ParkedBefore'
  BY DEF slotVars, gateVars, loopVars, Tracking, ParkedBefore, Waiting
<1> QED
  BY <1>1, <1>2 DEF Tracking

LEMMA TrackingInvariant ==
  ASSUME GensUnique
  PROVE  Spec => [](IInv /\ Tracking)
<1>1. Init => IInv /\ Tracking
  BY InitType, ControlInit, WatchedInit, TrackingInit DEF IInv
<1>2. IInv /\ Tracking /\ [Next]_vars => IInv' /\ Tracking'
  <2> SUFFICES ASSUME IInv, Tracking, [Next]_vars PROVE IInv' /\ Tracking'
    OBVIOUS
  <2>0. TypeOK /\ Control
    BY DEF IInv
  <2>1. IInv'
    BY NextType, ControlNext, WatchedNext DEF IInv
  <2>2. CASE Environment
    BY <2>0, <2>1, <2>2, TrackingSlot
  <2>3. CASE GateThread
    BY <2>0, <2>1, <2>3, TrackingGate
  <2>4. CASE (\E s \in Sessions : MonitorThread(s)) \/ UNCHANGED vars
    BY <2>1, <2>4, TrackingUnchanged DEF MonitorThread, vars
  <2>5. CASE LoopStep \/ LoopFails \/ SendSignal \/ OnSignal \/ OnSignalSets
    BY <2>0, <2>1, <2>5, SeenTracksLoop, ParkedBeforeLoop DEF Tracking
  <2> QED
    BY <2>2, <2>3, <2>4, <2>5 DEF Next
<1> QED
  BY <1>1, <1>2, PTL DEF Spec

\* wait_for_generation_change: while the counter does not wrap and the reader
\* stays plugged in, a card the loop parked on is not gated again.
THEOREM ParkedNotGated ==
  ASSUME GensUnique
  PROVE  Spec => []ParkedCardNotGated
<1>1. IInv /\ Tracking => ParkedCardNotGated
  <2> SUFFICES ASSUME IInv, Tracking, gate = "running",
                      handled = [ins |-> seenIns, how |-> "parked"]
               PROVE  FALSE
    BY DEF ParkedCardNotGated
  <2>1. pc \in {"gating", "stopped"} /\ seenIns \in Nat
    BY DEF IInv, Control, GateOver, TypeOK, GateTypeOK, Insertions
  <2>2. handled.how = "parked" /\ handled.ins = seenIns
    OBVIOUS
  <2> QED
    BY <2>1, <2>2 DEF Tracking, SeenTracks, ParkedBefore, Waiting
<1> QED
  BY <1>1, TrackingInvariant, PTL

----------------------------------------------------------------------------
(* The loop implements SeatSession.                                         *)

\* A pass was given to an insertion.
LEMMA PassHasInsertion ==
  ASSUME Tracking, gate = "done", result.passed
  PROVE  seenIns # 0
  BY NotPassed DEF Tracking, SeenTracks

\* While a device exists no pass is waiting for one, and the other way round.
LEMMA PassOrDevice ==
  ASSUME IInv, Tracking
  PROVE  /\ PassBar # 0 => dev = NoSession /\ DeviceBar = 0
         /\ dev # NoSession => PassBar = 0 /\ DeviceBar # 0
<1>1. PassBar # 0 => dev = NoSession /\ DeviceBar = 0
  BY DEF PassBar, DeviceBar, GateReturned, IInv, Control, DeviceOnlyAfterPass
<1>2. dev # NoSession => DeviceBar # 0
  BY PassHasInsertion DEF DeviceBar, IInv, Control, DeviceOnlyAfterPass
<1> QED
  BY <1>1, <1>2

LEMMA SeatInit ==
  ASSUME Init
  PROVE  Seat!Init
<1>1. SeatBar \in Insertions
  BY InitType, SlotAssumption DEF SeatBar, TypeOK, SlotTypeOK, Insertions
<1>2. PassBar = 0 /\ DeviceBar = 0
  BY DEF Init, GateInit, PassBar, DeviceBar, GateReturned
<1> QED
  BY <1>1, <1>2 DEF Seat!Init

LEMMA SeatEnvironment ==
  ASSUME TypeOK', Environment
  PROVE  Seat!Reseat
<1>1. SeatBar' \in Insertions
  BY SlotAssumption DEF SeatBar, TypeOK, SlotTypeOK, Insertions
<1>2. PassBar' = PassBar /\ DeviceBar' = DeviceBar
  BY DEF Environment, gateVars, loopVars, PassBar, DeviceBar, GateReturned
<1> QED
  BY <1>1, <1>2 DEF Seat!Reseat

LEMMA SeatGate ==
  ASSUME IInv, Tracking, GateThread
  PROVE  Seat!Authorise \/ UNCHANGED Seat!seatVars
<1>1. gate \in {"waiting", "running"} /\ pc = "gating"
  BY DEF GateThread, GateNext, GateSees, GatePasses, GateFails, GateRaises
<1>2. dev = NoSession /\ PassBar = 0 /\ DeviceBar = 0 /\ DeviceBar' = 0 /\ SeatBar' = SeatBar
  BY <1>1 DEF IInv, Control, DeviceOnlyAfterPass, GateThread, slotVars, loopVars,
              PassBar, DeviceBar, SeatBar, GateReturned
<1>3. CASE PassBar' = 0
  BY <1>2, <1>3 DEF Seat!seatVars
<1>4. CASE PassBar' # 0
  <2>1. gate' = "done" /\ result'.passed /\ PassBar' = seenIns'
    BY <1>4 DEF PassBar, GateReturned
  <2>2. GatePasses
    <3>1. ~GateSees
      BY <2>1 DEF GateSees
    <3>2. ~GateFails
      <4> SUFFICES ASSUME NEW reason \in FailReasons, NEW located \in BOOLEAN,
                          NEW retry \in RetryHints \cup {0},
                          Finish(Outcome(FALSE, FALSE, reason, located, retry))
                   PROVE  FALSE
        BY DEF GateFails
      <4>1. ~Outcome(FALSE, FALSE, reason, located, retry).passed
        BY OutcomeFields
      <4> QED
        BY <2>1, <4>1 DEF Finish
    <3>3. ~GateRaises
      BY <2>1, NotPassed DEF GateRaises, Finish
    <3> QED
      BY <3>1, <3>2, <3>3 DEF GateThread, GateNext
  <2>3. seated /\ gen = seenGen /\ seenIns' = seenIns /\ seenIns # 0
    BY <2>2 DEF GatePasses, StillPresent, Finish, Tracking, SeenTracks
  <2>4. seenIns = ins
    BY <2>3, SlotAssumption DEF IInv, TypeOK, SlotTypeOK, GateTypeOK, Generations,
                                Insertions, Tracking, SeenTracks
  <2> QED
    BY <1>2, <2>1, <2>3, <2>4 DEF Seat!Authorise, SeatBar
<1> QED
  BY <1>3, <1>4

LEMMA SeatLoop ==
  ASSUME IInv, Tracking, LoopStep \/ LoopFails
  PROVE  Seat!Next \/ UNCHANGED Seat!seatVars
<1> USE DEF Seat!seatVars
<1>0. SeatBar' = SeatBar
  BY LoopFrame DEF slotVars, SeatBar
<1>a. ASSUME pc' # "gating" \/ GateBegin PROVE PassBar' = 0
  BY <1>a DEF GateBegin, PassBar, GateReturned
<1>b. ASSUME PassBar = 0, PassBar' = 0, dev # NoSession, dev' = NoSession
      PROVE  Seat!Destroy
  <2>1. DeviceBar # 0 /\ DeviceBar' = 0
    BY <1>b, PassOrDevice DEF DeviceBar
  <2> QED
    BY <1>0, <1>b, <2>1 DEF Seat!Destroy
<1>1. CASE RateLimited \/ GateRefused \/ Park \/ TotpPassed
  <2>1. PassBar = 0 /\ pc' # "gating"
    BY <1>1 DEF RateLimited, GateRefused, Sleep, Park, Parks, TotpPassed, PassBar
  <2>2. DeviceBar' = DeviceBar
    BY <1>1 DEF RateLimited, GateRefused, Sleep, Park, TotpPassed, gateVars, DeviceBar
  <2> QED
    BY <1>0, <1>a, <2>1, <2>2
<1>2. CASE HandoffDone \/ TotpAnswered \/ ParkPollStays \/ GoLive \/ CauseSeen
  <2>1. PassBar = 0 /\ pc' # "gating"
    BY <1>2 DEF HandoffDone, TotpAnswered, ParkPollStays, Parked, GoLive, CauseSeen,
                PassBar, GateReturned
  <2>2. DeviceBar' = DeviceBar
    BY <1>2 DEF HandoffDone, TotpAnswered, ParkPollStays, GoLive, CauseSeen, gateVars,
                DeviceBar
  <2> QED
    BY <1>0, <1>a, <2>1, <2>2
<1>3. CASE Wake \/ ParkPollWakes \/ ParkPollAbsent \/ ParkListFails \/ ParkWaitFails
  <2>1. PassBar = 0 /\ dev = NoSession /\ dev' = NoSession
    BY <1>3 DEF Wake, ParkPollWakes, ParkPollAbsent, ParkListFails, PollMisses,
                ParkWaitFails, Parked, Unpark, PassBar, GateReturned, IInv, Control,
                DeviceOnlyAfterPass
  <2>2. pc' # "gating" \/ GateBegin
    BY <1>3 DEF Wake, ParkPollWakes, ParkPollAbsent, ParkListFails, PollMisses,
                ParkWaitFails, Parked, Unpark
  <2> QED
    BY <1>0, <1>a, <2>1, <2>2 DEF DeviceBar
<1>4. CASE GatePassed
  <2>1. gate = "done" /\ result.passed /\ PassBar = seenIns /\ pc = "gating"
    BY <1>4 DEF GatePassed, GateReturned, PassBar
  <2>2. PassBar # 0 /\ DeviceBar = 0
    BY <2>1, PassHasInsertion, PassOrDevice
  <2>3. dev' # NoSession /\ pc' # "gating" /\ seenIns' = seenIns
    BY <1>4, SessionAssumption DEF GatePassed, gateVars
  <2>4. PassBar' = 0 /\ DeviceBar' = PassBar
    BY <1>a, <2>1, <2>3 DEF DeviceBar
  <2>5. Seat!Create
    BY <1>0, <2>2, <2>4 DEF Seat!Create
  <2> QED
    BY <2>5 DEF Seat!Next
<1>5. CASE StartFails \/ ProcessEnds
  <2>1. PassBar = 0 /\ pc' # "gating" /\ dev' \in {dev, NoSession} /\ seenIns' = seenIns
    BY <1>5 DEF StartFails, ProcessEnds, PassBar, GateReturned, gateVars
  <2>2. CASE dev' = dev
    BY <1>0, <1>a, <2>1, <2>2 DEF DeviceBar
  <2>3. CASE dev' # dev
    BY <1>a, <1>b, <2>1, <2>3 DEF Seat!Next
  <2> QED
    BY <2>2, <2>3
<1>6. CASE EndSession
  <2>1. PassBar = 0 /\ dev # NoSession /\ dev' = NoSession
    BY <1>6 DEF EndSession, PassBar, GateReturned, IInv, Control, GateOver
  <2>2. pc' # "gating" \/ GateBegin
    BY <1>6 DEF EndSession, GateAgainOrExit
  <2> QED
    BY <1>a, <1>b, <2>1, <2>2 DEF Seat!Next
<1> QED
  BY <1>1, <1>2, <1>3, <1>4, <1>5, <1>6 DEF LoopStep, LoopFails

LEMMA SeatSignal ==
  ASSUME IInv, Tracking, SendSignal \/ OnSignal \/ OnSignalSets
  PROVE  Seat!Next \/ UNCHANGED Seat!seatVars
<1> USE DEF Seat!seatVars
<1>0. SeatBar' = SeatBar
  BY LoopFrame DEF slotVars, SeatBar
<1>1. CASE SendSignal \/ OnSignalSets \/ session # NoSession
  BY <1>0, <1>1 DEF SendSignal, OnSignal, OnSignalSets, gateVars, PassBar, DeviceBar,
                    GateReturned
<1>2. CASE OnSignal /\ session = NoSession
  <2>1. PassBar' = 0 /\ DeviceBar' = 0
    BY <1>2 DEF OnSignal, PassBar, DeviceBar, GateReturned
  <2>2. CASE PassBar # 0
    BY <1>0, <2>1, <2>2, PassOrDevice DEF Seat!Next, Seat!Forgo
  <2>3. CASE PassBar = 0 /\ DeviceBar # 0
    BY <1>0, <2>1, <2>3 DEF Seat!Next, Seat!Destroy
  <2>4. CASE PassBar = 0 /\ DeviceBar = 0
    BY <1>0, <2>1, <2>4
  <2> QED
    BY <2>2, <2>3, <2>4
<1> QED
  BY <1>1, <1>2

\* A device is created only for the insertion that passed, once for each pass;
\* it holds as long as a generation names an insertion.
THEOREM SeatSessionImplemented ==
  ASSUME GensUnique
  PROVE  Spec => ImplementsSeatSession
<1>1. Init => Seat!Init
  BY SeatInit
<1>2. IInv /\ IInv' /\ Tracking /\ [Next]_vars => [Seat!Next]_Seat!seatVars
  <2> SUFFICES ASSUME IInv, IInv', Tracking, [Next]_vars
               PROVE  Seat!Next \/ UNCHANGED Seat!seatVars
    OBVIOUS
  <2>1. CASE Environment
    BY <2>1, SeatEnvironment DEF IInv, Seat!Next
  <2>2. CASE GateThread
    BY <2>2, SeatGate DEF Seat!Next
  <2>3. CASE (\E s \in Sessions : MonitorThread(s)) \/ UNCHANGED vars
    BY <2>3 DEF MonitorThread, vars, slotVars, gateVars, loopVars, SeatBar, PassBar,
                DeviceBar, GateReturned, Seat!seatVars
  <2>4. CASE LoopStep \/ LoopFails
    BY <2>4, SeatLoop
  <2>5. CASE SendSignal \/ OnSignal \/ OnSignalSets
    BY <2>5, SeatSignal
  <2> QED
    BY <2>1, <2>2, <2>3, <2>4, <2>5 DEF Next
<1> QED
  BY <1>1, <1>2, TrackingInvariant, PTL DEF Spec, ImplementsSeatSession, Seat!Spec

----------------------------------------------------------------------------
(* How long a device outlives the reason for taking it away.                *)

\* Bridge.session was told to stop.
Torn == session # NoSession /\ sess[session].cause # "none"

\* There is a reason to take the device away: the loop was told to, or the query of
\* the presence thread does not find the card that passed.
Doomed == InLoop /\ dev # NoSession /\ (Torn \/ ~StillPresent(seenGen))

\* Steps of the presence thread until it sets the cause because its card is gone.
NoticeLeft(x) ==
  CASE x.presence = "done"              -> 0
    [] x.presence \in PresenceCauses    -> 1
    [] x.presence = "check"             -> 2
    [] x.presence = "wait"              -> 3
    [] x.presence = "probe"             -> 4

\* Steps of either thread until it returns, once there is a cause.
PresenceLeft(x) ==
  CASE x.presence = "done"                         -> 0
    [] x.presence \in PresenceCauses \cup {"wait"} -> 1
    [] x.presence = "probe"                        -> 2
    [] x.presence = "check"                        -> 3

TimerLeft(x) ==
  CASE x.timer = "done"                      -> 0
    [] x.timer \in TimerCauses \cup {"wait"} -> 1
    [] x.timer = "check"                     -> 2

ThreadsLeft(x) == PresenceLeft(x) + TimerLeft(x)

StepsLeft ==
  CASE pc = "starting"           -> 11
    [] pc = "live" /\ ~Torn      -> 7 + NoticeLeft(sess[session])
    [] pc = "live" /\ Torn       -> 2 + ThreadsLeft(sess[session])
    [] pc = "joining"            -> 1 + ThreadsLeft(sess[session])
    [] pc \notin {"starting", "live", "joining"} -> 0

LEMMA ThreadNumbers ==
  ASSUME NEW x \in LiveSession
  PROVE  /\ x.presence = "done"  => NoticeLeft(x) = 0 /\ PresenceLeft(x) = 0
         /\ x.presence \in PresenceCauses => NoticeLeft(x) = 1 /\ PresenceLeft(x) = 1
         /\ x.presence = "check" => NoticeLeft(x) = 2 /\ PresenceLeft(x) = 3
         /\ x.presence = "wait"  => NoticeLeft(x) = 3 /\ PresenceLeft(x) = 1
         /\ x.presence = "probe" => NoticeLeft(x) = 4 /\ PresenceLeft(x) = 2
         /\ x.timer = "done"  => TimerLeft(x) = 0
         /\ x.timer \in TimerCauses => TimerLeft(x) = 1
         /\ x.timer = "wait"  => TimerLeft(x) = 1
         /\ x.timer = "check" => TimerLeft(x) = 2
BY Zenon DEF NoticeLeft, PresenceLeft, TimerLeft, PresenceCauses, TimerCauses

LEMMA ThreadRanges ==
  ASSUME NEW x \in LiveSession
  PROVE  /\ NoticeLeft(x) \in 0 .. 4 /\ PresenceLeft(x) \in 0 .. 3 /\ TimerLeft(x) \in 0 .. 2
         /\ ThreadsLeft(x) \in 0 .. 5
<1>1. /\ x.presence \in {"wait", "check", "probe", "done"} \cup PresenceCauses
      /\ x.timer \in {"wait", "check", "done"} \cup TimerCauses
  BY DEF LiveSession
<1>2. NoticeLeft(x) \in 0 .. 4 /\ PresenceLeft(x) \in 0 .. 3 /\ TimerLeft(x) \in 0 .. 2
  BY <1>1, ThreadNumbers
<1>. QED BY <1>2 DEF ThreadsLeft

\* What a step of the presence thread, and of the time thread, makes of the object y;
\* `here' is the answer of the status query.
PresenceMoves(y, x, here) ==
  /\ x.timer = y.timer
  /\ x.bound = y.bound
  /\ \/ y.presence = "wait" /\ y.cause = "none" /\ x.cause = "none" /\ x.presence = "check"
     \/ y.presence = "wait" /\ y.cause # "none" /\ x.cause = y.cause /\ x.presence = "done"
     \/ y.presence = "check" /\ here /\ x.cause = y.cause /\ x.presence \in {"probe", "wait"}
     \/ y.presence = "probe" /\ x.cause = y.cause /\ x.presence = "wait"
     \/ /\ y.presence \in {"check", "probe"} /\ x.cause = y.cause
        /\ IF y.cause = "none" THEN x.presence \in PresenceCauses ELSE x.presence = "done"
     \/ y.presence \in PresenceCauses /\ x.cause # "none" /\ x.presence = "done"

TimerMoves(y, x) ==
  /\ x.presence = y.presence
  /\ x.bound = y.bound
  /\ y.cause # "none" => x.cause # "none"
  /\ \/ y.timer = "wait" /\ y.cause = "none" /\ x.timer = "check" /\ x.cause = "none"
     \/ y.timer = "wait" /\ y.cause # "none" /\ x.timer = "done"
     \/ y.timer = "check" /\ x.timer = "wait" /\ x.cause = y.cause
     \/ /\ y.timer = "check" /\ x.cause = y.cause
        /\ IF y.cause = "none" THEN x.timer \in TimerCauses ELSE x.timer = "done"
     \/ y.timer \in TimerCauses /\ x.timer = "done" /\ x.cause # "none"

LEMMA PresenceMovesShorten ==
  ASSUME NEW y \in LiveSession, NEW x \in LiveSession, NEW here, PresenceMoves(y, x, here)
  PROVE  /\ y.cause # "none" => x.cause # "none" /\ ThreadsLeft(x) < ThreadsLeft(y)
         /\ y.cause = "none" /\ ~here => x.cause # "none" \/ NoticeLeft(x) < NoticeLeft(y)
<1>1. /\ TimerLeft(x) = TimerLeft(y) /\ TimerLeft(y) \in Nat
      /\ PresenceLeft(x) \in Nat /\ PresenceLeft(y) \in Nat
  <2>1. TimerLeft(x) = TimerLeft(y)
    BY Zenon DEF PresenceMoves, TimerLeft
  <2>. QED BY <2>1, ThreadRanges
<1>2. y.cause # "none" => x.cause # "none" /\ PresenceLeft(x) < PresenceLeft(y)
  BY ThreadNumbers DEF PresenceMoves
<1>3. y.cause = "none" /\ ~here => x.cause # "none" \/ NoticeLeft(x) < NoticeLeft(y)
  BY ThreadNumbers DEF PresenceMoves
<1>. QED BY <1>1, <1>2, <1>3 DEF ThreadsLeft

LEMMA TimerMovesShorten ==
  ASSUME NEW y \in LiveSession, NEW x \in LiveSession, TimerMoves(y, x)
  PROVE  /\ y.cause # "none" => x.cause # "none" /\ ThreadsLeft(x) < ThreadsLeft(y)
         /\ y.cause = "none" => x.cause # "none" \/ NoticeLeft(x) = NoticeLeft(y)
<1>1. PresenceLeft(x) = PresenceLeft(y) /\ NoticeLeft(x) = NoticeLeft(y)
  BY Zenon DEF TimerMoves, PresenceLeft, NoticeLeft
<1>2. PresenceLeft(y) \in Nat /\ TimerLeft(x) \in Nat /\ TimerLeft(y) \in Nat
  BY ThreadRanges
<1>3. y.cause # "none" => x.cause # "none" /\ TimerLeft(x) < TimerLeft(y)
  BY ThreadNumbers DEF TimerMoves
<1>. QED BY <1>1, <1>2, <1>3 DEF ThreadsLeft

LEMMA CountedMoves ==
  ASSUME NEW z \in LiveSession, NEW alive \in BOOLEAN
  PROVE  /\ Counted(z, alive).timer = z.timer /\ Counted(z, alive).bound = z.bound
         /\ Counted(z, alive).cause = z.cause
         /\ \/ Counted(z, alive).presence = "wait"
            \/ z.cause = "none" /\ Counted(z, alive).presence \in PresenceCauses
            \/ z.cause # "none" /\ Counted(z, alive).presence = "done"
<1>1. CASE ~alive /\ z.failures + 1 >= 2
  <2>1. Counted(z, alive) = PresenceLeaves(z, Teardown(z, "removed"))
    BY <1>1 DEF Counted
  <2>2. /\ z.cause = "none" => Teardown(z, "removed") \in PresenceCauses
        /\ z.cause # "none" => Teardown(z, "removed") = "done"
    BY TeardownTests, PlacesOfCauses
  <2>. QED BY <2>1, <2>2, PresenceLeavesType
<1>2. CASE ~(~alive /\ z.failures + 1 >= 2)
  <2> DEFINE n == IF alive THEN 0 ELSE z.failures + 1
  <2>1. Counted(z, alive) = [z EXCEPT !.presence = "wait", !.failures = n]
    BY <1>2 DEF Counted
  <2> HIDE DEF n
  <2>. QED BY <2>1 DEF LiveSession
<1>. QED BY <1>1, <1>2

\* The object that the loop holds stays in use, whatever its threads do.
LEMMA HeldMoves ==
  ASSUME MonitorTypeOK, NEW s \in Sessions, sess[s].held, MonitorStep(s)
  PROVE  /\ PresenceStep(s) => PresenceMoves(sess[s], sess'[s], StillPresent(sess[s].bound))
         /\ TimerStep(s) => TimerMoves(sess[s], sess'[s])
         /\ WorkerReturns(s) => /\ sess'[s].presence = sess[s].presence
                                /\ sess'[s].timer = sess[s].timer
                                /\ sess'[s].cause = sess[s].cause
                                /\ sess'[s].bound = sess[s].bound
         /\ sess'[s] \in LiveSession
<1> DEFINE y == sess[s]
<1>0. y \in LiveSession /\ sess \in [Sessions -> LiveSession]
  BY DEF MonitorTypeOK
<1>1. ASSUME NEW x \in LiveSession, x.held, Becomes(s, x) PROVE sess'[s] = x
  BY <1>0, <1>1 DEF Becomes, Abandoned
<1>2. sess'[s] \in LiveSession
  <2>1. PICK x : Becomes(s, x) /\ Advances(y, x)
    BY MonitorStepAdvances
  <2>. QED BY <1>1, <2>1 DEF Advances
<1>3. ASSUME NEW z \in LiveSession, NEW alive \in BOOLEAN, z.held, Becomes(s, Counted(z, alive)),
             z.presence = "probe", y.presence = "probe", z.timer = y.timer,
             z.bound = y.bound, z.cause = y.cause
      PROVE  PresenceMoves(y, sess'[s], StillPresent(y.bound))
  <2>1. sess'[s] = Counted(z, alive)
    BY <1>1, <1>3, CountedAdvances DEF Advances
  <2>2. /\ Counted(z, alive).timer = z.timer /\ Counted(z, alive).bound = z.bound
        /\ Counted(z, alive).cause = z.cause
        /\ \/ Counted(z, alive).presence = "wait"
           \/ z.cause = "none" /\ Counted(z, alive).presence \in PresenceCauses
           \/ z.cause # "none" /\ Counted(z, alive).presence = "done"
    BY CountedMoves
  <2>. QED BY <1>3, <2>1, <2>2 DEF PresenceMoves
<1>4. ASSUME PresenceWakes(s) PROVE PresenceMoves(y, sess'[s], StillPresent(y.bound))
  <2>1. CASE y.cause = "none"
    <3> DEFINE x == [y EXCEPT !.presence = "check"]
    <3>1. /\ x \in LiveSession /\ x.held /\ x.timer = y.timer /\ x.bound = y.bound
          /\ x.cause = y.cause /\ x.presence = "check"
      BY <1>0 DEF LiveSession
    <3>2. Becomes(s, x) /\ y.presence = "wait"
      BY <1>4, <2>1 DEF PresenceWakes
    <3> HIDE DEF x
    <3>. QED BY <1>1, <2>1, <3>1, <3>2 DEF PresenceMoves
  <2>2. CASE y.cause # "none"
    <3>1. sess'[s] = PresenceDone(y)
      BY <1>0, <1>1, <1>4, <2>2, PresenceLeavesType DEF PresenceWakes, PresenceDone
    <3>. QED
      BY <1>0, <1>4, <2>2, <3>1, PresenceLeavesType
         DEF PresenceWakes, PresenceDone, PresenceMoves
  <2>. QED BY <2>1, <2>2
<1>5. ASSUME PresenceConfirmed(s) PROVE PresenceMoves(y, sess'[s], StillPresent(y.bound))
  <2> DEFINE x == [y EXCEPT !.even = ~@,
                            !.presence = IF y.even THEN "probe" ELSE "wait",
                            !.worker = IF y.even /\ @ = "idle" THEN "busy" ELSE @]
  <2>1. x \in LiveSession /\ x.held
    BY <1>0 DEF LiveSession
  <2>2. sess'[s] = x
    BY <1>1, <1>5, <2>1 DEF PresenceConfirmed
  <2>3. /\ x.timer = y.timer /\ x.bound = y.bound /\ x.cause = y.cause
        /\ x.presence \in {"probe", "wait"}
    BY <1>0 DEF LiveSession
  <2> HIDE DEF x
  <2>. QED BY <1>5, <2>2, <2>3 DEF PresenceConfirmed, PresenceMoves
<1>6. ASSUME PresenceLost(s) PROVE PresenceMoves(y, sess'[s], StillPresent(y.bound))
  <2>1. PICK c \in PresenceCauses : Becomes(s, PresenceLeaves(y, Teardown(y, c)))
    BY <1>6 DEF PresenceLost
  <2> DEFINE place == Teardown(y, c)
  <2>2. /\ place \in PresenceCauses \cup {"done"}
        /\ IF y.cause = "none" THEN place \in PresenceCauses ELSE place = "done"
    BY TeardownTests
  <2>3. y.presence = "check" /\ Becomes(s, PresenceLeaves(y, place))
    BY <1>6, <2>1 DEF PresenceLost
  <2> HIDE DEF place
  <2>4. sess'[s] = PresenceLeaves(y, place)
    BY <1>0, <1>1, <2>2, <2>3, PresenceLeavesType
  <2>. QED BY <1>0, <2>2, <2>3, <2>4, PresenceLeavesType DEF PresenceMoves
<1>7. ASSUME ProbeReturns(s) PROVE PresenceMoves(y, sess'[s], StillPresent(y.bound))
  <2>1. PICK alive \in BOOLEAN : Becomes(s, Counted([y EXCEPT !.worker = "idle"], alive))
    BY <1>7 DEF ProbeReturns
  <2> DEFINE z == [y EXCEPT !.worker = "idle"]
  <2>2. /\ z \in LiveSession /\ z.held /\ z.timer = y.timer /\ z.bound = y.bound
        /\ z.cause = y.cause /\ z.presence = y.presence
    BY <1>0 DEF LiveSession
  <2>3. Becomes(s, Counted(z, alive)) /\ y.presence = "probe"
    BY <1>7, <2>1 DEF ProbeReturns
  <2> HIDE DEF z
  <2>. QED BY <1>3, <2>2, <2>3
<1>8. ASSUME ProbeTimesOut(s) PROVE PresenceMoves(y, sess'[s], StillPresent(y.bound))
  <2> DEFINE z == [y EXCEPT !.worker = "stuck"]
  <2>1. /\ z \in LiveSession /\ z.held /\ z.timer = y.timer /\ z.bound = y.bound
        /\ z.cause = y.cause /\ z.presence = y.presence
    BY <1>0 DEF LiveSession
  <2>2. Becomes(s, Counted(z, FALSE)) /\ y.presence = "probe"
    BY <1>8, Zenon DEF ProbeTimesOut
  <2> HIDE DEF z
  <2>. QED BY <1>3, <2>1, <2>2
<1>15. ASSUME PresenceSets(s) PROVE PresenceMoves(y, sess'[s], StillPresent(y.bound))
  <2> DEFINE z == Caused(y, y.presence)
  <2>1. y.presence \in PresenceCauses /\ Becomes(s, PresenceLeaves(z, "done"))
    BY <1>15 DEF PresenceSets, PresenceDone
  <2>2. /\ z \in LiveSession /\ z.held /\ z.timer = y.timer /\ z.bound = y.bound
        /\ z.cause # "none"
    BY <1>0, <2>1, CausedType, PlacesOfCauses
  <2> HIDE DEF z
  <2>3. sess'[s] = PresenceLeaves(z, "done")
    BY <1>1, <2>1, <2>2, PresenceLeavesType
  <2>. QED BY <2>1, <2>2, <2>3, PresenceLeavesType DEF PresenceMoves
<1>9. ASSUME PresenceStep(s)
      PROVE  PresenceMoves(sess[s], sess'[s], StillPresent(sess[s].bound))
  BY <1>4, <1>5, <1>6, <1>7, <1>8, <1>9, <1>15 DEF PresenceStep
<1>10. ASSUME TimerWakes(s) PROVE TimerMoves(y, sess'[s])
  <2> DEFINE x == [y EXCEPT !.timer = IF y.cause = "none" THEN "check" ELSE "done"]
  <2>1. /\ x \in LiveSession /\ x.held /\ x.presence = y.presence /\ x.bound = y.bound
        /\ x.cause = y.cause
        /\ y.cause = "none" => x.timer = "check"
        /\ y.cause # "none" => x.timer = "done"
    BY <1>0 DEF LiveSession
  <2>2. Becomes(s, x) /\ y.timer = "wait"
    BY <1>10 DEF TimerWakes
  <2> HIDE DEF x
  <2>. QED BY <1>1, <2>1, <2>2 DEF TimerMoves
<1>11. ASSUME TimerWaits(s) PROVE TimerMoves(y, sess'[s])
  <2> DEFINE x == [y EXCEPT !.timer = "wait"]
  <2>1. /\ x \in LiveSession /\ x.held /\ x.presence = y.presence /\ x.bound = y.bound
        /\ x.cause = y.cause /\ x.timer = "wait"
    BY <1>0 DEF LiveSession
  <2>2. Becomes(s, x) /\ y.timer = "check"
    BY <1>11 DEF TimerWaits
  <2> HIDE DEF x
  <2>. QED BY <1>1, <2>1, <2>2 DEF TimerMoves
<1>12. ASSUME TimerExpires(s) PROVE TimerMoves(y, sess'[s])
  <2>1. PICK c \in TimerCauses : Becomes(s, [y EXCEPT !.timer = Teardown(y, c)])
    BY <1>12 DEF TimerExpires
  <2> DEFINE place == Teardown(y, c)
             x == [y EXCEPT !.timer = place]
  <2>2. /\ place \in TimerCauses \cup {"done"}
        /\ IF y.cause = "none" THEN place \in TimerCauses ELSE place = "done"
    BY TeardownTests
  <2>3. y.timer = "check" /\ Becomes(s, x)
    BY <1>12, <2>1 DEF TimerExpires
  <2> HIDE DEF place
  <2>4. /\ x \in LiveSession /\ x.held /\ x.presence = y.presence /\ x.bound = y.bound
        /\ x.cause = y.cause /\ x.timer = place
    BY <1>0, <2>2 DEF LiveSession
  <2> HIDE DEF x
  <2>. QED BY <1>1, <2>2, <2>3, <2>4 DEF TimerMoves
<1>16. ASSUME TimerSets(s) PROVE TimerMoves(y, sess'[s])
  <2> DEFINE z == Caused(y, y.timer)
             x == [z EXCEPT !.timer = "done"]
  <2>1. y.timer \in TimerCauses /\ Becomes(s, x)
    BY <1>16 DEF TimerSets
  <2>2. /\ z \in LiveSession /\ z.held /\ z.presence = y.presence /\ z.bound = y.bound
        /\ z.cause # "none"
    BY <1>0, <2>1, CausedType, PlacesOfCauses
  <2> HIDE DEF z
  <2>3. /\ x \in LiveSession /\ x.held /\ x.presence = z.presence /\ x.bound = z.bound
        /\ x.cause = z.cause /\ x.timer = "done"
    BY <2>2 DEF LiveSession
  <2> HIDE DEF x
  <2>. QED BY <1>1, <2>1, <2>2, <2>3 DEF TimerMoves
<1>13. ASSUME TimerStep(s) PROVE TimerMoves(sess[s], sess'[s])
  BY <1>10, <1>11, <1>12, <1>13, <1>16 DEF TimerStep
<1>14. ASSUME WorkerReturns(s)
       PROVE  /\ sess'[s].presence = sess[s].presence /\ sess'[s].timer = sess[s].timer
              /\ sess'[s].cause = sess[s].cause /\ sess'[s].bound = sess[s].bound
  <2> DEFINE x == [y EXCEPT !.worker = IF y.presence = "probe" THEN "busy" ELSE "idle"]
  <2>1. /\ x \in LiveSession /\ x.held /\ x.presence = y.presence /\ x.bound = y.bound
        /\ x.cause = y.cause /\ x.timer = y.timer
    BY <1>0 DEF LiveSession
  <2>2. Becomes(s, x)
    BY <1>14 DEF WorkerReturns
  <2> HIDE DEF x
  <2>. QED BY <1>1, <2>1, <2>2
<1>. QED BY <1>2, <1>9, <1>13, <1>14

\* The session of the loop watches the generation of the pass, and its presence
\* thread is at it until there is a cause.
Monitored ==
  session # NoSession =>
    /\ sess[session].bound = seenGen
    /\ sess[session].cause = "none" => sess[session].presence # "done"

\* The object that Bridge.session holds, when a monitor thread of some session steps.
LEMMA HeldStep ==
  ASSUME IInv, session # NoSession, NEW s \in Sessions, MonitorThread(s)
  PROVE  /\ session \in Sessions /\ sess[session] \in LiveSession
         /\ s = session => /\ MonitorTypeOK /\ sess[s].held /\ MonitorStep(s)
         /\ s # session => sess'[session] = sess[session]
<1>1. /\ session \in Sessions /\ sess \in [Sessions -> LiveSession]
      /\ MonitorTypeOK /\ sess[session].held /\ MonitorStep(s)
  BY DEF IInv, TypeOK, LoopTypeOK, MonitorTypeOK, Watched, MonitorThread
<1>2. PICK x : Becomes(s, x)
  BY <1>1, MonitorStepAdvances
<1>. QED BY <1>1, <1>2 DEF Becomes

\* The handler ends its teardown: the object gets a cause and keeps the rest.
LEMMA SignalTears ==
  ASSUME IInv, OnSignalSets
  PROVE  /\ session # NoSession
         /\ sess'[session] \in LiveSession /\ sess'[session].cause # "none"
         /\ sess'[session].presence = sess[session].presence
         /\ sess'[session].timer = sess[session].timer
         /\ sess'[session].bound = sess[session].bound
         /\ UNCHANGED <<pc, dev, session>>
<1>1. /\ session \in Sessions /\ sess \in [Sessions -> LiveSession] /\ sess[session] \in LiveSession
      /\ session # NoSession /\ sess[session].held /\ "sigterm" \in Causes
  BY DEF OnSignalSets, IInv, TypeOK, LoopTypeOK, MonitorTypeOK, Control, HandlerHolds,
         Watched, Causes
<1> DEFINE x == Caused(sess[session], "sigterm")
<1>2. /\ x \in LiveSession /\ x.held /\ x.cause # "none" /\ x.bound = sess[session].bound
      /\ x.presence = sess[session].presence /\ x.timer = sess[session].timer
  BY <1>1, CausedType
<1>3. Becomes(session, x) /\ UNCHANGED <<pc, dev, session>>
  BY DEF OnSignalSets
<1> HIDE DEF x
<1>4. sess'[session] = x
  BY <1>1, <1>2, <1>3 DEF Becomes, Abandoned
<1>. QED BY <1>1, <1>2, <1>3, <1>4

LEMMA MonitoredNext ==
  ASSUME IInv, Monitored, [Next]_vars
  PROVE  Monitored'
<1>0. /\ session # NoSession <=> pc \in {"live", "joining"}
      /\ pc = "starting" => dev \in Sessions
      /\ sess \in [Sessions -> LiveSession]
  BY DEF IInv, Control, GateOver, SessionOwnsDevice, TypeOK, LoopTypeOK, MonitorTypeOK
<1>1. CASE Environment \/ SendSignal \/ OnSignal \/ UNCHANGED vars
  BY <1>1 DEF Environment, SendSignal, OnSignal, vars, loopVars, gateVars, Monitored
<1>2. CASE GateThread
  BY <1>0, <1>2 DEF GateThread, loopVars, Monitored
<1>3. ASSUME NEW s \in Sessions, MonitorThread(s) PROVE Monitored'
  <2>. SUFFICES ASSUME session # NoSession
                PROVE  /\ sess'[session].bound = seenGen
                       /\ sess'[session].cause = "none" => sess'[session].presence # "done"
    BY <1>3 DEF Monitored, MonitorThread, loopVars, gateVars
  <2>1. /\ sess[session].bound = seenGen
        /\ sess[session].cause = "none" => sess[session].presence # "done"
    BY DEF Monitored
  <2>2. CASE s # session
    BY <1>3, <2>1, <2>2, HeldStep
  <2>3. CASE s = session
    <3>1. MonitorTypeOK /\ sess[s].held /\ MonitorStep(s)
      BY <1>3, <2>3, HeldStep
    <3>2. CASE PresenceStep(s)
      BY <2>1, <2>3, <3>1, <3>2, HeldMoves, PlacesOfCauses DEF PresenceMoves
    <3>3. CASE TimerStep(s)
      BY <2>1, <2>3, <3>1, <3>3, HeldMoves DEF TimerMoves
    <3>4. CASE WorkerReturns(s)
      BY <2>1, <2>3, <3>1, <3>4, HeldMoves
    <3>. QED BY <3>1, <3>2, <3>3, <3>4 DEF MonitorStep
  <2>. QED BY <2>2, <2>3
<1>4. CASE GoLive
  <2>1. sess'[dev] = Started(seenGen) /\ session' = dev /\ seenGen' = seenGen
    BY <1>0, <1>4 DEF GoLive, gateVars
  <2>. QED BY <2>1 DEF Started, Monitored
<1>5. CASE EndSession
  BY <1>5 DEF EndSession, DropSession, Monitored
<1>6. CASE (LoopStep \/ LoopFails) /\ ~GoLive /\ ~EndSession
  <2>1. UNCHANGED <<sess, session>> /\ (UNCHANGED gateVars \/ session = NoSession)
    BY <1>0, <1>6
       DEF LoopStep, LoopFails, RateLimited, GateRefused, Sleep, Wake, Park, HandoffDone,
           TotpPassed, TotpAnswered, ParkPollWakes, ParkPollStays, ParkPollAbsent,
           ParkListFails, PollMisses, ParkWaitFails, Unpark, Parked, GatePassed,
           StartFails, CauseSeen, ProcessEnds
  <2>. QED BY <2>1 DEF gateVars, Monitored
<1>7. CASE OnSignalSets
  BY <1>7, SignalTears DEF OnSignalSets, gateVars, Monitored
<1>. QED BY <1>1, <1>2, <1>3, <1>4, <1>5, <1>6, <1>7 DEF Next

LEMMA MonitoredInvariant == Spec => [](IInv /\ Monitored)
<1>1. Init => Monitored
  BY DEF Init, Monitored
<1>2. IInv /\ Monitored /\ [Next]_vars => Monitored'
  BY MonitoredNext
<1>. QED BY <1>1, <1>2, Invariant, PTL DEF Spec

Lengths ==
  /\ pc = "starting"       => StepsLeft = 11
  /\ pc = "live" /\ ~Torn  => StepsLeft = 7 + NoticeLeft(sess[session])
  /\ pc = "live" /\ Torn   => StepsLeft = 2 + ThreadsLeft(sess[session])
  /\ pc = "joining"        => StepsLeft = 1 + ThreadsLeft(sess[session])
  /\ pc \notin {"starting", "live", "joining"} => StepsLeft = 0

LEMMA LengthsHold == Lengths
BY Zenon DEF StepsLeft, Lengths

LEMMA LengthsNext == Lengths'
BY LengthsHold, PTL

LengthInRange == StepsLeft \in 0 .. 11

LEMMA LengthRange == IInv => LengthInRange
<1>1. ASSUME IInv, pc \in {"live", "joining"} PROVE sess[session] \in LiveSession
  BY <1>1 DEF IInv, Control, SessionOwnsDevice, TypeOK, LoopTypeOK, MonitorTypeOK
<1>2. ASSUME NEW n, n \in 0 .. 4 PROVE 7 + n \in 0 .. 11
  BY <1>2
<1>3. ASSUME NEW n, n \in 0 .. 5 PROVE 2 + n \in 0 .. 11 /\ 1 + n \in 0 .. 11
  BY <1>3
<1>4. ASSUME IInv, pc \in {"live", "joining"} PROVE StepsLeft \in 0 .. 11
  <2>1. NoticeLeft(sess[session]) \in 0 .. 4 /\ ThreadsLeft(sess[session]) \in 0 .. 5
    BY <1>1, <1>4, ThreadRanges
  <2>2. CASE pc = "live" /\ ~Torn
    BY <1>2, <2>1, <2>2, LengthsHold DEF Lengths
  <2>3. CASE pc = "live" /\ Torn
    BY <1>3, <2>1, <2>3, LengthsHold DEF Lengths
  <2>4. CASE pc = "joining"
    BY <1>3, <2>1, <2>4, LengthsHold DEF Lengths
  <2>. QED BY <1>4, <2>2, <2>3, <2>4
<1>5. ASSUME pc \notin {"live", "joining"} PROVE StepsLeft \in 0 .. 11
  BY <1>5, LengthsHold DEF Lengths
<1>. QED BY <1>4, <1>5 DEF LengthInRange

LEMMA LengthRangeNext == IInv' => LengthInRange'
BY LengthRange, PTL

\* While the loop stays where it is, the length follows the object it holds.
LEMMA SamePlace ==
  ASSUME IInv, Monitored, session # NoSession, UNCHANGED <<pc, session>>,
         NEW y \in LiveSession, y = sess[session],
         NEW x \in LiveSession, x = sess'[session]
  PROVE  /\ y.cause # "none" /\ x.cause # "none" =>
              /\ ThreadsLeft(x) < ThreadsLeft(y) => StepsLeft' < StepsLeft
              /\ ThreadsLeft(x) = ThreadsLeft(y) => StepsLeft' = StepsLeft
         /\ y.cause = "none" /\ x.cause # "none" => StepsLeft' < StepsLeft
         /\ y.cause = "none" /\ x.cause = "none" =>
              /\ NoticeLeft(x) < NoticeLeft(y) => StepsLeft' < StepsLeft
              /\ NoticeLeft(x) = NoticeLeft(y) => StepsLeft' = StepsLeft
<1>1. /\ pc \in {"live", "joining"}
      /\ pc = "joining" => y.cause # "none"
      /\ y.cause = "none" => y.presence \in {"wait", "check", "probe"} \cup PresenceCauses
  BY DEF IInv, Control, SessionOwnsDevice, Watched, Monitored, LiveSession
<1>2. PICK a, b, c, d \in Nat :
        /\ a = ThreadsLeft(y) /\ b = ThreadsLeft(x) /\ b <= 5
        /\ c = NoticeLeft(y) /\ d = NoticeLeft(x) /\ (y.cause = "none" => c >= 1)
  <2>1. y.cause = "none" => NoticeLeft(y) >= 1
    BY <1>1, ThreadNumbers
  <2>. QED BY <2>1, ThreadRanges
<1>3. (Torn <=> y.cause # "none") /\ (Torn' <=> x.cause # "none")
  BY DEF Torn
<1>4. CASE pc = "joining"
  <2>1. StepsLeft = 1 + a /\ StepsLeft' = 1 + b
    BY <1>2, <1>4, LengthsHold, LengthsNext DEF Lengths
  <2>2. b < a => 1 + b < 1 + a
    BY <1>2
  <2>. QED BY <1>1, <1>2, <1>4, <2>1, <2>2
<1>5. CASE pc = "live" /\ y.cause # "none"
  <2>1. /\ StepsLeft = 2 + a
        /\ x.cause # "none" => StepsLeft' = 2 + b
    BY <1>2, <1>3, <1>5, LengthsHold, LengthsNext DEF Lengths
  <2>2. b < a => 2 + b < 2 + a
    BY <1>2
  <2>. QED BY <1>2, <1>5, <2>1, <2>2
<1>6. CASE pc = "live" /\ y.cause = "none"
  <2>1. /\ StepsLeft = 7 + c
        /\ x.cause # "none" => StepsLeft' = 2 + b
        /\ x.cause = "none" => StepsLeft' = 7 + d
    BY <1>2, <1>3, <1>6, LengthsHold, LengthsNext DEF Lengths
  <2>2. 2 + b < 7 + c /\ (d < c => 7 + d < 7 + c)
    BY <1>2, <1>6
  <2>. QED BY <1>2, <1>6, <2>1, <2>2
<1>. QED BY <1>1, <1>4, <1>5, <1>6

\* Where the loop is when a device is to be taken away.
LEMMA DoomedPlace ==
  ASSUME IInv, Doomed
  PROVE  /\ pc \in {"starting", "live", "joining"} /\ dev \in Sessions
         /\ session # NoSession <=> pc \in {"live", "joining"}
         /\ session # NoSession => session \in Sessions /\ sess[session] \in LiveSession
         /\ sess \in [Sessions -> LiveSession]
  BY DEF Doomed, InLoop, IInv, Control, DeviceOnlyAfterPass, SessionOwnsDevice, TypeOK,
         LoopTypeOK, MonitorTypeOK

LEMMA LoopShortens ==
  ASSUME IInv, IInv', Monitored, Doomed, LoopStep
  PROVE  StepsLeft' < StepsLeft
<1>1. CASE GoLive
  <2>1. pc = "starting" /\ pc' = "live" /\ session' = dev /\ sess'[session'] = Started(seenGen)
    BY <1>1, DoomedPlace DEF GoLive
  <2>2. Started(seenGen) \in LiveSession /\ ~Torn'
    BY <2>1, StartedType DEF Torn, Started, IInv, TypeOK, GateTypeOK
  <2>3. NoticeLeft(Started(seenGen)) = 3
    BY <2>2, ThreadNumbers DEF Started
  <2>4. StepsLeft = 11 /\ StepsLeft' = 7 + 3
    BY <2>1, <2>2, <2>3, LengthsHold, LengthsNext DEF Lengths
  <2>. QED BY <2>4
<1>2. CASE CauseSeen
  <2>1. /\ pc = "live" /\ Torn /\ pc' = "joining" /\ UNCHANGED <<sess, session>>
        /\ sess[session] \in LiveSession
    BY <1>2, DoomedPlace DEF CauseSeen, Torn
  <2>2. PICK a \in Nat : a = ThreadsLeft(sess[session])
    BY <2>1, ThreadRanges
  <2>3. StepsLeft = 2 + a /\ StepsLeft' = 1 + a
    BY <2>1, <2>2, LengthsHold, LengthsNext DEF Lengths
  <2>4. 1 + a < 2 + a
    BY <2>2
  <2>. QED BY <2>3, <2>4
<1>3. CASE EndSession
  <2>1. pc = "joining" /\ pc' \in {"exiting", "gating"} /\ sess[session] \in LiveSession
    BY <1>3, DoomedPlace DEF EndSession, GateAgainOrExit
  <2>2. PICK a \in Nat : a = ThreadsLeft(sess[session])
    BY <2>1, ThreadRanges
  <2>3. StepsLeft = 1 + a /\ StepsLeft' = 0
    BY <2>1, <2>2, LengthsHold, LengthsNext DEF Lengths
  <2>4. 0 < 1 + a
    BY <2>2
  <2>. QED BY <2>3, <2>4
<1>. QED
  BY <1>1, <1>2, <1>3, DoomedPlace
     DEF LoopStep, RateLimited, GateRefused, Wake, Park, HandoffDone, TotpPassed,
         TotpAnswered, ParkPollWakes, ParkPollStays, ParkPollAbsent, Parked, GatePassed,
         GateReturned, ProcessEnds

LEMMA PresenceShortens ==
  ASSUME IInv, Monitored, Doomed, session # NoSession, PresenceRuns(session)
  PROVE  StepsLeft' < StepsLeft
<1>1. MonitorThread(session) /\ PresenceStep(session) /\ UNCHANGED <<pc, session>>
  BY DEF PresenceRuns, MonitorThread, MonitorStep, loopVars
<1>2. /\ session \in Sessions /\ MonitorTypeOK /\ sess[session].held /\ MonitorStep(session)
      /\ sess[session] \in LiveSession
  BY <1>1, DoomedPlace, HeldStep
<1>3. /\ PresenceMoves(sess[session], sess'[session], StillPresent(sess[session].bound))
      /\ sess'[session] \in LiveSession
  BY <1>1, <1>2, HeldMoves
<1>4. sess[session].cause = "none" => ~StillPresent(sess[session].bound)
  BY DEF Doomed, Torn, Monitored
<1>5. /\ sess[session].cause # "none" =>
           /\ sess'[session].cause # "none"
           /\ ThreadsLeft(sess'[session]) < ThreadsLeft(sess[session])
      /\ sess[session].cause = "none" =>
           \/ sess'[session].cause # "none"
           \/ NoticeLeft(sess'[session]) < NoticeLeft(sess[session])
  BY <1>2, <1>3, <1>4, PresenceMovesShorten
<1>. QED BY <1>1, <1>2, <1>3, <1>5, SamePlace

LEMMA TimerNeverLengthens ==
  ASSUME IInv, IInv', Monitored, Doomed, session # NoSession, MonitorThread(session),
         TimerStep(session)
  PROVE  /\ Torn => StepsLeft' < StepsLeft
         /\ StepsLeft' < StepsLeft \/ StepsLeft' = StepsLeft
<1>1. UNCHANGED <<pc, session>>
  BY DEF MonitorThread, loopVars
<1>2. /\ session \in Sessions /\ MonitorTypeOK /\ sess[session].held /\ MonitorStep(session)
      /\ sess[session] \in LiveSession
  BY DoomedPlace, HeldStep
<1>3. TimerMoves(sess[session], sess'[session]) /\ sess'[session] \in LiveSession
  BY <1>2, HeldMoves
<1>4. /\ sess[session].cause # "none" =>
           /\ sess'[session].cause # "none"
           /\ ThreadsLeft(sess'[session]) < ThreadsLeft(sess[session])
      /\ sess[session].cause = "none" =>
           \/ sess'[session].cause # "none"
           \/ NoticeLeft(sess'[session]) = NoticeLeft(sess[session])
  BY <1>2, <1>3, TimerMovesShorten
<1>. QED BY <1>1, <1>2, <1>3, <1>4, SamePlace DEF Torn

LEMMA WorkerNeverLengthens ==
  ASSUME IInv, IInv', Monitored, Doomed, session # NoSession, MonitorThread(session),
         WorkerReturns(session)
  PROVE  StepsLeft' = StepsLeft
<1>1. UNCHANGED <<pc, session>>
  BY DEF MonitorThread, loopVars
<1>2. /\ session \in Sessions /\ MonitorTypeOK /\ sess[session].held /\ MonitorStep(session)
      /\ sess[session] \in LiveSession
  BY DoomedPlace, HeldStep
<1>3. /\ sess'[session].presence = sess[session].presence
      /\ sess'[session].timer = sess[session].timer
      /\ sess'[session].cause = sess[session].cause
      /\ sess'[session] \in LiveSession
  BY <1>2, HeldMoves
<1>4. /\ NoticeLeft(sess'[session]) = NoticeLeft(sess[session])
      /\ ThreadsLeft(sess'[session]) = ThreadsLeft(sess[session])
  BY <1>3, Zenon DEF NoticeLeft, ThreadsLeft, PresenceLeft, TimerLeft
<1>. QED BY <1>1, <1>2, <1>3, <1>4, SamePlace

\* Whatever else happens leaves a doomed device no more steps than before.
LEMMA NothingLengthens ==
  ASSUME IInv, IInv', Monitored, Doomed, [Next]_vars
  PROVE  StepsLeft' <= StepsLeft
<1>0. StepsLeft \in 0 .. 11 /\ StepsLeft' \in 0 .. 11
  BY LengthRange, LengthRangeNext DEF LengthInRange
<1>a. ASSUME StepsLeft' < StepsLeft \/ StepsLeft' = StepsLeft PROVE StepsLeft' <= StepsLeft
  BY <1>0, <1>a
<1>b. ASSUME UNCHANGED <<pc, session, sess>> PROVE StepsLeft' <= StepsLeft
  <2>1. StepsLeft' = StepsLeft
    BY <1>b DEF StepsLeft, Torn
  <2>. QED BY <1>a, <2>1
<1>c. ASSUME pc' \notin {"starting", "live", "joining"} PROVE StepsLeft' <= StepsLeft
  <2>1. StepsLeft' = 0
    BY <1>c, LengthsNext DEF Lengths
  <2>. QED BY <1>0, <2>1
<1>1. CASE Environment \/ SendSignal \/ UNCHANGED vars
  BY <1>1, <1>b DEF Environment, SendSignal, vars, loopVars
<1>2. CASE GateThread
  BY <1>2, DoomedPlace DEF GateThread
<1>3. ASSUME NEW s \in Sessions, MonitorThread(s) PROVE StepsLeft' <= StepsLeft
  <2>0. UNCHANGED <<pc, session>>
    BY <1>3 DEF MonitorThread, loopVars
  <2>1. CASE session = NoSession
    <3>1. pc = "starting"
      BY <2>1, DoomedPlace
    <3>2. StepsLeft = 11 /\ StepsLeft' = 11
      BY <2>0, <3>1, LengthsHold, LengthsNext DEF Lengths
    <3>. QED BY <3>2
  <2>2. CASE session # NoSession /\ s # session
    <3>1. sess'[session] = sess[session] /\ sess[session] \in LiveSession
      BY <1>3, <2>2, HeldStep
    <3>2. StepsLeft' = StepsLeft
      BY <2>0, <2>2, <3>1, SamePlace
    <3>. QED BY <1>a, <3>2
  <2>3. CASE session # NoSession /\ s = session
    <3>1. CASE PresenceStep(s)
      <4>1. PresenceRuns(session)
        BY <1>3, <2>3, <3>1 DEF MonitorThread, PresenceRuns
      <4>. QED BY <1>a, <2>3, <4>1, PresenceShortens
    <3>2. CASE TimerStep(s)
      BY <1>3, <1>a, <2>3, <3>2, TimerNeverLengthens
    <3>3. CASE WorkerReturns(s)
      BY <1>3, <1>a, <2>3, <3>3, WorkerNeverLengthens
    <3>. QED BY <1>3, <3>1, <3>2, <3>3 DEF MonitorThread, MonitorStep
  <2>. QED BY <2>1, <2>2, <2>3
<1>4. CASE LoopStep
  BY <1>4, <1>a, LoopShortens
<1>5. CASE LoopFails
  BY <1>5, <1>c, DoomedPlace DEF LoopFails, StartFails, ParkListFails, ParkWaitFails,
                                 Parked
<1>6. CASE OnSignal
  BY <1>6, <1>b, <1>c DEF OnSignal
<1>7. CASE OnSignalSets
  <2>1. /\ session # NoSession /\ sess'[session] \in LiveSession
        /\ sess'[session].cause # "none"
        /\ sess'[session].presence = sess[session].presence
        /\ sess'[session].timer = sess[session].timer
        /\ UNCHANGED <<pc, session>> /\ sess[session] \in LiveSession
    BY <1>7, SignalTears, DoomedPlace
  <2>2. ThreadsLeft(sess'[session]) = ThreadsLeft(sess[session])
    BY <2>1, Zenon DEF ThreadsLeft, PresenceLeft, TimerLeft
  <2>. QED BY <1>a, <2>1, <2>2, SamePlace
<1>. QED BY <1>1, <1>2, <1>3, <1>4, <1>5, <1>6, <1>7 DEF Next

\* A doomed device has at most eleven steps of the loop and of its two threads left.
DoomBounded == Doomed => StepsLeft \in 1 .. 11

\* Each of their steps leaves it fewer, and no step of the card, of another session,
\* of a probe or of a signal adds one.
DoomNears ==
  [][Doomed =>
       /\ StepsLeft' <= StepsLeft
       /\ LoopStep => StepsLeft' < StepsLeft
       /\ session # NoSession /\ PresenceRuns(session) => StepsLeft' < StepsLeft
       /\ Torn /\ TimerRuns(session) => StepsLeft' < StepsLeft]_vars

\* Once the loop was told to tear down, by a monitor or by the signal handler, or the
\* query no longer finds the card, the device is a bounded number of steps from its end.
THEOREM TeardownIsBounded == Spec => []DoomBounded /\ DoomNears
<1>1. IInv => DoomBounded
  <2>. SUFFICES ASSUME IInv, Doomed PROVE StepsLeft \in 1 .. 11
    BY DEF DoomBounded
  <2>1. StepsLeft \in 0 .. 11 /\ (pc = "starting" => StepsLeft = 11)
    BY LengthRange, LengthsHold DEF LengthInRange, Lengths
  <2>2. CASE pc \in {"live", "joining"}
    <3>1. PICK a, c \in Nat : a = ThreadsLeft(sess[session]) /\ c = NoticeLeft(sess[session])
      BY <2>2, DoomedPlace, ThreadRanges
    <3>2. StepsLeft \in {7 + c, 2 + a, 1 + a}
      BY <2>2, <3>1, LengthsHold DEF Lengths
    <3>3. 7 + c # 0 /\ 2 + a # 0 /\ 1 + a # 0
      BY <3>1
    <3>. QED BY <2>1, <3>2, <3>3
  <2>. QED BY <2>1, <2>2, DoomedPlace
<1>2. IInv /\ IInv' /\ Monitored /\ [Next]_vars =>
        [Doomed =>
           /\ StepsLeft' <= StepsLeft
           /\ LoopStep => StepsLeft' < StepsLeft
           /\ session # NoSession /\ PresenceRuns(session) => StepsLeft' < StepsLeft
           /\ Torn /\ TimerRuns(session) => StepsLeft' < StepsLeft]_vars
  <2>. SUFFICES ASSUME IInv, IInv', Monitored, [Next]_vars, Doomed
                PROVE  /\ StepsLeft' <= StepsLeft
                       /\ LoopStep => StepsLeft' < StepsLeft
                       /\ session # NoSession /\ PresenceRuns(session) => StepsLeft' < StepsLeft
                       /\ Torn /\ TimerRuns(session) => StepsLeft' < StepsLeft
    OBVIOUS
  <2>1. Torn /\ TimerRuns(session) => StepsLeft' < StepsLeft
    BY TimerNeverLengthens DEF TimerRuns, Torn, MonitorThread, MonitorStep
  <2>. QED BY <2>1, NothingLengthens, LoopShortens, PresenceShortens
<1>. QED BY <1>1, <1>2, MonitoredInvariant, PTL DEF Spec, DoomNears

\* With a counter that does not wrap, the query does not find the card that passed once
\* it was removed, whatever is inserted after it.
RemovalDooms ==
  InLoop /\ dev # NoSession /\ ~(seated /\ ins = seenIns) => Doomed

\* What is doomed stays so until it is gone.
DoomStays == [][Doomed => Doomed' \/ dev' = NoSession \/ ~InLoop']_vars

QueryIsTrue ==
  dev # NoSession => (StillPresent(seenGen) <=> seated /\ ins = seenIns)

LEMMA QueryTells == IInv /\ Tracking => QueryIsTrue
<1>. SUFFICES ASSUME IInv, Tracking, dev # NoSession
              PROVE  StillPresent(seenGen) <=> seated /\ ins = seenIns
  BY DEF QueryIsTrue
<1>1. seenIns # 0
  BY PassHasInsertion DEF IInv, Control, DeviceOnlyAfterPass
<1>2. gen \in Nat /\ ins \in Nat /\ seenIns \in Nat /\ seenGen \in Nat
  BY SlotAssumption DEF IInv, TypeOK, SlotTypeOK, GateTypeOK, Generations, Insertions
<1>3. attached /\ gen + seenIns = seenGen + ins
  BY <1>1 DEF Tracking, SeenTracks
<1>. QED BY <1>2, <1>3 DEF StillPresent

LEMMA QueryTellsNext == IInv' /\ Tracking' => QueryIsTrue'
BY QueryTells, PTL

LEMMA DoomStaysStep ==
  ASSUME IInv, IInv', Tracking, Tracking', Doomed, [Next]_vars, dev' # NoSession, InLoop'
  PROVE  Doomed'
<1>0. pc \in {"starting", "live", "joining"} /\ pc' \in {"starting", "live", "joining"}
  BY DoomedPlace DEF IInv, Control, DeviceOnlyAfterPass, InLoop
<1>1. CASE Torn
  <2>1. session \in Sessions /\ session' = session /\ sess'[session].held
    <3>1. session \in Sessions
      BY <1>1, DoomedPlace DEF Torn
    <3>2. session' = session
      BY <1>0, <1>1
         DEF Torn, IInv, Control, SessionOwnsDevice,
             Next, Environment, GateThread, MonitorThread, SendSignal, OnSignal,
             OnSignalSets, vars, loopVars, LoopStep, LoopFails, RateLimited,
             GateRefused, Sleep, Wake, Park,
             HandoffDone, TotpPassed, TotpAnswered, ParkPollWakes, ParkPollStays,
             ParkPollAbsent, ParkListFails, PollMisses, ParkWaitFails, Unpark, GatePassed,
             StartFails, GoLive, CauseSeen, EndSession, ProcessEnds
    <3>. QED BY <1>1, <3>1, <3>2 DEF Torn, IInv, Watched
  <2>2. sess'[session].cause # "none" \/ sess'[session] = Unused
    BY <1>1, <2>1, CauseKeptStep DEF CauseKept, Torn
  <2>3. sess'[session].cause # "none"
    BY <1>1, <2>1, <2>2 DEF Torn, Unused
  <2>. QED BY <2>1, <2>3, <1>1 DEF Doomed, Torn
<1>2. CASE ~StillPresent(seenGen)
  <2>1. ~(seated /\ ins = seenIns) /\ seenIns # 0 /\ seenIns <= ins
    BY <1>2, QueryTells, PassHasInsertion
       DEF QueryIsTrue, Doomed, Tracking, SeenTracks, IInv, Control, DeviceOnlyAfterPass
  <2>2. ins \in Nat /\ seenIns \in Nat
    BY SlotAssumption DEF IInv, TypeOK, SlotTypeOK, GateTypeOK, Insertions
  <2>3. seenIns' = seenIns
    <3>1. CASE GateThread
      BY <1>0, <3>1 DEF GateThread
    <3>2. CASE LoopStep \/ LoopFails \/ SendSignal \/ OnSignal \/ OnSignalSets
      <4>1. UNCHANGED gateVars \/ GateBegin
        BY <3>2, LoopFrame
      <4>2. ~GateBegin
        BY <1>0 DEF GateBegin, IInv, Control, GateOver
      <4>. QED BY <4>1, <4>2 DEF gateVars
    <3>. QED BY <3>1, <3>2 DEF Next, Environment, MonitorThread, vars, gateVars
  <2>4. ~(seated' /\ ins' = seenIns')
    <3>1. CASE Environment
      BY <2>1, <2>2, <2>3, <3>1 DEF Environment, SlotNext, Insert, Remove, Lift,
                                    Unplug, Replug
    <3>2. CASE UNCHANGED slotVars
      BY <2>1, <2>3, <3>2 DEF slotVars
    <3>. QED BY <3>1, <3>2, LoopFrame DEF Next, GateThread, MonitorThread, vars
  <2>5. ~StillPresent(seenGen)'
    BY <2>4, QueryTellsNext DEF QueryIsTrue
  <2>. QED BY <2>5 DEF Doomed
<1>. QED BY <1>1, <1>2 DEF Doomed

\* The presence monitor's test cannot be fooled by a card that takes the place of the one
\* that passed: every removal is a reason to take the device away.
THEOREM RemovalNoticed ==
  ASSUME GensUnique
  PROVE  Spec => []RemovalDooms /\ DoomStays
<1>1. IInv /\ Tracking => RemovalDooms
  BY QueryTells DEF QueryIsTrue, RemovalDooms, Doomed
<1>2. IInv /\ IInv' /\ Tracking /\ Tracking' /\ [Next]_vars =>
        [Doomed => Doomed' \/ dev' = NoSession \/ ~InLoop']_vars
  BY DoomStaysStep
<1>. QED BY <1>1, <1>2, TrackingInvariant, PTL DEF Spec, DoomStays

=============================================================================
