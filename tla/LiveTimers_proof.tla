--------------------------- MODULE LiveTimers_proof ---------------------------
(* Proofs about LiveTimers. *)
EXTENDS LiveTimers, TLAPS

LEMMA LeastOfFour ==
  ASSUME NEW S, S \subseteq 1 .. 4, S # {}
  PROVE  Min(S) \in 1 .. 4
<1>1. \E x \in S : \A y \in S : x <= y
  <2>1. CASE 1 \in S
    BY <2>1
  <2>2. CASE 1 \notin S /\ 2 \in S
    BY <2>2
  <2>3. CASE 1 \notin S /\ 2 \notin S /\ 3 \in S
    BY <2>3
  <2>4. CASE 1 \notin S /\ 2 \notin S /\ 3 \notin S
    <3>1. \A y \in S : y = 4
      BY <2>4
    <3>2. PICK x \in S : TRUE
      OBVIOUS
    <3>. QED BY <3>1, <3>2
  <2>. QED BY <2>1, <2>2, <2>3, <2>4
<1>2. Min(S) \in S
  BY <1>1 DEF Min
<1>. QED BY <1>2

LEMMA LeastIs ==
  ASSUME NEW S, NEW i \in S, \A k \in S : i <= k /\ k \in 1 .. 4
  PROVE  Min(S) = i
<1>1. Min(S) \in S /\ Min(S) <= i
  BY DEF Min
<1>. QED BY <1>1

LEMMA UnitIsPositive ==
  ASSUME NEW i \in 1 .. 4
  PROVE  UnitOf(SUFFIXES[i]) \in Nat \ {0}
<1>1. \A u \in {"ms", "m", "h", "s"} : Units[u] \in Nat \ {0}
  BY DurationsAssumption
<1>2. CASE i = 1
  BY <1>1, <1>2 DEF UnitOf, SUFFIXES
<1>3. CASE i = 2
  BY <1>1, <1>3 DEF UnitOf, SUFFIXES
<1>4. CASE i = 3
  BY <1>1, <1>4 DEF UnitOf, SUFFIXES
<1>5. CASE i = 4
  BY <1>1, <1>5 DEF UnitOf, SUFFIXES
<1>. QED BY <1>2, <1>3, <1>4, <1>5

\* parse_duration yields positive durations, or Never.
LEMMA ParsedIsDuration ==
  ASSUME NEW text \in IdleTexts \cup LifetimeTexts, NEW d \in ParseDuration(text)
  PROVE  d \in (Nat \ {0}) \cup {Never}
<1> DEFINE tried == {i \in DOMAIN SUFFIXES : IsSuffix(SUFFIXES[i], text.letters)}
           unit == UnitOf(SUFFIXES[Min(tried)])
<1>1. text.number \in Int \cup {NotNumber, Unordered}
  BY TimersAssumption
<1>2. DOMAIN SUFFIXES = 1 .. 4
  BY DEF SUFFIXES
<1>3. /\ tried # {}
      /\ \/ d = Never
         \/ text.number \in Int /\ d = text.number * unit /\ ~(text.number * unit <= 0)
  BY <1>1 DEF ParseDuration
<1>4. unit \in Nat
  BY <1>2, <1>3, LeastOfFour, UnitIsPositive
<1>5. CASE d = Never
  BY <1>5
<1>6. CASE d # Never
  <2>1. text.number \in Int /\ d = text.number * unit /\ ~(text.number * unit <= 0)
    BY <1>3, <1>6
  <2> HIDE DEF unit
  <2>2. text.number * unit \in Int
    BY <1>4, <2>1
  <2>. QED BY <2>1, <2>2
<1>. QED BY <1>5, <1>6

----------------------------------------------------------------------------
(* Type correctness. *)

LEMMA DownIsLess ==
  ASSUME NEW n \in Nat, NEW m \in Nat, n <= m
  PROVE  Down(n) \in 0 .. m
BY DEF Down

LEMMA TypeInit == Init => TypeOK
<1> SUFFICES ASSUME Init PROVE TypeOK
  OBVIOUS
<1>1. PICK text \in IdleTexts : t_idle \in ParseDuration(text)
  BY DEF Init
<1>2. PICK words \in LifetimeTexts : t_max \in ParseDuration(words)
  BY DEF Init
<1>3. t_idle \in (Nat \ {0}) \cup {Never}
  BY <1>1, ParsedIsDuration
<1>4. t_max \in (Nat \ {0}) \cup {Never}
  BY <1>2, ParsedIsDuration
<1>5. /\ time = 0 /\ back = 0 /\ forward = 0 /\ stage = "starting"
      /\ created = 0 /\ last_activity = 0 /\ cause = "none"
      /\ watch = 0 /\ wait = 0 /\ busy = 0 /\ overtaken = {}
      /\ signalled = FALSE /\ heard = 0 /\ reason = -1
  BY DEF Init, NotYet
<1>6. /\ time \in 0 .. MaxTime /\ back \in 0 .. MaxBack /\ forward \in 0 .. MaxForward
      /\ watch \in 0 .. PRESENCE_POLL /\ wait \in Nat /\ busy \in 0 .. MaxRelay
      /\ heard \in 0 .. MaxTime /\ created \in Int /\ last_activity \in Int
  BY <1>5, TimersAssumption
<1>7. signalled \in BOOLEAN /\ overtaken \subseteq {"task", "signal"}
  BY <1>5
<1>8. /\ stage \in {"starting", "live", "joins_presence", "joins_time", "gone"}
      /\ cause \in Causes /\ reason \in {NotYet} \cup 0 .. MaxTime
  BY <1>5 DEF Causes, NotYet
<1>. QED BY <1>3, <1>4, <1>6, <1>7, <1>8 DEF TypeOK

LEMMA TypeNext == TypeOK /\ [Next]_vars => TypeOK'
<1> SUFFICES ASSUME TypeOK, [Next]_vars
             PROVE  TypeOK'
  OBVIOUS
<1>. USE TimersAssumption DEF TypeOK, Causes, NotYet
<1>1. CASE WatchTime
  BY <1>1 DEF WatchTime, Because
<1>2. CASE PresenceTearsDown
  BY <1>2 DEF PresenceTearsDown, Because
<1>3. CASE LoopRuns
  <2>1. CASE GoLive
    BY <1>3, <2>1 DEF LoopRuns, GoLive, Wall
  <2>2. CASE CheckCause
    BY <1>3, <2>2 DEF LoopRuns, CheckCause, JoinTakes
  <2>3. CASE JoinTime \/ Destroy
    BY <1>3, <2>3 DEF LoopRuns, JoinTime, Destroy
  <2>. QED BY <1>3, <2>1, <2>2, <2>3 DEF LoopRuns
<1>4. CASE OnSignal
  BY <1>4 DEF OnSignal, Because
<1>5. CASE HandlePacket
  BY <1>5 DEF HandlePacket, Activity, Wall, Due
<1>6. CASE SendSignal
  BY <1>6 DEF SendSignal
<1>7. CASE SetClock
  BY <1>7 DEF SetClock
<1>8. CASE Tick
  BY <1>8, DownIsLess DEF Tick, Down
<1>9. CASE UNCHANGED vars
  BY <1>9 DEF vars
<1>. QED BY <1>1, <1>2, <1>3, <1>4, <1>5, <1>6, <1>7, <1>8, <1>9 DEF Next

\* Every variable keeps its type, whatever the configuration says.
THEOREM TypeCorrect == Spec => []TypeOK
BY TypeInit, TypeNext, PTL DEF Spec

----------------------------------------------------------------------------
(* A teardown for idleness comes only after t_idle without packets. *)

\* The last packet was recorded with the wall clock of its moment, which has
\* been set back by no more since than altogether.
Recorded == heard <= time /\ last_activity >= heard - back

LEMMA RecordedNext == TypeOK /\ Recorded /\ [Next]_vars => Recorded'
<1> SUFFICES ASSUME TypeOK, Recorded, [Next]_vars
             PROVE  Recorded'
  OBVIOUS
<1>. USE DEF TypeOK, Recorded
<1>1. CASE HandlePacket
  BY <1>1 DEF HandlePacket, Activity, Wall
<1>2. CASE SetClock
  BY <1>2 DEF SetClock
<1>3. CASE Tick
  BY <1>3 DEF Tick
<1>4. CASE WatchTime \/ PresenceTearsDown \/ LoopRuns \/ OnSignal \/ SendSignal \/ UNCHANGED vars
  BY <1>4 DEF WatchTime, PresenceTearsDown, LoopRuns, OnSignal, SendSignal, vars
<1>. QED BY <1>1, <1>2, <1>3, <1>4 DEF Next

\* Only a session without packets for t_idle is ended as idle, but for the steps
\* of the wall clock forward.
THEOREM IdleIsIdle == Spec => IdleMeansIdle
<1>1. Init => Recorded
  BY DEF Init, Recorded
<1>2. TypeOK /\ Recorded /\ [Next]_vars =>
        [cause = "none" /\ cause' = "idle" => time - heard >= t_idle - MaxForward]_vars
  <2> SUFFICES ASSUME TypeOK, Recorded, Next, cause = "none", cause' = "idle"
               PROVE  time - heard >= t_idle - MaxForward
    OBVIOUS
  <2>1. WatchTime /\ Idle
    BY DEF Next, WatchTime, PresenceTearsDown, LoopRuns, OnSignal, HandlePacket, SendSignal,
           SetClock, Tick, Because
  <2>2. time + forward - back >= last_activity + t_idle
    BY <2>1 DEF Idle, Wall
  <2>. QED BY <2>2, TimersAssumption DEF TypeOK, Recorded
<1>. QED BY <1>1, <1>2, TypeInit, TypeNext, RecordedNext, PTL DEF Spec, IdleMeansIdle

----------------------------------------------------------------------------
(* How long the loop takes. *)

\* The loop's next step is due by limit; then only a request in progress and
\* that of one packet more come before it.
Within(limit) ==
  IF wait > 0 THEN time + wait <= limit
  ELSE time + busy <= limit + MaxRelay + (IF "task" \in overtaken THEN MaxRelay ELSE 0)

\* What is marked as overtaken is due; a teardown has a reason.
Coherent ==
  /\ "task" \in overtaken => LoopDue
  /\ "signal" \in overtaken => signalled
  /\ stage = "live" => wait <= TEARDOWN_POLL
  /\ stage = "joins_time" => wait = 0
  /\ stage = "starting" => cause = "none" /\ ~signalled /\ wait = 0
  /\ stage \in {"joins_presence", "joins_time"} => cause # "none"
  /\ reason # NotYet <=> cause # "none" \/ signalled

\* If the cause came up by x, the steps of the teardown follow in time.
Chain(x) ==
  /\ stage = "live" /\ cause # "none" => Within(x + TEARDOWN_POLL)
  /\ stage = "joins_presence" => Within(x + TEARDOWN_POLL + Blocked + JOIN_TIMEOUT)
  /\ stage = "joins_time" =>
       Within(x + TEARDOWN_POLL + Blocked + JOIN_TIMEOUT + MaxRelay)

LEMMA CoherentNext == TypeOK /\ Coherent /\ [Next]_vars => Coherent'
<1> SUFFICES ASSUME TypeOK, Coherent, [Next]_vars
             PROVE  Coherent'
  OBVIOUS
<1>. USE TimersAssumption DEF TypeOK, Coherent, LoopDue, NotYet, Causes
<1>1. CASE WatchTime
  BY <1>1 DEF WatchTime, TimeThreadDue, Because
<1>2. CASE PresenceTearsDown
  BY <1>2 DEF PresenceTearsDown, Because
<1>3. CASE LoopRuns
  <2>1. CASE GoLive
    BY <1>3, <2>1 DEF LoopRuns, GoLive
  <2>2. CASE CheckCause
    BY <1>3, <2>2 DEF LoopRuns, CheckCause, JoinTakes
  <2>3. CASE JoinTime \/ Destroy
    BY <1>3, <2>3 DEF LoopRuns, JoinTime, Destroy
  <2>. QED BY <1>3, <2>1, <2>2, <2>3 DEF LoopRuns
<1>4. CASE OnSignal
  BY <1>4 DEF OnSignal, Because
<1>5. CASE HandlePacket
  BY <1>5 DEF HandlePacket, Due
<1>6. CASE SendSignal
  BY <1>6 DEF SendSignal
<1>7. CASE SetClock
  BY <1>7 DEF SetClock
<1>8. CASE Tick
  BY <1>8 DEF Tick, Down
<1>9. CASE UNCHANGED vars
  BY <1>9 DEF vars
<1>. QED BY <1>1, <1>2, <1>3, <1>4, <1>5, <1>6, <1>7, <1>8, <1>9 DEF Next

LEMMA CoherentInit == Init => Coherent
BY DEF Init, Coherent, NotYet

\* One packet may come before the step that is due.
LEMMA PacketWithin ==
  ASSUME TypeOK, HandlePacket, stage \in {"live", "joins_presence", "joins_time"},
         NEW limit \in Int, Within(limit)
  PROVE  Within(limit)'
<1>1. /\ busy = 0 /\ busy' \in 0 .. MaxRelay /\ time' = time /\ wait' = wait
      /\ overtaken' = Due
      /\ Due \cap overtaken = {}
  BY DEF HandlePacket
<1>2. MaxRelay \in Nat /\ time \in Nat /\ wait \in Nat
  BY TimersAssumption DEF TypeOK
<1>3. CASE wait > 0
  BY <1>1, <1>2, <1>3 DEF Within
<1>4. CASE wait = 0
  <2>1. "task" \in Due
    BY <1>4 DEF Due, LoopDue
  <2>2. "task" \notin overtaken /\ "task" \in overtaken'
    BY <1>1, <2>1
  <2>3. time + 0 <= limit + MaxRelay + 0
    <3>1. ~(wait > 0)
      BY <1>4
    <3>2. time + busy <= limit + MaxRelay + 0
      BY <2>2, <3>1 DEF Within
    <3>. QED BY <1>1, <3>2
  <2>4. busy' \in Nat /\ busy' <= MaxRelay
    BY <1>1, <1>2
  <2>5. \A b \in Nat, r \in Nat, t \in Nat :
          t + 0 <= limit + r + 0 /\ b <= r => t + b <= limit + r + r
    OBVIOUS
  <2>6. time + busy' <= limit + MaxRelay + MaxRelay
    BY <1>2, <2>3, <2>4, <2>5
  <2>7. time' = time /\ ~(wait' > 0)
    BY <1>1, <1>4
  <2>. QED BY <2>2, <2>6, <2>7 DEF Within
<1>. QED BY <1>2, <1>3, <1>4

\* The chain holds on, when a cause can only come up by x.
LEMMA ChainNext ==
  ASSUME TypeOK, Coherent, [Next]_vars,
         NEW x \in Int, Chain(x),
         stage = "live" /\ cause = "none" => time <= x
  PROVE  Chain(x)'
<1>. USE TimersAssumption DEF TypeOK, Coherent, Chain, Within, Blocked, LoopDue
<1>1. CASE WatchTime
  BY <1>1 DEF WatchTime, TimeThreadDue
<1>2. CASE PresenceTearsDown
  BY <1>2 DEF PresenceTearsDown
<1>3. CASE LoopRuns
  <2>1. CASE GoLive
    BY <1>3, <2>1 DEF LoopRuns, GoLive
  <2>2. CASE CheckCause
    BY <1>3, <2>2 DEF LoopRuns, CheckCause, JoinTakes
  <2>3. CASE JoinTime
    BY <1>3, <2>3 DEF LoopRuns, JoinTime
  <2>4. CASE Destroy
    BY <1>3, <2>4 DEF LoopRuns, Destroy
  <2>. QED BY <1>3, <2>1, <2>2, <2>3, <2>4 DEF LoopRuns
<1>4. CASE OnSignal
  BY <1>4 DEF OnSignal
<1>5. CASE HandlePacket
  <2>1. stage' = stage /\ cause' = cause
    BY <1>5 DEF HandlePacket
  <2>2. \A limit \in Int : stage \in {"live", "joins_presence", "joins_time"} /\ Within(limit)
                             => Within(limit)'
    BY <1>5, PacketWithin
  <2> HIDE DEF Within
  <2>. QED BY <2>1, <2>2
<1>6. CASE SendSignal
  BY <1>6 DEF SendSignal
<1>7. CASE SetClock
  BY <1>7 DEF SetClock
<1>8. CASE Tick
  BY <1>8 DEF Tick, Down, Due
<1>9. CASE UNCHANGED vars
  BY <1>9 DEF vars
<1>. QED BY <1>1, <1>2, <1>3, <1>4, <1>5, <1>6, <1>7, <1>8, <1>9 DEF Next

----------------------------------------------------------------------------
(* From a reason to the end of the device. *)

\* A signal is handled after the request in progress and one packet more.
SignalSoon ==
  signalled /\ cause = "none" =>
    time + busy <= reason + MaxRelay + (IF "signal" \in overtaken THEN MaxRelay ELSE 0)

\* The cause came up by the time the signal handler has run.
Prompt == reason # NotYet => Chain(reason + Blocked)

LEMMA SignalSoonNext == TypeOK /\ Coherent /\ SignalSoon /\ [Next]_vars => SignalSoon'
<1> SUFFICES ASSUME TypeOK, Coherent, SignalSoon, [Next]_vars
             PROVE  SignalSoon'
  OBVIOUS
<1>. USE TimersAssumption DEF TypeOK, Coherent, SignalSoon, NotYet, Causes
<1>1. CASE WatchTime
  BY <1>1 DEF WatchTime, Because
<1>2. CASE PresenceTearsDown
  BY <1>2 DEF PresenceTearsDown, Because
<1>3. CASE LoopRuns
  BY <1>3 DEF LoopRuns
<1>4. CASE OnSignal
  BY <1>4 DEF OnSignal
<1>5. CASE HandlePacket
  <2>1. CASE signalled /\ cause = "none"
    <3>1. /\ busy = 0 /\ time' = time /\ reason' = reason
          /\ overtaken' = Due /\ Due \cap overtaken = {}
      BY <1>5 DEF HandlePacket
    <3>2. "signal" \in Due
      BY <2>1 DEF Due
    <3>3. time + 0 <= reason + MaxRelay + 0
      <4>1. "signal" \notin overtaken
        BY <3>1, <3>2
      <4>2. time + busy <= reason + MaxRelay + 0
        BY <2>1, <4>1
      <4>. QED BY <3>1, <4>2
    <3>4. busy' \in Nat /\ busy' <= MaxRelay
      BY <1>5 DEF HandlePacket
    <3>5. \A b \in Nat, r \in Nat, t \in Nat, s \in Int :
            t + 0 <= s + r + 0 /\ b <= r => t + b <= s + r + r
      OBVIOUS
    <3>6. time \in Nat /\ MaxRelay \in Nat /\ reason \in Int
      OBVIOUS
    <3>7. time + busy' <= reason + MaxRelay + MaxRelay
      BY <3>3, <3>4, <3>5, <3>6
    <3>8. "signal" \in overtaken'
      BY <3>1, <3>2
    <3>. QED BY <3>1, <3>7, <3>8
  <2>2. CASE ~(signalled /\ cause = "none")
    BY <1>5, <2>2 DEF HandlePacket
  <2>. QED BY <2>1, <2>2
<1>6. CASE SendSignal
  BY <1>6 DEF SendSignal
<1>7. CASE SetClock
  BY <1>7 DEF SetClock
<1>8. CASE Tick
  BY <1>8 DEF Tick, Down, Due
<1>9. CASE UNCHANGED vars
  BY <1>9 DEF vars
<1>. QED BY <1>1, <1>2, <1>3, <1>4, <1>5, <1>6, <1>7, <1>8, <1>9 DEF Next

\* A reason, once there, stays; until then it can only be now.
LEMMA ReasonStays ==
  TypeOK /\ [Next]_vars => reason' = (IF reason = NotYet THEN reason' ELSE reason)
                           /\ (reason = NotYet /\ reason' # NotYet => reason' = time)
BY DEF TypeOK, Next, vars, WatchTime, PresenceTearsDown, LoopRuns, OnSignal, HandlePacket,
       SendSignal, SetClock, Tick, Because

LEMMA SignalBound ==
  ASSUME TypeOK, SignalSoon, signalled, cause = "none"
  PROVE  time <= reason + Blocked
<1>1. time \in Nat /\ busy \in Nat /\ MaxRelay \in Nat /\ reason \in Int
  BY TimersAssumption DEF TypeOK, NotYet
<1>2. \/ time + busy <= reason + MaxRelay + MaxRelay
      \/ time + busy <= reason + MaxRelay + 0
  BY DEF SignalSoon
<1>. QED BY <1>1, <1>2 DEF Blocked

LEMMA PromptNext ==
  TypeOK /\ TypeOK' /\ Coherent /\ SignalSoon /\ Prompt /\ [Next]_vars => Prompt'
<1> SUFFICES ASSUME TypeOK, TypeOK', Coherent, SignalSoon, Prompt, [Next]_vars, reason' # NotYet
             PROVE  Chain(reason + Blocked)'
  BY DEF Prompt
<1>1. MaxRelay \in Nat /\ Blocked = 2 * MaxRelay
  BY TimersAssumption DEF Blocked
<1>2. PICK x \in Int : x = reason' + Blocked
  BY <1>1 DEF TypeOK
<1>3. Chain(x)
  <2>1. CASE reason = NotYet
    BY <2>1 DEF Coherent, Chain
  <2>2. CASE reason # NotYet
    BY <1>2, <2>2, ReasonStays DEF Prompt, Chain
  <2>. QED BY <2>1, <2>2
<1>4. stage = "live" /\ cause = "none" => time <= x
  <2>1. CASE reason = NotYet
    BY <1>1, <1>2, <2>1, ReasonStays DEF TypeOK
  <2>2. CASE reason # NotYet
    <3>1. reason' = reason
      BY <2>2, ReasonStays
    <3>2. cause = "none" => signalled
      BY <2>2 DEF Coherent
    <3>. QED BY <1>2, <3>1, <3>2, SignalBound
  <2>. QED BY <2>1, <2>2
<1>5. Chain(x)'
  BY <1>3, <1>4, ChainNext
<1>. QED BY <1>2, <1>5 DEF Chain, Within, Blocked

\* While the device is there, the chain bounds the time.
LEMMA ChainBounds ==
  ASSUME TypeOK, Coherent, NEW x \in Int, Chain(x), stage # "gone", cause # "none"
  PROVE  time <= x + TEARDOWN_POLL + Blocked + JOIN_TIMEOUT + Blocked + MaxRelay
<1>1. stage \in {"live", "joins_presence", "joins_time"}
  BY DEF TypeOK, Coherent
<1>2. ASSUME NEW limit \in Int, Within(limit)
      PROVE  time <= limit + Blocked
  BY <1>2, TimersAssumption DEF Within, TypeOK, Blocked
<1> HIDE DEF Within
<1>3. /\ time \in Nat /\ MaxRelay \in Nat /\ TEARDOWN_POLL \in Nat /\ JOIN_TIMEOUT \in Nat
      /\ Blocked = 2 * MaxRelay
  BY TimersAssumption DEF TypeOK, Blocked
<1>4. CASE stage = "live"
  <2>1. PICK limit \in Int : limit = x + TEARDOWN_POLL
    BY <1>3
  <2>2. time <= limit + Blocked
    BY <1>2, <1>4, <2>1 DEF Chain
  <2>. QED BY <1>3, <2>1, <2>2
<1>5. CASE stage = "joins_presence"
  <2>1. PICK limit \in Int : limit = x + TEARDOWN_POLL + Blocked + JOIN_TIMEOUT
    BY <1>3
  <2>2. time <= limit + Blocked
    BY <1>2, <1>5, <2>1 DEF Chain
  <2>. QED BY <1>3, <2>1, <2>2
<1>6. CASE stage = "joins_time"
  <2>1. PICK limit \in Int : limit = x + TEARDOWN_POLL + Blocked + JOIN_TIMEOUT + MaxRelay
    BY <1>3
  <2>2. time <= limit + Blocked
    BY <1>2, <1>6, <2>1 DEF Chain
  <2>. QED BY <1>3, <2>1, <2>2
<1>. QED BY <1>1, <1>4, <1>5, <1>6

\* The device ends within a bound after the first reason, a signal included.
THEOREM TeardownIsPrompt == Spec => []TeardownPrompt
<1> DEFINE Inv == TypeOK /\ Coherent /\ SignalSoon /\ Prompt
<1>1. Init => Inv
  BY TypeInit, CoherentInit DEF Init, SignalSoon, Prompt
<1>2. Inv /\ [Next]_vars => Inv'
  BY TypeNext, CoherentNext, SignalSoonNext, PromptNext
<1>3. Inv => TeardownPrompt
  <2> SUFFICES ASSUME Inv, reason # NotYet, stage # "gone"
               PROVE  time - reason <= Blocked + TEARDOWN_POLL + Blocked + JOIN_TIMEOUT
                                       + Blocked + MaxRelay
    BY DEF TeardownPrompt
  <2>1. MaxRelay \in Nat /\ Blocked = 2 * MaxRelay /\ time \in Nat /\ reason \in Int
    BY TimersAssumption DEF Blocked, TypeOK, NotYet
  <2>2. CASE cause = "none"
    <3>1. time <= reason + Blocked
      BY <2>2, SignalBound DEF Coherent
    <3>. QED BY <2>1, <3>1, TimersAssumption
  <2>3. CASE cause # "none"
    <3>1. PICK x \in Int : x = reason + Blocked
      BY <2>1
    <3>2. time <= x + TEARDOWN_POLL + Blocked + JOIN_TIMEOUT + Blocked + MaxRelay
      BY <2>3, <3>1, ChainBounds DEF Prompt
    <3>. QED BY <2>1, <3>1, <3>2, TimersAssumption
  <2>. QED BY <2>2, <2>3
<1>. QED BY <1>1, <1>2, <1>3, PTL DEF Spec

----------------------------------------------------------------------------
(* The deadlines. *)

\* dev.start returns at MaxStart at the latest; then only a request in progress
\* and that of one packet more come before the session.
StartSoon ==
  stage = "starting" =>
    \/ time < MaxStart
    \/ time + busy <= MaxStart + MaxRelay + (IF "task" \in overtaken THEN MaxRelay ELSE 0)

Latest == MaxStart + Blocked

\* created and last_activity are no later than the clock shows for their moments.
NotAhead ==
  /\ last_activity <= heard + forward
  /\ stage # "starting" => created <= Latest + forward

\* The time thread looks at the clock in time to see either deadline.
WatchSoon ==
  stage = "live" /\ cause = "none" =>
    /\ t_max # Never => time + watch < Latest + t_max + MaxBack + PRESENCE_POLL
    /\ t_idle # Never => \/ time + watch < heard + t_idle + MaxBack + PRESENCE_POLL
                         \/ time + watch <= Latest + PRESENCE_POLL

\* Since the cause came up in time, so does the end of the device.
CauseSoon == t_max # Never => Chain(Latest + t_max + MaxBack + PRESENCE_POLL - 1)

LEMMA Constants ==
  /\ MaxRelay \in Nat /\ MaxStart \in Nat /\ MaxBack \in Nat /\ MaxForward \in Nat
  /\ PRESENCE_POLL \in Nat \ {0} /\ TEARDOWN_POLL \in Nat \ {0} /\ JOIN_TIMEOUT \in Nat
  /\ Blocked \in Nat /\ Blocked = 2 * MaxRelay
  /\ Latest \in Nat /\ Latest = MaxStart + 2 * MaxRelay
BY TimersAssumption DEF Blocked, Latest

LEMMA StartSoonNext == TypeOK /\ Coherent /\ StartSoon /\ [Next]_vars => StartSoon'
<1> SUFFICES ASSUME TypeOK, Coherent, StartSoon, [Next]_vars
             PROVE  StartSoon'
  OBVIOUS
<1>. USE Constants DEF TypeOK, StartSoon
<1>1. CASE HandlePacket
  <2>1. /\ busy = 0 /\ busy' \in Nat /\ busy' <= MaxRelay /\ time' = time /\ stage' = stage
        /\ overtaken' = Due /\ Due \cap overtaken = {}
    BY <1>1 DEF HandlePacket
  <2>2. CASE stage = "starting" /\ time >= MaxStart
    <3>1. "task" \in Due
      BY <2>2 DEF Due, LoopDue
    <3>2. "task" \notin overtaken /\ "task" \in overtaken'
      BY <2>1, <3>1
    <3>3. time + 0 <= MaxStart + MaxRelay + 0
      <4>1. ~(time < MaxStart)
        BY <2>2
      <4>2. time + busy <= MaxStart + MaxRelay + 0
        BY <2>2, <3>2, <4>1
      <4>. QED BY <2>1, <4>2
    <3>4. \A b \in Nat, r \in Nat, t \in Nat, s \in Int :
            t + 0 <= s + r + 0 /\ b <= r => t + b <= s + r + r
      OBVIOUS
    <3>5. time \in Nat /\ MaxRelay \in Nat /\ MaxStart \in Int
      OBVIOUS
    <3>6. busy' \in Nat /\ busy' <= MaxRelay
      BY <2>1
    <3>7. time + busy' <= MaxStart + MaxRelay + MaxRelay
      BY <3>3, <3>4, <3>5, <3>6
    <3>. QED BY <2>1, <3>2, <3>7
  <2>3. CASE stage # "starting"
    BY <2>1, <2>3
  <2>4. CASE time < MaxStart
    BY <2>1, <2>4
  <2>. QED BY <2>2, <2>3, <2>4
<1>2. CASE Tick
  BY <1>2 DEF Tick, Down, Due, LoopDue
<1>3. CASE LoopRuns
  BY <1>3 DEF LoopRuns, GoLive, CheckCause, JoinTime, Destroy
<1>4. CASE OnSignal
  BY <1>4 DEF OnSignal
<1>5. CASE WatchTime \/ PresenceTearsDown \/ SendSignal \/ SetClock \/ UNCHANGED vars
  BY <1>5 DEF WatchTime, PresenceTearsDown, SendSignal, SetClock, vars
<1>. QED BY <1>1, <1>2, <1>3, <1>4, <1>5 DEF Next

LEMMA StartBound ==
  ASSUME TypeOK, StartSoon, stage = "starting"
  PROVE  time + busy <= Latest \/ time < MaxStart
BY Constants DEF TypeOK, StartSoon

LEMMA NotAheadNext ==
  TypeOK /\ Coherent /\ StartSoon /\ NotAhead /\ [Next]_vars => NotAhead'
<1> SUFFICES ASSUME TypeOK, Coherent, StartSoon, NotAhead, [Next]_vars
             PROVE  NotAhead'
  OBVIOUS
<1>. USE Constants DEF TypeOK, NotAhead
<1>1. CASE HandlePacket
  BY <1>1 DEF HandlePacket, Activity, Wall
<1>2. CASE SetClock
  BY <1>2 DEF SetClock
<1>3. CASE LoopRuns
  <2>1. CASE GoLive
    <3>1. time <= Latest
      BY <1>3, <2>1, StartBound DEF LoopRuns, GoLive
    <3>2. created' = time + forward - back
      BY <2>1 DEF GoLive, Wall
    <3>. QED BY <1>3, <3>1, <3>2 DEF LoopRuns
  <2>2. CASE CheckCause \/ JoinTime \/ Destroy
    BY <1>3, <2>2 DEF LoopRuns, CheckCause, JoinTime, Destroy
  <2>. QED BY <1>3, <2>1, <2>2 DEF LoopRuns
<1>4. CASE WatchTime \/ PresenceTearsDown \/ OnSignal \/ SendSignal \/ Tick \/ UNCHANGED vars
  BY <1>4 DEF WatchTime, PresenceTearsDown, OnSignal, SendSignal, Tick, vars
<1>. QED BY <1>1, <1>2, <1>3, <1>4 DEF Next

LEMMA WatchSoonNext ==
  TypeOK /\ Coherent /\ StartSoon /\ NotAhead /\ Recorded /\ WatchSoon /\ [Next]_vars
    => WatchSoon'
<1> SUFFICES ASSUME TypeOK, Coherent, StartSoon, NotAhead, Recorded, WatchSoon, [Next]_vars,
                    stage' = "live", cause' = "none"
             PROVE  WatchSoon'
  BY DEF WatchSoon
<1>. USE Constants DEF TypeOK, WatchSoon
<1>1. CASE WatchTime
  <2>1. /\ stage = "live" /\ cause = "none" /\ watch' = PRESENCE_POLL
        /\ time' = time /\ heard' = heard /\ t_max' = t_max /\ t_idle' = t_idle
        /\ ~Expired /\ ~Idle
    BY <1>1 DEF WatchTime, TimeThreadDue, Because
  <2>2. t_max # Never => time + forward - back < Latest + forward + t_max
    BY <2>1 DEF Expired, NotAhead, Wall
  <2>3. t_idle # Never => time + forward - back < heard + forward + t_idle
    BY <2>1 DEF Idle, NotAhead, Wall
  <2>. QED BY <2>1, <2>2, <2>3
<1>2. CASE GoLive /\ LoopRuns
  <2>1. /\ time <= Latest /\ watch' = PRESENCE_POLL /\ time' = time
        /\ heard' = heard /\ t_max' = t_max /\ t_idle' = t_idle
    BY <1>2, StartBound DEF GoLive, LoopRuns
  <2>2. t_max # Never => t_max > 0
    OBVIOUS
  <2>. QED BY <2>1, <2>2
<1>3. CASE HandlePacket
  BY <1>3 DEF HandlePacket, Recorded
<1>4. CASE Tick
  BY <1>4 DEF Tick, Down, TimeThreadDue
<1>5. CASE LoopRuns /\ ~GoLive
  BY <1>5 DEF LoopRuns, CheckCause, JoinTime, Destroy
<1>6. CASE PresenceTearsDown \/ OnSignal \/ SendSignal \/ SetClock \/ UNCHANGED vars
  BY <1>6 DEF PresenceTearsDown, OnSignal, SendSignal, SetClock, vars, Because
<1>. QED BY <1>1, <1>2, <1>3, <1>4, <1>5, <1>6 DEF Next

LEMMA CauseSoonNext ==
  TypeOK /\ TypeOK' /\ Coherent /\ WatchSoon /\ CauseSoon /\ [Next]_vars => CauseSoon'
<1> SUFFICES ASSUME TypeOK, TypeOK', Coherent, WatchSoon, CauseSoon, [Next]_vars, t_max' # Never
             PROVE  Chain(Latest + t_max + MaxBack + PRESENCE_POLL - 1)'
  BY DEF CauseSoon
<1>1. t_max' = t_max
  BY DEF Next, vars, WatchTime, PresenceTearsDown, LoopRuns, OnSignal, HandlePacket,
         SendSignal, SetClock, Tick
<1>2. PICK x \in Int : x = Latest + t_max + MaxBack + PRESENCE_POLL - 1
  BY <1>1, Constants DEF TypeOK
<1>3. Chain(x)
  BY <1>1, <1>2 DEF CauseSoon
<1>4. stage = "live" /\ cause = "none" => time <= x
  BY <1>1, <1>2, Constants DEF WatchSoon, TypeOK
<1>5. Chain(x)'
  BY <1>3, <1>4, ChainNext
<1>. QED BY <1>1, <1>2, <1>5 DEF Chain, Within, Blocked, Latest

DeadlineInv ==
  /\ TypeOK /\ Coherent /\ Recorded
  /\ StartSoon /\ NotAhead /\ WatchSoon /\ CauseSoon

LEMMA DeadlinesHold == Spec => []DeadlineInv
<1>1. Init => DeadlineInv
  <2> SUFFICES ASSUME Init PROVE DeadlineInv
    OBVIOUS
  <2>1. TypeOK /\ Coherent
    BY TypeInit, CoherentInit
  <2>2. /\ stage = "starting" /\ time = 0 /\ busy = 0 /\ heard = 0
        /\ last_activity = 0 /\ forward = 0 /\ back = 0
    BY DEF Init
  <2>. QED BY <2>1, <2>2, Constants
           DEF DeadlineInv, Recorded, StartSoon, NotAhead, WatchSoon, CauseSoon, Chain
<1>2. DeadlineInv /\ [Next]_vars => DeadlineInv'
  BY TypeNext, CoherentNext, RecordedNext, StartSoonNext, NotAheadNext, WatchSoonNext,
     CauseSoonNext DEF DeadlineInv
<1>. QED BY <1>1, <1>2, PTL DEF Spec

\* A busy device too ends within a bound after t_max, on the clock of the pass.
THEOREM LifetimeIsBounded == Spec => []LifetimeCeiling
<1>1. DeadlineInv => LifetimeCeiling
  <2> SUFFICES ASSUME DeadlineInv, t_max # Never, stage # "gone"
               PROVE  time < MaxStart + Blocked + t_max + MaxBack + PRESENCE_POLL
                             + TEARDOWN_POLL + Blocked + JOIN_TIMEOUT + Blocked + MaxRelay
    BY DEF LifetimeCeiling
  <2>. USE Constants DEF DeadlineInv
  <2>1. PICK x \in Int : x = Latest + t_max + MaxBack + PRESENCE_POLL - 1
    BY DEF TypeOK
  <2>2. time \in Nat /\ t_max \in Nat /\ Latest = MaxStart + Blocked
    BY DEF TypeOK
  <2>3. CASE stage = "starting"
    BY <2>2, <2>3, StartBound DEF TypeOK
  <2>4. CASE stage # "starting" /\ cause = "none"
    <3>1. stage = "live"
      BY <2>4 DEF Coherent, TypeOK
    <3>. QED BY <2>2, <2>4, <3>1 DEF WatchSoon, TypeOK
  <2>5. CASE cause # "none"
    <3>1. time <= x + TEARDOWN_POLL + Blocked + JOIN_TIMEOUT + Blocked + MaxRelay
      BY <2>1, <2>5, ChainBounds DEF CauseSoon
    <3>. QED BY <2>1, <2>2, <3>1
  <2>. QED BY <2>3, <2>4, <2>5
<1>. QED BY <1>1, DeadlinesHold, PTL

\* A quiet session has a cause after t_idle and one wait of the time thread, and
\* what the wall clock was set back.
THEOREM QuietSessionEnds == Spec => []IdleEndsSession
<1>1. DeadlineInv => IdleEndsSession
  BY Constants DEF DeadlineInv, IdleEndsSession, WatchSoon, TypeOK
<1>. QED BY <1>1, DeadlinesHold, PTL

----------------------------------------------------------------------------
(* What a duration in the configuration means.                              *)

LEMMA ReverseOne == \A a : Reverse(<<a>>) = <<a>>
BY DEF Reverse

LEMMA ReverseTwo == \A a, b : Reverse(<<a, b>>) = <<b, a>>
BY DEF Reverse

LEMMA OwnSuffix == \A i \in 1 .. 4 : IsSuffix(SUFFIXES[i], SUFFIXES[i])
BY ReverseOne, ReverseTwo DEF IsSuffix, IsPrefix, SUFFIXES

\* A suffix that is tried earlier does not end a later one.
LEMMA EarlierDiffers ==
  \A i, j \in 1 .. 4 : j < i => ~IsSuffix(SUFFIXES[j], SUFFIXES[i])
<1>1. \A a, b, c : ~IsSuffix(<<a, b>>, <<c>>)
  <2>. TAKE a, b, c
  <2>1. ~(Len(<<b, a>>) <= Len(<<c>>))
    OBVIOUS
  <2>2. Reverse(<<a, b>>) = <<b, a>> /\ Reverse(<<c>>) = <<c>>
    BY ReverseOne, ReverseTwo
  <2>. QED BY <2>1, <2>2, Zenon DEF IsSuffix, IsPrefix
<1>2. \A a, b : a # b => ~IsSuffix(<<a>>, <<b>>)
  <2>1. \A a : Len(<<a>>) = 1 /\ SubSeq(<<a>>, 1, 1)[1] = a
    OBVIOUS
  <2>. QED BY <2>1, ReverseOne DEF IsSuffix, IsPrefix
<1>. QED BY <1>1, <1>2 DEF SUFFIXES

LEMMA ProductPositive == \A n, u \in Nat \ {0} : ~(n * u <= 0)
OBVIOUS

\* For every positive number: with each of the four suffixes the text of a duration
\* is read in the unit of that suffix, "ms" neither as "s" nor as "m".
THEOREM SuffixGivesUnit ==
  \A n \in Nat \ {0}, i \in 1 .. 4 :
    ParseDuration([number |-> n, letters |-> SUFFIXES[i]]) = {n * UnitOf(SUFFIXES[i])}
<1>. TAKE n \in Nat \ {0}, i \in 1 .. 4
<1>. DEFINE tried == {k \in DOMAIN SUFFIXES : IsSuffix(SUFFIXES[k], SUFFIXES[i])}
<1>1. DOMAIN SUFFIXES = 1 .. 4
  BY DEF SUFFIXES
<1>2. i \in tried /\ \A k \in tried : i <= k /\ k \in 1 .. 4
  BY <1>1, OwnSuffix, EarlierDiffers
<1>3. Min(tried) = i
  BY <1>2, LeastIs
<1>4. UnitOf(SUFFIXES[i]) \in Nat \ {0}
  BY UnitIsPositive
<1>5. n # NotNumber /\ n # Unordered
  BY DurationsAssumption
<1>6. ~(n * UnitOf(SUFFIXES[i]) <= 0)
  BY <1>4, ProductPositive
<1>. QED BY <1>2, <1>3, <1>5, <1>6, Zenon DEF ParseDuration
=============================================================================
