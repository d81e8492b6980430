----------------------------- MODULE BridgeLoop -----------------------------
(***************************************************************************)
(* Bridge.run: the seat-session loop, with the gate thread, the monitor    *)
(* threads of the live sessions, the signal handler and the reader as its  *)
(* environment.                                                            *)
(*                                                                         *)
(* The loop is a coroutine.  `pc' names the await it is suspended at, and  *)
(* an action of the loop is what it does from one await to the next; the   *)
(* signal handler runs on the same thread, so at an await.  The monitors   *)
(* and the gate are threads and interleave freely.                         *)
(*                                                                         *)
(*   gating       run_gate in the executor                                 *)
(*   sleeping     asyncio.sleep of a backoff or of a rate limit            *)
(*   handoff      _ssh_handoff in the executor                             *)
(*   parked       wait_for_generation_change, from _park                   *)
(*   totp         GateHTTP.totp in the executor                            *)
(*   totp_parked  wait_for_generation_change, from _totp_then_park         *)
(*   starting     dev.start(): the UHID device is created, the LiveSession *)
(*                is not                                                   *)
(*   live         finish_async polls for a teardown cause                  *)
(*   joining      finish_async joins the monitor threads                   *)
(*   exiting      run has returned or raised; the interpreter finishes     *)
(*   stopped      the process is gone                                      *)
(***************************************************************************)
EXTENDS GateRun, LiveMonitors

CONSTANT MAX_BACKOFF   \* 60 s in the program

ASSUME BackoffAssumption == MAX_BACKOFF \in 1 .. 300

VARIABLES
  pc,
  dev,          \* the session whose UHID device exists
  session,      \* Bridge.session
  backoff,      \* seconds
  delay,        \* the running sleep's length, 0 when not sleeping
  absent,       \* absent_ticks of wait_for_generation_change
  pending,      \* a signal is waiting for the loop
  signalExit,   \* Bridge._signal_exit
  handling,     \* the handler is in teardown and has found no cause
  handled       \* history: the insertion the loop was last through with, and
                \* whether it "parked" on it or had "served" a device for it

signalVars == <<pending, signalExit, handling>>
loopVars == <<pc, dev, session, backoff, delay, absent, signalVars, handled>>
vars == <<slotVars, gateVars, sess, loopVars>>

Places == {"gating", "sleeping", "handoff", "parked", "totp", "totp_parked",
           "starting", "live", "joining", "exiting", "stopped"}

MIN_BACKOFF == 1

Nothing == [ins |-> 0, how |-> "none"]

LoopTypeOK ==
  /\ pc \in Places
  /\ dev \in Sessions \cup {NoSession}
  /\ session \in Sessions \cup {NoSession}
  /\ backoff \in MIN_BACKOFF .. MAX_BACKOFF
  /\ delay \in 0 .. 300
  /\ absent \in 0 .. 1
  /\ pending \in BOOLEAN
  /\ signalExit \in BOOLEAN
  /\ handling \in BOOLEAN
  /\ handled \in [ins : Insertions, how : {"none", "parked", "served"}]

TypeOK == SlotTypeOK /\ GateTypeOK /\ MonitorTypeOK /\ LoopTypeOK

Init ==
  /\ SlotInit
  /\ GateInit
  /\ MonitorInit
  /\ pc = "gating"
  /\ dev = NoSession
  /\ session = NoSession
  /\ backoff = MIN_BACKOFF
  /\ delay = 0
  /\ absent = 0
  /\ pending = FALSE
  /\ signalExit = FALSE
  /\ handling = FALSE
  /\ handled = Nothing

Running == pc # "stopped"
InLoop  == pc \notin {"exiting", "stopped"}

----------------------------------------------------------------------------
(* What became of the gate run. *)

GateReturned == pc = "gating" /\ gate = "done"

Escalated == IF 2 * backoff > MAX_BACKOFF THEN MAX_BACKOFF ELSE 2 * backoff

\* Mutants: the floor or the cap is lost.
RateDelay_NoFloor(retry) == IF retry > 300 THEN 300 ELSE IF retry = 0 THEN 30 ELSE retry
RateDelay_NoCap(retry) == IF retry < 30 THEN 30 ELSE retry

\* min(max(retry_after or 30, 30), 300)
RateDelay(retry) ==
  IF retry < 30 THEN 30 ELSE IF retry > 300 THEN 300 ELSE retry

Sleep(seconds) ==
  /\ pc' = "sleeping"
  /\ delay' = seconds
  /\ UNCHANGED <<slotVars, gateVars, sess, dev, session, backoff, absent,
                 signalVars, handled>>

Parks == ~result.passed /\ result.reason \in PARK_REASONS /\ result.located

\* A 429: the delay is the server's, within bounds; no escalation.
RateLimited ==
  /\ GateReturned
  /\ ~result.passed
  /\ result.reason = "rate_limited"
  /\ Sleep(RateDelay(result.retry))

\* An exception, or any other failure.
GateRefused ==
  /\ GateReturned
  /\ ~result.passed
  /\ ~Parks
  /\ result.reason # "rate_limited"
  /\ Sleep(backoff)

\* Mutant: a rate limit resets the escalation.
Wake_LimitResets ==
  /\ pc = "sleeping"
  /\ pc' = "gating"
  /\ delay' = 0
  /\ backoff' = IF result.reason = "rate_limited" THEN MIN_BACKOFF ELSE Escalated
  /\ GateBegin
  /\ UNCHANGED <<slotVars, sess, dev, session, absent, signalVars, handled>>

\* The sleep ends; only the timed retries of a failure escalate.
Wake ==
  /\ pc = "sleeping"
  /\ pc' = "gating"
  /\ delay' = 0
  /\ backoff' = IF result.reason = "rate_limited" THEN backoff ELSE Escalated
  /\ GateBegin
  /\ UNCHANGED <<slotVars, sess, dev, session, absent, signalVars, handled>>

----------------------------------------------------------------------------
(* _park and _totp_then_park *)

\* gate_park; a card given to SSH is first registered with gpg-agent.
Park ==
  /\ GateReturned
  /\ Parks
  /\ pc' = IF result.reason = "user_ssh" THEN "handoff" ELSE "parked"
  /\ handled' = [ins |-> seenIns, how |-> "parked"]
  /\ UNCHANGED <<slotVars, gateVars, sess, dev, session, backoff, delay,
                 absent, signalVars>>

\* _ssh_handoff returns; its own failures are swallowed.
HandoffDone ==
  /\ pc = "handoff"
  /\ pc' = "parked"
  /\ UNCHANGED <<slotVars, gateVars, sess, dev, session, backoff, delay,
                 absent, signalVars, handled>>

\* A pass with a TOTP choice: no device is created.
TotpPassed ==
  /\ GateReturned
  /\ result.passed
  /\ result.want
  /\ pc' = "totp"
  /\ backoff' = MIN_BACKOFF
  /\ UNCHANGED <<slotVars, gateVars, sess, dev, session, delay, absent,
                 signalVars, handled>>

\* The code is shown, or the refusal; either way the loop parks.
TotpAnswered ==
  /\ pc = "totp"
  /\ pc' = "totp_parked"
  /\ handled' = [ins |-> seenIns, how |-> "parked"]
  /\ UNCHANGED <<slotVars, gateVars, sess, dev, session, backoff, delay,
                 absent, signalVars>>

Parked == pc \in {"parked", "totp_parked"}

\* The wait returned: the link is dropped and the loop gates again, unless a
\* signal asked to stop.
Unpark ==
  /\ absent' = 0
  /\ IF pc = "totp_parked" /\ signalExit
       THEN pc' = "exiting" /\ UNCHANGED gateVars
       ELSE pc' = "gating" /\ GateBegin
  /\ UNCHANGED <<slotVars, sess, dev, session, backoff, delay, signalVars>>

\* A poll finds a later generation seated.
ParkPollWakes ==
  /\ Parked
  /\ Superseded(seenGen)
  /\ Unpark
  /\ UNCHANGED handled

\* A poll finds the reader there and no later card.
ParkPollStays ==
  /\ Parked
  /\ attached
  /\ ~Superseded(seenGen)
  /\ absent' = 0
  /\ UNCHANGED <<slotVars, gateVars, sess, pc, dev, session, backoff,
                 delay, signalVars, handled>>

\* A poll does not find the reader; the second in a row ends the wait.
PollMisses ==
  IF absent + 1 >= 2
    THEN Unpark
    ELSE /\ absent' = absent + 1
         /\ UNCHANGED <<slotVars, gateVars, sess, pc, dev, session, backoff,
                        delay, signalVars>>

ParkPollAbsent ==
  /\ Parked
  /\ ~attached
  /\ PollMisses
  /\ UNCHANGED handled

\* The readers cannot be listed, which looks the same.
ParkListFails ==
  /\ Parked
  /\ attached
  /\ PollMisses
  /\ handled' = IF absent + 1 >= 2 THEN Nothing ELSE handled

\* The status query fails, or anything raises: gate again with a fresh context.
ParkWaitFails ==
  /\ Parked
  /\ Unpark
  /\ handled' = Nothing

----------------------------------------------------------------------------
(* The device and its live phase. *)

\* A pass with the gate action: the constructor of CTAPHIDDevice creates the
\* UHID device, then the loop awaits dev.start().
GatePassed ==
  /\ GateReturned
  /\ result.passed
  /\ ~result.want
  /\ backoff' = MIN_BACKOFF
  /\ pc' = "starting"
  /\ \E s \in Sessions : sess[s] = Unused /\ dev' = s
  /\ UNCHANGED <<slotVars, gateVars, sess, session, delay, absent,
                 signalVars, handled>>

\* The constructor or dev.start raises, and nothing catches it.
StartFails ==
  /\ pc = "starting"
  /\ pc' = "exiting"
  /\ dev' \in {dev, NoSession}
  /\ UNCHANGED <<slotVars, gateVars, sess, session, backoff, delay,
                 absent, signalVars, handled>>

\* live_phase_async up to its await: device_created, the session, its threads.
GoLive ==
  /\ pc = "starting"
  /\ pc' = "live"
  /\ session' = dev
  /\ sess' = [sess EXCEPT ![dev] = Started(seenGen)]
  /\ UNCHANGED <<slotVars, gateVars, dev, backoff, delay, absent, signalVars, handled>>

\* Mutant: the threads are not joined.
Joined_Unjoined(x) == TRUE

\* Both joins are over.  The time thread blocks on nothing and ends within a
\* poll interval of the stop event, and so does a presence thread that waits or
\* is inside teardown; one that is inside a query or a probe may outlast the
\* 5 s of its join.
Joined(x) == x.timer = "done" /\ x.presence \in {"check", "probe", "done"}

\* Mutant: Bridge.session is not reset.
DropSession_Kept ==
  /\ UNCHANGED session
  /\ Becomes(session, [sess[session] EXCEPT !.held = FALSE])
  /\ handled' = [ins |-> seenIns, how |-> "served"]

\* Bridge.session is dropped, and with it the object if no thread is left.
DropSession ==
  /\ session' = NoSession
  /\ Becomes(session, [sess[session] EXCEPT !.held = FALSE])
  /\ handled' = [ins |-> seenIns, how |-> "served"]

\* Back to the gate, unless a signal asked to stop.
GateAgainOrExit ==
  IF signalExit
    THEN pc' = "exiting" /\ UNCHANGED gateVars
    ELSE pc' = "gating" /\ GateBegin

\* Mutant: the poll does not look at the cause.
CauseSeen_Skipped ==
  /\ pc = "live"
  /\ DropSession
  /\ dev' = NoSession
  /\ GateAgainOrExit
  /\ UNCHANGED <<slotVars, backoff, delay, absent, signalVars>>

\* A poll of finish_async finds a cause.
CauseSeen ==
  /\ pc = "live"
  /\ ~handling
  /\ sess[session].cause # "none"
  /\ pc' = "joining"
  /\ UNCHANGED <<slotVars, gateVars, sess, dev, session, backoff, delay,
                 absent, signalVars, handled>>

\* Mutant: the stop request of a signal is forgotten.
EndSession_IgnoresSignal ==
  /\ pc = "joining"
  /\ ~handling
  /\ Joined(sess[session])
  /\ DropSession
  /\ dev' = NoSession
  /\ pc' = "gating"
  /\ GateBegin
  /\ UNCHANGED <<slotVars, backoff, delay, absent, signalVars>>

\* Mutant: the device is left behind for the next pass to replace.
EndSession_KeepsDevice ==
  /\ pc = "joining"
  /\ ~handling
  /\ Joined(sess[session])
  /\ DropSession
  /\ GateAgainOrExit
  /\ UNCHANGED <<slotVars, dev, backoff, delay, absent, signalVars>>

\* live_phase_async after its await, and the rest of the loop's body.
EndSession ==
  /\ pc = "joining"
  /\ ~handling
  /\ Joined(sess[session])
  /\ DropSession
  /\ dev' = NoSession
  /\ GateAgainOrExit
  /\ UNCHANGED <<slotVars, backoff, delay, absent, signalVars>>

----------------------------------------------------------------------------
(* Signals and the end of the process. *)

SendSignal ==
  /\ InLoop
  /\ pending' = TRUE
  /\ UNCHANGED <<slotVars, gateVars, sess, pc, dev, session, backoff,
                 delay, absent, signalExit, handling, handled>>

\* Mutant: the handler requests the teardown only.
OnSignal_NoFlag ==
  /\ InLoop
  /\ pending
  /\ ~handling
  /\ pending' = FALSE
  /\ IF session # NoSession
       THEN /\ handling' = (sess[session].cause = "none")
            /\ UNCHANGED <<pc, dev>>
       ELSE /\ pc' = "stopped"
            /\ dev' = NoSession
            /\ UNCHANGED handling
  /\ UNCHANGED <<slotVars, gateVars, sess, session, backoff, delay, absent,
                 signalExit, handled>>

\* on_signal: a teardown if there is a session, else os._exit, and then the
\* kernel takes down what the process held.
OnSignal ==
  /\ InLoop
  /\ pending
  /\ ~handling
  /\ pending' = FALSE
  /\ signalExit' = TRUE
  /\ IF session # NoSession
       THEN /\ handling' = (sess[session].cause = "none")
            /\ UNCHANGED <<pc, dev>>
       ELSE /\ pc' = "stopped"
            /\ dev' = NoSession
            /\ UNCHANGED handling
  /\ UNCHANGED <<slotVars, gateVars, sess, session, backoff, delay, absent, handled>>

\* The rest of its teardown, before the loop goes on.
OnSignalSets ==
  /\ handling
  /\ handling' = FALSE
  /\ Becomes(session, Caused(sess[session], "sigterm"))
  /\ UNCHANGED <<slotVars, gateVars, pc, dev, session, backoff, delay, absent,
                 pending, signalExit, handled>>

\* The monitor threads are daemons, but the interpreter joins the workers of
\* every thread pool before it ends.
ProcessEnds ==
  /\ pc = "exiting"
  /\ \A s \in Sessions : sess[s].worker = "idle"
  /\ pc' = "stopped"
  /\ dev' = NoSession
  /\ UNCHANGED <<slotVars, gateVars, sess, session, backoff, delay,
                 absent, signalVars, handled>>

----------------------------------------------------------------------------
Environment == Running /\ SlotNext /\ UNCHANGED <<gateVars, sess, loopVars>>

GateThread ==
  /\ pc = "gating"
  /\ GateNext
  /\ UNCHANGED <<slotVars, sess, loopVars>>

MonitorThread(s) ==
  /\ Running
  /\ MonitorStep(s)
  /\ UNCHANGED <<slotVars, gateVars, loopVars>>

LoopStep ==
  \/ RateLimited \/ GateRefused \/ Wake
  \/ Park \/ HandoffDone \/ TotpPassed \/ TotpAnswered
  \/ ParkPollWakes \/ ParkPollStays \/ ParkPollAbsent
  \/ GatePassed \/ GoLive \/ CauseSeen \/ EndSession
  \/ ProcessEnds

LoopFails == ParkListFails \/ ParkWaitFails \/ StartFails

Next ==
  \/ Environment
  \/ GateThread
  \/ \E s \in Sessions : MonitorThread(s)
  \/ LoopStep
  \/ LoopFails
  \/ SendSignal
  \/ OnSignal
  \/ OnSignalSets

Spec == Init /\ [][Next]_vars

\* The loop, the handler and the monitor threads run: every sleep, poll, join
\* and probe timeout is bounded, and the kernel answers UHID_CREATE.  Nothing
\* is assumed of the user, the card, the gate run, a failure or a hung probe.
PresenceRuns(s) ==
  Running /\ PresenceStep(s) /\ UNCHANGED <<slotVars, gateVars, loopVars>>

TimerRuns(s) ==
  Running /\ TimerStep(s) /\ UNCHANGED <<slotVars, gateVars, loopVars>>

Fairness ==
  /\ WF_vars(LoopStep)
  /\ WF_vars(OnSignal)
  /\ WF_vars(OnSignalSets)
  /\ \A s \in Sessions : WF_vars(PresenceRuns(s)) /\ WF_vars(TimerRuns(s))

FairSpec == Spec /\ Fairness

----------------------------------------------------------------------------
(* Safety. *)

\* The loop's view of a device: it exists only between a gate run that passed
\* with the gate action and the next gate run, and never beside one
\* (bridge.py: "A failed or unreachable gate never creates a device").
DeviceOnlyAfterPass ==
  dev # NoSession =>
    /\ pc \in {"starting", "live", "joining", "exiting"}
    /\ gate = "done"
    /\ result.passed
    /\ ~result.want

\* The loop is live exactly while it holds a session, and that session is the
\* one of the device: a teardown requested through Bridge.session reaches the
\* monitors of the device that exists.
SessionOwnsDevice ==
  /\ session # NoSession <=> pc \in {"live", "joining"}
  /\ session # NoSession => dev = session

\* Threads that are still watching (no cause yet) are those of the current
\* session: a session the loop has left cannot act again, and its slow
\* threads only find their stop event set.
NoOrphanMonitor ==
  \A s \in Sessions :
    sess[s] # Unused /\ sess[s].cause = "none" => s = session

\* A signal is a request to stop, not to run another seat session: from the
\* moment the handler has run, no gate run starts (Bridge.__init__'s comment
\* on _signal_exit).
NoGateAfterSignal ==
  signalExit => pc \in {"live", "joining", "exiting", "stopped"}

\* A card the loop parked on is not gated again while it stays seated, unless the
\* wait itself gave up on an error (`handled' is then Nothing): a wrong card costs
\* one gate run, not a loop of them (wait_for_generation_change).
ParkedCardNotGated ==
  gate = "running" => handled # [ins |-> seenIns, how |-> "parked"]

\* A pause after a failed gate run is never shorter than its floor and never
\* longer than its cap, whatever the server's Retry-After says.  The loop pauses
\* nowhere else: after a park or a session it gates again at once.
PauseInBounds ==
  pc = "sleeping" =>
    IF result.reason = "rate_limited"
      THEN delay \in 30 .. 300
      ELSE delay \in MIN_BACKOFF .. MAX_BACKOFF

\* The cause that finish_async returns, and that is audited, stands: it is read
\* after the joins, and whatever a thread that outlasts them finds, or a caller
\* of teardown that came past its test before, sets no other one.
ReportedCauseStands ==
  [][\A s \in Sessions :
       sess[s] # Unused /\ ~sess[s].held =>
         sess'[s].cause = sess[s].cause \/ sess'[s] = Unused]_vars

\* "the reset below fires only on a pass": between passes the backoff never
\* shrinks, so that failures mixed with parks and rate limits keep escalating.
OnlyAPassResetsBackoff ==
  [][backoff' < backoff => GateReturned /\ result.passed]_vars

----------------------------------------------------------------------------
(* The loop implements SeatSession. *)

SeatBar   == IF seated THEN ins ELSE 0
PassBar   == IF GateReturned /\ result.passed /\ ~result.want THEN seenIns ELSE 0
DeviceBar == IF dev = NoSession THEN 0 ELSE seenIns

Seat == INSTANCE SeatSession
          WITH seat <- SeatBar, pass <- PassBar, device <- DeviceBar

\* Every device is created for the insertion that passed, once per pass.
ImplementsSeatSession == Seat!Spec

----------------------------------------------------------------------------
(* Liveness. *)

\* When the card that passed is gone, or another one has taken its place, the
\* presence monitor and the loop take the device away.
RemovalEndsDevice ==
  \A i \in Insertions :
    (InLoop /\ dev # NoSession /\ seenIns = i /\ ~(seated /\ ins = i))
      ~> (dev = NoSession \/ ~InLoop)

\* A card that is lifted for good from a reader that still reports it present
\* does not keep a device: the probes find out.
LiftEndsDevice == ~<>[](InLoop /\ dev # NoSession /\ lifted)

\* SIGINT and SIGTERM end the loop from wherever it is; and when it is the handler
\* that ends it, not dev.start() by raising first, no device is left.
SignalEndsLoop ==
  /\ pending ~> ~InLoop
  /\ signalExit ~> (~InLoop /\ dev = NoSession)

\* The park is not a dead end: it ends when a different card stays in the reader.
SwapEndsPark == ~<>[](Parked /\ attached /\ seated /\ ins # seenIns)

----------------------------------------------------------------------------
(* What the repository says of the program and the runs refute. *)

\* README: "No card I/O happens during this live phase"; "The card is only
\* touched during the ceremony".
NoCardIOWhileLive == \A s \in Sessions : pc = "live" => sess[s].worker = "idle"

\* gate.py: "One seat session = one card insertion"; bridge.py, at the end of
\* a session: "waiting for next insertion".  No device is created for an
\* insertion that has already had its session.
OneSessionPerInsertion ==
  dev # NoSession => handled # [ins |-> seenIns, how |-> "served"]

\* on_signal: outside a session there is "nothing to clean up", the device is
\* "nonexistent".
ExitLeavesNoDevice == [][InLoop /\ pc' = "stopped" => dev = NoSession]_vars

\* Bridge.__init__: "SIGINT/SIGTERM must stop the process".
SignalStopsProcess == pending ~> pc = "stopped"

\* wait_for_generation_change: "Returns True when a different card generation
\* is present".
DifferentGenerationEndsPark ==
  ~<>[](Parked /\ attached /\ seated /\ gen # seenGen)
=============================================================================
