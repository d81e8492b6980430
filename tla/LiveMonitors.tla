---------------------------- MODULE LiveMonitors ----------------------------
(***************************************************************************)
(* LiveSession: the two monitor threads of a live session and the request  *)
(* to tear it down.                                                        *)
(*                                                                         *)
(* A session is an element of Sessions, which stands for a LiveSession     *)
(* object: a session the loop has left may still have a thread running     *)
(* when the next one is created (the joins give up after 5 s), and each    *)
(* thread tears down its own object.  An object that neither the loop nor  *)
(* a thread holds is Unused again.                                         *)
(*                                                                         *)
(* teardown holds no lock: a caller that finds no cause sets its own in a  *)
(* later step, and other callers may come between.  `cause' and the stop   *)
(* event, which is set right after it, are one variable.  Time is left     *)
(* out: what a thread does after a poll interval it may do at any moment.  *)
(* LiveTimers adds the clock.                                              *)
(***************************************************************************)
EXTENDS CardSlot

CONSTANTS
  Sessions,     \* LiveSession objects alive at the same time
  NoSession

ASSUME SessionAssumption == NoSession \notin Sessions

VARIABLE sess     \* the object of each session

Causes == {"removed", "idle", "max_lifetime", "error", "sigterm"}

PresenceCauses == {"removed", "error"}
TimerCauses    == {"max_lifetime", "idle"}

\* A LiveSession, with the local variables of its threads.  A thread that is
\* about to set a cause is at that cause.
LiveSession ==
  [held     : BOOLEAN,                     \* it is Bridge.session
   cause    : Causes \cup {"none"},        \* none while it is live
   bound    : Generations,                 \* generation it watches
   presence : {"wait", "check", "probe", "done"} \cup PresenceCauses,
                                           \* the presence thread
   even     : BOOLEAN,                     \* its next tick is even
   failures : 0 .. 1,                      \* its probe_failures
   worker   : {"idle", "busy", "stuck"},   \* its one-worker pool
   timer    : {"wait", "check", "done"} \cup TimerCauses]
                                           \* the time thread

\* A new object whose threads have started.
Started(g) ==
  [held |-> TRUE, cause |-> "none", bound |-> g, presence |-> "wait",
   even |-> FALSE, failures |-> 0, worker |-> "idle", timer |-> "wait"]

Unused ==
  [held |-> FALSE, cause |-> "none", bound |-> 0, presence |-> "done",
   even |-> FALSE, failures |-> 0, worker |-> "idle", timer |-> "done"]

MonitorTypeOK == sess \in [Sessions -> LiveSession]

MonitorInit == sess = [s \in Sessions |-> Unused]

Abandoned(x) ==
  ~x.held /\ x.presence = "done" /\ x.timer = "done" /\ x.worker = "idle"

\* Session s becomes x, unless nothing refers to it any more.
Becomes(s, x) ==
  sess' = [sess EXCEPT ![s] = IF Abandoned(x) THEN Unused ELSE x]

\* The test of teardown(c): where a thread that calls it goes on.  If it finds no
\* cause it is about to set its own, and else it returns.
Teardown(x, c) == IF x.cause = "none" THEN c ELSE "done"

\* The assignment of teardown: whoever found no cause sets its own.
Caused(x, c) == [x EXCEPT !.cause = c]

\* The presence thread leaves its loop, and its locals are gone.
PresenceLeaves(x, place) ==
  [x EXCEPT !.presence = place, !.even = FALSE, !.failures = 0]

PresenceDone(x) == PresenceLeaves(x, "done")

----------------------------------------------------------------------------
(* _watch_presence *)

\* The wait on the stop event times out, or finds the event set.
PresenceWakes(s) ==
  /\ sess[s].presence = "wait"
  /\ Becomes(s, IF sess[s].cause = "none"
                  THEN [sess[s] EXCEPT !.presence = "check"]
                  ELSE PresenceDone(sess[s]))

\* still_present is true: on every second tick the thread goes on to submit a
\* probe, which starts at once if the worker is idle and queues otherwise.
PresenceConfirmed(s) ==
  /\ sess[s].presence = "check"
  /\ StillPresent(sess[s].bound)
  /\ Becomes(s, [sess[s] EXCEPT
       !.even = ~@,
       !.presence = IF sess[s].even THEN "probe" ELSE "wait",
       !.worker = IF sess[s].even /\ @ = "idle" THEN "busy" ELSE @])

\* still_present is false, for an absent or changed card and for a query that
\* fails; or anything it calls raises.
PresenceLost(s) ==
  /\ sess[s].presence = "check"
  /\ \E c \in PresenceCauses :
       Becomes(s, PresenceLeaves(sess[s], Teardown(sess[s], c)))

\* Mutant: a failed probe is never counted.
Counted_Never(x, alive) == [x EXCEPT !.presence = "wait"]

\* The probe's outcome: the second failure in a row is a removal.
Counted(x, alive) ==
  IF ~alive /\ x.failures + 1 >= 2
    THEN PresenceLeaves(x, Teardown(x, "removed"))
    ELSE [x EXCEPT !.presence = "wait",
                   !.failures = IF alive THEN 0 ELSE @ + 1]

\* probe_alive returns in time.  Only a card that is there and answers can
\* make it true; anything (another client on the card, say) can make it false.
ProbeReturns(s) ==
  /\ sess[s].presence = "probe"
  /\ sess[s].worker = "busy"
  /\ \E alive \in BOOLEAN :
       /\ alive => seated /\ ~lifted
       /\ Becomes(s, Counted([sess[s] EXCEPT !.worker = "idle"], alive))

\* PROBE_TIMEOUT_S passes: the thread counts a failure and goes on, while the
\* worker stays inside the probe.
ProbeTimesOut(s) ==
  /\ sess[s].presence = "probe"
  /\ Becomes(s, Counted([sess[s] EXCEPT !.worker = "stuck"], FALSE))

\* A probe nobody waits for returns, and the worker takes the queued one.
WorkerReturns(s) ==
  /\ sess[s].worker = "stuck"
  /\ Becomes(s, [sess[s] EXCEPT
       !.worker = IF sess[s].presence = "probe" THEN "busy" ELSE "idle"])

\* Inside teardown, past its test.
PresenceSets(s) ==
  /\ sess[s].presence \in PresenceCauses
  /\ Becomes(s, PresenceDone(Caused(sess[s], sess[s].presence)))

PresenceStep(s) ==
  \/ PresenceWakes(s) \/ PresenceConfirmed(s) \/ PresenceLost(s)
  \/ ProbeReturns(s) \/ ProbeTimesOut(s) \/ PresenceSets(s)

----------------------------------------------------------------------------
(* _watch_time *)

TimerWakes(s) ==
  /\ sess[s].timer = "wait"
  /\ Becomes(s, [sess[s] EXCEPT
       !.timer = IF sess[s].cause = "none" THEN "check" ELSE "done"])

TimerWaits(s) ==
  /\ sess[s].timer = "check"
  /\ Becomes(s, [sess[s] EXCEPT !.timer = "wait"])

TimerExpires(s) ==
  /\ sess[s].timer = "check"
  /\ \E c \in TimerCauses :
       Becomes(s, [sess[s] EXCEPT !.timer = Teardown(sess[s], c)])

TimerSets(s) ==
  /\ sess[s].timer \in TimerCauses
  /\ Becomes(s, [Caused(sess[s], sess[s].timer) EXCEPT !.timer = "done"])

TimerStep(s) == TimerWakes(s) \/ TimerWaits(s) \/ TimerExpires(s) \/ TimerSets(s)

MonitorStep(s) == PresenceStep(s) \/ WorkerReturns(s) \/ TimerStep(s)
=============================================================================
