------------------------------ MODULE LiveTimers ------------------------------
(***************************************************************************)
(* The clocks of one seat session, from the gate pass to the end of its    *)
(* device: t_idle and t_max on the wall clock, the waits of the two        *)
(* monitor threads and of finish_async on the monotonic one, and an event  *)
(* loop that a request to the server blocks.                               *)
(*                                                                         *)
(* Time is counted in ticks since the pass.  A tick does not come while    *)
(* something that is due can be done: threads and the loop are prompt,     *)
(* except for what the code itself makes them wait for.                    *)
(***************************************************************************)
EXTENDS Durations

CONSTANTS
  IdleTexts, LifetimeTexts, \* values of t_idle and t_max in the configuration
  PRESENCE_POLL,            \* PRESENCE_POLL_SECONDS: the wait of the time thread
  TEARDOWN_POLL,            \* TEARDOWN_POLL_SECONDS
  JOIN_TIMEOUT,             \* the timeout of t.join
  MaxStart,                 \* longest dev.start
  MaxRelay,                 \* longest request to the server
  MaxBack, MaxForward,      \* how far the wall clock is set, all together
  MaxTime                   \* bound on the time

ASSUME TimersAssumption ==
  /\ \A text \in IdleTexts \cup LifetimeTexts :
       /\ text.number \in Int \cup {NotNumber, Unordered}
       /\ text.letters \in Seq({"m", "s", "h"})
  /\ PRESENCE_POLL \in Nat \ {0}
  /\ TEARDOWN_POLL \in Nat \ {0}
  /\ JOIN_TIMEOUT \in Nat
  /\ MaxStart \in Nat
  /\ MaxRelay \in Nat
  /\ MaxBack \in Nat
  /\ MaxForward \in Nat
  /\ MaxTime \in Nat

VARIABLES
  t_idle, t_max,   \* as configured
  time,            \* ticks since the gate pass
  back, forward,   \* how far the wall clock has been set so far
  stage,           \* where run() is with the device
  created,         \* LiveSession.created, on the wall clock
  last_activity,   \* CTAPHIDDevice.last_activity, on the wall clock
  cause,           \* LiveSession.cause
  watch,           \* ticks until the time thread's wait ends
  wait,            \* ticks until the loop's sleep or join ends
  busy,            \* ticks until the request that blocks the loop ends
  overtaken,       \* due work of the loop that a packet was handled before
  signalled,       \* a signal was sent that the loop has not handled
  heard,           \* when the last packet was handled, or else the device made
  reason           \* when the first reason for a teardown came up

vars == <<t_idle, t_max, time, back, forward, stage, created, last_activity, cause,
          watch, wait, busy, overtaken, signalled, heard, reason>>

Causes == {"none", "max_lifetime", "idle", "sigterm", "other"}

Wall == time + forward - back

\* Nothing has happened yet.
NotYet == -1

Init ==
  /\ \E text \in IdleTexts : t_idle \in ParseDuration(text)
  /\ \E text \in LifetimeTexts : t_max \in ParseDuration(text)
  /\ time = 0
  /\ back = 0
  /\ forward = 0
  /\ stage = "starting"
  /\ created = 0
  /\ last_activity = 0
  /\ cause = "none"
  /\ watch = 0
  /\ wait = 0
  /\ busy = 0
  /\ overtaken = {}
  /\ signalled = FALSE
  /\ heard = 0
  /\ reason = NotYet

Because(what) ==
  /\ cause' = IF cause = "none" THEN what ELSE cause
  /\ reason' = IF reason = NotYet THEN time ELSE reason

----------------------------------------------------------------------------
(* The time thread.  A set stop event ends its wait at once. *)

TimeThreadDue == stage = "live" /\ cause = "none" /\ watch = 0

Expired_SinceActivity == t_max # Never /\ Wall >= last_activity + t_max

Expired == t_max # Never /\ Wall >= created + t_max

Idle_After == t_idle # Never /\ Wall > last_activity + t_idle

Idle == t_idle # Never /\ Wall >= last_activity + t_idle

WatchTime ==
  /\ TimeThreadDue
  /\ \/ /\ Expired
        /\ Because("max_lifetime")
        /\ UNCHANGED watch
     \/ /\ ~Expired /\ Idle
        /\ Because("idle")
        /\ UNCHANGED watch
     \/ /\ ~Expired /\ ~Idle
        /\ watch' = PRESENCE_POLL
        /\ UNCHANGED <<cause, reason>>
  /\ UNCHANGED <<t_idle, t_max, time, back, forward, stage, created, last_activity,
                 wait, busy, overtaken, signalled, heard>>

\* The presence thread tears down for a removed card or an error.
PresenceTearsDown ==
  /\ stage = "live"
  /\ cause = "none"
  /\ Because("other")
  /\ UNCHANGED <<t_idle, t_max, time, back, forward, stage, created, last_activity,
                 watch, wait, busy, overtaken, signalled, heard>>

----------------------------------------------------------------------------
(* The event loop. *)

\* dev.start has returned, or finish_async's sleep or join has ended.
LoopDue ==
  \/ stage = "starting" /\ time >= MaxStart
  \/ stage \in {"live", "joins_presence", "joins_time"} /\ wait = 0

\* The work that waits for the loop.
Due == {work \in {"task", "signal"} : IF work = "task" THEN LoopDue ELSE signalled}

\* live_phase_async creates the session, whose threads start, and finds no cause.
GoLive ==
  /\ stage = "starting"
  /\ stage' = "live"
  /\ created' = Wall
  /\ watch' = PRESENCE_POLL
  /\ wait' = TEARDOWN_POLL

JoinTakes_NoTimeout == 0 .. MaxTime

\* A thread that hangs in a probe is given up after the timeout.
JoinTakes == 0 .. JOIN_TIMEOUT

CheckCause ==
  /\ stage = "live"
  /\ wait = 0
  /\ \/ /\ cause = "none"
        /\ wait' = TEARDOWN_POLL
        /\ UNCHANGED stage
     \/ /\ cause # "none"
        /\ stage' = "joins_presence"
        /\ wait' \in JoinTakes
  /\ UNCHANGED <<created, watch>>

\* The time thread has ended since: the second join takes no time.
JoinTime ==
  /\ stage = "joins_presence"
  /\ wait = 0
  /\ stage' = "joins_time"
  /\ UNCHANGED <<created, watch, wait>>

Destroy ==
  /\ stage = "joins_time"
  /\ stage' = "gone"
  /\ UNCHANGED <<created, watch, wait>>

LoopRuns ==
  /\ busy = 0
  /\ GoLive \/ CheckCause \/ JoinTime \/ Destroy
  /\ overtaken' = overtaken \ {"task"}
  /\ UNCHANGED <<t_idle, t_max, time, back, forward, last_activity, cause, busy,
                 signalled, heard, reason>>

OnSignal ==
  /\ busy = 0
  /\ signalled
  /\ signalled' = FALSE
  /\ Because("sigterm")
  /\ overtaken' = overtaken \ {"signal"}
  /\ UNCHANGED <<t_idle, t_max, time, back, forward, stage, created, last_activity,
                 watch, wait, busy, heard>>

Activity_Kept == last_activity

\* Every packet counts, whatever it is.
Activity == Wall

\* A packet is handled, and may be relayed: then the loop is blocked.  asyncio
\* handles at most one before the work that is due.  The device takes packets
\* until it is destroyed.
HandlePacket ==
  /\ busy = 0
  /\ stage # "gone"
  /\ Due \cap overtaken = {}
  /\ overtaken' = Due
  /\ last_activity' = Activity
  /\ heard' = time
  /\ busy' \in 0 .. MaxRelay
  /\ UNCHANGED <<t_idle, t_max, time, back, forward, stage, created, cause, watch, wait,
                 signalled, reason>>

----------------------------------------------------------------------------
(* The environment. *)

\* A signal before the session ends the process, and one after a cause adds
\* nothing: BridgeLoop has both.
SendSignal ==
  /\ stage = "live"
  /\ cause = "none"
  /\ ~signalled
  /\ signalled' = TRUE
  /\ reason' = IF reason = NotYet THEN time ELSE reason
  /\ UNCHANGED <<t_idle, t_max, time, back, forward, stage, created, last_activity,
                 cause, watch, wait, busy, overtaken, heard>>

\* The wall clock is set by NTP, by hand or on resume.
SetClock ==
  /\ stage # "gone"
  /\ \/ back < MaxBack /\ back' = back + 1 /\ UNCHANGED forward
     \/ forward < MaxForward /\ forward' = forward + 1 /\ UNCHANGED back
  /\ UNCHANGED <<t_idle, t_max, time, stage, created, last_activity, cause, watch, wait,
                 busy, overtaken, signalled, heard, reason>>

Down(n) == IF n = 0 THEN 0 ELSE n - 1

Tick ==
  /\ stage # "gone"
  /\ time < MaxTime
  /\ ~TimeThreadDue
  /\ busy > 0 \/ Due = {}
  /\ time' = time + 1
  /\ watch' = Down(watch)
  /\ wait' = Down(wait)
  /\ busy' = Down(busy)
  /\ UNCHANGED <<t_idle, t_max, back, forward, stage, created, last_activity, cause,
                 overtaken, signalled, heard, reason>>

Next ==
  \/ WatchTime \/ PresenceTearsDown
  \/ LoopRuns \/ OnSignal \/ HandlePacket
  \/ SendSignal \/ SetClock \/ Tick

Spec == Init /\ [][Next]_vars

----------------------------------------------------------------------------
(* Properties. *)

\* Types of the variables: only positive durations, or one that never ends, come
\* out of the configuration (parse_duration).
TypeOK ==
  /\ t_idle \in (Nat \ {0}) \cup {Never}
  /\ t_max \in (Nat \ {0}) \cup {Never}
  /\ time \in 0 .. MaxTime
  /\ back \in 0 .. MaxBack
  /\ forward \in 0 .. MaxForward
  /\ stage \in {"starting", "live", "joins_presence", "joins_time", "gone"}
  /\ created \in Int
  /\ last_activity \in Int
  /\ cause \in Causes
  /\ watch \in 0 .. PRESENCE_POLL
  /\ wait \in Nat
  /\ busy \in 0 .. MaxRelay
  /\ overtaken \subseteq {"task", "signal"}
  /\ signalled \in BOOLEAN
  /\ heard \in 0 .. MaxTime
  /\ reason \in {NotYet} \cup 0 .. MaxTime

\* Longest that the loop's due work waits: for the request in progress and for
\* that of one packet more.
Blocked == 2 * MaxRelay

\* From the first reason for a teardown, a signal included, to the end of the
\* device: one wait of finish_async and one full join, with a blocked loop before
\* the signal handler and after each of the two, and one packet more after the
\* second join (teardown, finish_async).
TeardownPrompt ==
  reason # NotYet /\ stage # "gone" =>
    time - reason <= Blocked + TEARDOWN_POLL + Blocked + JOIN_TIMEOUT + Blocked + MaxRelay

\* A device outlives t_max since the gate pass by no more than its start, what
\* the wall clock was set back, one wait of the time thread and a teardown,
\* however busy it is (_watch_time).
LifetimeCeiling ==
  t_max # Never /\ stage # "gone" =>
    time < MaxStart + Blocked + t_max + MaxBack + PRESENCE_POLL
           + TEARDOWN_POLL + Blocked + JOIN_TIMEOUT + Blocked + MaxRelay

\* A session without packets for t_idle has a teardown cause after one wait of
\* the time thread more, or what the wall clock was set back (_watch_time).
IdleEndsSession ==
  t_idle # Never /\ stage = "live" /\ cause = "none" =>
    \/ time < heard + t_idle + MaxBack + PRESENCE_POLL
    \/ time <= MaxStart + Blocked + PRESENCE_POLL

\* Only a session without packets for t_idle is ended as idle, unless the wall
\* clock was set forward (_watch_time, process_hid_message).
IdleMeansIdle ==
  [][cause = "none" /\ cause' = "idle" => time - heard >= t_idle - MaxForward]_vars
=============================================================================
