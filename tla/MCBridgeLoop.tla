---------------------------- MODULE MCBridgeLoop ----------------------------
(* BridgeLoop on small instances. *)
EXTENDS BridgeLoop, TLC

\* A nonsense hint, one in range and one past the cap.
MCRetryHints == {-5, 31, 900}

\* The session objects are interchangeable.
Symmetry == Permutations(Sessions)

\* Bounds of the run with two sessions and a signal: each thread has one cause to
\* tear down for, and one signal is sent.
OneCauseEach ==
  /\ \A s \in Sessions : sess[s].presence # "error" /\ sess[s].timer # "idle"
  /\ ~(pending /\ signalExit)
=============================================================================
