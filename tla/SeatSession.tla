---------------------------- MODULE SeatSession -----------------------------
(***************************************************************************)
(* What the bridge promises about its device, after the first paragraph    *)
(* of bridge.py: a device exists only for a seat session that passed the   *)
(* gate.  A pass is given to the insertion that is seated at that moment,  *)
(* it is used at most once, and never while a device exists.               *)
(***************************************************************************)
EXTENDS Naturals

CONSTANT Insertions   \* insertions, with 0 for "none"

VARIABLES
  seat,     \* the insertion seated now
  pass,     \* the insertion a pass was given to and that has no device yet
  device    \* the insertion whose device exists

seatVars == <<seat, pass, device>>

Init == seat \in Insertions /\ pass = 0 /\ device = 0

Reseat == seat' \in Insertions /\ UNCHANGED <<pass, device>>

Authorise ==
  /\ pass = 0
  /\ device = 0
  /\ seat # 0
  /\ pass' = seat
  /\ UNCHANGED <<seat, device>>

Forgo ==
  /\ pass # 0
  /\ pass' = 0
  /\ UNCHANGED <<seat, device>>

Create ==
  /\ pass # 0
  /\ device = 0
  /\ device' = pass
  /\ pass' = 0
  /\ UNCHANGED seat

Destroy ==
  /\ device # 0
  /\ device' = 0
  /\ UNCHANGED <<seat, pass>>

Next == Reseat \/ Authorise \/ Forgo \/ Create \/ Destroy

Spec == Init /\ [][Next]_seatVars
=============================================================================
