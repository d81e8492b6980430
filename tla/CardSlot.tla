------------------------------ MODULE CardSlot ------------------------------
(***************************************************************************)
(* The PC/SC reader the bridge watches, and what CardLink can learn of it. *)
(*                                                                         *)
(* The reader, its card and pcscd's insertion counter are outside the      *)
(* repository.  They are modelled from how gate.py uses them: a status     *)
(* query gives a PRESENT bit and the counter dwEventState >> 16; "a        *)
(* remove+reinsert bumps it"; the counter has GenMod values (2^16 in the   *)
(* program) and starts again with a reader that is unplugged and plugged   *)
(* back.  `ins' is a history variable: it numbers the insertions and is    *)
(* what the counter stands for.                                            *)
(*                                                                         *)
(* A lifted card is the relayed reader of probe_alive's comment: PRESENT   *)
(* stays asserted while nothing answers.                                   *)
(***************************************************************************)
EXTENDS Naturals

CONSTANTS
  GenMod,       \* number of values of the insertion counter
  FirstGen,     \* the counter before the first insertion of the run
  MaxIns,       \* bound: insertions in a behaviour
  Unpluggable,  \* whether the reader itself can be unplugged and plugged back
  Liftable      \* whether the reader is a relay, on which a card can be lifted

ASSUME SlotAssumption ==
  /\ GenMod \in Nat \ {0}
  /\ FirstGen \in 0 .. GenMod - 1
  /\ MaxIns \in Nat
  /\ Unpluggable \in BOOLEAN
  /\ Liftable \in BOOLEAN

VARIABLES
  attached,     \* the reader is in SCardListReaders
  seated,       \* SCARD_STATE_PRESENT
  lifted,       \* present, but the card does not answer
  gen,          \* the insertion counter
  ins           \* history: insertions so far

slotVars == <<attached, seated, lifted, gen, ins>>

Generations == 0 .. GenMod - 1
Insertions  == 0 .. MaxIns          \* 0 stands for "none"

SlotTypeOK ==
  /\ attached \in BOOLEAN
  /\ seated \in BOOLEAN
  /\ lifted \in BOOLEAN
  /\ gen \in Generations
  /\ ins \in Insertions

\* The counter's value after an insertion; it is a 16-bit field and wraps.
Bump(g) == IF g + 1 = GenMod THEN 0 ELSE g + 1

\* With fewer insertions than counter values left, and a reader that stays
\* plugged in, no two insertions share a generation.
GensUnique == ~Unpluggable /\ FirstGen + MaxIns < GenMod

SlotInit ==
  /\ attached = TRUE
  /\ lifted = FALSE
  /\ gen = FirstGen
  /\ \/ seated = FALSE /\ ins = 0
     \/ seated = TRUE  /\ ins = 1 /\ MaxIns > 0

Insert ==
  /\ attached
  /\ ~seated
  /\ ins < MaxIns
  /\ seated' = TRUE
  /\ gen' = Bump(gen)
  /\ ins' = ins + 1
  /\ UNCHANGED <<attached, lifted>>

Remove ==
  /\ seated
  /\ seated' = FALSE
  /\ lifted' = FALSE
  /\ UNCHANGED <<attached, gen, ins>>

Lift ==
  /\ Liftable
  /\ seated
  /\ lifted' = ~lifted
  /\ UNCHANGED <<attached, seated, gen, ins>>

Unplug ==
  /\ Unpluggable
  /\ attached
  /\ attached' = FALSE
  /\ seated' = FALSE
  /\ lifted' = FALSE
  /\ UNCHANGED <<gen, ins>>

Replug ==
  /\ ~attached
  /\ attached' = TRUE
  /\ gen' = 0
  /\ UNCHANGED <<seated, lifted, ins>>

SlotNext == Insert \/ Remove \/ Lift \/ Unplug \/ Replug

----------------------------------------------------------------------------
(* What a status query that succeeds answers. *)

\* Mutant: the generation is not compared.
StillPresent_AnyGeneration(g) == attached /\ seated

\* still_present: the card is present and the generation is the one given.
StillPresent(g) == attached /\ seated /\ gen = g

\* Mutants: an off-by-one on either side.
Superseded_SkipsOne(g) == attached /\ seated /\ gen > g + 1
Superseded_SameToo(g) == attached /\ seated /\ gen >= g

\* The test wait_for_generation_change applies to a status.
Superseded(g) == attached /\ seated /\ gen > g
=============================================================================
