------------------------------ MODULE Durations ------------------------------
(***************************************************************************)
(* parse_duration of config.py: a number and letters after it.             *)
(***************************************************************************)
EXTENDS Integers, SequencesExt

CONSTANTS
  Units,      \* ticks in an "ms", an "m", an "h" and an "s"
  NotNumber,  \* what float() refuses
  Unordered   \* the floats inf and nan: float() accepts them

ASSUME DurationsAssumption ==
  /\ Units \in [{"ms", "m", "h", "s"} -> Nat \ {0}]
  /\ NotNumber \notin Int
  /\ Unordered \notin Int

\* In the order in which they are tried.
SUFFIXES == <<<<"m", "s">>, <<"m">>, <<"h">>, <<"s">>>>

UnitOf(suffix) == Units[IF Len(suffix) = 2 THEN "ms" ELSE suffix[1]]

\* The duration inf or nan: no time comes after a deadline that lies so far ahead.
Never == Unordered

ParseDuration_AnySign(text) ==
  LET tried == {i \in DOMAIN SUFFIXES : IsSuffix(SUFFIXES[i], text.letters)}
      suffix == SUFFIXES[Min(tried)]
  IN
  IF tried = {} \/ text.number = NotNumber THEN {}
  ELSE IF text.letters # suffix THEN {}
  ELSE IF text.number = Unordered THEN {Never}
  ELSE {text.number * UnitOf(suffix)}

\* The duration that a text means, as a set: {} stands for ConfigError.  Letters
\* that are left before the suffix make float() fail.
ParseDuration(text) ==
  LET tried == {i \in DOMAIN SUFFIXES : IsSuffix(SUFFIXES[i], text.letters)}
      suffix == SUFFIXES[Min(tried)]
  IN
  IF tried = {} \/ text.number = NotNumber THEN {}
  ELSE IF text.letters # suffix THEN {}
  ELSE IF text.number = Unordered THEN {Never}
  ELSE IF text.number * UnitOf(suffix) <= 0 THEN {}
  ELSE {text.number * UnitOf(suffix)}
=============================================================================
