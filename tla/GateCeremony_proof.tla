------------------------- MODULE GateCeremony_proof -------------------------
(***************************************************************************)
(* Theorems about GateCeremony, for every number of insertions, counter    *)
(* values, retries and PIN tries.  TLC checks the same invariants on small *)
(* instances.                                                              *)
(***************************************************************************)
EXTENDS GateCeremony, SlotAndResults_proof, FiniteSetTheorems

----------------------------------------------------------------------------
(* The nonces of a run.                                                     *)

\* The nonces that the sessions before this one may have used up.
Earlier == IF rerun THEN 2 ELSE 0

\* Two for each card session, and one session after a stale signature.
NonceCount ==
  /\ step \in {"wait", "arbiter"} => nonce = 0
  /\ step \in {"open", "select", "pin", "cert"} => nonce <= Earlier
  /\ step \in {"select", "pin", "cert"} => ~refetched
  /\ step = "challenge" => nonce <= Earlier + (IF refetched THEN 1 ELSE 0)
  /\ step \in {"sign", "submit"} =>
       nonce \in 1 .. Earlier + (IF refetched THEN 2 ELSE 1)
  /\ nonce <= Earlier + 2

\* A nonce that was not yet signed was not yet submitted either.
NonceFresh ==
  /\ submitted \subseteq 1 .. nonce
  /\ step \in {"sign", "submit"} => nonce \notin submitted

Nonces == NonceCount /\ NonceFresh

\* The PIN was verified in every session that is past its PIN step.
Authed ==
  /\ step \in {"cert", "challenge", "sign", "submit", "recheck", "reset", "confirm"} =>
       authed
  /\ ServerAfterPin

\* Only the steps of _gating up to the reset hold a session.
Ended == step \in {"wait", "arbiter", "open", "confirm", "done"} => conn = 0

IInv == TypeOK /\ Nonces /\ Authed /\ Ended

----------------------------------------------------------------------------
\* What the code itself fails with.
LEMMA LocalReasons ==
  {"user_ssh", "user_dismissed", "card_error", "no_piv_applet", "pin_blocked",
   "pin_verify_failed", "no_gate_cert", "server_unreachable", "card_removed"}
    \subseteq AllReasons
  BY DEF AllReasons, PARK_REASONS

----------------------------------------------------------------------------
(* Type correctness. *)

MemoType == [gen : Generations, ins : Insertions, choice : Choices \cup {"none"}]

LEMMA MemoTypes ==
  ASSUME TypeOK
  PROVE  /\ NoMemo \in MemoType
         /\ \A choice \in Choices :
              [gen |-> seenGen, ins |-> seenIns, choice |-> choice] \in MemoType
  BY SlotAssumption DEF TypeOK, NoMemo, MemoType, Generations, Insertions

LEMMA SignatureTypes ==
  /\ NoSig \in Signature
  /\ \A i \in Insertions, over \in 0 .. MaxNonces : [ins |-> i, over |-> over] \in Signature
  BY SlotAssumption DEF NoSig, Signature, Insertions, MaxNonces

LEMMA RunStartType ==
  /\ "wait" \in Steps /\ NoResult \in GateResult
  /\ 0 \in Generations /\ 0 \in Insertions /\ 0 \in 0 .. MaxNonces
  /\ {} \subseteq 1 .. MaxNonces /\ NoSig \in Signature
  BY ResultTypes, SignatureTypes, SlotAssumption
     DEF Steps, Generations, Insertions, MaxNonces

LEMMA InitType == Init => TypeOK
<1> SUFFICES ASSUME Init PROVE TypeOK
  OBVIOUS
<1>1. SlotTypeOK
  BY SlotInitType DEF Init
<1>2. memo \in [gen : Generations, ins : Insertions, choice : Choices \cup {"none"}]
  BY SlotAssumption DEF Init, NoMemo, Generations, Insertions
<1> QED
  BY <1>1, <1>2, RunStartType DEF Init, RunVarsInit, TypeOK

\* The nonces that the invariant allows fit the type.
LEMMA NonceRange ==
  ASSUME TypeOK, NonceCount
  PROVE  /\ step = "challenge" => nonce + 1 \in 0 .. MaxNonces
         /\ step \in {"sign", "submit"} => nonce \in 1 .. MaxNonces
  BY DEF TypeOK, NonceCount, Earlier, MaxNonces

LEMMA NextType ==
  ASSUME IInv, [Next]_vars
  PROVE  TypeOK'
<1> USE DEF TypeOK, Steps
<1>0. TypeOK /\ NonceCount
  BY DEF IInv, Nonces
<1>a. ASSUME UNCHANGED slotVars PROVE SlotTypeOK'
  BY <1>0, <1>a DEF slotVars, SlotTypeOK
<1>b. ASSUME EndSession
      PROVE  conn' \in Insertions /\ UNCHANGED <<cardVars, authed, contacted, unreset>>
  BY <1>0, <1>b, SlotAssumption DEF EndSession, Insertions
<1>1. CASE CardMoves \/ Collect
  <2>1. SlotTypeOK'
    BY <1>0, <1>1, <1>a, SlotType DEF CardMoves, Collect
  <2>2. verified' \in BOOLEAN /\ leftover' \in BOOLEAN /\ tries' \in 0 .. MaxTries
    BY <1>0, <1>1 DEF CardMoves, Collect
  <2>3. UNCHANGED <<step, result, runVars, netVars, connVars, memo>>
    BY <1>1 DEF CardMoves, Collect
  <2> QED
    BY <1>0, <2>1, <2>2, <2>3 DEF runVars, netVars, connVars
<1>2. CASE WaitForInsertion
  BY <1>0, <1>2, <1>a DEF WaitForInsertion, GoTo, cardVars, netVars, connVars, SlotTypeOK
<1>3. CASE SetupRaises \/ NothingToAsk
  BY <1>0, <1>3, <1>a, ResultTypes DEF SetupRaises, NothingToAsk, GoTo, Return, cardVars,
     runVars, netVars, connVars
<1>4. CASE NextRun
  BY <1>0, <1>4, <1>a, RunStartType DEF NextRun, cardVars
<1>5. CASE AskUser \/ AnswerFromMemo \/ AskRaises
  <2>1. memo' \in MemoType
    BY <1>0, <1>5, MemoTypes DEF AskUser, AnswerFromMemo, AskRaises, MemoType, Choices
  <2>2. step' \in Steps /\ result' \in GateResult /\ want' \in BOOLEAN
    BY <1>0, <1>5, ResultTypes, LocalReasons
       DEF AskUser, AnswerFromMemo, AskRaises, Follow, Return, GoTo, runVars
  <2> QED
    BY <1>0, <1>5, <1>a, <2>1, <2>2
       DEF AskUser, AnswerFromMemo, AskRaises, cardVars, runVars, netVars, connVars, MemoType
<1>6. CASE OpenSession \/ OpenFails \/ BeginFails
  <2>1. "card_error" \in AllReasons
    BY LocalReasons
  <2>2. step' \in Steps /\ result' \in GateResult /\ conn' \in Insertions
    BY <1>0, <1>6, <2>1, ResultTypes
       DEF OpenSession, OpenFails, BeginFails, GoTo, Return, connVars, SlotTypeOK
  <2> QED
    BY <1>0, <1>6, <1>a, <2>2
       DEF OpenSession, OpenFails, BeginFails, cardVars, runVars, netVars, connVars
<1>7. ASSUME NEW r \in GateResult, GatingReturns(r), UNCHANGED <<slotVars, runVars, netVars, memo>>
      PROVE  TypeOK'
  BY <1>0, <1>7, <1>a, <1>b DEF GatingReturns, Return, cardVars, runVars, netVars
<1>8. CASE TransmitRaises \/ SelectRefused \/ PinBlocked \/ PinGivenUp \/ CertMissing \/ CardGone
  BY <1>7, <1>8, ResultTypes, LocalReasons
     DEF TransmitRaises, SelectRefused, PinBlocked, PinGivenUp, CertMissing, CardGone
<1>9. CASE SelectPiv
  BY <1>0, <1>9, <1>a DEF SelectPiv, GoTo, cardVars, runVars, netVars, connVars
<1>10. CASE PinRight
  BY <1>0, <1>10, <1>a, CeremonyAssumption DEF PinRight, GoTo, runVars, netVars
<1>11. CASE PinWrong
  <2>1. tries' \in 0 .. MaxTries
    BY <1>0, <1>11, CeremonyAssumption DEF PinWrong
  <2> QED
    BY <1>0, <1>11, <1>a, <2>1 DEF PinWrong, runVars, netVars, connVars
<1>12. CASE ReadCert
  BY <1>0, <1>12, <1>a DEF ReadCert, GoTo, cardVars, runVars, connVars
<1>13. ASSUME NEW r \in GateResult, NetworkFails(r), submitted' \subseteq 1 .. MaxNonces,
              approved' \in Signature, UNCHANGED <<refetched, attempt, nonce, sig>>
       PROVE  TypeOK'
  BY <1>0, <1>13, <1>a, RunStartType DEF NetworkFails, Return, cardVars, runVars
<1>14. ASSUME Submitting PROVE submitted' \subseteq 1 .. MaxNonces
  BY <1>0, <1>14, NonceRange DEF Submitting
<1>15. CASE ChallengeAnswered
  <2>1. nonce' \in 0 .. MaxNonces
    BY <1>0, <1>15, NonceRange DEF ChallengeAnswered
  <2> QED
    BY <1>0, <1>15, <1>a, <2>1 DEF ChallengeAnswered, GoTo, ServerReached, cardVars, runVars
<1>16. CASE ChallengeRetried
  <2>1. attempt' \in Nat
    BY <1>0, <1>16 DEF ChallengeRetried
  <2> QED
    BY <1>0, <1>16, <1>a, <2>1 DEF ChallengeRetried, ServerReached, cardVars, runVars
<1>17. CASE ChallengeFails \/ VerifyLost \/ VerdictFail
  BY <1>0, <1>13, <1>14, <1>17, ResultTypes, LocalReasons, CeremonyAssumption
     DEF ChallengeFails, VerifyLost, VerdictFail, netVars
<1>18. CASE RateLimited
  <2>1. submitted' \subseteq 1 .. MaxNonces
    BY <1>0, <1>18, NonceRange DEF RateLimited
  <2> QED
    BY <1>0, <1>13, <1>18, <2>1, ResultTypes DEF RateLimited
<1>19. CASE Sign
  <2>1. PICK over \in 1 .. nonce : sig' = [ins |-> conn, over |-> over]
    BY <1>19 DEF Sign
  <2>2. over \in 0 .. MaxNonces
    BY <1>0, <2>1 DEF MaxNonces
  <2>3. sig' \in Signature
    BY <1>0, <2>1, <2>2, SignatureTypes
  <2> QED
    BY <1>0, <1>19, <1>a, <2>3 DEF Sign, GoTo, cardVars, runVars, connVars
<1>20. CASE SignStale
  <2>1. step' \in Steps /\ result' \in GateResult
    BY <1>0, <1>20, ResultTypes, LocalReasons DEF SignStale, GoTo, Return
  <2> QED
    BY <1>0, <1>20, <1>a, <1>b, <2>1 DEF SignStale, cardVars, netVars
<1>21. CASE VerdictPass
  <2>1. submitted' \subseteq 1 .. MaxNonces
    BY <1>14, <1>21 DEF VerdictPass
  <2> QED
    BY <1>0, <1>21, <1>a, <2>1 DEF VerdictPass, GoTo, ServerReached, cardVars, runVars
<1>22. CASE VerdictNonce
  <2>1. submitted' \subseteq 1 .. MaxNonces
    BY <1>14, <1>22 DEF VerdictNonce
  <2> QED
    BY <1>0, <1>22, <1>a, <2>1 DEF VerdictNonce, GoTo, ServerReached, cardVars, runVars
<1>23. CASE Recheck \/ Reset
  <2>1. conn' \in Insertions
    BY <1>0, <1>23, SlotAssumption DEF Recheck, Reset, ResetSession, connVars, Insertions
  <2>2. \/ UNCHANGED <<verified, unreset>>
        \/ \E works \in BOOLEAN : verified' = (verified /\ ~works) /\ unreset' = ~works
    BY <1>23, Zenon DEF Recheck, Reset, ResetSession, cardVars, connVars
  <2>3. verified' \in BOOLEAN /\ unreset' \in BOOLEAN
    BY <1>0, <2>2
  <2> QED
    BY <1>0, <1>23, <1>a, <2>1, <2>3
       DEF Recheck, Reset, ResetSession, GoTo, cardVars, runVars, netVars, connVars
<1>24. CASE Confirm
  BY <1>0, <1>24, <1>a, ResultTypes DEF Confirm, Return, cardVars, runVars, netVars, connVars
<1>25. CASE UNCHANGED vars
  BY <1>0, <1>25, <1>a DEF vars, cardVars, runVars, netVars, connVars
<1> QED
  BY <1>1, <1>2, <1>3, <1>4, <1>5, <1>6, <1>8, <1>9, <1>15, <1>17, <1>18, <1>19, <1>20,
     <1>21, <1>23, <1>24, <1>25, <1>10, <1>11, <1>12, <1>16, <1>22
     DEF Next, GateStep

----------------------------------------------------------------------------
(* The rest of the invariant. *)

\* A step that makes no nonce and submits none: it leaves the counts as they are
\* unless it goes on to another step of the run.
LEMMA NoncesKept ==
  ASSUME TypeOK, Nonces, UNCHANGED <<rerun, nonce, submitted>>,
         \/ UNCHANGED <<step, refetched>>
         \/ step' \in {"recheck", "reset", "confirm", "done"}
         \/ step \in {"wait", "arbiter"} /\ step' \in {"arbiter", "open"}
         \/ step \in {"select", "pin", "cert"} /\ UNCHANGED refetched /\
              step' \in {"pin", "cert", "challenge"}
  PROVE  Nonces'
<1>1. nonce \in Nat /\ Earlier \in Nat /\ Earlier' = Earlier
  BY DEF TypeOK, MaxNonces, Earlier
<1> QED
  BY <1>1 DEF Nonces, NonceCount, NonceFresh

LEMMA NoncesNext ==
  ASSUME IInv, [Next]_vars
  PROVE  Nonces'
<1>0. TypeOK /\ Nonces /\ nonce \in Nat
  BY DEF IInv, TypeOK, MaxNonces
<1>1. CASE CardMoves \/ Collect \/ SetupRaises \/ WaitForInsertion \/ NothingToAsk
  BY <1>0, <1>1, NoncesKept DEF CardMoves, Collect, SetupRaises, WaitForInsertion, NothingToAsk, GoTo,
     Return, runVars, netVars
<1>2. CASE NextRun
  BY <1>2 DEF NextRun, Nonces, NonceCount, NonceFresh, Earlier
<1>3. CASE AskUser \/ AnswerFromMemo \/ AskRaises
  <2>1. step = "arbiter" /\ step' \in {"open", "done"} /\ UNCHANGED <<rerun, nonce, submitted>>
    BY <1>3 DEF AskUser, AnswerFromMemo, AskRaises, Follow, GoTo, Return, runVars, netVars
  <2> QED
    BY <1>0, <2>1, NoncesKept
<1>4. CASE OpenSession
  BY <1>0, <1>4 DEF OpenSession, GoTo, runVars, Nonces, NonceCount, NonceFresh, Earlier
<1>5. CASE OpenFails \/ BeginFails \/ TransmitRaises \/ SelectRefused \/ PinBlocked
           \/ PinGivenUp \/ CertMissing \/ CardGone \/ ChallengeFails \/ Confirm
  BY <1>0, <1>5, NoncesKept DEF OpenFails, BeginFails, TransmitRaises, SelectRefused, PinBlocked,
     PinGivenUp, CertMissing, CardGone, ChallengeFails, Confirm, GatingReturns,
     NetworkFails, Return, runVars, netVars
<1>6. CASE SelectPiv \/ PinRight \/ PinWrong \/ ReadCert
  BY <1>0, <1>6, NoncesKept DEF SelectPiv, PinRight, PinWrong, ReadCert, GoTo, runVars, netVars
<1>7. CASE ChallengeAnswered
  BY <1>0, <1>7 DEF ChallengeAnswered, GoTo, runVars, Nonces, NonceCount, NonceFresh, Earlier
<1>8. CASE ChallengeRetried
  BY <1>0, <1>8, NoncesKept DEF ChallengeRetried, runVars
<1>9. CASE RateLimited \/ VerifyLost \/ VerdictFail \/ VerdictPass
  <2>1. /\ step \in {"challenge", "submit"} /\ step' \in {"recheck", "done"}
        /\ UNCHANGED <<rerun, refetched, nonce>>
        /\ submitted' \subseteq submitted \cup {nonce}
        /\ step = "challenge" => submitted' = submitted
    BY <1>9 DEF RateLimited, VerifyLost, VerdictFail, VerdictPass, Submitting, NetworkFails,
                Return, GoTo, runVars
  <2>2. submitted' \subseteq 1 .. nonce
    BY <1>0, <2>1 DEF Nonces, NonceCount, NonceFresh, Earlier
  <2> QED
    BY <1>0, <2>1, <2>2 DEF Nonces, NonceCount, NonceFresh, Earlier
<1>10. CASE Sign
  BY <1>0, <1>10 DEF Sign, GoTo, runVars, Nonces, NonceCount, NonceFresh, Earlier
<1>11. CASE SignStale
  BY <1>0, <1>11 DEF SignStale, GoTo, Return, netVars, Nonces, NonceCount, NonceFresh, Earlier
<1>12. CASE VerdictNonce
  <2>1. submitted' \subseteq 1 .. nonce
    BY <1>0, <1>12 DEF VerdictNonce, Submitting, Nonces, NonceCount, NonceFresh, Earlier
  <2> QED
    BY <1>0, <1>12, <2>1 DEF VerdictNonce, Submitting, GoTo, runVars, Nonces, NonceCount,
                             NonceFresh, Earlier
<1>13. CASE Recheck \/ Reset
  BY <1>0, <1>13, NoncesKept DEF Recheck, Reset, GoTo, runVars, netVars
<1>14. CASE UNCHANGED vars
  BY <1>0, <1>14, NoncesKept DEF vars, runVars, netVars
<1> QED
  BY <1>1, <1>2, <1>3, <1>4, <1>5, <1>6, <1>7, <1>8, <1>9, <1>10, <1>11, <1>12, <1>13, <1>14
     DEF Next, GateStep

LEMMA AuthedNext ==
  ASSUME Authed, [Next]_vars
  PROVE  Authed'
<1> USE DEF Authed, ServerAfterPin, GoTo, Return
<1>1. CASE CardMoves \/ Collect \/ WaitForInsertion \/ SetupRaises \/ NextRun
  BY <1>1 DEF CardMoves, Collect, WaitForInsertion, SetupRaises, NextRun, connVars
<1>2. CASE NothingToAsk \/ AskUser \/ AnswerFromMemo \/ AskRaises
  BY <1>2 DEF NothingToAsk, AskUser, AnswerFromMemo, AskRaises, Follow, connVars
<1>3. CASE OpenSession \/ OpenFails \/ BeginFails
  BY <1>3 DEF OpenSession, OpenFails, BeginFails, connVars
<1>4. CASE TransmitRaises \/ SelectRefused \/ PinBlocked \/ PinGivenUp \/ CertMissing \/ CardGone
  BY <1>4 DEF TransmitRaises, SelectRefused, PinBlocked, PinGivenUp, CertMissing, CardGone,
              GatingReturns, EndSession
<1>5. CASE SelectPiv \/ PinRight \/ PinWrong \/ ReadCert
  BY <1>5 DEF SelectPiv, PinRight, PinWrong, ReadCert, connVars
<1>6. CASE ChallengeAnswered \/ ChallengeRetried \/ ChallengeFails \/ RateLimited
  BY <1>6 DEF ChallengeAnswered, ChallengeRetried, ChallengeFails, RateLimited,
              ServerReached, NetworkFails
<1>7. CASE Sign \/ SignStale
  BY <1>7 DEF Sign, SignStale, EndSession, connVars
<1>8. CASE VerifyLost \/ VerdictPass \/ VerdictNonce \/ VerdictFail
  BY <1>8 DEF VerifyLost, VerdictPass, VerdictNonce, VerdictFail, Submitting, ServerReached,
              NetworkFails
<1>9. CASE Recheck \/ Reset \/ Confirm \/ UNCHANGED vars
  BY <1>9 DEF Recheck, Reset, Confirm, ResetSession, connVars, vars
<1> QED
  BY <1>1, <1>2, <1>3, <1>4, <1>5, <1>6, <1>7, <1>8, <1>9 DEF Next, GateStep

LEMMA EndedNext ==
  ASSUME Ended, [Next]_vars
  PROVE  Ended'
<1> USE DEF Ended, GoTo, Return
<1>1. CASE CardMoves \/ Collect \/ WaitForInsertion \/ SetupRaises \/ NextRun
  BY <1>1 DEF CardMoves, Collect, WaitForInsertion, SetupRaises, NextRun, connVars
<1>2. CASE NothingToAsk \/ AskUser \/ AnswerFromMemo \/ AskRaises
  BY <1>2 DEF NothingToAsk, AskUser, AnswerFromMemo, AskRaises, Follow, connVars
<1>3. CASE OpenSession \/ OpenFails \/ BeginFails
  BY <1>3 DEF OpenSession, OpenFails, BeginFails, connVars
<1>4. CASE TransmitRaises \/ SelectRefused \/ PinBlocked \/ PinGivenUp \/ CertMissing \/ CardGone
  BY <1>4 DEF TransmitRaises, SelectRefused, PinBlocked, PinGivenUp, CertMissing, CardGone,
              GatingReturns, EndSession
<1>5. CASE SelectPiv \/ PinRight \/ PinWrong \/ ReadCert
  BY <1>5 DEF SelectPiv, PinRight, PinWrong, ReadCert, connVars
<1>6. CASE ChallengeAnswered \/ ChallengeRetried \/ ChallengeFails \/ RateLimited
  BY <1>6 DEF ChallengeAnswered, ChallengeRetried, ChallengeFails, RateLimited,
              ServerReached, NetworkFails
<1>7. CASE Sign \/ SignStale
  BY <1>7 DEF Sign, SignStale, EndSession, connVars
<1>8. CASE VerifyLost \/ VerdictPass \/ VerdictNonce \/ VerdictFail
  BY <1>8 DEF VerifyLost, VerdictPass, VerdictNonce, VerdictFail, Submitting, ServerReached,
              NetworkFails
<1>9. CASE Recheck \/ Reset \/ Confirm \/ UNCHANGED vars
  BY <1>9 DEF Recheck, Reset, Confirm, ResetSession, connVars, vars
<1> QED
  BY <1>1, <1>2, <1>3, <1>4, <1>5, <1>6, <1>7, <1>8, <1>9 DEF Next, GateStep

LEMMA Invariant == Spec => []IInv
<1>1. Init => IInv
  <2>1. Init => Nonces /\ Authed /\ Ended
    BY DEF Init, RunVarsInit, Nonces, NonceCount, NonceFresh, Earlier, Authed, ServerAfterPin,
           Ended
  <2> QED
    BY <2>1, InitType DEF IInv
<1>2. IInv /\ [Next]_vars => IInv'
  BY NextType, NoncesNext, AuthedNext, EndedNext DEF IInv
<1> QED
  BY <1>1, <1>2, PTL DEF Spec

\* Every variable keeps its type; in particular no run receives more than four
\* nonces, however the nonce recovery and the re-run combine.
THEOREM TypeCorrect == Spec => []TypeOK
<1>1. IInv => TypeOK
  BY DEF IInv
<1> QED
  BY <1>1, Invariant, PTL

\* gate.py: the server is never contacted before the PIN is verified, and that
\* includes the session a stale signature makes the run open again.
THEOREM PinFirst == Spec => []ServerAfterPin
<1>1. IInv => ServerAfterPin
  BY DEF IInv, Authed
<1> QED
  BY <1>1, Invariant, PTL

\* GateHTTP.verify is never a blind resend: every nonce is posted at most once.
THEOREM NoncePostedOnce == Spec => []NonceNotReused
<1>1. IInv => NonceNotReused
  BY DEF IInv, Nonces, NonceFresh, NonceNotReused
<1> QED
  BY <1>1, Invariant, PTL

\* _gating: a session that was opened, its transaction included, is given back on
\* every path out of the run and before the second session is opened.  The connection
\* of a transaction that is refused is not: CardSession never ends it.
THEOREM SessionGivenBack == Spec => []SessionAlwaysEnded
<1>1. IInv => SessionAlwaysEnded
  BY DEF IInv, Ended, SessionAlwaysEnded
<1> QED
  BY <1>1, Invariant, PTL

\* The gate thread does not move the card.
LEMMA GateFrame == GateStep => UNCHANGED slotVars
  BY DEF GateStep, NothingToAsk, AskUser, AnswerFromMemo, AskRaises, OpenSession, OpenFails,
     BeginFails, TransmitRaises, SelectPiv, SelectRefused, PinRight, PinWrong, PinBlocked, PinGivenUp,
     ReadCert, CertMissing, ChallengeAnswered, ChallengeRetried, ChallengeFails, RateLimited,
     Sign, SignStale, VerifyLost, VerdictPass, VerdictNonce, VerdictFail, Recheck, Reset,
     CardGone, Confirm, NetworkFails

----------------------------------------------------------------------------
(* How many signatures a run posts.                                         *)

\* The nonce whose signature was stale is never submitted, neither by the first
\* session nor by the second.
OneSkipped ==
  rerun => \E m \in 1 .. nonce : m \notin submitted /\ (step \in {"sign", "submit"} => m # nonce)

Budget == OneSkipped /\ (~rerun => submitted \subseteq 1 .. 2)

LEMMA BudgetNext ==
  ASSUME IInv, Budget, [Next]_vars
  PROVE  Budget'
<1>0. nonce \in Nat
  BY DEF IInv, TypeOK, MaxNonces
<1>a. ASSUME UNCHANGED <<rerun, nonce, submitted>>,
             step' \in {"sign", "submit"} => step \in {"sign", "submit"}
      PROVE  Budget'
  BY <1>a DEF Budget, OneSkipped
<1>1. CASE NextRun
  BY <1>1 DEF NextRun, Budget, OneSkipped
<1>2. CASE ChallengeAnswered
  <2>1. /\ UNCHANGED <<rerun, submitted>> /\ nonce' = nonce + 1
    BY <1>2 DEF ChallengeAnswered, runVars
  <2> QED
    BY <1>0, <2>1 DEF Budget, OneSkipped
<1>3. CASE RateLimited \/ VerifyLost \/ VerdictFail \/ VerdictPass \/ VerdictNonce
  <2>1. /\ UNCHANGED <<rerun, nonce>> /\ step' \notin {"sign", "submit"}
        /\ step = "challenge" => submitted' = submitted
        /\ step # "challenge" => step = "submit" /\ submitted' = submitted \cup {nonce}
    BY <1>3 DEF RateLimited, VerifyLost, VerdictFail, VerdictPass, VerdictNonce, Submitting,
                NetworkFails, Return, GoTo, runVars
  <2>2. OneSkipped'
    BY <2>1 DEF Budget, OneSkipped
  <2>3. ~rerun' => submitted' \subseteq 1 .. 2
    BY <2>1 DEF Budget, IInv, Nonces, NonceCount, Earlier
  <2> QED
    BY <2>2, <2>3 DEF Budget
<1>4. CASE SignStale
  <2>1. /\ UNCHANGED <<nonce, submitted>> /\ rerun' /\ step = "sign"
        /\ step' \in {"open", "done"}
    BY <1>4 DEF SignStale, GoTo, Return, netVars
  <2>2. nonce \in 1 .. nonce /\ nonce \notin submitted
    BY <1>0, <2>1 DEF IInv, Nonces, NonceCount, NonceFresh
  <2> QED
    BY <2>1, <2>2 DEF Budget, OneSkipped
<1>5. CASE CardMoves \/ Collect \/ WaitForInsertion \/ SetupRaises \/ NothingToAsk
           \/ AskUser \/ AnswerFromMemo \/ AskRaises \/ OpenSession \/ OpenFails
           \/ BeginFails \/ TransmitRaises \/ SelectPiv \/ SelectRefused \/ PinRight
           \/ PinWrong \/ PinBlocked \/ PinGivenUp
  BY <1>a, <1>5 DEF CardMoves, Collect, WaitForInsertion, SetupRaises, NothingToAsk, AskUser,
     AnswerFromMemo, AskRaises, Follow, OpenSession, OpenFails, BeginFails, TransmitRaises, SelectPiv,
     SelectRefused, PinRight, PinWrong, PinBlocked, PinGivenUp, GatingReturns, GoTo, Return,
     runVars, netVars
<1>6. CASE ReadCert \/ CertMissing \/ ChallengeRetried \/ ChallengeFails \/ Sign
           \/ Recheck \/ Reset \/ CardGone \/ Confirm \/ UNCHANGED vars
  BY <1>a, <1>6 DEF ReadCert, CertMissing, ChallengeRetried, ChallengeFails, Sign, Recheck,
     Reset, CardGone, Confirm, GatingReturns, NetworkFails, GoTo, Return, runVars, netVars, vars
<1> QED
  BY <1>1, <1>2, <1>3, <1>4, <1>5, <1>6 DEF Next, GateStep

\* Three of the four nonces.
LEMMA ThreeOfFour ==
  ASSUME NEW S, NEW m \in 1 .. 4, S \subseteq (1 .. 4) \ {m}
  PROVE  Cardinality(S) <= 3
<1>1. IsFiniteSet(1 .. 4) /\ Cardinality(1 .. 4) = 4
  <2>1. /\ IsFiniteSet(1 .. 4)
        /\ Cardinality(1 .. 4) = IF 1 > 4 THEN 0 ELSE 4 - 1 + 1
    <3>1. 1 \in Int /\ 4 \in Int
      OBVIOUS
    <3> QED
      BY ONLY <3>1, FS_Interval
  <2> QED
    BY ONLY <2>1
<1>2. IsFiniteSet((1 .. 4) \ {m}) /\ Cardinality((1 .. 4) \ {m}) = 3
  <2>1. /\ IsFiniteSet((1 .. 4) \ {m})
        /\ Cardinality((1 .. 4) \ {m}) =
             IF m \in 1 .. 4 THEN Cardinality(1 .. 4) - 1 ELSE Cardinality(1 .. 4)
    BY <1>1, FS_RemoveElement, Zenon
  <2> QED
    BY <1>1, <2>1
<1>3. S \in SUBSET ((1 .. 4) \ {m})
  OBVIOUS
<1>4. Cardinality(S) <= Cardinality((1 .. 4) \ {m})
  BY <1>2, <1>3, FS_Subset, Zenon
<1> QED
  BY <1>2, <1>4, Zenon

\* The nonce recovery and the re-run do not multiply: three signatures at most
\* reach the server in a run.
THEOREM VerifyBounded == Spec => []VerifyBudget
<1>1. Init => Budget
  BY DEF Init, RunVarsInit, Budget, OneSkipped
<1>2. IInv /\ Budget /\ [Next]_vars => Budget'
  BY BudgetNext
<1>3. IInv /\ Budget => VerifyBudget
  <2> SUFFICES ASSUME IInv, Budget PROVE Cardinality(submitted) <= 3
    BY DEF VerifyBudget
  <2>1. submitted \subseteq 1 .. nonce /\ nonce \in 0 .. 4
    BY DEF IInv, TypeOK, MaxNonces, Nonces, NonceFresh
  <2>2. CASE rerun
    <3>1. PICK m \in 1 .. nonce : m \notin submitted
      BY <2>2 DEF Budget, OneSkipped
    <3>2. m \in 1 .. 4 /\ submitted \subseteq (1 .. 4) \ {m}
      BY <2>1, <3>1
    <3> QED
      BY <3>2, ThreeOfFour, Zenon
  <2>3. CASE ~rerun
    <3>1. submitted \subseteq (1 .. 4) \ {4} /\ 4 \in 1 .. 4
      BY <2>3 DEF Budget
    <3> QED
      BY <3>1, ThreeOfFour, Zenon
  <2> QED
    BY <2>2, <2>3
<1> QED
  BY <1>1, <1>2, <1>3, Invariant, PTL DEF Spec

----------------------------------------------------------------------------
(* How long a run lasts.                                                    *)

\* Attempts of a challenge call.
Attempts == IF Retries > 1 THEN Retries ELSE 1

\* Calls still to come for a challenge, a signature and its submission, when the
\* nonce recovery is still unused.
Recovery == IF refetched THEN 0 ELSE Attempts + 2

\* Calls of a whole card session, its PIN tries included.
SessionCalls == 11 + 2 * Attempts + MaxTries

\* At most so many calls are left of the card session at hand.  A card that was
\* pulled out takes no PIN any more.
SessionCallsLeft ==
  CASE step = "confirm"   -> 1
    [] step = "reset"     -> 2
    [] step = "recheck"   -> 3
    [] step = "submit"    -> 4 + Recovery
    [] step = "sign"      -> 5 + Recovery
    [] step = "challenge" -> 5 + Recovery + (Attempts - attempt)
    [] step = "cert"      -> 8 + 2 * Attempts
    [] step = "pin"       -> 9 + 2 * Attempts + (IF Connected THEN tries ELSE 0)
    [] step = "select"    -> 10 + 2 * Attempts + MaxTries
    [] step = "open"      -> SessionCalls
    [] step = "arbiter"   -> SessionCalls + 1

CallsLeft ==
  IF step \in {"wait", "done"} THEN 0
  ELSE SessionCallsLeft + (IF rerun THEN 0 ELSE SessionCalls)

\* A card session is with a card that was inserted, and a challenge call has an
\* attempt left.
Bounds == conn <= ins /\ (step = "challenge" => attempt < Attempts)

BoundedInv == IInv /\ Bounds

LEMMA BoundsNext ==
  ASSUME IInv, Bounds, [Next]_vars
  PROVE  Bounds'
<1>1. /\ conn \in Nat /\ ins \in Nat /\ attempt \in Nat
      /\ Attempts \in Nat \ {0} /\ Attempts' = Attempts /\ (Attempts > 1 => Attempts = Retries)
      /\ Retries <= Attempts /\ Retries \in Int
  BY SlotAssumption, CeremonyAssumption
     DEF IInv, TypeOK, SlotTypeOK, Insertions, Attempts
<1>2. CASE CardMoves
  <2>1. ins' \in Nat /\ ins <= ins' /\ UNCHANGED <<conn, step, attempt>>
    BY <1>1, <1>2 DEF CardMoves, SlotNext, Insert, Remove, Lift, Unplug, Replug,
                      connVars, netVars
  <2>. QED BY <1>1, <2>1 DEF Bounds
<1>3. CASE OpenSession
  BY <1>1, <1>3 DEF OpenSession, GoTo, slotVars, Bounds
<1>4. CASE ReadCert \/ VerdictNonce
  BY <1>1, <1>4 DEF ReadCert, VerdictNonce, ServerReached, connVars, slotVars, Bounds
<1>5. CASE ChallengeRetried
  BY <1>1, <1>5 DEF ChallengeRetried, ServerReached, slotVars, Bounds
<1>6. ASSUME ins' = ins, conn' \in {conn, 0}, step' # "challenge" PROVE Bounds'
  BY <1>1, <1>6 DEF Bounds
<1>7. CASE WaitForInsertion \/ SetupRaises \/ NextRun
  BY <1>6, <1>7 DEF WaitForInsertion, SetupRaises, NextRun, GoTo, Return, connVars, slotVars
<1>8. CASE NothingToAsk \/ AskUser \/ AnswerFromMemo \/ AskRaises \/ OpenFails \/ BeginFails
  BY <1>6, <1>8 DEF NothingToAsk, AskUser, AnswerFromMemo, AskRaises, OpenFails, BeginFails,
                    Follow, GoTo, Return, connVars, slotVars
<1>9. CASE TransmitRaises \/ SelectRefused \/ PinBlocked \/ PinGivenUp \/ CertMissing \/ CardGone
  BY <1>6, <1>9 DEF TransmitRaises, SelectRefused, PinBlocked, PinGivenUp, CertMissing, CardGone,
                    GatingReturns, Return, EndSession, slotVars
<1>10. CASE SelectPiv \/ PinRight \/ PinWrong \/ ChallengeAnswered \/ Sign \/ VerdictPass \/ Confirm
  BY <1>6, <1>10 DEF SelectPiv, PinRight, PinWrong, ChallengeAnswered, Sign, VerdictPass, Confirm,
                     ServerReached, GoTo, Return, connVars, slotVars
<1>11. CASE ChallengeFails \/ RateLimited \/ VerifyLost \/ VerdictFail
  BY <1>6, <1>11 DEF ChallengeFails, RateLimited, VerifyLost, VerdictFail, NetworkFails, Return,
                     slotVars
<1>12. CASE SignStale \/ Recheck \/ Reset
  BY <1>6, <1>12 DEF SignStale, Recheck, Reset, EndSession, ResetSession, connVars, GoTo, Return, slotVars
<1>13. CASE Collect \/ UNCHANGED vars
  BY <1>13, <1>1 DEF Collect, vars, connVars, netVars, slotVars, Bounds
<1>. QED BY <1>2, <1>3, <1>4, <1>5, <1>7, <1>8, <1>9, <1>10, <1>11, <1>12, <1>13
         DEF Next, GateStep

LEMMA BoundedInvariant == Spec => []BoundedInv
<1>1. Init => Bounds
  BY SlotAssumption DEF Init, SlotInit, RunVarsInit, Bounds
<1>2. IInv /\ Bounds /\ [Next]_vars => Bounds'
  BY BoundsNext
<1>. QED BY <1>1, <1>2, Invariant, PTL DEF Spec, BoundedInv

Numbers ==
  /\ MaxTries \in Nat /\ Attempts \in Nat \ {0} /\ SessionCalls = 11 + 2 * Attempts + MaxTries
  /\ tries \in 0 .. MaxTries
  /\ attempt \in Nat /\ (step = "challenge" => attempt < Attempts)
  /\ Recovery \in {0, Attempts + 2}

Lengths ==
  /\ step = "confirm"   => SessionCallsLeft = 1
  /\ step = "reset"     => SessionCallsLeft = 2
  /\ step = "recheck"   => SessionCallsLeft = 3
  /\ step = "submit"    => SessionCallsLeft = 4 + Recovery
  /\ step = "sign"      => SessionCallsLeft = 5 + Recovery
  /\ step = "challenge" => SessionCallsLeft = 5 + Recovery + (Attempts - attempt)
  /\ step = "cert"      => SessionCallsLeft = 8 + 2 * Attempts
  /\ step = "pin" /\ Connected  => SessionCallsLeft = 9 + 2 * Attempts + tries
  /\ step = "pin" /\ ~Connected => SessionCallsLeft = 9 + 2 * Attempts + 0
  /\ step = "select"    => SessionCallsLeft = 10 + 2 * Attempts + MaxTries
  /\ step = "open"      => SessionCallsLeft = SessionCalls
  /\ step = "arbiter"   => SessionCallsLeft = SessionCalls + 1

LEMMA AttemptsNumber == Attempts \in Nat \ {0}
BY CeremonyAssumption DEF Attempts

LEMMA CallNumbers == BoundedInv => Numbers /\ Lengths
<1>1. BoundedInv => Numbers
  BY CeremonyAssumption, AttemptsNumber
     DEF BoundedInv, IInv, TypeOK, Bounds, Recovery, SessionCalls, Numbers
<1>2. Lengths
  BY Zenon DEF SessionCallsLeft, Lengths
<1>. QED BY <1>1, <1>2

LEMMA CallNumbersNext == BoundedInv' => Numbers' /\ Lengths'
BY CallNumbers, PTL

\* While a run lasts there is a call left, and never more than two sessions' worth.
CallsBounded ==
  step \notin {"wait", "done"} => CallsLeft \in 1 .. 2 * SessionCalls + 1

LengthBounded ==
  step \notin {"wait", "done"} => SessionCallsLeft \in 1 .. SessionCalls + 1

LEMMA CallsLeftRange == BoundedInv => LengthBounded /\ CallsBounded
<1>1. BoundedInv => step \in Steps /\ SessionCalls \in Nat
  BY CallNumbers DEF BoundedInv, IInv, TypeOK, Numbers
<1>2. BoundedInv => LengthBounded
  BY <1>1, CallNumbers DEF Numbers, Lengths, Steps, LengthBounded
<1>. QED BY <1>1, <1>2 DEF CallsLeft, LengthBounded, CallsBounded

LEMMA RangesNext == BoundedInv' => LengthBounded' /\ CallsBounded'
BY CallsLeftRange, PTL

\* A run that returns has none.
LEMMA ReturnShortens ==
  ASSUME BoundedInv, step \notin {"wait", "done"}, step' = "done"
  PROVE  CallsLeft' < CallsLeft
<1>1. CallsLeft' = 0
  BY DEF CallsLeft
<1>2. CallsLeft \in 1 .. 2 * SessionCalls + 1 /\ SessionCalls \in Nat
  BY CallsLeftRange, CallNumbers DEF Numbers, CallsBounded
<1>. QED BY <1>1, <1>2

\* Within a card session only the session's own calls count.
LEMMA SessionShortens ==
  ASSUME BoundedInv, BoundedInv', rerun' = rerun,
         step \notin {"wait", "done"}, step' \notin {"wait", "done"}
  PROVE  /\ SessionCallsLeft' < SessionCallsLeft => CallsLeft' < CallsLeft
         /\ SessionCallsLeft' <= SessionCallsLeft => CallsLeft' <= CallsLeft
<1>1. SessionCallsLeft \in Nat /\ SessionCalls \in Nat
  BY CallsLeftRange, CallNumbers DEF Numbers, LengthBounded
<1>2. SessionCallsLeft' \in Nat
  BY <1>1, RangesNext DEF LengthBounded
<1>3. \A old, new, rest, oldAll, newAll \in Nat :
        oldAll = old + rest /\ newAll = new + rest =>
          /\ new < old => newAll < oldAll
          /\ new <= old => newAll <= oldAll
  OBVIOUS
<1>4. PICK rest \in Nat : CallsLeft = SessionCallsLeft + rest /\ CallsLeft' = SessionCallsLeft' + rest
  <2>1. CASE rerun
    BY <1>1, <2>1 DEF CallsLeft, SessionCalls
  <2>2. CASE ~rerun
    BY <1>1, <2>2 DEF CallsLeft, SessionCalls
  <2>. QED BY <2>1, <2>2
<1>5. CallsLeft \in Nat /\ CallsLeft' \in Nat
  BY <1>1, CallsLeftRange, RangesNext DEF CallsBounded
<1>. QED BY <1>1, <1>2, <1>3, <1>4, <1>5

\* The card takes PIN tries away from a session, and gives it none.
LEMMA CardMovesShorten ==
  ASSUME BoundedInv, BoundedInv', CardMoves
  PROVE  CallsLeft' <= CallsLeft
<1>1. UNCHANGED <<step, rerun, refetched, attempt, conn>>
  BY DEF CardMoves, runVars, netVars, connVars
<1>2. Connected' => Connected /\ tries' = tries
  <2>1. ins' = ins => tries' = tries
    BY DEF CardMoves
  <2>2. seated' => (ins' = ins /\ seated) \/ ins' = ins + 1
    BY DEF CardMoves, SlotNext, Insert, Remove, Lift, Unplug, Replug
  <2>3. conn <= ins /\ conn \in Nat /\ ins \in Nat
    BY SlotAssumption DEF BoundedInv, Bounds, IInv, TypeOK, SlotTypeOK, Insertions
  <2>. QED BY <1>1, <2>1, <2>2, <2>3 DEF Connected
<1>3. CASE step \notin {"wait", "done"}
  <2>1. Recovery' = Recovery
    BY <1>1 DEF Recovery
  <2>2. SessionCallsLeft' <= SessionCallsLeft
    BY <1>1, <1>2, <1>3, <2>1, CallNumbers, CallNumbersNext
       DEF Numbers, Lengths, BoundedInv, IInv, TypeOK, Steps
  <2>. QED BY <1>1, <1>3, <2>2, SessionShortens
<1>4. CASE step \in {"wait", "done"}
  BY <1>1, <1>4 DEF CallsLeft
<1>. QED BY <1>3, <1>4

\* Nor does the collection of a leftover connection.
LEMMA CollectKeeps ==
  ASSUME BoundedInv, BoundedInv', Collect
  PROVE  CallsLeft' <= CallsLeft
<1>1. UNCHANGED <<step, rerun, refetched, attempt, tries, conn, seated, ins>>
  BY DEF Collect, slotVars, runVars, netVars, connVars
<1>2. CASE step \notin {"wait", "done"}
  <2>1. Recovery' = Recovery /\ Connected' = Connected
    BY <1>1 DEF Recovery, Connected
  <2>2. SessionCallsLeft' <= SessionCallsLeft
    BY <1>1, <1>2, <2>1, CallNumbers, CallNumbersNext
       DEF Numbers, Lengths, BoundedInv, IInv, TypeOK, Steps
  <2>. QED BY <1>1, <1>2, <2>2, SessionShortens
<1>3. CASE step \in {"wait", "done"}
  BY <1>1, <1>3 DEF CallsLeft
<1>. QED BY <1>2, <1>3

LEMMA GateStepShortens ==
  ASSUME BoundedInv, BoundedInv', GateStep
  PROVE  CallsLeft' < CallsLeft
<1>1. step \notin {"wait", "done"} /\ UNCHANGED slotVars
  BY GateFrame
     DEF GateStep, NothingToAsk, AskUser, AnswerFromMemo, AskRaises, OpenSession, OpenFails,
         BeginFails, TransmitRaises, SelectPiv, SelectRefused, PinRight, PinWrong, PinBlocked, PinGivenUp,
         ReadCert, CertMissing, ChallengeAnswered, ChallengeRetried, ChallengeFails, RateLimited,
         Sign, SignStale, VerifyLost, VerdictPass, VerdictNonce, VerdictFail, Recheck,
         Reset, CardGone, Confirm, Submitting
<1>2. ASSUME step' = "done" PROVE CallsLeft' < CallsLeft
  BY <1>1, <1>2, ReturnShortens
<1>3. ASSUME step' \notin {"wait", "done"}, rerun' = rerun,
             SessionCallsLeft' < SessionCallsLeft
      PROVE  CallsLeft' < CallsLeft
  BY <1>1, <1>3, SessionShortens
<1>4. CASE AskRaises \/ OpenFails \/ BeginFails \/ TransmitRaises \/ SelectRefused
           \/ PinBlocked \/ PinGivenUp \/ CertMissing \/ ChallengeFails \/ RateLimited \/ VerifyLost \/ VerdictFail
           \/ CardGone \/ Confirm
  BY <1>2, <1>4 DEF AskRaises, OpenFails, BeginFails, TransmitRaises, SelectRefused, PinBlocked, PinGivenUp,
                    CertMissing, ChallengeFails, RateLimited, VerifyLost, VerdictFail, CardGone,
                    Confirm, GatingReturns, NetworkFails, Return
<1>5. CASE NothingToAsk \/ AskUser \/ AnswerFromMemo
  <2>1. step = "arbiter" /\ step' \in {"open", "done"} /\ rerun' = rerun
    BY <1>5 DEF NothingToAsk, AskUser, AnswerFromMemo, Follow, Return, GoTo, runVars
  <2>2. step' = "open" => SessionCallsLeft' < SessionCallsLeft
    BY <2>1, CallNumbers, CallNumbersNext DEF Numbers, Lengths
  <2>. QED BY <1>2, <1>3, <2>1, <2>2
<1>6. CASE OpenSession \/ SelectPiv
  <2>1. \/ step = "open" /\ step' = "select"
        \/ step = "select" /\ step' = "pin"
    BY <1>6 DEF OpenSession, SelectPiv, GoTo
  <2>2. rerun' = rerun
    BY <1>6 DEF OpenSession, SelectPiv, runVars
  <2>3. SessionCallsLeft' < SessionCallsLeft
    BY <2>1, CallNumbers, CallNumbersNext DEF Numbers, Lengths
  <2>. QED BY <1>3, <2>1, <2>2, <2>3
<1>7. CASE PinRight \/ ReadCert
  <2>1. \/ step = "pin" /\ step' = "cert"
        \/ step = "cert" /\ step' = "challenge" /\ attempt' = 0
    BY <1>7 DEF PinRight, ReadCert, GoTo
  <2>2. rerun' = rerun
    BY <1>7 DEF PinRight, ReadCert, runVars
  <2>3. SessionCallsLeft' < SessionCallsLeft
    BY <2>1, CallNumbers, CallNumbersNext DEF Numbers, Lengths
  <2>. QED BY <1>3, <2>1, <2>2, <2>3
<1>8. CASE PinWrong
  <2>1. /\ step = "pin" /\ step' = "pin" /\ rerun' = rerun
        /\ tries > 0 /\ tries' = tries - 1 /\ Connected /\ Connected'
    BY <1>1, <1>8 DEF PinWrong, runVars, connVars, slotVars, Connected
  <2>2. SessionCallsLeft' < SessionCallsLeft
    BY <2>1, CallNumbers, CallNumbersNext DEF Numbers, Lengths
  <2>. QED BY <1>3, <2>1, <2>2
<1>9. CASE ChallengeAnswered \/ ChallengeRetried
  <2>1. /\ step = "challenge" /\ UNCHANGED <<rerun, refetched>>
        /\ \/ step' = "sign"
           \/ step' = "challenge" /\ attempt' = attempt + 1
    BY <1>9 DEF ChallengeAnswered, ChallengeRetried, GoTo, runVars
  <2>2. Recovery' = Recovery
    BY <2>1 DEF Recovery
  <2>3. SessionCallsLeft' < SessionCallsLeft
    BY <2>1, <2>2, CallNumbers, CallNumbersNext DEF Numbers, Lengths
  <2>. QED BY <1>3, <2>1, <2>3
<1>10. CASE Sign \/ VerdictPass \/ Recheck \/ Reset
  <2>1. /\ UNCHANGED <<rerun, refetched>>
        /\ \/ step = "sign" /\ step' = "submit"
           \/ step = "submit" /\ step' = "recheck"
           \/ step = "recheck" /\ step' = "reset"
           \/ step = "reset" /\ step' = "confirm"
    BY <1>10 DEF Sign, VerdictPass, Recheck, Reset, Submitting, GoTo, runVars, netVars
  <2>2. Recovery' = Recovery
    BY <2>1 DEF Recovery
  <2>3. SessionCallsLeft' < SessionCallsLeft
    BY <2>1, <2>2, CallNumbers, CallNumbersNext DEF Numbers, Lengths
  <2>. QED BY <1>3, <2>1, <2>3
<1>11. CASE VerdictNonce
  <2>1. /\ step = "submit" /\ ~refetched /\ rerun' = rerun
        /\ step' = "challenge" /\ refetched' /\ attempt' = 0
    BY <1>11 DEF VerdictNonce, Submitting, GoTo, runVars
  <2>2. Recovery = Attempts + 2 /\ Recovery' = 0
    BY <2>1 DEF Recovery
  <2>3. SessionCallsLeft' < SessionCallsLeft
    BY <2>1, <2>2, CallNumbers, CallNumbersNext DEF Numbers, Lengths
  <2>. QED BY <1>3, <2>1, <2>3
<1>12. CASE SignStale
  <2>1. step = "sign" /\ rerun' /\ (rerun => step' = "done") /\ (~rerun => step' = "open")
    BY <1>12 DEF SignStale, GoTo, Return
  <2>2. CASE ~rerun
    <3>1. SessionCallsLeft = 5 + Recovery /\ SessionCallsLeft' = SessionCalls
      BY <2>1, <2>2, CallNumbers, CallNumbersNext DEF Lengths
    <3>2. CallsLeft = 5 + Recovery + SessionCalls /\ CallsLeft' = SessionCalls + 0
      BY <2>1, <2>2, <3>1 DEF CallsLeft
    <3>. QED BY <3>2, CallNumbers DEF Numbers
  <2>. QED BY <1>2, <2>1, <2>2
<1>. QED BY <1>4, <1>5, <1>6, <1>7, <1>8, <1>9, <1>10, <1>11, <1>12 DEF GateStep

\* Why a run ends once it has seen a card (RunEnds): at most 2 * SessionCalls + 1
\* calls are left then, every call leaves fewer, and nothing that happens to the card
\* meanwhile adds one.
CallsRunOut ==
  [][/\ GateStep => CallsLeft' < CallsLeft
     /\ step \notin {"wait", "done"} => CallsLeft' <= CallsLeft]_vars

\* A run makes no more calls than its retries, PIN tries and recoveries allow,
\* whatever the server answers and however the card is moved.
THEOREM RunIsBounded == Spec => []CallsBounded /\ CallsRunOut
<1>1. BoundedInv => CallsBounded
  BY CallsLeftRange
<1>2. BoundedInv /\ BoundedInv' /\ [Next]_vars =>
        [/\ GateStep => CallsLeft' < CallsLeft
         /\ step \notin {"wait", "done"} => CallsLeft' <= CallsLeft]_vars
  <2>. SUFFICES ASSUME BoundedInv, BoundedInv', Next
                PROVE  /\ GateStep => CallsLeft' < CallsLeft
                       /\ step \notin {"wait", "done"} => CallsLeft' <= CallsLeft
    OBVIOUS
  <2>1. GateStep => CallsLeft' < CallsLeft
    BY GateStepShortens
  <2>2. CASE GateStep
    <3>1. ASSUME step \notin {"wait", "done"} PROVE CallsLeft' <= CallsLeft
      <4>1. CallsLeft \in Nat /\ CallsLeft' \in Int
        <5>1. CallsLeft \in Nat /\ SessionCalls \in Nat
          BY <3>1, CallsLeftRange, CallNumbers DEF Numbers, CallsBounded
        <5>2. CASE step' \in {"wait", "done"}
          BY <5>1, <5>2 DEF CallsLeft
        <5>3. CASE step' \notin {"wait", "done"}
          <6>1. CallsLeft' \in 1 .. 2 * SessionCalls + 1
            BY <5>3, RangesNext DEF CallsBounded
          <6>. QED BY <5>1, <6>1
        <5>. QED BY <5>1, <5>2, <5>3
      <4>. QED BY <2>1, <2>2, <4>1
    <3>. QED BY <2>1, <3>1
  <2>3. CASE CardMoves
    BY <2>1, <2>3, CardMovesShorten
  <2>4. CASE WaitForInsertion \/ SetupRaises \/ NextRun
    BY <2>1, <2>4 DEF WaitForInsertion, SetupRaises, NextRun
  <2>5. CASE Collect
    BY <2>1, <2>5, CollectKeeps
  <2>. QED BY <2>2, <2>3, <2>4, <2>5 DEF Next
<1>. QED BY <1>1, <1>2, BoundedInvariant, PTL DEF Spec, CallsRunOut

=============================================================================
