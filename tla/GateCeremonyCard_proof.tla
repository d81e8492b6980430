----------------------- MODULE GateCeremonyCard_proof -----------------------
(***************************************************************************)
(* What a pass and the picker's answer are worth: the theorems about       *)
(* GateCeremony that hold as long as a generation names an insertion       *)
(* (GensUnique).                                                           *)
(***************************************************************************)
EXTENDS GateCeremony_proof

----------------------------------------------------------------------------
(* The invariant. *)

\* The counter has not wrapped.
Counter ==
  /\ attached
  /\ gen <= FirstGen + ins
  /\ seated => ins > 0

\* g is the generation of insertion i: as far from the current one as the two
\* insertions are.
Names(g, i) == i # 0 /\ i <= ins /\ gen + i = g + ins

\* What the run remembers of its insertion; its sessions are not older.
Seen ==
  /\ step = "wait" => seenIns = 0
  /\ step \notin {"wait", "done"} => seenIns # 0
  /\ seenIns # 0 => Names(seenGen, seenIns)
  /\ conn # 0 => seenIns <= conn /\ conn <= ins

MemoNames ==
  IF memo.choice = "none" THEN memo.ins = 0 ELSE Names(memo.gen, memo.ins)

Tracking == Counter /\ Seen /\ MemoNames

\* Where the signature and the verdict at hand come from.
Verdict ==
  /\ step = "submit" => conn # 0 /\ sig.ins = conn
  /\ step = "recheck" =>
       conn # 0 /\ approved = [ins |-> conn, over |-> nonce] /\ nonce \in submitted
  /\ step = "reset" => conn # 0 /\ conn = seenIns
  /\ step \in {"reset", "confirm"} =>
       approved = [ins |-> seenIns, over |-> nonce] /\ nonce \in submitted
  /\ PassIsBacked

\* A verified PIN goes with the card, and the reset leaves none in this run's card
\* unless it fails.
PinCleared ==
  /\ verified => seated
  /\ step = "confirm" /\ ins = seenIns => ~verified \/ unreset

\* The picker's answer in use is the last one, for the card of this run.
Chosen ==
  /\ step \in {"wait", "arbiter"} => ~want
  /\ ChoiceIsForThisCard

CInv == Tracking /\ Verdict /\ PinCleared /\ Chosen

----------------------------------------------------------------------------
(* The counter and what is remembered of it. *)

LEMMA Naturalness ==
  ASSUME TypeOK
  PROVE  /\ gen \in Nat /\ ins \in Nat /\ seenGen \in Nat /\ seenIns \in Nat /\ conn \in Nat
         /\ memo.gen \in Nat /\ memo.ins \in Nat
  BY SlotAssumption DEF TypeOK, SlotTypeOK, Generations, Insertions

\* An insertion moves the counter and the insertions by one, and nothing else
\* moves them.
LEMMA CounterMoves ==
  ASSUME GensUnique, TypeOK, Counter, SlotNext
  PROVE  /\ Counter'
         /\ \/ gen' = gen /\ ins' = ins
            \/ gen' = gen + 1 /\ ins' = ins + 1
<1>0. gen \in Nat /\ ins \in Nat /\ ins <= MaxIns /\ MaxIns \in Nat /\ FirstGen \in Nat /\ GenMod \in Nat
  BY SlotAssumption DEF TypeOK, SlotTypeOK, Generations, Insertions
<1>1. CASE Insert
  <2>1. gen + 1 # GenMod
    BY <1>0, <1>1 DEF Insert, Counter, GensUnique
  <2> QED
    BY <1>0, <1>1, <2>1 DEF Insert, Bump, Counter
<1>2. CASE Remove \/ Lift
  BY <1>2 DEF Remove, Lift, Counter
<1>3. CASE Unplug \/ Replug
  BY <1>3 DEF Unplug, Replug, Counter, GensUnique
<1> QED
  BY <1>1, <1>2, <1>3 DEF SlotNext

LEMMA TrackingInit ==
  ASSUME GensUnique, Init
  PROVE  Tracking
<1>1. FirstGen \in Nat
  BY SlotAssumption
<1>2. Counter
  BY <1>1 DEF Init, SlotInit, Counter
<1>3. Seen /\ MemoNames
  BY DEF Init, RunVarsInit, NoMemo, Seen, MemoNames
<1> QED
  BY <1>2, <1>3 DEF Tracking

\* A step inside the run that keeps or ends the session.
LEMMA TrackingKept ==
  ASSUME Tracking, UNCHANGED <<gen, ins, attached, seated, seenGen, seenIns, memo>>,
         conn' \in {conn, 0}, step' # "wait",
         step' = "done" \/ step \notin {"wait", "done"} \/ UNCHANGED step
  PROVE  Tracking'
  BY DEF Tracking, Counter, Seen, MemoNames, Names

LEMMA TrackingNext ==
  ASSUME GensUnique, IInv, Tracking, [Next]_vars
  PROVE  Tracking'
<1>n. TypeOK
  BY DEF IInv
<1> USE Naturalness, <1>n
<1>0. ASSUME UNCHANGED slotVars PROVE UNCHANGED <<gen, ins, attached, seated>>
  BY <1>0 DEF slotVars
<1>1. CASE CardMoves
  <2>1. UNCHANGED <<seenGen, seenIns, conn, memo, step>>
    BY <1>1 DEF CardMoves, runVars, connVars
  <2>2. /\ Counter'
        /\ \/ gen' = gen /\ ins' = ins
           \/ gen' = gen + 1 /\ ins' = ins + 1
    BY <1>1, CounterMoves DEF CardMoves, Tracking
  <2>3. ASSUME NEW g \in Nat, NEW i \in Nat, Names(g, i)
        PROVE  i # 0 /\ i <= ins' /\ gen' + i = g + ins'
    BY <2>2, <2>3 DEF Names
  <2>4. Seen'
    BY <2>1, <2>2, <2>3 DEF Tracking, Seen, Names
  <2>5. MemoNames'
    BY <2>1, <2>3 DEF Tracking, MemoNames, Names
  <2> QED
    BY <2>2, <2>4, <2>5 DEF Tracking
<1>2. CASE WaitForInsertion
  <2>1. /\ seated /\ seenGen' = gen /\ seenIns' = ins /\ step' = "arbiter"
        /\ UNCHANGED <<gen, ins, attached, seated, conn, memo>> /\ step = "wait"
    BY <1>0, <1>2 DEF WaitForInsertion, GoTo, connVars
  <2>2. conn = 0
    BY <2>1 DEF IInv, Ended
  <2> QED
    BY <2>1, <2>2 DEF Tracking, Counter, Seen, MemoNames, Names
<1>3. CASE NextRun
  BY <1>0, <1>3 DEF NextRun, Tracking, Counter, Seen, MemoNames, Names
<1>4. CASE AskUser \/ AskRaises
  <2>1. /\ step = "arbiter" /\ step' \in {"open", "done"}
        /\ UNCHANGED <<slotVars, seenGen, seenIns, conn>>
        /\ \/ UNCHANGED memo
           \/ \E choice \in Choices : memo' = [gen |-> seenGen, ins |-> seenIns, choice |-> choice]
    BY <1>4 DEF AskUser, AskRaises, Follow, GoTo, Return, runVars, connVars, Choices
  <2>2. MemoNames'
    BY <1>0, <2>1 DEF Tracking, Seen, MemoNames, Names, Choices
  <2> QED
    BY <1>0, <2>1, <2>2 DEF Tracking, Counter, Seen, Names
<1>5. CASE OpenSession
  BY <1>0, <1>5 DEF OpenSession, GoTo, runVars, Tracking, Counter, Seen, MemoNames, Names
<1>6. CASE SetupRaises \/ NothingToAsk \/ AnswerFromMemo \/ OpenFails \/ BeginFails
  <2>1. /\ UNCHANGED <<slotVars, seenGen, seenIns, memo, conn>> /\ step' # "wait"
        /\ step' = "done" \/ step \notin {"wait", "done"}
    BY <1>6 DEF SetupRaises, NothingToAsk, AnswerFromMemo, OpenFails, BeginFails, Follow, GoTo,
                Return, runVars, connVars
  <2> QED
    BY <1>0, <2>1, TrackingKept
<1>7. CASE TransmitRaises \/ SelectRefused \/ PinBlocked \/ PinGivenUp \/ CertMissing \/ CardGone
  <2>1. /\ UNCHANGED <<slotVars, seenGen, seenIns, memo>> /\ conn' = 0 /\ step' = "done"
    BY <1>7 DEF TransmitRaises, SelectRefused, PinBlocked, PinGivenUp, CertMissing, CardGone,
                GatingReturns, Return, EndSession, runVars
  <2> QED
    BY <1>0, <2>1, TrackingKept
<1>8. CASE SelectPiv \/ PinRight \/ PinWrong \/ ReadCert \/ ChallengeAnswered
           \/ ChallengeRetried \/ Sign \/ VerdictPass \/ VerdictNonce
  <2>1. /\ UNCHANGED <<slotVars, seenGen, seenIns, memo, conn>>
        /\ step' # "wait" /\ step \notin {"wait", "done"}
    BY <1>8 DEF SelectPiv, PinRight, PinWrong, ReadCert, ChallengeAnswered, ChallengeRetried,
                Sign, VerdictPass, VerdictNonce, Submitting, ServerReached, GoTo, runVars, connVars
  <2> QED
    BY <1>0, <2>1, TrackingKept
<1>9. CASE ChallengeFails \/ RateLimited \/ VerifyLost \/ VerdictFail
  <2>1. /\ UNCHANGED <<slotVars, seenGen, seenIns, memo>> /\ conn' = 0 /\ step' = "done"
    BY <1>9 DEF ChallengeFails, RateLimited, VerifyLost, VerdictFail, NetworkFails, Return, runVars
  <2> QED
    BY <1>0, <2>1, TrackingKept
<1>10. CASE SignStale \/ Recheck \/ Reset \/ Confirm
  <2>1. /\ UNCHANGED <<slotVars, seenGen, seenIns, memo>> /\ conn' \in {conn, 0}
        /\ step' # "wait" /\ step \notin {"wait", "done"}
    BY <1>10 DEF SignStale, Recheck, Reset, Confirm, EndSession, ResetSession, GoTo, Return,
                 runVars, connVars
  <2> QED
    BY <1>0, <2>1, TrackingKept
<1>11. CASE Collect \/ UNCHANGED vars
  <2>1. UNCHANGED <<slotVars, step, seenGen, seenIns, conn, memo>>
    BY <1>11 DEF Collect, vars, runVars, connVars
  <2> QED
    BY <1>0, <2>1 DEF Tracking, Counter, Seen, MemoNames, Names
<1> QED
  BY <1>1, <1>2, <1>3, <1>4, <1>5, <1>6, <1>7, <1>8, <1>9, <1>10, <1>11 DEF Next, GateStep

\* The card that still_present finds is the card of this run.
LEMMA SameCard ==
  ASSUME TypeOK, Tracking, step \notin {"wait", "done"}, StillPresent(seenGen)
  PROVE  seated /\ ins = seenIns /\ (conn # 0 => conn = seenIns)
  BY Naturalness DEF Tracking, Seen, Names, StillPresent

----------------------------------------------------------------------------
(* The verdict. *)

\* Only Confirm makes a pass.
LEMMA OnlyConfirmPasses ==
  ASSUME [Next]_vars, result'.passed, step' = "done"
  PROVE  step = "done" \/ Confirm
<1> SUFFICES ASSUME step # "done", ~Confirm PROVE FALSE
  OBVIOUS
<1>a. ASSUME Return(Raised) \/ \E reason : Return(Failed(reason)) \/ Return(FailedAt(reason))
      PROVE  FALSE
  BY <1>a, NotPassed DEF Return
<1>1. CASE CardMoves \/ Collect \/ WaitForInsertion \/ NextRun \/ UNCHANGED vars
  BY <1>1 DEF CardMoves, Collect, WaitForInsertion, NextRun, GoTo, vars
<1>2. CASE SetupRaises \/ AskRaises \/ OpenFails \/ BeginFails
  BY <1>a, <1>2 DEF SetupRaises, AskRaises, OpenFails, BeginFails
<1>3. CASE AskUser \/ AnswerFromMemo
  BY <1>a, <1>3 DEF AskUser, AnswerFromMemo, Follow, GoTo
<1>4. CASE TransmitRaises \/ SelectRefused \/ PinBlocked \/ PinGivenUp \/ CertMissing \/ CardGone
  BY <1>a, <1>4 DEF TransmitRaises, SelectRefused, PinBlocked, PinGivenUp, CertMissing, CardGone,
              GatingReturns
<1>5. CASE ChallengeFails \/ VerifyLost \/ VerdictFail
  BY <1>a, <1>5 DEF ChallengeFails, VerifyLost, VerdictFail, NetworkFails
<1>6. CASE RateLimited
  BY <1>6, NotPassed DEF RateLimited, NetworkFails, Return
<1>7. CASE SignStale
  BY <1>a, <1>7 DEF SignStale, GoTo
<1>8. CASE NothingToAsk \/ OpenSession \/ SelectPiv \/ PinRight \/ PinWrong \/ ReadCert
           \/ ChallengeAnswered \/ ChallengeRetried \/ Sign \/ VerdictPass \/ VerdictNonce
           \/ Recheck \/ Reset
  BY <1>8 DEF NothingToAsk, OpenSession, SelectPiv, PinRight, PinWrong, ReadCert,
     ChallengeAnswered, ChallengeRetried, Sign, VerdictPass, VerdictNonce, Submitting, Recheck,
     Reset, GoTo
<1> QED
  BY <1>1, <1>2, <1>3, <1>4, <1>5, <1>6, <1>7, <1>8 DEF Next, GateStep

\* A step to a place where Verdict asks for nothing, or for a pass.
LEMMA VerdictElsewhere ==
  ASSUME step' \notin {"submit", "recheck", "reset", "confirm"},
         step' = "done" => ~result'.passed
  PROVE  Verdict'
  BY DEF Verdict, PassIsBacked

LEMMA VerdictNext ==
  ASSUME IInv, Tracking, Verdict, [Next]_vars
  PROVE  Verdict'
<1>0. TypeOK /\ Authed
  BY DEF IInv
<1>1. CASE step = "done" /\ step' = "done"
  <2>1. UNCHANGED <<step, result, approved, seenIns, nonce, submitted, authed>>
    <3>1. ~GateStep
      BY <1>1 DEF GateStep, NothingToAsk, AskUser, AnswerFromMemo, AskRaises, OpenSession,
         OpenFails, BeginFails, TransmitRaises, SelectPiv, SelectRefused, PinRight, PinWrong, PinBlocked,
         PinGivenUp, ReadCert, CertMissing, ChallengeAnswered, ChallengeRetried, ChallengeFails,
         RateLimited, Sign, SignStale, VerifyLost, VerdictPass, VerdictNonce, VerdictFail,
         Submitting, Recheck, Reset, CardGone, Confirm
    <3>2. CardMoves \/ Collect \/ UNCHANGED vars
      BY <1>1, <3>1 DEF Next, WaitForInsertion, SetupRaises, NextRun
    <3> QED
      BY <3>2 DEF CardMoves, Collect, vars, runVars, netVars, connVars
  <2> QED
    BY <1>1, <2>1 DEF Verdict, PassIsBacked
<1>2. CASE step # "done" /\ step' = "done"
  <2>1. CASE ~result'.passed
    BY <1>2, <2>1, VerdictElsewhere
  <2>2. CASE result'.passed
    <3>1. Confirm
      BY <1>2, <2>2, OnlyConfirmPasses
    <3>2. step = "confirm" /\ UNCHANGED <<approved, seenIns, nonce, submitted, authed>>
      BY <3>1 DEF Confirm, runVars, netVars, connVars
    <3> QED
      BY <1>0, <1>2, <3>2 DEF Verdict, PassIsBacked, Authed
  <2> QED
    BY <2>1, <2>2
<1>3. CASE Sign
  <2>1. step' = "submit" /\ conn # 0 /\ conn' = conn /\ sig'.ins = conn
    BY <1>3 DEF Sign, GoTo, Connected, connVars
  <2> QED
    BY <2>1 DEF Verdict, PassIsBacked
<1>4. CASE VerdictPass
  <2>1. /\ step = "submit" /\ step' = "recheck" /\ approved' = sig /\ sig.over = nonce
        /\ submitted' = submitted \cup {nonce} /\ UNCHANGED <<conn, nonce>>
    BY <1>4 DEF VerdictPass, Submitting, Acceptable, GoTo, ServerReached
  <2>2. sig = [ins |-> sig.ins, over |-> sig.over]
    BY <1>0 DEF TypeOK, Signature
  <2> QED
    BY <2>1, <2>2 DEF Verdict, PassIsBacked
<1>5. CASE Recheck
  <2>1. /\ step = "recheck" /\ step' = "reset" /\ StillPresent(seenGen)
        /\ UNCHANGED <<seenIns, conn, approved, nonce, submitted>>
    BY <1>5 DEF Recheck, GoTo, runVars, netVars, connVars
  <2>2. conn = seenIns /\ conn # 0
    BY <1>0, <2>1, SameCard DEF Verdict
  <2> QED
    BY <2>1, <2>2 DEF Verdict, PassIsBacked
<1>6. CASE Reset
  <2>1. /\ step = "reset" /\ step' = "confirm"
        /\ UNCHANGED <<seenIns, approved, nonce, submitted>>
    BY <1>6 DEF Reset, GoTo, runVars, netVars
  <2> QED
    BY <2>1 DEF Verdict, PassIsBacked
<1>7. CASE CardMoves \/ Collect \/ UNCHANGED vars
  <2>1. UNCHANGED <<step, result, conn, sig, approved, nonce, submitted, seenIns, authed>>
    BY <1>7 DEF CardMoves, Collect, vars, runVars, netVars, connVars
  <2> QED
    BY <2>1 DEF Verdict, PassIsBacked
<1>8. CASE /\ step' # "done" /\ ~Sign /\ ~VerdictPass /\ ~Recheck /\ ~Reset
           /\ ~CardMoves /\ ~Collect /\ ~UNCHANGED vars
  <2>1. step' \notin {"submit", "recheck", "reset", "confirm", "done"}
    BY <1>8 DEF Next, GateStep, WaitForInsertion, SetupRaises, NextRun, NothingToAsk, AskUser,
       AnswerFromMemo, AskRaises, Follow, OpenSession, OpenFails, BeginFails, TransmitRaises,
       SelectPiv, SelectRefused, PinRight, PinWrong, PinBlocked, PinGivenUp, ReadCert, CertMissing,
       ChallengeAnswered, ChallengeRetried, ChallengeFails, RateLimited, SignStale, VerifyLost,
       VerdictNonce, VerdictFail, Submitting, CardGone, Confirm, GatingReturns, NetworkFails,
       GoTo, Return
  <2> QED
    BY <2>1, VerdictElsewhere
<1> QED
  BY <1>1, <1>2, <1>3, <1>4, <1>5, <1>6, <1>7, <1>8

\* The PIN state of the card leaves with it, and the reset is the only step of the
\* gate that clears it.
LEMMA PinClearedNext ==
  ASSUME IInv, Verdict, PinCleared, [Next]_vars
  PROVE  PinCleared'
<1>1. CASE CardMoves
  <2>1. /\ verified' => verified /\ seated' /\ ins' = ins
        /\ UNCHANGED <<step, seenIns, unreset>>
    BY <1>1 DEF CardMoves, runVars, connVars
  <2>2. step' = "confirm" /\ ins' = seenIns' => ~verified' \/ unreset'
    BY <2>1 DEF PinCleared
  <2> QED
    BY <2>1, <2>2 DEF PinCleared
<1>2. CASE PinRight \/ PinWrong
  <2>1. step' # "confirm" /\ seated'
    BY <1>2 DEF PinRight, PinWrong, GoTo, Connected, slotVars
  <2> QED
    BY <2>1 DEF PinCleared
<1>3. CASE Reset
  <2>1. /\ conn # 0 /\ conn = seenIns /\ UNCHANGED <<seated, ins, seenIns>>
    BY <1>3 DEF Reset, Verdict, slotVars, runVars
  <2>2. CASE Connected
    <3>1. PICK works \in BOOLEAN : verified' = (verified /\ ~works) /\ unreset' = ~works
      BY <1>3, <2>2, Zenon DEF Reset, ResetSession
    <3>2. (verified' => verified) /\ (~verified' \/ unreset')
      BY <3>1
    <3> QED
      BY <2>1, <3>2 DEF PinCleared
  <2>3. CASE ~Connected
    <3>1. UNCHANGED <<verified, unreset>>
      BY <1>3, <2>3, Zenon DEF Reset, ResetSession
    <3>2. ins = seenIns => ~verified
      BY <2>1, <2>3 DEF PinCleared, Connected
    <3> QED
      BY <2>1, <3>1, <3>2 DEF PinCleared
  <2> QED
    BY <2>2, <2>3
<1>4. ASSUME UNCHANGED <<slotVars, verified>>, step' = "confirm" => step = "confirm",
             step' = "confirm" => UNCHANGED <<seenIns, unreset>>
      PROVE  PinCleared'
  BY <1>4 DEF PinCleared, slotVars
<1>5. CASE Collect \/ UNCHANGED vars
  BY <1>4, <1>5 DEF Collect, vars, cardVars, runVars, connVars
<1>6. CASE WaitForInsertion \/ SetupRaises \/ NextRun \/ NothingToAsk \/ AskUser \/ AnswerFromMemo
           \/ AskRaises \/ OpenSession \/ OpenFails \/ BeginFails
  BY <1>4, <1>6 DEF WaitForInsertion, SetupRaises, NextRun, NothingToAsk, AskUser, AnswerFromMemo,
     AskRaises, Follow, OpenSession, OpenFails, BeginFails, GoTo, Return, cardVars
<1>7. CASE TransmitRaises \/ SelectPiv \/ SelectRefused \/ PinBlocked \/ PinGivenUp \/ ReadCert
           \/ CertMissing \/ CardGone \/ Sign \/ SignStale
  BY <1>4, <1>7 DEF TransmitRaises, SelectPiv, SelectRefused, PinBlocked, PinGivenUp, ReadCert,
     CertMissing, CardGone, Sign, SignStale, GatingReturns, EndSession, GoTo, Return, cardVars
<1>8. CASE ChallengeAnswered \/ ChallengeRetried \/ ChallengeFails \/ RateLimited \/ VerifyLost
           \/ VerdictPass \/ VerdictNonce \/ VerdictFail \/ Recheck \/ Confirm
  BY <1>4, <1>8 DEF ChallengeAnswered, ChallengeRetried, ChallengeFails, RateLimited, VerifyLost,
     VerdictPass, VerdictNonce, VerdictFail, Submitting, Recheck, Confirm, NetworkFails, GoTo,
     Return, cardVars
<1> QED
  BY <1>1, <1>2, <1>3, <1>5, <1>6, <1>7, <1>8 DEF Next, GateStep

----------------------------------------------------------------------------
(* The picker's answer. *)

\* The results that only the picker's answer gives.
UserResults == {FailedAt("user_ssh"), FailedAt("user_dismissed")}

LEMMA NotUserResult ==
  /\ Raised \notin UserResults
  /\ \A w \in BOOLEAN : Passed(w) \notin UserResults
  /\ \A reason : Failed(reason) \notin UserResults
  /\ \A reason \in {"no_piv_applet", "pin_blocked", "no_gate_cert"} :
       FailedAt(reason) \notin UserResults
  /\ \A retry : Limited(retry) \notin UserResults
  BY DEF UserResults, Raised, Passed, Failed, FailedAt, Limited, Outcome

\* A step that leaves the answer as it is and does not act on it.
LEMMA ChosenKept ==
  ASSUME Chosen, UNCHANGED <<want, memo, seenIns>>,
         step' \in {"wait", "arbiter"} => step \in {"wait", "arbiter"},
         step' = "done" => result' \notin UserResults
  PROVE  Chosen'
  BY DEF Chosen, ChoiceIsForThisCard, UserResults

\* Following an answer that was given for this card.
LEMMA ChosenFollowed ==
  ASSUME NEW choice \in Choices, Follow(choice), UNCHANGED seenIns,
         memo'.choice = choice, memo'.ins = seenIns
  PROVE  Chosen'
<1>1. FailedAt("user_ssh") # FailedAt("user_dismissed")
  BY DEF FailedAt, Outcome
<1> QED
  BY <1>1 DEF Follow, GoTo, Return, Choices, Chosen, ChoiceIsForThisCard

\* The memo answers for the run's own card, and for no other one.
LEMMA MemoOfThisCard ==
  ASSUME TypeOK, Tracking, step = "arbiter"
  PROVE  Remembered <=> memo.ins = seenIns
  BY Naturalness DEF Tracking, Seen, MemoNames, Names, Remembered

LEMMA ChosenNext ==
  ASSUME TypeOK, Tracking, Chosen, [Next]_vars
  PROVE  Chosen'
<1>1. CASE CardMoves \/ Collect \/ UNCHANGED vars
  BY <1>1 DEF CardMoves, Collect, vars, runVars, Chosen, ChoiceIsForThisCard
<1>2. CASE WaitForInsertion
  BY <1>2 DEF WaitForInsertion, GoTo, Chosen, ChoiceIsForThisCard
<1>3. CASE NextRun
  BY <1>3 DEF NextRun, Chosen, ChoiceIsForThisCard
<1>4. CASE AskUser
  <2>1. PICK choice \in Choices :
          memo' = [gen |-> seenGen, ins |-> seenIns, choice |-> choice] /\ Follow(choice)
    BY <1>4 DEF AskUser
  <2>2. UNCHANGED seenIns
    BY <1>4 DEF AskUser
  <2> QED
    BY <2>1, <2>2, ChosenFollowed
<1>5. CASE AnswerFromMemo
  <2>1. memo.ins = seenIns /\ memo.choice \in Choices
    BY <1>5, MemoOfThisCard DEF AnswerFromMemo, Remembered, TypeOK
  <2>2. Follow(memo.choice) /\ UNCHANGED <<memo, seenIns>>
    BY <1>5 DEF AnswerFromMemo
  <2> QED
    BY <2>1, <2>2, ChosenFollowed
<1>6. CASE AskRaises
  <2>1. ~want' /\ step' = "done" /\ result' = Raised
    BY <1>6 DEF AskRaises, Return, runVars, Chosen
  <2> QED
    BY <2>1, NotUserResult DEF Chosen, ChoiceIsForThisCard, UserResults
<1>7. CASE SetupRaises \/ OpenFails \/ BeginFails \/ TransmitRaises \/ SelectRefused
           \/ PinBlocked \/ PinGivenUp \/ CertMissing \/ CardGone \/ Confirm
  <2>1. UNCHANGED <<want, memo, seenIns>> /\ step' = "done"
    BY <1>7 DEF SetupRaises, OpenFails, BeginFails, TransmitRaises, SelectRefused, PinBlocked,
                PinGivenUp, CertMissing, CardGone, Confirm, GatingReturns, Return, runVars
  <2>2. result' \notin UserResults
    BY <1>7, NotUserResult DEF SetupRaises, OpenFails, BeginFails, TransmitRaises, SelectRefused,
       PinBlocked, PinGivenUp, CertMissing, CardGone, Confirm, GatingReturns, Return, TypeOK
  <2> QED
    BY <2>1, <2>2, ChosenKept
<1>8. CASE ChallengeFails \/ RateLimited \/ VerifyLost \/ VerdictFail
  <2>1. UNCHANGED <<want, memo, seenIns>> /\ step' = "done" /\ result' \notin UserResults
    BY <1>8, NotUserResult DEF ChallengeFails, RateLimited, VerifyLost, VerdictFail,
       NetworkFails, Return, runVars
  <2> QED
    BY <2>1, ChosenKept
<1>9. CASE SignStale
  <2>1. /\ UNCHANGED <<want, memo, seenIns>> /\ step' \in {"open", "done"}
        /\ step' = "done" => result' \notin UserResults
    BY <1>9, NotUserResult DEF SignStale, GoTo, Return
  <2> QED
    BY <2>1, ChosenKept
<1>10. CASE NothingToAsk \/ OpenSession \/ SelectPiv \/ PinRight \/ PinWrong \/ ReadCert
            \/ ChallengeAnswered \/ ChallengeRetried \/ Sign \/ VerdictPass \/ VerdictNonce
            \/ Recheck \/ Reset
  <2>1. UNCHANGED <<want, memo, seenIns>> /\ step' \notin {"wait", "arbiter", "done"}
    BY <1>10 DEF NothingToAsk, OpenSession, SelectPiv, PinRight, PinWrong, ReadCert,
       ChallengeAnswered, ChallengeRetried, Sign, VerdictPass, VerdictNonce, Submitting, Recheck,
       Reset, GoTo, runVars
  <2> QED
    BY <2>1, ChosenKept
<1> QED
  BY <1>1, <1>2, <1>3, <1>4, <1>5, <1>6, <1>7, <1>8, <1>9, <1>10 DEF Next, GateStep

----------------------------------------------------------------------------
(* The theorems. *)

LEMMA CardInvariant ==
  ASSUME GensUnique
  PROVE  Spec => [](IInv /\ CInv)
<1>1. Init => CInv
  <2>1. Init => Verdict /\ PinCleared /\ Chosen
    BY DEF Init, RunVarsInit, NoResult, Outcome, Verdict, PassIsBacked, PinCleared, Chosen,
           ChoiceIsForThisCard
  <2> QED
    BY <2>1, TrackingInit DEF CInv
<1>2. IInv /\ CInv /\ [Next]_vars => CInv'
  <2> SUFFICES ASSUME IInv, CInv, [Next]_vars PROVE CInv'
    OBVIOUS
  <2>1. Tracking' /\ Verdict' /\ PinCleared' /\ Chosen'
    BY TrackingNext, VerdictNext, PinClearedNext, ChosenNext DEF CInv, IInv
  <2> QED
    BY <2>1 DEF CInv
<1> QED
  BY <1>1, <1>2, Invariant, PTL DEF Spec

\* A pass rests on the server's verdict for a nonce of this run, over a signature
\* of the card of this run, after its PIN: _gating, _complete and the verdict loop.
THEOREM PassBacked ==
  ASSUME GensUnique
  PROVE  Spec => []PassIsBacked
<1>1. CInv => PassIsBacked
  BY DEF CInv, Verdict
<1> QED
  BY <1>1, CardInvariant, PTL

\* run's last still_present: when a pass is returned, the card it is for is the
\* one in the reader.
THEOREM PassForThisCard ==
  ASSUME GensUnique
  PROVE  Spec => PassForSeatedCard
<1>1. IInv /\ CInv /\ [Next]_vars =>
        [step # "done" /\ step' = "done" /\ result'.passed => seated /\ ins = seenIns]_vars
  <2> SUFFICES ASSUME IInv, CInv, [Next]_vars, step # "done", step' = "done", result'.passed
               PROVE  seated /\ ins = seenIns
    OBVIOUS
  <2>1. Confirm
    BY OnlyConfirmPasses
  <2> QED
    BY <2>1, SameCard DEF IInv, CInv, Confirm
<1> QED
  BY <1>1, CardInvariant, PTL DEF Spec, PassForSeatedCard

\* CardSession.end with the reset: wherever the card is moved between the check
\* before it and the one after, no verified PIN is left in the card that the pass is
\* returned for, unless the reset itself failed.
THEOREM PassLeavesPinOnlyUnreset ==
  ASSUME GensUnique
  PROVE  Spec => OnlyFailedResetLeavesPin
<1>1. IInv /\ CInv /\ [Next]_vars =>
        [step # "done" /\ step' = "done" /\ result'.passed => ~verified' \/ unreset]_vars
  <2> SUFFICES ASSUME IInv, CInv, [Next]_vars, step # "done", step' = "done", result'.passed
               PROVE  ~verified' \/ unreset
    OBVIOUS
  <2>1. Confirm
    BY OnlyConfirmPasses
  <2>2. step = "confirm" /\ StillPresent(seenGen) /\ verified' = verified
    BY <2>1 DEF Confirm, cardVars
  <2>3. ins = seenIns
    BY <2>2, SameCard DEF IInv, CInv
  <2> QED
    BY <2>2, <2>3 DEF CInv, PinCleared
<1> QED
  BY <1>1, CardInvariant, PTL DEF Spec, OnlyFailedResetLeavesPin

\* _cached_ask: what the user picked is applied to the card it was picked for.
THEOREM ChoiceApplied ==
  ASSUME GensUnique
  PROVE  Spec => []ChoiceIsForThisCard
<1>1. CInv => ChoiceIsForThisCard
  BY DEF CInv, Chosen
<1> QED
  BY <1>1, CardInvariant, PTL

\* _cached_ask: a card that was asked about once is not asked about again.
THEOREM AskedOnce ==
  ASSUME GensUnique
  PROVE  Spec => AskedOncePerCard
<1>1. IInv /\ CInv /\ [Next]_vars => [memo' # memo => memo.ins # seenIns]_vars
  <2> SUFFICES ASSUME IInv, CInv, [Next]_vars, memo' # memo
               PROVE  memo.ins # seenIns
    OBVIOUS
  <2>1. step = "arbiter" /\ ~Remembered
    BY DEF Next, GateStep, CardMoves, WaitForInsertion, SetupRaises, NextRun, NothingToAsk,
       AskUser, AnswerFromMemo, AskRaises, OpenSession, OpenFails, BeginFails, TransmitRaises,
       SelectPiv, SelectRefused, PinRight, PinWrong, PinBlocked, PinGivenUp, ReadCert, CertMissing,
       ChallengeAnswered, ChallengeRetried, ChallengeFails, RateLimited, Sign, SignStale,
       VerifyLost, VerdictPass, VerdictNonce, VerdictFail, Recheck, Reset, CardGone,
       Confirm, NetworkFails, Collect, vars
  <2> QED
    BY <2>1, MemoOfThisCard DEF IInv, CInv
<1> QED
  BY <1>1, CardInvariant, PTL DEF Spec, AskedOncePerCard
=============================================================================
