---------------------------- MODULE GateCeremony ----------------------------
(***************************************************************************)
(* Gate.run and everything under it: the applet picker with its memo, the  *)
(* exclusive card session, the PIN loop, the certificate, the challenge    *)
(* and its retries, the signature, the verdict, the two presence checks    *)
(* around the reset, and the single re-run after a stale signature.        *)
(* Bridge.run_gate starts a run after the other; the reader, the card and  *)
(* the server are the environment.                                         *)
(*                                                                         *)
(* `step' is the call the gate thread is about to make.  A call to the     *)
(* card, the user or the server and what the code does with the answer is  *)
(* one action; the card may be moved between any two of them.              *)
(*                                                                         *)
(*   wait       wait_for_insertion                                         *)
(*   arbiter    probe_applets, and _cached_ask when there is a choice      *)
(*   open       CardSession: connect exclusively, begin a transaction      *)
(*   select     SELECT PIV                                                 *)
(*   pin        prompt_pin and VERIFY                                      *)
(*   cert       read_gate_cert                                             *)
(*   challenge  POST /v1/challenge, one attempt                            *)
(*   sign       ga_sign                                                    *)
(*   submit     POST /v1/verify                                            *)
(*   recheck    still_present                                              *)
(*   reset      CardSession.end with the reset of the card                 *)
(*   confirm    still_present after the reset                              *)
(*   done       the result is returned                                     *)
(***************************************************************************)
EXTENDS CardSlot, GateResults, FiniteSets

CONSTANTS
  Retries,        \* GateHTTP.retries
  MaxTries,       \* PIN tries of a card
  VerdictReasons  \* reasons of a fail verdict, besides the two nonce reasons

ASSUME CeremonyAssumption ==
  /\ Retries \in Int
  /\ MaxTries \in Nat \ {0}
  /\ VerdictReasons \subseteq AllReasons

VARIABLES
  verified,   \* the seated card holds a verified PIN
  tries,      \* the seated card's remaining PIN tries
  step,
  seenGen,    \* generation wait_for_insertion returned
  seenIns,    \* history: the insertion it was read from, 0 before
  result,
  want,       \* Gate._want_totp is set
  rerun,      \* the re-run after a stale signature is under way
  refetched,  \* the nonce recovery of this card session is used
  attempt,    \* failed attempts of the challenge call under way
  nonce,      \* nonces received in this run; the last one is in use
  submitted,  \* history: nonces posted to /v1/verify in this run
  sig,        \* the signature at hand: the card that made it, and over what
  approved,   \* history: the signature the server last answered "pass" to
  conn,       \* the insertion the CardSession is connected to, 0 when none
  leftover,   \* the seated card is held by a connection whose transaction was
              \* refused, and which is not collected yet
  unreset,    \* history: a reset of the card failed in this run
  authed,     \* history: the PIN was verified in this card session
  contacted,  \* history: the server was contacted in this card session
  memo        \* Bridge._ask_cache; its `ins' is history

cardVars == <<verified, tries, leftover>>
runVars  == <<seenGen, seenIns, want, rerun>>
netVars  == <<refetched, attempt, nonce, submitted, sig, approved>>
connVars == <<conn, authed, contacted, unreset>>
vars == <<slotVars, cardVars, step, result, runVars, netVars, connVars, memo>>

Steps == {"wait", "arbiter", "open", "select", "pin", "cert", "challenge",
          "sign", "submit", "recheck", "reset", "confirm", "done"}

Choices == {"gate", "totp", "ssh", "dismiss"}   \* no answer counts as "gate"

\* No run receives more nonces than this: two for each card session.
MaxNonces == 4

NoSig == [ins |-> 0, over |-> 0]
Signature == [ins : Insertions, over : 0 .. MaxNonces]

NoMemo == [gen |-> 0, ins |-> 0, choice |-> "none"]

TypeOK ==
  /\ SlotTypeOK
  /\ verified \in BOOLEAN
  /\ tries \in 0 .. MaxTries
  /\ leftover \in BOOLEAN
  /\ step \in Steps
  /\ seenGen \in Generations
  /\ seenIns \in Insertions
  /\ result \in GateResult
  /\ want \in BOOLEAN
  /\ rerun \in BOOLEAN
  /\ refetched \in BOOLEAN
  /\ attempt \in Nat
  /\ nonce \in 0 .. MaxNonces
  /\ submitted \subseteq 1 .. MaxNonces
  /\ sig \in Signature
  /\ approved \in Signature
  /\ conn \in Insertions
  /\ authed \in BOOLEAN
  /\ contacted \in BOOLEAN
  /\ unreset \in BOOLEAN
  /\ memo \in [gen : Generations, ins : Insertions, choice : Choices \cup {"none"}]

RunVarsInit ==
  /\ step = "wait" /\ result = NoResult
  /\ seenGen = 0 /\ seenIns = 0 /\ want = FALSE /\ rerun = FALSE
  /\ refetched = FALSE /\ attempt = 0 /\ nonce = 0 /\ submitted = {}
  /\ sig = NoSig /\ approved = NoSig
  /\ conn = 0 /\ authed = FALSE /\ contacted = FALSE /\ unreset = FALSE

Init ==
  /\ SlotInit
  /\ verified = FALSE
  /\ leftover = FALSE
  /\ tries \in 0 .. MaxTries
  /\ RunVarsInit
  /\ memo = NoMemo

----------------------------------------------------------------------------
(* The card and the reader. *)

\* A card comes with whatever tries it has left, and neither a verified PIN nor
\* a connection to it survives a removal.
CardMoves ==
  /\ SlotNext
  /\ IF ins' # ins THEN tries' \in 0 .. MaxTries ELSE UNCHANGED tries
  /\ verified' = (verified /\ seated' /\ ins' = ins)
  /\ leftover' = (leftover /\ seated' /\ ins' = ins)
  /\ UNCHANGED <<step, result, runVars, netVars, connVars, memo>>

\* The interpreter collects the exception that keeps the connection alive.
Collect ==
  /\ leftover
  /\ leftover' = FALSE
  /\ UNCHANGED <<slotVars, verified, tries, step, result, runVars, netVars,
                 connVars, memo>>

\* The handle of a CardSession works only on the insertion it was opened on.
Connected == conn # 0 /\ seated /\ ins = conn

----------------------------------------------------------------------------
(* How a run ends or goes on. *)

GoTo(s) == step' = s /\ UNCHANGED result

Return(r) == step' = "done" /\ result' = r

\* CardSession.end: the transaction is released and the card disconnected, as it is.
EndSession ==
  /\ conn' = 0
  /\ UNCHANGED <<cardVars, authed, contacted, unreset>>

\* The same with a reset, which clears the card's PIN state, if the session's card
\* is still there.  It can fail nevertheless, and nothing looks at its result.
ResetSession ==
  /\ conn' = 0
  /\ IF Connected
       THEN \E works \in BOOLEAN : verified' = (verified /\ ~works) /\ unreset' = ~works
       ELSE UNCHANGED <<verified, unreset>>
  /\ UNCHANGED <<tries, leftover, authed, contacted>>

\* A return out of _gating: its finally ends the session and leaves the card
\* as it is.
GatingReturns(r) == Return(r) /\ EndSession

\* Bridge.run_gate for the next run.
NextRun ==
  /\ step = "done"
  /\ step' = "wait" /\ result' = NoResult
  /\ seenGen' = 0 /\ seenIns' = 0 /\ want' = FALSE /\ rerun' = FALSE
  /\ refetched' = FALSE /\ attempt' = 0 /\ nonce' = 0 /\ submitted' = {}
  /\ sig' = NoSig /\ approved' = NoSig
  /\ conn' = 0 /\ authed' = FALSE /\ contacted' = FALSE /\ unreset' = FALSE
  /\ UNCHANGED <<slotVars, cardVars, memo>>

----------------------------------------------------------------------------
(* run and _arbiter *)

WaitForInsertion ==
  /\ step = "wait"
  /\ attached
  /\ seated
  /\ seenGen' = gen
  /\ seenIns' = ins
  /\ GoTo("arbiter")
  /\ UNCHANGED <<slotVars, cardVars, want, rerun, netVars, connVars, memo>>

\* CardLink() or GateHTTP() raises.
SetupRaises ==
  /\ step = "wait"
  /\ Return(Raised)
  /\ UNCHANGED <<slotVars, cardVars, runVars, netVars, connVars, memo>>

\* No picker: no UI, a card that offers no choice, or one that cannot be probed.
NothingToAsk ==
  /\ step = "arbiter"
  /\ GoTo("open")
  /\ UNCHANGED <<slotVars, cardVars, runVars, netVars, connVars, memo>>

Follow(choice) ==
  /\ want' = (choice = "totp")
  /\ CASE choice = "ssh"     -> Return(FailedAt("user_ssh"))
       [] choice = "dismiss" -> Return(FailedAt("user_dismissed"))
       [] OTHER              -> GoTo("open")

\* Mutants: the memo is not read, or it answers for any card.
Remembered_Never == FALSE
Remembered_ForAnyCard == memo.choice # "none"

\* The memo answers for the card it was asked for, by its generation.
Remembered == memo.choice # "none" /\ memo.gen = seenGen

AskUser ==
  /\ step = "arbiter"
  /\ ~Remembered
  /\ \E choice \in Choices :
       /\ memo' = [gen |-> seenGen, ins |-> seenIns, choice |-> choice]
       /\ Follow(choice)
  /\ UNCHANGED <<slotVars, cardVars, seenGen, seenIns, rerun, netVars, connVars>>

AnswerFromMemo ==
  /\ step = "arbiter"
  /\ Remembered
  /\ Follow(memo.choice)
  /\ UNCHANGED <<slotVars, cardVars, seenGen, seenIns, rerun, netVars, connVars, memo>>

\* For a choice that needs the reader, gpgconf is run to take it back; when it
\* hangs, its TimeoutExpired leaves the run, and the choice is remembered.
AskRaises ==
  /\ step = "arbiter"
  /\ \E choice \in {"gate", "totp"} :
       IF Remembered
         THEN memo.choice = choice /\ UNCHANGED memo
         ELSE memo' = [gen |-> seenGen, ins |-> seenIns, choice |-> choice]
  /\ Return(Raised)
  /\ UNCHANGED <<slotVars, cardVars, runVars, netVars, connVars>>

----------------------------------------------------------------------------
(* CardSession and the card steps of _gating *)

\* No other connection of the process keeps the session from connecting.
Connectable == seated /\ ~leftover

\* The session connects to whatever card is seated now.
OpenSession ==
  /\ step = "open"
  /\ Connectable
  /\ conn' = ins
  /\ authed' = FALSE
  /\ contacted' = FALSE
  /\ refetched' = FALSE
  /\ GoTo("select")
  /\ UNCHANGED <<slotVars, cardVars, runVars, attempt, nonce, submitted, sig,
                 approved, unreset, memo>>

\* The reader is gone (CardError), or connect raises, as it does while another
\* client or a leftover connection holds the card; that connection is released.
OpenFails ==
  /\ step = "open"
  /\ Return(Failed("card_error")) \/ Return(Raised)
  /\ UNCHANGED <<slotVars, cardVars, runVars, netVars, connVars, memo>>

\* It connects, and the transaction is refused (CardError): nothing ends or
\* releases this connection.
BeginFails ==
  /\ step = "open"
  /\ Connectable
  /\ leftover' = TRUE
  /\ Return(Failed("card_error"))
  /\ UNCHANGED <<slotVars, verified, tries, runVars, netVars, connVars, memo>>

\* transmit raises: the card is gone or the reader fails.  It is no CardError,
\* so it leaves the gate as an exception.
TransmitRaises ==
  /\ step \in {"select", "pin", "cert", "sign"}
  /\ GatingReturns(Raised)
  /\ UNCHANGED <<slotVars, runVars, netVars, memo>>

\* Mutant: the re-run takes the PIN for granted.
SelectPiv_PinOnce ==
  /\ step = "select"
  /\ Connected
  /\ GoTo(IF rerun THEN "cert" ELSE "pin")
  /\ UNCHANGED <<slotVars, cardVars, runVars, netVars, connVars, memo>>

SelectPiv ==
  /\ step = "select"
  /\ Connected
  /\ GoTo("pin")
  /\ UNCHANGED <<slotVars, cardVars, runVars, netVars, connVars, memo>>

SelectRefused ==
  /\ step = "select"
  /\ GatingReturns(FailedAt("no_piv_applet"))
  /\ UNCHANGED <<slotVars, runVars, netVars, memo>>

PinRight ==
  /\ step = "pin"
  /\ Connected
  /\ tries > 0
  /\ tries' = MaxTries
  /\ verified' = TRUE
  /\ authed' = TRUE
  /\ GoTo("cert")
  /\ UNCHANGED <<slotVars, leftover, runVars, netVars, conn, contacted, unreset, memo>>

\* 63Cx: the user is asked again.
PinWrong ==
  /\ step = "pin"
  /\ Connected
  /\ tries > 0
  /\ tries' = tries - 1
  /\ verified' = FALSE
  /\ UNCHANGED <<slotVars, leftover, step, result, runVars, netVars, connVars, memo>>

PinBlocked ==
  /\ step = "pin"
  /\ Connected
  /\ tries = 0
  /\ GatingReturns(FailedAt("pin_blocked"))
  /\ UNCHANGED <<slotVars, runVars, netVars, memo>>

\* Mutant: the gate tries again on a new session by itself.
PinGivenUp_Reopens ==
  /\ step = "pin"
  /\ GoTo("open")
  /\ EndSession
  /\ UNCHANGED <<slotVars, runVars, netVars, memo>>

\* Any other status of VERIFY, or a prompt that is closed (CardError).
PinGivenUp ==
  /\ step = "pin"
  /\ \E reason \in {"pin_verify_failed", "card_error"} : GatingReturns(Failed(reason))
  /\ UNCHANGED <<slotVars, runVars, netVars, memo>>

ReadCert ==
  /\ step = "cert"
  /\ Connected
  /\ attempt' = 0
  /\ GoTo("challenge")
  /\ UNCHANGED <<slotVars, cardVars, runVars, refetched, nonce, submitted, sig,
                 approved, connVars, memo>>

\* 6A82 (NoGateCert), or any other trouble with the object (CardError).
CertMissing ==
  /\ step = "cert"
  /\ \E r \in {FailedAt("no_gate_cert"), Failed("card_error")} : GatingReturns(r)
  /\ UNCHANGED <<slotVars, runVars, netVars, memo>>

----------------------------------------------------------------------------
(* The server. *)

ServerReached == contacted' = TRUE /\ UNCHANGED <<conn, authed, unreset>>

\* A failure of the network leg: the session ends with it.
NetworkFails(r) ==
  /\ Return(r)
  /\ conn' = 0
  /\ contacted' = TRUE
  /\ UNCHANGED <<slotVars, cardVars, authed, unreset, runVars, memo>>

ChallengeAnswered ==
  /\ step = "challenge"
  /\ nonce' = nonce + 1
  /\ GoTo("sign")
  /\ ServerReached
  /\ UNCHANGED <<slotVars, cardVars, runVars, refetched, attempt, submitted, sig,
                 approved, memo>>

\* A transport failure with attempts left (at least one is made).
ChallengeRetried ==
  /\ step = "challenge"
  /\ attempt + 1 < Retries
  /\ attempt' = attempt + 1
  /\ ServerReached
  /\ UNCHANGED <<slotVars, cardVars, step, result, runVars, refetched, nonce,
                 submitted, sig, approved, memo>>

\* The last attempt fails, or any attempt is answered with nonsense.
ChallengeFails ==
  /\ step = "challenge"
  /\ NetworkFails(Failed("server_unreachable"))
  /\ UNCHANGED netVars

\* Both posts can meet a 429, which is never retried.
RateLimited ==
  /\ step \in {"challenge", "submit"}
  /\ \E retry \in RetryHints \cup {0} : NetworkFails(Limited(retry))
  /\ submitted' = IF step = "submit" THEN submitted \cup {nonce} ELSE submitted
  /\ UNCHANGED <<refetched, attempt, nonce, sig, approved>>

\* The card signs.  A relay may serve the answer to an earlier signature.
Sign ==
  /\ step = "sign"
  /\ Connected
  /\ verified
  /\ \E over \in 1 .. nonce : sig' = [ins |-> conn, over |-> over]
  /\ GoTo("submit")
  /\ UNCHANGED <<slotVars, cardVars, runVars, refetched, attempt, nonce, submitted,
                 approved, connVars, memo>>

\* Mutant: every stale signature is answered with a re-run.
SignStale_Always ==
  /\ step = "sign"
  /\ rerun' = TRUE
  /\ GoTo("open")
  /\ EndSession
  /\ UNCHANGED <<slotVars, seenGen, seenIns, want, netVars, memo>>

\* Mutant: the first session is not ended before the second is opened.
SignStale_KeepsSession ==
  /\ step = "sign"
  /\ rerun' = TRUE
  /\ IF rerun THEN Return(Failed("card_error")) ELSE GoTo("open")
  /\ UNCHANGED <<slotVars, cardVars, seenGen, seenIns, want, netVars, connVars, memo>>

\* A malformed response (StaleResponse): one full re-run on a new session; the
\* second time it is a card error.
SignStale ==
  /\ step = "sign"
  /\ rerun' = TRUE
  /\ IF rerun THEN Return(Failed("card_error")) ELSE GoTo("open")
  /\ EndSession
  /\ UNCHANGED <<slotVars, seenGen, seenIns, want, netVars, memo>>

\* The server accepts a signature over the nonce it was given, by the card
\* whose certificate came with it.
Acceptable == sig.over = nonce

Submitting == step = "submit" /\ submitted' = submitted \cup {nonce}

\* Mutant: an ambiguous verify is sent again.
VerifyLost_Resent ==
  /\ Submitting
  /\ UNCHANGED <<step, result>>
  /\ ServerReached
  /\ approved' \in {approved} \cup (IF Acceptable THEN {sig} ELSE {})
  /\ UNCHANGED <<slotVars, cardVars, runVars, refetched, attempt, nonce, sig, memo>>

\* The request or its answer is lost, or the answer is nonsense; the server may
\* have processed it.  The gate is over: no resend.
VerifyLost ==
  /\ Submitting
  /\ NetworkFails(Failed("server_unreachable"))
  /\ approved' \in {approved} \cup (IF Acceptable THEN {sig} ELSE {})
  /\ UNCHANGED <<refetched, attempt, nonce, sig>>

VerdictPass ==
  /\ Submitting
  /\ Acceptable
  /\ approved' = sig
  /\ GoTo("recheck")
  /\ ServerReached
  /\ UNCHANGED <<slotVars, cardVars, runVars, refetched, attempt, nonce, sig, memo>>

\* nonce_unknown or nonce_expired, the first time: a new nonce, signed again.
VerdictNonce ==
  /\ Submitting
  /\ ~refetched
  /\ refetched' = TRUE
  /\ attempt' = 0
  /\ GoTo("challenge")
  /\ ServerReached
  /\ UNCHANGED <<slotVars, cardVars, runVars, nonce, sig, approved, memo>>

\* Mutant: a refusal names the reader.
VerdictFail_Located ==
  /\ Submitting
  /\ \E reason \in VerdictReasons : NetworkFails(FailedAt(reason))
  /\ UNCHANGED <<refetched, attempt, nonce, sig, approved>>

\* Any other fail verdict, and a nonce verdict after the recovery.
VerdictFail ==
  /\ Submitting
  /\ \E reason \in VerdictReasons : NetworkFails(Failed(reason))
  /\ UNCHANGED <<refetched, attempt, nonce, sig, approved>>

----------------------------------------------------------------------------
(* After the pass verdict. *)

\* The insertion is the one the run started from.
Recheck ==
  /\ step = "recheck"
  /\ StillPresent(seenGen)
  /\ GoTo("reset")
  /\ UNCHANGED <<slotVars, cardVars, runVars, netVars, connVars, memo>>

\* Mutant: the card is left as it is.
Reset_Left ==
  /\ step = "reset"
  /\ EndSession
  /\ GoTo("confirm")
  /\ UNCHANGED <<slotVars, runVars, netVars, memo>>

\* Reset the card of the session, which may have been moved since.
Reset ==
  /\ step = "reset"
  /\ ResetSession
  /\ GoTo("confirm")
  /\ UNCHANGED <<slotVars, runVars, netVars, memo>>

\* It is not, or the query fails.
CardGone ==
  /\ step \in {"recheck", "confirm"}
  /\ GatingReturns(Failed("card_removed"))
  /\ UNCHANGED <<slotVars, runVars, netVars, memo>>

\* Mutant: nothing is checked after the reset.
Confirm_Unchecked ==
  /\ step = "confirm"
  /\ Return(Passed(want))
  /\ UNCHANGED <<slotVars, cardVars, runVars, netVars, connVars, memo>>

Confirm ==
  /\ step = "confirm"
  /\ StillPresent(seenGen)
  /\ Return(Passed(want))
  /\ UNCHANGED <<slotVars, cardVars, runVars, netVars, connVars, memo>>

----------------------------------------------------------------------------
GateStep ==
  \/ NothingToAsk \/ AskUser \/ AnswerFromMemo \/ AskRaises
  \/ OpenSession \/ OpenFails \/ BeginFails \/ TransmitRaises
  \/ SelectPiv \/ SelectRefused
  \/ PinRight \/ PinWrong \/ PinBlocked \/ PinGivenUp
  \/ ReadCert \/ CertMissing
  \/ ChallengeAnswered \/ ChallengeRetried \/ ChallengeFails \/ RateLimited
  \/ Sign \/ SignStale
  \/ VerifyLost \/ VerdictPass \/ VerdictNonce \/ VerdictFail
  \/ Recheck \/ Reset \/ CardGone \/ Confirm

Next ==
  \/ CardMoves
  \/ Collect
  \/ WaitForInsertion
  \/ SetupRaises
  \/ GateStep
  \/ NextRun

Spec == Init /\ [][Next]_vars

\* Once a card is seen, every call returns: the timeouts bound the server's,
\* and the user is taken to answer the picker and the prompt.
FairSpec == Spec /\ WF_vars(GateStep)

----------------------------------------------------------------------------
(* Safety. *)

\* "the server is never contacted before the PIN is verified": in the card
\* session at hand, that is, the one the re-run opens included.
ServerAfterPin == contacted => authed

\* "never a blind resend": no nonce is posted twice, whatever was lost and
\* whichever recovery is under way.
NonceNotReused == step = "submit" => nonce \notin submitted

\* The recoveries do not multiply: the nonce recovery and the re-run together
\* never post more than three signatures (and TypeOK bounds the nonces by four).
VerifyBudget == Cardinality(submitted) <= 3

\* A session that was opened, transaction included, is given back on every path
\* out of _gating: no run ends, and no second session is opened, while one is
\* connected.  A connection whose transaction was refused never gets there: that
\* one is left over.
SessionAlwaysEnded ==
  step \in {"wait", "arbiter", "open", "done"} => conn = 0

\* A pass rests on a verdict for a nonce of this run, over a signature made by
\* the card of the insertion the run is for, after its PIN was verified.
PassIsBacked ==
  step = "done" /\ result.passed =>
    /\ approved = [ins |-> seenIns, over |-> nonce]
    /\ nonce \in submitted
    /\ authed

\* "the pass authorizes this insertion only": at the moment a pass is returned
\* the insertion the run started from is the one in the reader.
PassForSeatedCard ==
  [][step # "done" /\ step' = "done" /\ result'.passed => seated /\ ins = seenIns]_vars

\* CardSession.end: "no verified PIV session leaks into the relay phase".  When a
\* pass is returned no verified PIN is left in the card, wherever it was moved
\* between the checks and the reset, unless the reset failed unnoticed.
OnlyFailedResetLeavesPin ==
  [][step # "done" /\ step' = "done" /\ result'.passed => ~verified' \/ unreset]_vars

\* What the user picked is applied to the card it was picked for, also when it
\* comes from the memo.
ChoiceIsForThisCard ==
  /\ want => memo.ins = seenIns /\ memo.choice = "totp"
  /\ step = "done" /\ result = FailedAt("user_ssh") =>
       memo.ins = seenIns /\ memo.choice = "ssh"
  /\ step = "done" /\ result = FailedAt("user_dismissed") =>
       memo.ins = seenIns /\ memo.choice = "dismiss"

\* "One ask per seated card": the retries of a failing gate do not ask again.
AskedOncePerCard == [][memo' # memo => memo.ins # seenIns]_vars

----------------------------------------------------------------------------
(* The ceremony implements the gate run Bridge.run relies on. *)

GateBar ==
  IF step = "wait" THEN "waiting" ELSE IF step = "done" THEN "done" ELSE "running"

Run == INSTANCE GateRun WITH gate <- GateBar, FailReasons <- AllReasons

ImplementsGateRun == Run!RunSpec

----------------------------------------------------------------------------
(* Liveness. *)

\* A run that has seen a card ends: the PIN loop ends in the card, and neither
\* the retries nor the recoveries go round for ever.
RunEnds == step \notin {"wait", "done"} ~> step = "done"
=============================================================================
