----------------------------- MODULE AdminGate ------------------------------
(***************************************************************************)
(* The confirmation gate of the operators' console, in the browser, over   *)
(* the confirmations of Core.                                              *)
(*                                                                         *)
(* Opening a gate asks for a challenge; the operator reads the statement   *)
(* and approves with the own password, which is derived in a worker; then  *)
(* the operation is submitted and its answer, or the lack of one, becomes  *)
(* a panel.  Removing an operator is reported by the gate itself.  A reset *)
(* generates the new password before the challenge, which binds it, and    *)
(* has panels of its own: this browser holds the only copy.                *)
(*                                                                         *)
(* What was submitted goes on whether or not the screen is still there.    *)
(***************************************************************************)
EXTENDS Confirmation

CONSTANTS
    Gate,      \* the gates an operator opens, one after the other
    Does,      \* Does[b]: what binding b is about, "revoke" or "reset"
    Nested,    \* the kinds whose gate is rendered inside another form
    NoReq      \* not a request

ASSUME AdminGateAssumption ==
    /\ Does \in [Binding -> {"revoke", "reset"}]
    /\ Nested \subseteq {"revoke", "reset"}
    /\ NoReq \notin Req

VARIABLES
    gate,      \* gate[g]: the gate g and the screen around it
    written    \* history: the requests whose operation was carried out

gateVars == <<gate, written>>
allVars == <<vars, gateVars>>

-----------------------------------------------------------------------------
\* What the browser knows of a request: Core's codes, and one of its own.
Code == {"none", "ok", "forbidden", "quota_exceeded", "unavailable", "timeout",
         "internal"}

\* asked: the request that is, or was last, under way; screen: whether the
\* screen with the gate, and with it the generated password, is still there,
\* and if not, whether the operator dismissed it, went somewhere else, or
\* another form replaced it.
GateRecord ==
    [phase : {"closed", "preparing", "requesting", "challenged", "deriving",
              "submitting", "failed", "settled"},
     binding : Binding, asked : Req \cup {NoReq}, id : Nat, code : Code,
     screen : {"none", "open", "dismissed", "left", "replaced"}]

Closed == [phase |-> "closed", binding |-> Idle.binding, asked |-> NoReq,
           id |-> 0, code |-> "none", screen |-> "none"]

KindOf(g) == Does[gate[g].binding]
Open(g) == gate[g].screen = "open"

\* A new gate: an operator has one open at most.
MayOpen(g, b) ==
    /\ gate[g].screen = "none"
    /\ \A o \in Gate : Open(o) => Owner[gate[o].binding] # Owner[b]

-----------------------------------------------------------------------------
\* The operator asks for a reset: the new password is generated and derived.
Begin(g) ==
    /\ \E b \in Binding :
          /\ Does[b] = "reset"
          /\ MayOpen(g, b)
          /\ gate' = [gate EXCEPT ![g] = [Closed EXCEPT !.phase = "preparing",
                        !.binding = b, !.screen = "open"]]
    /\ UNCHANGED <<vars, written>>

\* The gate is mounted and asks for the one challenge it ever asks for.
RequestChallenge(g, q) ==
    /\ AskChallenge(q)
    /\ LET b == req'[q].binding IN
       /\ IF Does[b] = "reset"
          THEN gate[g].phase = "preparing" /\ Open(g) /\ gate[g].binding = b
          ELSE MayOpen(g, b)
       /\ gate' = [gate EXCEPT ![g] = [Closed EXCEPT !.phase = "requesting",
                     !.binding = b, !.asked = q, !.screen = "open"]]
    /\ UNCHANGED written

Answered(g) == gate[g].asked # NoReq /\ req[gate[g].asked].phase = "done"

\* The challenge, or its refusal; a gate that is gone hears nothing.
HearChallenge(g) ==
    /\ gate[g].phase = "requesting" /\ Open(g) /\ Answered(g)
    /\ LET r == req[gate[g].asked] IN
       gate' = [gate EXCEPT ![g] =
                  IF r.answer = "ok"
                  THEN [@ EXCEPT !.phase = "challenged", !.id = r.id]
                  ELSE [@ EXCEPT !.phase = "failed", !.code = r.answer]]
    /\ UNCHANGED <<vars, written>>

\* A gate that closes: nothing is remembered of it, and it may be opened again,
\* unless it has something under way.
CloseAs(g, how) ==
    IF gate[g].phase \in {"deriving", "submitting"}
    THEN [gate[g] EXCEPT !.screen = how]
    ELSE Closed

\* A submit event reaches the form around the gate's own too; that form, the
\* look-up of a member, starts over and takes the screen with the gate away.
ScreenAfterSubmit(g) ==
    IF KindOf(g) \in Nested THEN "replaced" ELSE gate[g].screen

\* The gate's form is submitted: the password is derived, unless the address
\* is malformed.
Approve(g) ==
    /\ gate[g].phase = "challenged" /\ Open(g)
    /\ \/ gate' = [gate EXCEPT ![g] = [gate[g] EXCEPT
                      !.phase = "deriving", !.screen = ScreenAfterSubmit(g)]]
       \/ /\ KindOf(g) \in Nested
          /\ gate' = [gate EXCEPT ![g] = CloseAs(g, "replaced")]
    /\ UNCHANGED <<vars, written>>

\* The worker fails: back to the statement.
DerivationFails(g) ==
    /\ gate[g].phase = "deriving" /\ Open(g)
    /\ gate' = [gate EXCEPT ![g].phase = "challenged"]
    /\ UNCHANGED <<vars, written>>

\* The operation is submitted with the challenge's identifier and what was
\* derived from what was typed; nobody asks whether the screen is still there.
SubmitConfirmed(g, q) ==
    /\ gate[g].phase = "deriving"
    /\ Submit(q)
    /\ req'[q].binding = gate[g].binding
    /\ req'[q].id = gate[g].id
    /\ req'[q].credential # "none"
    /\ gate' = [gate EXCEPT ![g] =
                  [gate[g] EXCEPT !.phase = "submitting", !.asked = q]]
    /\ UNCHANGED written

\* The panel for a code: the gate reports a failed removal itself.
Settled(g, code) ==
    [gate[g] EXCEPT !.code = code,
        !.phase = IF KindOf(g) = "revoke" /\ code # "ok" THEN "failed" ELSE "settled"]

\* What the console reads in an answer: the fields of a reset's are not those
\* that parseResetCredential requires.
Read(g, answer) ==
    IF KindOf(g) = "reset" /\ answer = "ok" THEN "internal" ELSE answer

HearAnswer(g) ==
    /\ gate[g].phase = "submitting" /\ Open(g) /\ Answered(g)
    /\ gate' = [gate EXCEPT ![g] = Settled(g, Read(g, req[gate[g].asked].answer))]
    /\ UNCHANGED <<vars, written>>

\* The request times out, or its answer is lost; Core may be at it yet.
LoseAnswer(g) ==
    /\ gate[g].phase \in {"requesting", "submitting"} /\ Open(g)
    /\ gate' = [gate EXCEPT ![g] =
                  IF gate[g].phase = "requesting"
                  THEN [@ EXCEPT !.phase = "failed", !.code = "timeout"]
                  ELSE Settled(g, "timeout")]
    /\ UNCHANGED <<vars, written>>

\* Mutant: a gate can be dismissed while its operation is under way.
DismissibleAnyTime == {"requesting", "challenged", "deriving", "submitting", "failed"}

\* When Cancel, Close and Escape work.
Dismissible == {"requesting", "challenged", "failed"}

Dismiss(g) ==
    /\ gate[g].phase \in Dismissible /\ Open(g)
    /\ gate' = [gate EXCEPT ![g] = CloseAs(g, "dismissed")]
    /\ UNCHANGED <<vars, written>>

\* The operator goes to another screen, page or member, or a preparation that
\* failed is given up.
Leave(g) ==
    /\ Open(g)
    /\ gate' = [gate EXCEPT ![g] = CloseAs(g, "left")]
    /\ UNCHANGED <<vars, written>>

\* Mutant: a lost answer is taken for a refusal.
writeIsCertainlyAbsentEver(code) == code \in {"forbidden", "quota_exceeded", "timeout"}

\* The codes after which the console says that nothing was written, and
\* shows no password.
writeIsCertainlyAbsent(code) == code \in {"forbidden", "quota_exceeded"}

-----------------------------------------------------------------------------
\* Core.

\* Whether an operation was carried out, by its answer.  A handler refuses
\* before it writes; a failure of the store, or of the audit record that is
\* written after it, does not tell.
MayHaveWritten(answer) ==
    CASE answer = "ok" -> {TRUE}
      [] answer = "forbidden" -> {FALSE}
      [] answer = "unavailable" -> BOOLEAN

CarryOut(q) ==
    /\ Perform(q)
    /\ \E wrote \in MayHaveWritten(req'[q].answer) :
          written' = IF wrote THEN written \cup {q} ELSE written
    /\ UNCHANGED gate

\* Requests of other clients: a reset's binding holds a password nobody but its
\* gate knows.
Stray(q) ==
    /\ AskChallenge(q) \/ Submit(q)
    /\ Does[req'[q].binding] # "reset"
    /\ UNCHANGED gateVars

\* Core's other steps.
Core(q) ==
    /\ \/ CheckCeilings(q) \/ TakeFromLedger(q) \/ LedgerFails(q)
       \/ StoreChallenge(q) \/ Spend(q) \/ VerifyCredential(q)
    /\ UNCHANGED gateVars

GateTick == Tick /\ UNCHANGED gateVars

-----------------------------------------------------------------------------
GateInit ==
    /\ Init
    /\ gate = [g \in Gate |-> Closed]
    /\ written = {}

GateStep(g) ==
    \/ Begin(g) \/ HearChallenge(g) \/ Approve(g) \/ DerivationFails(g)
    \/ HearAnswer(g) \/ LoseAnswer(g) \/ Dismiss(g) \/ Leave(g)
    \/ \E q \in Req : RequestChallenge(g, q) \/ SubmitConfirmed(g, q)

GateNext ==
    \/ GateTick
    \/ \E g \in Gate : GateStep(g)
    \/ \E q \in Req : Stray(q) \/ Core(q) \/ CarryOut(q)

GateSpec == GateInit /\ [][GateNext]_allVars

-----------------------------------------------------------------------------
\* Properties.

GateTypeOK ==
    /\ TypeOK
    /\ gate \in [Gate -> GateRecord]
    /\ written \subseteq Req

\* Of an operation that was carried out, its operator is told at the gate that
\* sent it, unless the operator went elsewhere or the form around the gate took
\* the screen away: from the approval on nothing dismisses the gate, however
\* long derivation, submission and answer take, and the code it is told, be the
\* answer lost, is none that excludes a write. What it is told was done was
\* done (ConfirmationGate, ResetCredential, Operators, writeIsCertainlyAbsent).
\* It speaks of the code a gate holds, not of the words of its panel.
OutcomeIsHeard ==
    \A g \in Gate :
        /\ gate[g].asked \in written =>
              \/ gate[g].screen = "left"
              \/ gate[g].screen = "replaced" /\ KindOf(g) \in Nested
              \/ Open(g) /\ ~ writeIsCertainlyAbsent(gate[g].code)
        /\ gate[g].code = "ok" => gate[g].asked \in written

\* Once a reset is carried out the password it wrote is still on the screen,
\* or will be, unless the operator went elsewhere; the panel is never the one
\* that says nothing was written and shows no password.  There is no other
\* copy (ResetCredential, ConfirmationGate).
CredentialKept ==
    \A g \in Gate : (KindOf(g) = "reset" /\ gate[g].asked \in written) =>
        \/ gate[g].screen = "left"
        \/ /\ Open(g)
           /\ gate[g].phase = "settled" => ~ writeIsCertainlyAbsent(gate[g].code)
=============================================================================
