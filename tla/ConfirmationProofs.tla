------------------------- MODULE ConfirmationProofs -------------------------
(* Single use of confirmations, and that what is performed was confirmed,   *)
(* for any bindings, principals, requests, ceilings and lifetime.           *)
EXTENDS AdminGate, FiniteSetTheorems, WellFoundedInduction, TLAPS

\* The row of a binding has an identifier of its own, below the next one.
RowsDistinct ==
    /\ \A b \in Binding : rows[b].id < nextId
    /\ \A b, c \in Binding : rows[b].id = rows[c].id /\ rows[b].id # 0 => b = c

\* A challenge that was shown describes the row that carries its identifier.
ShownIsStored ==
    \A c \in shown :
        /\ c.id # 0 /\ c.id < nextId
        /\ \A b \in Binding : rows[b].id = c.id =>
              c.binding = b /\ c.expires = rows[b].expires

\* An operation on its way presents an identifier that was shown; until it
\* spends it has taken nothing.
OnItsWay ==
    \A q \in Req :
        /\ req[q].kind = "operation" => \E c \in shown : c.id = req[q].id
        /\ req[q].phase \in {"spend", "verify", "perform"} =>
              req[q].kind = "operation"
        /\ req[q].phase = "issue" => req[q].kind = "challenge"
        /\ req[q].phase = "idle" <=> req[q].kind = "none"
        /\ req[q].phase \in {"idle", "reserve", "take", "issue", "spend"}
              => ~ req[q].took /\ req[q].answer = "none" /\ req[q].spending = "none"

\* A confirmation that was taken is spent wherever it is stored, and was the
\* one shown for this binding.
TakenIsSpent ==
    \A q \in Req : req[q].took =>
        /\ req[q].id # 0 /\ req[q].id < nextId
        /\ \A b \in Binding : rows[b].id = req[q].id => rows[b].spent
        /\ \E c \in shown : /\ c.id = req[q].id
                            /\ c.binding = req[q].binding
                            /\ c.expires > req[q].at

\* What lets an operation through.
GateHeld ==
    \A q \in Req :
        /\ req[q].spending = "ok" => req[q].took
        /\ req[q].phase = "verify" => req[q].answer = "none"
        /\ req[q].phase = "perform" => /\ req[q].spending = "ok"
                                       /\ req[q].credential = "own"
                                       /\ req[q].answer = "none"
        /\ req[q].kind = "operation" /\ req[q].answer = "ok"
              => req[q].spending = "ok" /\ req[q].credential = "own"

IInv == /\ TypeOK /\ RowsDistinct /\ ShownIsStored
        /\ OnItsWay /\ TakenIsSpent /\ GateHeld /\ SingleUse

-----------------------------------------------------------------------------
LEMMA IdleType == Idle \in Request
  <1>1. (CHOOSE b \in Binding : TRUE) \in Binding
    BY ConfirmationAssumption
  <1>2. QED
    BY <1>1 DEF Idle, Request, Phase, Credential

LEMMA DayIsInt == ASSUME NEW t \in Nat PROVE utcDay(t) \in Int
  BY ConfirmationAssumption DEF utcDay

LEMMA RolledType ==
    ASSUME NEW c \in Counter, NEW d \in Int
    PROVE  Rolled(c, d) \in Counter
  BY DEF Rolled, Counter

LEMMA InitIInv == Init => IInv
  <1> SUFFICES ASSUME Init PROVE IInv
    OBVIOUS
  <1>1. TypeOK
    <2>1. req \in [Req -> Request]
      BY IdleType DEF Init
    <2>2. rows \in [Binding -> Row]
      BY DEF Init, NoRow, Row
    <2>3. /\ principal \in [Principal -> Counter] /\ platform \in Counter
          /\ left \in [Day -> Nat] /\ granted \in [Day -> [Principal -> Nat]]
      BY ConfirmationAssumption DEF Init, Counter
    <2>4. clock \in Time
      BY ConfirmationAssumption DEF Init, Time
    <2>5. QED
      BY <2>1, <2>2, <2>3, <2>4 DEF Init, TypeOK
  <1>2. RowsDistinct /\ ShownIsStored
    BY DEF Init, RowsDistinct, ShownIsStored, NoRow
  <1>3. OnItsWay /\ TakenIsSpent /\ GateHeld /\ SingleUse
    BY DEF Init, OnItsWay, TakenIsSpent, GateHeld, SingleUse, Idle
  <1>4. QED
    BY <1>1, <1>2, <1>3 DEF IInv

-----------------------------------------------------------------------------
\* A step of request q that leaves the table alone and takes nothing keeps
\* every part of the invariant about the table; what is left to show is what
\* it says of q.
LEMMA TableUntouched ==
    ASSUME IInv, UNCHANGED storeVars, NEW q \in Req, NEW r \in Request,
           req' = [req EXCEPT ![q] = r],
           r.took = req[q].took,
           r.took => /\ r.id = req[q].id /\ r.binding = req[q].binding
                     /\ r.at = req[q].at
    PROVE  /\ req' \in [Req -> Request]
           /\ RowsDistinct' /\ ShownIsStored' /\ TakenIsSpent' /\ SingleUse'
  <1>1. req' \in [Req -> Request] /\ req'[q] = r
        /\ \A p \in Req : p # q => req'[p] = req[p]
    BY DEF IInv, TypeOK
  <1>2. RowsDistinct' /\ ShownIsStored'
    BY DEF IInv, RowsDistinct, ShownIsStored, storeVars
  <1>3. TakenIsSpent'
    BY <1>1 DEF IInv, TakenIsSpent, storeVars
  <1>4. SingleUse'
    BY <1>1 DEF IInv, SingleUse
  <1>5. QED
    BY <1>1, <1>2, <1>3, <1>4

LEMMA AskChallengeStep ==
    ASSUME IInv, NEW q \in Req, AskChallenge(q) PROVE IInv'
  <1>1. PICK b \in Binding :
          req' = [req EXCEPT ![q] = [Idle EXCEPT !.phase = "reserve",
                    !.kind = "challenge", !.binding = b, !.at = clock]]
    BY DEF AskChallenge
  <1> DEFINE r == [Idle EXCEPT !.phase = "reserve", !.kind = "challenge",
                      !.binding = b, !.at = clock]
  <1>2. clock \in Nat
    BY ConfirmationAssumption DEF IInv, TypeOK, Time
  <1>3. /\ r \in Request /\ r.took = FALSE /\ r.phase = "reserve"
        /\ r.kind = "challenge" /\ r.spending = "none" /\ r.answer = "none"
    BY <1>2, IdleType DEF Request, Idle, Phase
  <1>4. req[q].took = FALSE
    BY DEF IInv, OnItsWay, TypeOK, Request, AskChallenge
  <1> HIDE DEF r
  <1>5. req' = [req EXCEPT ![q] = r] /\ UNCHANGED storeVars
    BY <1>1 DEF r, AskChallenge
  <1>6. /\ req' \in [Req -> Request]
        /\ RowsDistinct' /\ ShownIsStored' /\ TakenIsSpent' /\ SingleUse'
    BY <1>3, <1>4, <1>5, TableUntouched
  <1>7. TypeOK'
    BY <1>6 DEF IInv, TypeOK, AskChallenge, storeVars, budgetVars
  <1>8. OnItsWay' /\ GateHeld'
    BY <1>3, <1>5 DEF IInv, TypeOK, OnItsWay, GateHeld, storeVars
  <1>9. QED
    BY <1>6, <1>7, <1>8 DEF IInv

LEMMA SubmitStep ==
    ASSUME IInv, NEW q \in Req, Submit(q) PROVE IInv'
  <1>1. PICK b \in Binding, c \in shown, credential \in Credential :
          req' = [req EXCEPT ![q] = [Idle EXCEPT !.phase = "reserve",
                    !.kind = "operation", !.binding = b, !.id = c.id,
                    !.credential = credential, !.at = clock]]
    BY DEF Submit
  <1> DEFINE r == [Idle EXCEPT !.phase = "reserve", !.kind = "operation",
                      !.binding = b, !.id = c.id,
                      !.credential = credential, !.at = clock]
  <1>2. clock \in Nat /\ c.id \in Nat
    BY ConfirmationAssumption DEF IInv, TypeOK, Time
  <1>3. /\ r \in Request /\ r.took = FALSE /\ r.phase = "reserve"
        /\ r.kind = "operation" /\ r.id = c.id
        /\ r.spending = "none" /\ r.answer = "none"
    BY <1>2, IdleType DEF Request, Idle, Phase
  <1>4. req[q].took = FALSE
    BY DEF IInv, OnItsWay, TypeOK, Request, Submit
  <1> HIDE DEF r
  <1>5. req' = [req EXCEPT ![q] = r] /\ UNCHANGED storeVars
    BY <1>1 DEF r, Submit
  <1>6. /\ req' \in [Req -> Request]
        /\ RowsDistinct' /\ ShownIsStored' /\ TakenIsSpent' /\ SingleUse'
    BY <1>3, <1>4, <1>5, TableUntouched
  <1>7. TypeOK'
    BY <1>6 DEF IInv, TypeOK, Submit, storeVars, budgetVars
  <1>8. OnItsWay' /\ GateHeld'
    BY <1>3, <1>5 DEF IInv, TypeOK, OnItsWay, GateHeld, storeVars
  <1>9. QED
    BY <1>6, <1>7, <1>8 DEF IInv

\* What becomes of a request under admission.
AdmissionOutcome(r) == {NotAdmitted(r, "quota_exceeded"),
                        NotAdmitted(r, "unavailable"),
                        [r EXCEPT !.phase = "take"], Granted(r)}

\* A request under admission that moves on, or is refused.
LEMMA AdmissionStep ==
    ASSUME IInv, UNCHANGED storeVars, NEW q \in Req,
           req[q].phase \in {"reserve", "take"},
           NEW r \in AdmissionOutcome(req[q]),
           req' = [req EXCEPT ![q] = r]
    PROVE  /\ req' \in [Req -> Request]
           /\ RowsDistinct' /\ ShownIsStored' /\ TakenIsSpent' /\ SingleUse'
           /\ OnItsWay' /\ GateHeld'
  <1>1. req[q] \in Request
    BY DEF IInv, TypeOK
  <1>2. /\ req[q].took = FALSE /\ req[q].answer = "none"
        /\ req[q].spending = "none"
        /\ req[q].kind = "operation" => \E c \in shown : c.id = req[q].id
        /\ req[q].kind \in {"challenge", "operation"}
    BY <1>1 DEF IInv, OnItsWay, Request
  <1>3. /\ r \in Request /\ r.took = FALSE /\ r.kind = req[q].kind
        /\ r.id = req[q].id
        /\ \/ r.phase = "done" /\ r.spending = "none" /\ r.kind = "challenge"
           \/ r.phase = "verify" /\ r.answer = "none" /\ r.spending # "ok"
                /\ r.kind = "operation"
           \/ r.phase = "take" /\ r.answer = "none" /\ r.spending = "none"
           \/ r.phase = "issue" /\ r.answer = "none" /\ r.spending = "none"
                /\ r.kind = "challenge"
           \/ r.phase = "spend" /\ r.answer = "none" /\ r.spending = "none"
                /\ r.kind = "operation"
    BY <1>1, <1>2 DEF AdmissionOutcome, NotAdmitted, Granted, Request, Phase
  <1>4. /\ req' \in [Req -> Request]
        /\ RowsDistinct' /\ ShownIsStored' /\ TakenIsSpent' /\ SingleUse'
    BY <1>2, <1>3, TableUntouched
  <1>5. /\ req'[q] = r /\ \A p \in Req : p # q => req'[p] = req[p]
        /\ shown' = shown
    BY DEF IInv, TypeOK, storeVars
  <1>6. OnItsWay'
    BY <1>2, <1>3, <1>5 DEF IInv, OnItsWay
  <1>7. GateHeld'
    BY <1>2, <1>3, <1>5 DEF IInv, GateHeld
  <1>8. QED
    BY <1>4, <1>6, <1>7

LEMMA CheckCeilingsStep ==
    ASSUME IInv, NEW q \in Req, CheckCeilings(q) PROVE IInv'
  <1> DEFINE d == utcDay(req[q].at)
             all == Rolled(platform, d)
             own == Rolled(principal[By(q)], d)
  <1>1. req[q] \in Request /\ By(q) \in Principal
    BY ConfirmationAssumption DEF IInv, TypeOK, By, Request
  <1>2. d \in Int
    BY <1>1, DayIsInt DEF Request
  <1>3. all \in Counter /\ own \in Counter
    BY <1>1, <1>2, RolledType DEF IInv, TypeOK
  <1>4. platform' \in Counter /\ principal' \in [Principal -> Counter]
    BY <1>1, <1>3 DEF CheckCeilings, IInv, TypeOK
  <1>5. smooth' \in BOOLEAN
    BY DEF CheckCeilings, IInv, TypeOK
  <1>6. /\ req[q].phase = "reserve"
        /\ \/ req' = [req EXCEPT ![q] = NotAdmitted(req[q], "quota_exceeded")]
           \/ req' = [req EXCEPT ![q] = [req[q] EXCEPT !.phase = "take"]]
    BY DEF CheckCeilings, IInv, TypeOK
  <1>7. UNCHANGED storeVars
    BY DEF CheckCeilings
  <1>8. /\ req' \in [Req -> Request]
        /\ RowsDistinct' /\ ShownIsStored' /\ TakenIsSpent' /\ SingleUse'
        /\ OnItsWay' /\ GateHeld'
    <2>1. PICK r \in AdmissionOutcome(req[q]) : req' = [req EXCEPT ![q] = r]
      BY <1>6 DEF AdmissionOutcome
    <2>2. req[q].phase \in {"reserve", "take"}
      BY <1>6
    <2>3. QED
      BY <1>7, <2>1, <2>2, AdmissionStep
  <1>9. TypeOK'
    BY <1>4, <1>5, <1>8 DEF CheckCeilings, IInv, TypeOK, storeVars
  <1>10. QED
    BY <1>8, <1>9 DEF IInv

LEMMA TakeFromLedgerStep ==
    ASSUME IInv, NEW q \in Req, TakeFromLedger(q) PROVE IInv'
  <1> DEFINE d == utcDay(req[q].at)
             taken == Taken(d)
  <1>1. req[q] \in Request /\ By(q) \in Principal
    BY ConfirmationAssumption DEF IInv, TypeOK, By, Request
  <1>2. left' \in [Day -> Nat]
    <2>1. left \in [Day -> Nat] /\ Units \in Nat
      BY ConfirmationAssumption DEF IInv, TypeOK
    <2>2. left' = [left EXCEPT ![d] = @ - taken]
      BY DEF TakeFromLedger
    <2>3. d \in Day => left[d] - taken \in Nat
      BY <2>1 DEF Taken
    <2> HIDE DEF d, taken
    <2>4. QED
      BY <2>1, <2>2, <2>3
  <1>3. /\ principal' \in [Principal -> Counter] /\ platform' \in Counter
        /\ granted' \in [Day -> [Principal -> Nat]]
    <2> DEFINE p == By(q)
    <2>1. /\ principal \in [Principal -> Counter] /\ platform \in Counter
          /\ granted \in [Day -> [Principal -> Nat]] /\ Units \in Nat
          /\ p \in Principal
      BY <1>1, ConfirmationAssumption DEF IInv, TypeOK
    <2>2. \/ UNCHANGED <<principal, platform, granted>>
          \/ /\ principal' = [principal EXCEPT ![p].used = @ + Units]
             /\ platform' = [platform EXCEPT !.used = @ + Units]
             /\ granted' = [granted EXCEPT ![d][p] = @ + Units]
      BY DEF TakeFromLedger
    <2> HIDE DEF d, p
    <2>3. [principal EXCEPT ![p].used = @ + Units] \in [Principal -> Counter]
      BY <2>1 DEF Counter
    <2>4. [platform EXCEPT !.used = @ + Units] \in Counter
      BY <2>1 DEF Counter
    <2>5. [granted EXCEPT ![d][p] = @ + Units] \in [Day -> [Principal -> Nat]]
      <3>1. d \in Day => [granted[d] EXCEPT ![p] = @ + Units] \in [Principal -> Nat]
        BY <2>1
      <3>2. [granted EXCEPT ![d][p] = @ + Units] =
               [granted EXCEPT ![d] = [granted[d] EXCEPT ![p] = @ + Units]]
        BY <2>1
      <3>3. QED
        BY <2>1, <3>1, <3>2
    <2>6. QED
      BY <2>1, <2>2, <2>3, <2>4, <2>5
  <1>4. /\ req[q].phase \in {"reserve", "take"} /\ UNCHANGED storeVars
        /\ \/ req' = [req EXCEPT ![q] = NotAdmitted(req[q], "quota_exceeded")]
           \/ req' = [req EXCEPT ![q] = Granted(req[q])]
    BY DEF TakeFromLedger, IInv, TypeOK
  <1>5. PICK r \in AdmissionOutcome(req[q]) : req' = [req EXCEPT ![q] = r]
    BY <1>4 DEF AdmissionOutcome
  <1>6. /\ req' \in [Req -> Request]
        /\ RowsDistinct' /\ ShownIsStored' /\ TakenIsSpent' /\ SingleUse'
        /\ OnItsWay' /\ GateHeld'
    BY <1>4, <1>5, AdmissionStep
  <1>7. TypeOK'
    BY <1>2, <1>3, <1>6 DEF TakeFromLedger, IInv, TypeOK, storeVars
  <1>8. QED
    BY <1>6, <1>7 DEF IInv

LEMMA LedgerFailsStep ==
    ASSUME IInv, NEW q \in Req, LedgerFails(q) PROVE IInv'
  <1> DEFINE d == utcDay(req[q].at)
  <1>1. left' \in [Day -> Nat]
    <2>1. left \in [Day -> Nat] /\ Units \in Nat
      BY ConfirmationAssumption DEF IInv, TypeOK
    <2>2. PICK taken \in {0, Taken(d)} :
             left' = [left EXCEPT ![d] = @ - taken]
      BY DEF LedgerFails
    <2>3. d \in Day => left[d] - taken \in Nat
      BY <2>1 DEF Taken
    <2> HIDE DEF d
    <2>4. QED
      BY <2>1, <2>2, <2>3
  <1>2. /\ req[q].phase \in {"reserve", "take"} /\ UNCHANGED storeVars
        /\ req' = [req EXCEPT ![q] = NotAdmitted(req[q], "unavailable")]
    BY DEF LedgerFails, IInv, TypeOK
  <1>3. PICK r \in AdmissionOutcome(req[q]) : req' = [req EXCEPT ![q] = r]
    BY <1>2 DEF AdmissionOutcome
  <1>4. /\ req' \in [Req -> Request]
        /\ RowsDistinct' /\ ShownIsStored' /\ TakenIsSpent' /\ SingleUse'
        /\ OnItsWay' /\ GateHeld'
    BY <1>2, <1>3, AdmissionStep
  <1>5. TypeOK'
    BY <1>1, <1>4, ConfirmationAssumption
       DEF LedgerFails, Fault, IInv, TypeOK, storeVars
  <1>6. QED
    BY <1>4, <1>5 DEF IInv

LEMMA VerifyCredentialStep ==
    ASSUME IInv, NEW q \in Req, VerifyCredential(q) PROVE IInv'
  <1> DEFINE refused(code) == [req[q] EXCEPT !.phase = "done", !.answer = code]
  <1>1. /\ req[q] \in Request /\ req[q].phase = "verify"
        /\ req[q].answer = "none" /\ req[q].kind # "none"
    BY DEF VerifyCredential, IInv, TypeOK, GateHeld, OnItsWay
  <1>2. PICK r \in {refused(code) : code \in {"forbidden", "quota_exceeded",
                                              "unavailable"}}
                 \cup {[req[q] EXCEPT !.phase = "perform"]} :
          /\ req' = [req EXCEPT ![q] = r]
          /\ r.phase = "perform" => r.spending = "ok" /\ r.credential = "own"
    <2>1. \/ /\ req' = [req EXCEPT ![q] = [req[q] EXCEPT !.phase = "perform"]]
             /\ req[q].spending = "ok" /\ req[q].credential = "own"
          \/ \E code \in {"forbidden", "quota_exceeded", "unavailable"} :
                req' = [req EXCEPT ![q] = refused(code)]
      <3>1. CASE req' = [req EXCEPT ![q] = refused("unavailable")]
        BY <3>1
      <3>2. CASE req' = [req EXCEPT ![q] =
                IF req[q].spending \in {"quota_exceeded", "unavailable"}
                THEN refused(req[q].spending)
                ELSE IF req[q].spending = "ok" /\ Presence(req[q])
                THEN [req[q] EXCEPT !.phase = "perform"]
                ELSE refused("forbidden")]
        <4>1. CASE req[q].spending \in {"quota_exceeded", "unavailable"}
          BY <3>2, <4>1
        <4>2. CASE /\ req[q].spending \notin {"quota_exceeded", "unavailable"}
                   /\ req[q].spending = "ok" /\ Presence(req[q])
          BY <3>2, <4>2 DEF Presence
        <4>3. CASE /\ req[q].spending \notin {"quota_exceeded", "unavailable"}
                   /\ ~ (req[q].spending = "ok" /\ Presence(req[q]))
          BY <3>2, <4>3
        <4>4. QED
          BY <4>1, <4>2, <4>3
      <3>3. QED
        BY <3>1, <3>2 DEF VerifyCredential, IInv, TypeOK
    <2>2. [req[q] EXCEPT !.phase = "perform"].phase = "perform"
          /\ \A code : refused(code).phase = "done"
      BY <1>1 DEF Request
    <2>3. /\ [req[q] EXCEPT !.phase = "perform"].spending = req[q].spending
          /\ [req[q] EXCEPT !.phase = "perform"].credential = req[q].credential
      BY <1>1 DEF Request
    <2> HIDE DEF refused
    <2>4. QED
      BY <2>1, <2>2, <2>3
  <1>3. /\ r \in Request /\ r.took = req[q].took /\ r.id = req[q].id
        /\ r.binding = req[q].binding /\ r.at = req[q].at
        /\ r.kind = req[q].kind /\ r.spending = req[q].spending
        /\ r.phase \in {"done", "perform"} /\ r.answer # "ok"
        /\ r.phase = "perform" => r.answer = "none"
    BY <1>1, <1>2 DEF Request, Phase
  <1>4. UNCHANGED storeVars /\ req' = [req EXCEPT ![q] = r]
    BY <1>2 DEF VerifyCredential
  <1>5. /\ req' \in [Req -> Request]
        /\ RowsDistinct' /\ ShownIsStored' /\ TakenIsSpent' /\ SingleUse'
    BY <1>3, <1>4, TableUntouched
  <1>6. faults' \in Nat
    BY ConfirmationAssumption DEF VerifyCredential, Fault, IInv, TypeOK
  <1>7. TypeOK'
    BY <1>5, <1>6 DEF VerifyCredential, IInv, TypeOK, storeVars, budgetVars
  <1>8. OnItsWay' /\ GateHeld'
    <2>1. /\ req'[q] = r /\ \A p \in Req : p # q => req'[p] = req[p]
          /\ shown' = shown
      BY <1>4 DEF IInv, TypeOK, storeVars
    <2>2. OnItsWay'
      BY <1>1, <1>3, <2>1 DEF IInv, OnItsWay
    <2>3. GateHeld'
      BY <1>1, <1>2, <1>3, <2>1 DEF IInv, GateHeld
    <2>4. QED
      BY <2>2, <2>3
  <1>9. QED
    BY <1>5, <1>7, <1>8 DEF IInv

LEMMA PerformStep ==
    ASSUME IInv, NEW q \in Req, Perform(q) PROVE IInv'
  <1>1. PICK code \in {"ok", "forbidden", "unavailable"} :
          req' = [req EXCEPT ![q] = [req[q] EXCEPT !.phase = "done",
                                                  !.answer = code]]
    <2>1. CASE \E c \in {"ok", "forbidden"} :
                  req' = [req EXCEPT ![q] = [req[q] EXCEPT !.phase = "done",
                                                          !.answer = c]]
      BY <2>1 DEF IInv, TypeOK
    <2>2. CASE req' = [req EXCEPT ![q] = [req[q] EXCEPT !.phase = "done",
                                                       !.answer = "unavailable"]]
      BY <2>2 DEF IInv, TypeOK
    <2>3. QED
      BY <2>1, <2>2 DEF Perform
  <1> DEFINE r == [req[q] EXCEPT !.phase = "done", !.answer = code]
  <1>2. /\ req[q] \in Request /\ req[q].phase = "perform"
        /\ req[q].kind # "none" /\ req[q].spending = "ok"
        /\ req[q].credential = "own"
    BY DEF Perform, IInv, TypeOK, GateHeld, OnItsWay
  <1>3. /\ r \in Request /\ r.took = req[q].took /\ r.id = req[q].id
        /\ r.binding = req[q].binding /\ r.at = req[q].at
        /\ r.kind = req[q].kind /\ r.spending = req[q].spending
        /\ r.credential = req[q].credential /\ r.phase = "done"
    BY <1>2 DEF Request, Phase
  <1> HIDE DEF r
  <1>4. UNCHANGED storeVars /\ req' = [req EXCEPT ![q] = r]
    BY <1>1 DEF Perform, r
  <1>5. /\ req' \in [Req -> Request]
        /\ RowsDistinct' /\ ShownIsStored' /\ TakenIsSpent' /\ SingleUse'
    BY <1>3, <1>4, TableUntouched
  <1>6. faults' \in Nat
    BY ConfirmationAssumption DEF Perform, Fault, IInv, TypeOK
  <1>7. TypeOK'
    BY <1>5, <1>6 DEF Perform, IInv, TypeOK, storeVars, budgetVars
  <1>8. OnItsWay' /\ GateHeld'
    <2>1. /\ req'[q] = r /\ \A p \in Req : p # q => req'[p] = req[p]
          /\ shown' = shown
      BY <1>4 DEF IInv, TypeOK, storeVars
    <2>2. OnItsWay'
      BY <1>2, <1>3, <2>1 DEF IInv, OnItsWay
    <2>3. GateHeld'
      BY <1>2, <1>3, <2>1 DEF IInv, GateHeld
    <2>4. QED
      BY <2>2, <2>3
  <1>9. QED
    BY <1>5, <1>7, <1>8 DEF IInv

\* A challenge takes a fresh identifier: no row, no challenge shown and no
\* confirmation taken carries it.
LEMMA StoreChallengeStep ==
    ASSUME IInv, NEW q \in Req, StoreChallenge(q) PROVE IInv'
  <1> DEFINE b == req[q].binding
             row == Issued(req[q])
             new == [id |-> row.id, binding |-> b, expires |-> row.expires]
  <1>1. /\ req[q] \in Request /\ req[q].phase = "issue" /\ b \in Binding
        /\ req[q].kind = "challenge" /\ req[q].took = FALSE
        /\ req[q].spending = "none"
    BY DEF StoreChallenge, IInv, TypeOK, OnItsWay, Request
  <1>2. PICK code \in {"ok", "unavailable"}, id \in {0, row.id} :
          req' = [req EXCEPT ![q] = [req[q] EXCEPT !.phase = "done",
                                         !.answer = code, !.id = id]]
    <2> HIDE DEF row
    <2>1. QED
      BY DEF StoreChallenge, row
  <1> DEFINE r == [req[q] EXCEPT !.phase = "done", !.answer = code, !.id = id]
  <1>3. /\ r \in Request /\ r.took = FALSE /\ r.kind = "challenge"
        /\ r.spending = "none" /\ r.phase = "done"
    <2>1. id \in Nat
      <3>1. row.id \in Nat
        BY DEF Issued, IInv, TypeOK
      <3> HIDE DEF row
      <3>2. QED
        BY <3>1
    <2>2. code \in {"ok", "unavailable"}
      OBVIOUS
    <2> HIDE DEF row
    <2>3. QED
      BY <1>1, <2>1, <2>2 DEF Request, Phase
  <1>4. /\ row \in Row /\ row.id = nextId /\ new.id = nextId /\ nextId # 0
        /\ new.binding = b /\ new.expires = row.expires
        /\ new \in [id : Nat, binding : Binding, expires : Nat]
        /\ nextId \in Nat
    BY <1>1, ConfirmationAssumption DEF Issued, Row, Request, IInv, TypeOK
  <1>5. \/ UNCHANGED storeVars
        \/ /\ rows' = [rows EXCEPT ![b] = row] /\ nextId' = nextId + 1
           /\ shown' \in {shown, shown \cup {new}}
    BY DEF StoreChallenge, storeVars
  <1>6. faults' \in Nat
    BY ConfirmationAssumption DEF StoreChallenge, Fault, IInv, TypeOK
  <1> HIDE DEF b, row, new, r
  <1>7. /\ req'[q] = r /\ req' \in [Req -> Request]
        /\ \A p \in Req : p # q => req'[p] = req[p]
    BY <1>2, <1>3 DEF r, IInv, TypeOK
  <1>8. /\ nextId' \in Nat \ {0} /\ nextId' >= nextId /\ rows' \in [Binding -> Row]
        /\ shown' \subseteq [id : Nat, binding : Binding, expires : Nat]
        /\ shown \subseteq shown'
    BY <1>1, <1>4, <1>5 DEF IInv, TypeOK, storeVars
  <1>9. TypeOK'
    BY <1>6, <1>7, <1>8 DEF StoreChallenge, IInv, TypeOK, budgetVars
  <1>10. \A c \in Binding : rows[c].id \in Nat /\ rows[c].id < nextId
    BY DEF IInv, TypeOK, Row, RowsDistinct
  <1>11. RowsDistinct'
    <2>1. CASE UNCHANGED storeVars
      BY <2>1 DEF IInv, RowsDistinct, storeVars
    <2>2. CASE rows' = [rows EXCEPT ![b] = row] /\ nextId' = nextId + 1
      <3>1. rows'[b] = row /\ \A c \in Binding : c # b => rows'[c] = rows[c]
        BY <1>1, <2>2 DEF IInv, TypeOK
      <3>2. \A c \in Binding : rows'[c].id < nextId'
        BY <1>4, <1>10, <2>2, <3>1
      <3>3. \A c, e \in Binding : rows'[c].id = rows'[e].id /\ rows'[c].id # 0
                                    => c = e
        BY <1>4, <1>10, <3>1 DEF IInv, RowsDistinct
      <3>4. QED
        BY <3>2, <3>3 DEF RowsDistinct
    <2>3. QED
      BY <1>5, <2>1, <2>2
  <1>12. ShownIsStored'
    <2>1. CASE UNCHANGED storeVars
      BY <2>1 DEF IInv, ShownIsStored, storeVars
    <2>2. CASE /\ rows' = [rows EXCEPT ![b] = row] /\ nextId' = nextId + 1
               /\ shown' \in {shown, shown \cup {new}}
      <3>1. rows'[b] = row /\ \A c \in Binding : c # b => rows'[c] = rows[c]
        BY <1>1, <2>2 DEF IInv, TypeOK
      <3>2. ASSUME NEW c \in shown
            PROVE  /\ c.id # 0 /\ c.id < nextId'
                   /\ \A e \in Binding : rows'[e].id = c.id =>
                         c.binding = e /\ c.expires = rows'[e].expires
        <4>1. c.id \in Nat /\ c.id # 0 /\ c.id < nextId
          BY DEF IInv, TypeOK, ShownIsStored
        <4>2. QED
          BY <1>4, <2>2, <3>1, <4>1 DEF IInv, ShownIsStored
      <3>3. /\ new.id # 0 /\ new.id < nextId'
            /\ \A e \in Binding : rows'[e].id = new.id =>
                  new.binding = e /\ new.expires = rows'[e].expires
        BY <1>4, <1>10, <2>2, <3>1
      <3>4. QED
        BY <2>2, <3>2, <3>3 DEF ShownIsStored
    <2>3. QED
      BY <1>5, <2>1, <2>2
  <1>13. TakenIsSpent'
    <2>1. SUFFICES ASSUME NEW p \in Req, req'[p].took
                   PROVE  /\ req'[p].id # 0 /\ req'[p].id < nextId'
                          /\ \A c \in Binding : rows'[c].id = req'[p].id
                                                => rows'[c].spent
                          /\ \E c \in shown' : /\ c.id = req'[p].id
                                               /\ c.binding = req'[p].binding
                                               /\ c.expires > req'[p].at
      BY DEF TakenIsSpent
    <2>2. p # q /\ req'[p] = req[p] /\ req[p].took
      BY <1>3, <1>7, <2>1
    <2>3. req[p].id \in Nat /\ req[p].id # 0 /\ req[p].id < nextId
      BY <2>2 DEF IInv, TakenIsSpent, TypeOK, Request
    <2>4. \A c \in Binding : rows'[c].id = req[p].id => rows'[c] = rows[c]
      <3>1. CASE UNCHANGED storeVars
        BY <3>1 DEF storeVars
      <3>2. CASE rows' = [rows EXCEPT ![b] = row]
        BY <1>4, <2>3, <3>2 DEF IInv, TypeOK
      <3>3. QED
        BY <1>5, <3>1, <3>2
    <2>5. \E c \in shown' : /\ c.id = req[p].id
                            /\ c.binding = req[p].binding
                            /\ c.expires > req[p].at
      BY <1>8, <2>2 DEF IInv, TakenIsSpent
    <2>6. \A c \in Binding : rows'[c].id = req[p].id => rows'[c].spent
      BY <2>2, <2>4 DEF IInv, TakenIsSpent
    <2>7. req[p].id < nextId'
      BY <1>4, <1>8, <2>3
    <2>8. QED
      BY <2>2, <2>3, <2>5, <2>6, <2>7
  <1>14. OnItsWay'
    BY <1>3, <1>7, <1>8 DEF IInv, OnItsWay
  <1>15. GateHeld' /\ SingleUse'
    BY <1>3, <1>7 DEF IInv, GateHeld, SingleUse
  <1>16. QED
    BY <1>9, <1>11, <1>12, <1>13, <1>14, <1>15 DEF IInv

\* The row that is taken was not spent before, so nobody else took it.
LEMMA SpendStep ==
    ASSUME IInv, NEW q \in Req, Spend(q) PROVE IInv'
  <1> DEFINE b == req[q].binding
             took == Spendable(rows[b], req[q])
             marked == [rows EXCEPT ![b].spent = @ \/ took]
  <1>1. /\ req[q] \in Request /\ req[q].phase = "spend" /\ b \in Binding
        /\ req[q].kind = "operation" /\ req[q].took = FALSE
        /\ req[q].answer = "none"
    BY DEF Spend, IInv, TypeOK, OnItsWay, Request
  <1>2. took \in BOOLEAN
    BY <1>1 DEF Spendable, IInv, TypeOK, Row
  <1>3. PICK t \in BOOLEAN, code \in {"ok", "forbidden", "unavailable"} :
          /\ req' = [req EXCEPT ![q] = [req[q] EXCEPT !.phase = "verify",
                                           !.spending = code, !.took = t]]
          /\ code = "ok" => t
          /\ \/ t = took /\ rows' = marked
             \/ t = FALSE /\ rows' = rows
    <2> HIDE DEF took, marked
    <2>1. CASE /\ rows' = marked
               /\ req' = [req EXCEPT ![q] =
                     [[req[q] EXCEPT !.phase = "verify",
                         !.spending = IF took THEN "ok" ELSE "forbidden"]
                       EXCEPT !.took = took]]
      <3>1. CASE took
        BY <1>1, <1>2, <2>1, <3>1 DEF Request
      <3>2. CASE ~ took
        BY <1>1, <1>2, <2>1, <3>2 DEF Request
      <3>3. QED
        BY <3>1, <3>2
    <2>2. CASE /\ rows' = marked
               /\ req' = [req EXCEPT ![q] =
                     [[req[q] EXCEPT !.phase = "verify",
                         !.spending = "unavailable"] EXCEPT !.took = took]]
      BY <1>1, <1>2, <2>2 DEF Request
    <2>3. CASE /\ rows' = rows
               /\ req' = [req EXCEPT ![q] = [req[q] EXCEPT !.phase = "verify",
                                                !.spending = "unavailable"]]
      BY <1>1, <2>3 DEF Request
    <2>4. QED
      BY <2>1, <2>2, <2>3 DEF Spend, took, marked
  <1> DEFINE r == [req[q] EXCEPT !.phase = "verify", !.spending = code,
                                 !.took = t]
  <1>4. /\ r \in Request /\ r.took = t /\ r.kind = "operation"
        /\ r.spending = code /\ r.phase = "verify" /\ r.answer = "none"
        /\ r.id = req[q].id /\ r.binding = b /\ r.at = req[q].at
    BY <1>1, <1>3 DEF Request, Phase
  <1>5. /\ nextId' = nextId /\ shown' = shown
        /\ faults' \in Nat
    BY ConfirmationAssumption DEF Spend, Fault, IInv, TypeOK
  <1>6. took => /\ rows[b].id # 0 /\ rows[b].id = req[q].id
                /\ ~ rows[b].spent /\ rows[b].expires > req[q].at
    BY DEF Spendable
  <1>7. \A c \in Binding :
          /\ rows'[c].id = rows[c].id /\ rows'[c].expires = rows[c].expires
          /\ rows[c].spent => rows'[c].spent
          /\ t /\ c = b => rows'[c].spent
    BY <1>1, <1>2, <1>3 DEF IInv, TypeOK, Row
  <1>8. rows' \in [Binding -> Row]
    BY <1>1, <1>2, <1>3 DEF IInv, TypeOK, Row
  <1> HIDE DEF took, marked, r, b
  <1>9. /\ req'[q] = r /\ req' \in [Req -> Request]
        /\ \A p \in Req : p # q => req'[p] = req[p]
    BY <1>3, <1>4 DEF r, IInv, TypeOK
  <1>10. TypeOK'
    BY <1>5, <1>8, <1>9 DEF Spend, IInv, TypeOK, budgetVars
  <1>11. RowsDistinct' /\ ShownIsStored'
    BY <1>5, <1>7 DEF IInv, RowsDistinct, ShownIsStored
  <1>12. t => /\ req[q].id # 0 /\ req[q].id < nextId
              /\ rows[b].id = req[q].id /\ ~ rows[b].spent
              /\ \E c \in shown : /\ c.id = req[q].id /\ c.binding = b
                                  /\ c.expires > req[q].at
    <2> SUFFICES ASSUME t
                 PROVE  /\ req[q].id # 0 /\ req[q].id < nextId
                        /\ rows[b].id = req[q].id /\ ~ rows[b].spent
                        /\ \E c \in shown : /\ c.id = req[q].id
                                            /\ c.binding = b
                                            /\ c.expires > req[q].at
      OBVIOUS
    <2>1. /\ rows[b].id # 0 /\ rows[b].id = req[q].id /\ ~ rows[b].spent
          /\ rows[b].expires > req[q].at
      BY <1>3, <1>6
    <2>2. rows[b].id < nextId
      BY <1>1 DEF IInv, RowsDistinct
    <2>3. PICK c \in shown : c.id = req[q].id
      BY <1>1 DEF IInv, OnItsWay
    <2>4. c.binding = b /\ c.expires = rows[b].expires
      BY <1>1, <2>1, <2>3 DEF IInv, ShownIsStored
    <2>5. QED
      BY <2>1, <2>2, <2>3, <2>4
  <1>13. TakenIsSpent'
    <2>1. ASSUME NEW p \in Req, p # q, req'[p].took
          PROVE  /\ req'[p].id # 0 /\ req'[p].id < nextId'
                 /\ \A c \in Binding : rows'[c].id = req'[p].id
                                      => rows'[c].spent
                 /\ \E c \in shown' : /\ c.id = req'[p].id
                                      /\ c.binding = req'[p].binding
                                      /\ c.expires > req'[p].at
      BY <1>5, <1>7, <1>9, <2>1 DEF IInv, TakenIsSpent
    <2>2. ASSUME t
          PROVE  /\ r.id # 0 /\ r.id < nextId'
                 /\ \A c \in Binding : rows'[c].id = r.id => rows'[c].spent
                 /\ \E c \in shown' : /\ c.id = r.id
                                      /\ c.binding = r.binding
                                      /\ c.expires > r.at
      <3>1. \A c \in Binding : rows[c].id = req[q].id => c = b
        BY <1>1, <1>12, <2>2 DEF IInv, RowsDistinct
      <3>2. QED
        BY <1>4, <1>5, <1>7, <1>12, <2>2, <3>1
    <2>3. QED
      BY <1>4, <1>9, <2>1, <2>2 DEF TakenIsSpent
  <1>14. SingleUse'
    <2>1. ASSUME NEW p \in Req, p # q, req[p].took, t, req[p].id = req[q].id
          PROVE  FALSE
      BY <1>1, <1>12, <2>1 DEF IInv, TakenIsSpent
    <2>2. QED
      BY <1>4, <1>9, <2>1 DEF IInv, SingleUse
  <1>15. OnItsWay'
    BY <1>1, <1>4, <1>5, <1>9 DEF IInv, OnItsWay
  <1>16. GateHeld'
    BY <1>3, <1>4, <1>9 DEF IInv, GateHeld
  <1>17. QED
    BY <1>10, <1>11, <1>13, <1>14, <1>15, <1>16 DEF IInv

LEMMA TickStep ==
    ASSUME IInv, Tick PROVE IInv'
  <1>1. TypeOK'
    BY ConfirmationAssumption
       DEF Tick, IInv, TypeOK, Time, storeVars, budgetVars
  <1>2. QED
    BY <1>1 DEF Tick, IInv, RowsDistinct, ShownIsStored, OnItsWay, TakenIsSpent,
                GateHeld, SingleUse, storeVars

-----------------------------------------------------------------------------
\* The invariant is inductive, so it holds in every reachable state.
THEOREM Invariance == Spec => []IInv
  <1>1. IInv /\ [Next]_vars => IInv'
    <2> SUFFICES ASSUME IInv, [Next]_vars PROVE IInv'
      OBVIOUS
    <2>1. CASE Tick
      BY <2>1, TickStep
    <2>2. ASSUME NEW q \in Req, Step(q) PROVE IInv'
      BY <2>2, AskChallengeStep, SubmitStep, CheckCeilingsStep,
         TakeFromLedgerStep, LedgerFailsStep, StoreChallengeStep, SpendStep,
         VerifyCredentialStep, PerformStep DEF Step
    <2>3. CASE UNCHANGED vars
      BY <2>3 DEF vars, storeVars, budgetVars, IInv, TypeOK, RowsDistinct,
                  ShownIsStored, OnItsWay, TakenIsSpent, GateHeld, SingleUse
    <2>4. QED
      BY <2>1, <2>2, <2>3 DEF Next
  <1>2. QED
    BY InitIInv, <1>1, PTL DEF Spec

\* Every variable keeps its type (Confirmation's state).
THEOREM ConfirmationTypeCorrect == Spec => []TypeOK
  <1>1. IInv => TypeOK
    BY DEF IInv
  <1>2. QED
    BY <1>1, Invariance, PTL

\* A confirmation lets one submission through at most (spend, issue).
THEOREM ConfirmationSingleUse == Spec => []SingleUse
  <1>1. IInv => SingleUse
    BY DEF IInv
  <1>2. QED
    BY <1>1, Invariance, PTL

\* What is performed was told by a challenge, alive at the submission, taken
\* by it, and asked with the principal's own credential (enforce).
THEOREM OnlyConfirmedIsPerformed == Spec => []PerformedIsConfirmed
  <1>1. IInv => PerformedIsConfirmed
    BY DEF IInv, GateHeld, TakenIsSpent, PerformedIsConfirmed
  <1>2. QED
    BY <1>1, Invariance, PTL

-----------------------------------------------------------------------------
\* The console's gate over Core.

\* Adding the gate takes nothing from Core and adds nothing to it: with the
\* gate's variables hidden, every behaviour of the two together is one of
\* Confirmation.
THEOREM GateImplementsConfirmation == GateSpec => Spec
  <1>1. GateInit => Init
    BY DEF GateInit
  <1>2. [GateNext]_allVars => [Next]_vars
    <2>1. ASSUME NEW g \in Gate, GateStep(g) PROVE [Next]_vars
      <3>1. CASE \E q \in Req : RequestChallenge(g, q) \/ SubmitConfirmed(g, q)
        BY <3>1 DEF RequestChallenge, SubmitConfirmed, Step, Next
      <3>2. CASE UNCHANGED vars
        BY <3>2
      <3>3. QED
        BY <2>1, <3>1, <3>2
           DEF GateStep, Begin, HearChallenge, Approve, DerivationFails,
               HearAnswer, LoseAnswer, Dismiss, Leave
    <2>2. ASSUME NEW q \in Req, Stray(q) \/ Core(q) \/ CarryOut(q) PROVE Next
      BY <2>2 DEF Stray, Core, CarryOut, Step, Next
    <2>3. GateTick => Next
      BY DEF GateTick, Next
    <2>4. UNCHANGED allVars => UNCHANGED vars
      BY DEF allVars
    <2>5. QED
      BY <2>1, <2>2, <2>3, <2>4 DEF GateNext
  <1>3. QED
    BY <1>1, <1>2, PTL DEF GateSpec, Spec

\* What request p has become in s: an answer stands, and what was asked for
\* never changes.
Kept(r, s, p) ==
    /\ r[p].phase = "done" => s[p] = r[p]
    /\ r[p].kind # "none" => s[p].kind = r[p].kind

\* A gate's record, by the requests r: what it waits for is what it asked for,
\* what it shows is what Core answered, unless the answer was lost, and a screen
\* that is gone without the operator having left it, or the form around it
\* having taken it, has nothing under way.
Tracks(w, r) ==
    /\ w.phase \in {"closed", "preparing"} => w.asked = NoReq
    /\ w.phase # "closed" =>
          \/ w.screen \in {"open", "left"}
          \/ w.screen = "replaced" /\ Does[w.binding] \in Nested
    /\ w.phase \in {"requesting", "challenged", "deriving"} =>
          w.asked \in Req /\ r[w.asked].kind = "challenge"
    /\ w.phase \notin {"failed", "settled"} => w.code = "none"
    /\ w.phase = "submitting" => w.asked \in Req /\ r[w.asked].kind = "operation"
    /\ writeIsCertainlyAbsent(w.code) =>
          /\ w.asked \in Req
          /\ \/ r[w.asked].kind = "challenge"
             \/ r[w.asked].phase = "done" /\ r[w.asked].answer = w.code
    /\ w.code = "ok" =>
          /\ w.asked \in Req /\ r[w.asked].kind = "operation"
          /\ r[w.asked].phase = "done" /\ r[w.asked].answer = "ok"

\* What was carried out was an operation, and was not refused.
WrittenAnswered ==
    \A q \in written : /\ req[q].phase = "done" /\ req[q].kind = "operation"
                       /\ req[q].answer \in {"ok", "unavailable"}

\* An operation that is answered as done was carried out.
DoneWritten ==
    \A q \in Req : req[q].kind = "operation" /\ req[q].answer = "ok" => q \in written

GateInv ==
    /\ IInv
    /\ gate \in [Gate -> GateRecord]
    /\ written \subseteq Req
    /\ WrittenAnswered /\ DoneWritten
    /\ \A g \in Gate : Tracks(gate[g], req)

LEMMA TracksOn ==
    ASSUME NEW r, NEW s, NEW w, \A p \in Req : Kept(r, s, p), Tracks(w, r)
    PROVE  Tracks(w, s)
  BY DEF Kept, Tracks

\* Core never takes an answer back and never changes what was asked for.
LEMMA CoreKeeps ==
    ASSUME IInv, [Next]_vars, NEW p \in Req PROVE Kept(req, req', p)
  <1>1. ASSUME NEW q \in Req, NEW r, req' = [req EXCEPT ![q] = r],
               req[q].phase # "done", req[q].kind # "none" => r.kind = req[q].kind
        PROVE  Kept(req, req', p)
    BY <1>1 DEF IInv, TypeOK, Kept
  <1>2. ASSUME NEW q \in Req, AskChallenge(q) \/ Submit(q)
        PROVE  Kept(req, req', p)
    <2>1. req[q].phase = "idle" /\ req[q].kind = "none"
      BY <1>2 DEF AskChallenge, Submit, IInv, OnItsWay
    <2>2. PICK r : req' = [req EXCEPT ![q] = r]
      BY <1>2 DEF AskChallenge, Submit
    <2>3. QED
      BY <1>1, <2>1, <2>2
  <1>3. ASSUME NEW q \in Req, req[q] \in Request, CheckCeilings(q)
        PROVE  Kept(req, req', p)
    <2>1. PICK r : /\ req' = [req EXCEPT ![q] = r]
                   /\ \/ r = [req[q] EXCEPT !.phase = "take"]
                      \/ r = NotAdmitted(req[q], "quota_exceeded")
      BY <1>3 DEF CheckCeilings
    <2>2. r.kind = req[q].kind
      BY <1>3, <2>1 DEF NotAdmitted, Request
    <2>3. QED
      BY <1>1, <1>3, <2>1, <2>2 DEF CheckCeilings
  <1>4. ASSUME NEW q \in Req, req[q] \in Request, TakeFromLedger(q) \/ LedgerFails(q)
        PROVE  Kept(req, req', p)
    <2>1. PICK r : /\ req' = [req EXCEPT ![q] = r]
                   /\ \/ r = Granted(req[q])
                      \/ r = NotAdmitted(req[q], "quota_exceeded")
                      \/ r = NotAdmitted(req[q], "unavailable")
      BY <1>4 DEF TakeFromLedger, LedgerFails
    <2>2. r.kind = req[q].kind
      BY <1>4, <2>1 DEF NotAdmitted, Granted, Request
    <2>3. QED
      BY <1>1, <1>4, <2>1, <2>2 DEF TakeFromLedger, LedgerFails
  <1>5. ASSUME NEW q \in Req, req[q] \in Request, StoreChallenge(q)
        PROVE  Kept(req, req', p)
    <2>1. PICK code, id : req' = [req EXCEPT ![q] = [req[q] EXCEPT
                              !.phase = "done", !.answer = code, !.id = id]]
      BY <1>5 DEF StoreChallenge
    <2>2. QED
      BY <1>1, <1>5, <2>1 DEF StoreChallenge, Request
  <1>6. ASSUME NEW q \in Req, req[q] \in Request, Spend(q)
        PROVE  Kept(req, req', p)
    <2> DEFINE taking == Spendable(rows[req[q].binding], req[q])
    <2>1. \E code, t :
             \/ req' = [req EXCEPT ![q] = [[req[q] EXCEPT !.phase = "verify",
                                !.spending = code] EXCEPT !.took = t]]
             \/ req' = [req EXCEPT ![q] = [req[q] EXCEPT !.phase = "verify",
                                !.spending = code]]
      <3>1. CASE req' = [req EXCEPT ![q] =
                  [[req[q] EXCEPT !.phase = "verify",
                       !.spending = IF taking THEN "ok" ELSE "forbidden"]
                     EXCEPT !.took = taking]]
        BY <3>1
      <3>2. CASE req' = [req EXCEPT ![q] =
                  [[req[q] EXCEPT !.phase = "verify", !.spending = "unavailable"]
                     EXCEPT !.took = taking]]
        BY <3>2
      <3>3. CASE req' = [req EXCEPT ![q] =
                  [req[q] EXCEPT !.phase = "verify", !.spending = "unavailable"]]
        BY <3>3
      <3>4. QED
        BY <1>6, <3>1, <3>2, <3>3 DEF Spend
    <2>2. PICK r : req' = [req EXCEPT ![q] = r] /\ r.kind = req[q].kind
      <3> HIDE DEF taking
      <3>1. QED
        BY <1>6, <2>1 DEF Request
    <2>3. QED
      BY <1>1, <1>6, <2>2 DEF Spend
  <1>7. ASSUME NEW q \in Req, req[q] \in Request, VerifyCredential(q)
        PROVE  Kept(req, req', p)
    <2>1. PICK code, r :
             /\ req' = [req EXCEPT ![q] = r]
             /\ \/ r = [req[q] EXCEPT !.phase = "done", !.answer = code]
                \/ r = [req[q] EXCEPT !.phase = "perform"]
      BY <1>7 DEF VerifyCredential
    <2>2. QED
      BY <1>1, <1>7, <2>1 DEF VerifyCredential, Request
  <1>8. ASSUME NEW q \in Req, req[q] \in Request, Perform(q)
        PROVE  Kept(req, req', p)
    <2>1. PICK code : req' = [req EXCEPT ![q] = [req[q] EXCEPT
                         !.phase = "done", !.answer = code]]
      BY <1>8 DEF Perform
    <2>2. QED
      BY <1>1, <1>8, <2>1 DEF Perform, Request
  <1>9. ASSUME Tick \/ UNCHANGED vars PROVE Kept(req, req', p)
    BY <1>9 DEF Tick, vars, Kept
  <1>10. \A q \in Req : req[q] \in Request
    BY DEF IInv, TypeOK
  <1>11. QED
    BY <1>2, <1>3, <1>4, <1>5, <1>6, <1>7, <1>8, <1>9, <1>10 DEF Next, Step

\* A step of Core, or of nobody, that carries no operation out.
Waiting ==
    \/ Tick \/ UNCHANGED vars
    \/ \E q \in Req : \/ AskChallenge(q) \/ Submit(q)
                      \/ CheckCeilings(q) \/ TakeFromLedger(q) \/ LedgerFails(q)
                      \/ StoreChallenge(q) \/ Spend(q) \/ VerifyCredential(q)

LEMMA WaitingSteps == Waiting => [Next]_vars
  BY DEF Waiting, Next, Step

\* Such a step answers no operation as done.
LEMMA WaitingAnswers ==
    ASSUME IInv, Waiting, NEW p \in Req,
           req'[p].kind = "operation", req'[p].answer = "ok"
    PROVE  req[p].kind = "operation" /\ req[p].answer = "ok"
  <1>1. ASSUME NEW q \in Req, NEW r, req' = [req EXCEPT ![q] = r],
               r.kind = "operation" => r.answer # "ok"
        PROVE  req[p].kind = "operation" /\ req[p].answer = "ok"
    BY <1>1 DEF IInv, TypeOK
  <1>2. ASSUME NEW q \in Req, AskChallenge(q)
        PROVE  req[p].kind = "operation" /\ req[p].answer = "ok"
    <2>1. PICK b \in Binding :
             req' = [req EXCEPT ![q] = [Idle EXCEPT !.phase = "reserve",
                       !.kind = "challenge", !.binding = b, !.at = clock]]
      BY <1>2 DEF AskChallenge
    <2>2. QED
      BY <1>1, <2>1 DEF Idle
  <1>3. ASSUME NEW q \in Req, Submit(q)
        PROVE  req[p].kind = "operation" /\ req[p].answer = "ok"
    <2>1. PICK b \in Binding, c \in shown, credential \in Credential :
             req' = [req EXCEPT ![q] = [Idle EXCEPT !.phase = "reserve",
                       !.kind = "operation", !.binding = b, !.id = c.id,
                       !.credential = credential, !.at = clock]]
      BY <1>3 DEF Submit
    <2>2. QED
      BY <1>1, <2>1 DEF Idle
  <1>4. ASSUME NEW q \in Req, CheckCeilings(q) \/ TakeFromLedger(q) \/ LedgerFails(q)
        PROVE  req[p].kind = "operation" /\ req[p].answer = "ok"
    <2>1. req[q] \in Request /\ req[q].answer = "none"
      BY <1>4 DEF CheckCeilings, TakeFromLedger, LedgerFails, IInv, TypeOK, OnItsWay
    <2>2. PICK r : /\ req' = [req EXCEPT ![q] = r]
                   /\ \/ r = [req[q] EXCEPT !.phase = "take"]
                      \/ r = Granted(req[q])
                      \/ r = NotAdmitted(req[q], "quota_exceeded")
                      \/ r = NotAdmitted(req[q], "unavailable")
      <3>1. CASE CheckCeilings(q)
        BY <3>1 DEF CheckCeilings
      <3>2. CASE TakeFromLedger(q) \/ LedgerFails(q)
        BY <3>2 DEF TakeFromLedger, LedgerFails
      <3>3. QED
        BY <1>4, <3>1, <3>2
    <2>3. r.answer \in {"none", "quota_exceeded", "unavailable"}
      BY <2>1, <2>2 DEF Granted, NotAdmitted, Request
    <2>4. QED
      BY <1>1, <2>2, <2>3
  <1>5. ASSUME NEW q \in Req, StoreChallenge(q)
        PROVE  req[p].kind = "operation" /\ req[p].answer = "ok"
    <2>1. req[q] \in Request /\ req[q].kind = "challenge"
      BY <1>5 DEF StoreChallenge, IInv, TypeOK, OnItsWay
    <2>2. PICK code, id : req' = [req EXCEPT ![q] = [req[q] EXCEPT
                              !.phase = "done", !.answer = code, !.id = id]]
      BY <1>5 DEF StoreChallenge
    <2>3. QED
      BY <1>1, <2>1, <2>2 DEF Request
  <1>6. ASSUME NEW q \in Req, Spend(q)
        PROVE  req[p].kind = "operation" /\ req[p].answer = "ok"
    <2>1. req[q] \in Request /\ req[q].answer = "none"
      BY <1>6 DEF Spend, IInv, TypeOK, OnItsWay
    <2> DEFINE taking == Spendable(rows[req[q].binding], req[q])
    <2>2. \E code, t :
             \/ req' = [req EXCEPT ![q] = [[req[q] EXCEPT !.phase = "verify",
                                !.spending = code] EXCEPT !.took = t]]
             \/ req' = [req EXCEPT ![q] = [req[q] EXCEPT !.phase = "verify",
                                !.spending = code]]
      <3>1. CASE req' = [req EXCEPT ![q] =
                  [[req[q] EXCEPT !.phase = "verify",
                       !.spending = IF taking THEN "ok" ELSE "forbidden"]
                     EXCEPT !.took = taking]]
        BY <3>1
      <3>2. CASE req' = [req EXCEPT ![q] =
                  [[req[q] EXCEPT !.phase = "verify", !.spending = "unavailable"]
                     EXCEPT !.took = taking]]
        BY <3>2
      <3>3. CASE req' = [req EXCEPT ![q] =
                  [req[q] EXCEPT !.phase = "verify", !.spending = "unavailable"]]
        BY <3>3
      <3>4. QED
        BY <1>6, <3>1, <3>2, <3>3 DEF Spend
    <2>3. PICK code, t :
             \/ req' = [req EXCEPT ![q] = [[req[q] EXCEPT !.phase = "verify",
                                !.spending = code] EXCEPT !.took = t]]
             \/ req' = [req EXCEPT ![q] = [req[q] EXCEPT !.phase = "verify",
                                !.spending = code]]
      BY <2>2
    <2>4. /\ [[req[q] EXCEPT !.phase = "verify", !.spending = code]
                EXCEPT !.took = t].answer = "none"
          /\ [req[q] EXCEPT !.phase = "verify", !.spending = code].answer = "none"
      BY <2>1 DEF Request
    <2> HIDE DEF taking
    <2>5. QED
      BY <1>1, <2>3, <2>4
  <1>7. ASSUME NEW q \in Req, VerifyCredential(q)
        PROVE  req[p].kind = "operation" /\ req[p].answer = "ok"
    <2>1. req[q] \in Request /\ (req[q].phase = "verify" => req[q].answer # "ok")
      BY <1>7 DEF IInv, TypeOK, GateHeld
    <2>2. PICK code \in {"quota_exceeded", "unavailable", "forbidden"} : \E r :
             /\ req' = [req EXCEPT ![q] = r]
             /\ \/ r = [req[q] EXCEPT !.phase = "done", !.answer = code]
                \/ r = [req[q] EXCEPT !.phase = "perform"]
      BY <1>7 DEF VerifyCredential
    <2>3. PICK r :
             /\ req' = [req EXCEPT ![q] = r]
             /\ \/ r = [req[q] EXCEPT !.phase = "done", !.answer = code]
                \/ r = [req[q] EXCEPT !.phase = "perform"]
      BY <2>2
    <2>4. r.answer # "ok"
      BY <1>7, <2>1, <2>3 DEF VerifyCredential, Request
    <2>5. QED
      BY <1>1, <2>3, <2>4
  <1>8. ASSUME Tick \/ UNCHANGED vars
        PROVE  req[p].kind = "operation" /\ req[p].answer = "ok"
    BY <1>8 DEF Tick, vars
  <1>9. QED
    BY <1>2, <1>3, <1>4, <1>5, <1>6, <1>7, <1>8 DEF Waiting

LEMMA ClosedType == Closed \in GateRecord /\ Tracks(Closed, req)
  <1>1. Idle.binding \in Binding
    BY ConfirmationAssumption DEF Idle
  <1>2. QED
    BY <1>1 DEF Closed, GateRecord, Code, Tracks, writeIsCertainlyAbsent

\* One gate moves at a time, and what holds of the others goes on holding.
LEMMA OneGateMoves ==
    ASSUME GateInv, Waiting, IInv', NEW g \in Gate, NEW w \in GateRecord,
           gate' = [gate EXCEPT ![g] = w], Tracks(w, req'), UNCHANGED written
    PROVE  GateInv'
  <1>1. \A p \in Req : Kept(req, req', p)
    BY CoreKeeps, WaitingSteps DEF GateInv
  <1>2. \A o \in Gate : Tracks(gate[o], req')
    BY <1>1, TracksOn DEF GateInv
  <1>3. /\ gate' \in [Gate -> GateRecord]
        /\ \A o \in Gate : Tracks(gate'[o], req')
    BY <1>2 DEF GateInv
  <1>4. WrittenAnswered' /\ written' \subseteq Req
    BY <1>1 DEF GateInv, WrittenAnswered, Kept
  <1>5. DoneWritten'
    BY WaitingAnswers DEF GateInv, DoneWritten
  <1>6. QED
    BY <1>3, <1>4, <1>5 DEF GateInv

LEMMA GatesRest ==
    ASSUME GateInv, Waiting, IInv', UNCHANGED gateVars
    PROVE  GateInv'
  <1>1. \A p \in Req : Kept(req, req', p)
    BY CoreKeeps, WaitingSteps DEF GateInv
  <1>2. \A o \in Gate : Tracks(gate'[o], req')
    BY <1>1, TracksOn DEF GateInv, gateVars
  <1>3. WrittenAnswered' /\ written' \subseteq Req
    BY <1>1 DEF GateInv, WrittenAnswered, Kept, gateVars
  <1>4. DoneWritten'
    BY WaitingAnswers DEF GateInv, DoneWritten, gateVars
  <1>5. QED
    BY <1>2, <1>3, <1>4 DEF GateInv, gateVars

LEMMA CarryOutStep ==
    ASSUME GateInv, IInv', NEW q \in Req, CarryOut(q) PROVE GateInv'
  <1>1. [Next]_vars
    BY DEF CarryOut, Next, Step
  <1>2. \A p \in Req : Kept(req, req', p)
    BY <1>1, CoreKeeps DEF GateInv
  <1>3. \A o \in Gate : Tracks(gate'[o], req')
    BY <1>2, TracksOn DEF GateInv, CarryOut
  <1>4. /\ req'[q].phase = "done" /\ req'[q].kind = "operation"
        /\ req'[q].answer \in {"ok", "forbidden", "unavailable"}
    <2>1. PICK code \in {"ok", "forbidden", "unavailable"} :
             req' = [req EXCEPT ![q] = [req[q] EXCEPT !.phase = "done",
                                                     !.answer = code]]
      BY DEF CarryOut, Perform
    <2>2. /\ req[q] \in Request /\ req[q].kind = "operation"
          /\ req' = [req EXCEPT ![q] = [req[q] EXCEPT !.phase = "done",
                                                      !.answer = code]]
          /\ req \in [Req -> Request]
      BY <2>1 DEF CarryOut, Perform, GateInv, IInv, TypeOK, OnItsWay
    <2>3. QED
      BY <2>2 DEF Request
  <1>5. written' = written \/ (written' = written \cup {q}
                                 /\ req'[q].answer \in {"ok", "unavailable"})
    <2>1. PICK wrote \in MayHaveWritten(req'[q].answer) :
             written' = IF wrote THEN written \cup {q} ELSE written
      BY DEF CarryOut
    <2>2. req'[q].answer = "forbidden" => ~ wrote
      BY <2>1 DEF MayHaveWritten
    <2>3. QED
      BY <1>4, <2>1, <2>2
  <1>6. WrittenAnswered' /\ written' \subseteq Req
    BY <1>2, <1>4, <1>5 DEF GateInv, WrittenAnswered, Kept
  <1>7. DoneWritten'
    <2>1. req'[q].answer = "ok" => q \in written'
      <3>1. PICK wrote \in MayHaveWritten(req'[q].answer) :
               written' = IF wrote THEN written \cup {q} ELSE written
        BY DEF CarryOut
      <3>2. req'[q].answer = "ok" => wrote
        BY <3>1 DEF MayHaveWritten
      <3>3. QED
        BY <3>1, <3>2
    <2>2. \A p \in Req : p # q => req'[p] = req[p]
      BY DEF CarryOut, Perform, GateInv, IInv, TypeOK
    <2>3. QED
      BY <1>5, <2>1, <2>2 DEF GateInv, DoneWritten
  <1>8. QED
    BY <1>3, <1>6, <1>7 DEF GateInv, CarryOut

-----------------------------------------------------------------------------
\* The gate's own steps.

\* A gate that closes, be it by what surrounds it.
LEMMA CloseTracks ==
    ASSUME GateInv, NEW g \in Gate, NEW how \in {"dismissed", "left", "replaced"},
           \/ gate[g].phase \notin {"deriving", "submitting"}
           \/ how = "left"
    PROVE  CloseAs(g, how) \in GateRecord /\ Tracks(CloseAs(g, how), req)
  <1>1. gate[g] \in GateRecord /\ Tracks(gate[g], req)
    BY DEF GateInv
  <1>2. CASE gate[g].phase \in {"deriving", "submitting"}
    <2> DEFINE w == [gate[g] EXCEPT !.screen = "left"]
    <2>1. CloseAs(g, how) = w
      BY <1>2 DEF CloseAs
    <2>2. /\ w \in GateRecord /\ w.phase = gate[g].phase /\ w.code = gate[g].code
          /\ w.binding = gate[g].binding /\ w.asked = gate[g].asked
          /\ w.screen = "left"
      BY <1>1 DEF GateRecord
    <2> HIDE DEF w
    <2>3. Tracks(w, req)
      BY <1>1, <1>2, <2>2 DEF Tracks
    <2>4. QED
      BY <2>1, <2>2, <2>3
  <1>3. CASE gate[g].phase \notin {"deriving", "submitting"}
    BY <1>3, ClosedType DEF CloseAs
  <1>4. QED
    BY <1>2, <1>3

\* The panel a gate ends in.
LEMMA SettledTracks ==
    ASSUME GateInv, NEW g \in Gate, gate[g].phase = "submitting",
           NEW code \in Code,
           writeIsCertainlyAbsent(code) \/ code = "ok" =>
              /\ req[gate[g].asked].phase = "done"
              /\ req[gate[g].asked].answer = code
    PROVE  Settled(g, code) \in GateRecord /\ Tracks(Settled(g, code), req)
  <1>1. gate[g] \in GateRecord /\ Tracks(gate[g], req)
    BY DEF GateInv
  <1>2. PICK phase \in {"failed", "settled"} :
          Settled(g, code) = [gate[g] EXCEPT !.code = code, !.phase = phase]
    BY DEF Settled
  <1>3. /\ gate[g].asked \in Req /\ req[gate[g].asked].kind = "operation"
        /\ \/ gate[g].screen \in {"open", "left"}
           \/ gate[g].screen = "replaced" /\ Does[gate[g].binding] \in Nested
    BY <1>1 DEF Tracks
  <1> DEFINE w == [gate[g] EXCEPT !.code = code, !.phase = phase]
  <1>4. /\ w \in GateRecord /\ w.phase = phase /\ w.code = code
        /\ w.binding = gate[g].binding /\ w.asked = gate[g].asked
        /\ w.screen = gate[g].screen
    BY <1>1 DEF GateRecord
  <1> HIDE DEF w
  <1>5. Tracks(w, req)
    BY <1>3, <1>4 DEF Tracks
  <1>6. QED
    BY <1>2, <1>4, <1>5 DEF w

LEMMA GateStepKeeps ==
    ASSUME GateInv, NEW g \in Gate, GateStep(g), IInv'
    PROVE  GateInv'
  <1>1. /\ gate[g] \in GateRecord /\ Tracks(gate[g], req)
        /\ gate \in [Gate -> GateRecord] /\ req \in [Req -> Request]
    BY DEF GateInv, IInv, TypeOK
  <1>2. ASSUME UNCHANGED <<vars, written>>,
               NEW w \in GateRecord, Tracks(w, req), gate' = [gate EXCEPT ![g] = w]
        PROVE  GateInv'
    <2>1. Tracks(w, req') /\ Waiting /\ UNCHANGED written
      BY <1>2 DEF vars, Waiting
    <2>2. QED
      BY <1>2, <2>1, OneGateMoves
  <1>3. CASE Begin(g)
    <2>1. PICK b \in Binding :
             gate' = [gate EXCEPT ![g] = [Closed EXCEPT !.phase = "preparing",
                        !.binding = b, !.screen = "open"]]
      BY <1>3 DEF Begin
    <2> DEFINE w == [Closed EXCEPT !.phase = "preparing", !.binding = b,
                                   !.screen = "open"]
    <2>2. /\ w \in GateRecord /\ w.phase = "preparing" /\ w.asked = NoReq
          /\ w.screen = "open" /\ w.code = "none"
      BY ClosedType DEF Closed, GateRecord
    <2>3. gate' = [gate EXCEPT ![g] = w]
      BY <2>1
    <2> HIDE DEF w
    <2>4. Tracks(w, req)
      BY <2>2 DEF Tracks, writeIsCertainlyAbsent
    <2>5. QED
      BY <1>2, <1>3, <2>2, <2>3, <2>4 DEF Begin
  <1>4. CASE \E q \in Req : RequestChallenge(g, q)
    <2>1. PICK q \in Req : RequestChallenge(g, q)
      BY <1>4
    <2>2. PICK b \in Binding :
             /\ req' = [req EXCEPT ![q] = [Idle EXCEPT !.phase = "reserve",
                          !.kind = "challenge", !.binding = b, !.at = clock]]
      BY <2>1 DEF RequestChallenge, AskChallenge
    <2>3. req'[q].binding = b /\ req'[q].kind = "challenge"
      BY <1>1, <2>2, IdleType DEF Request
    <2> DEFINE w == [Closed EXCEPT !.phase = "requesting", !.binding = b,
                                   !.asked = q, !.screen = "open"]
    <2>4. /\ w \in GateRecord /\ w.phase = "requesting" /\ w.asked = q
          /\ w.screen = "open" /\ w.code = "none"
      BY ClosedType DEF Closed, GateRecord
    <2>5. gate' = [gate EXCEPT ![g] = w]
      BY <2>1, <2>3 DEF RequestChallenge
    <2>6. Waiting /\ UNCHANGED written
      BY <2>1 DEF RequestChallenge, Waiting
    <2> HIDE DEF w
    <2>7. Tracks(w, req')
      BY <2>3, <2>4 DEF Tracks, writeIsCertainlyAbsent
    <2>8. QED
      BY <2>4, <2>5, <2>6, <2>7, OneGateMoves
  <1>5. CASE HearChallenge(g)
    <2> DEFINE r == req[gate[g].asked]
    <2>1. /\ gate[g].phase = "requesting" /\ gate[g].screen = "open"
          /\ r \in Request /\ r.kind = "challenge"
      BY <1>1, <1>5 DEF HearChallenge, Open, Tracks
    <2>2. \/ gate' = [gate EXCEPT ![g] = [gate[g] EXCEPT !.phase = "challenged",
                                                        !.id = r.id]]
          \/ /\ gate' = [gate EXCEPT ![g] = [gate[g] EXCEPT !.phase = "failed",
                                                           !.code = r.answer]]
             /\ r.answer # "ok"
      BY <1>1, <1>5 DEF HearChallenge
    <2>3. r.id \in Nat /\ r.answer \in Code
      BY <2>1 DEF Request, Code
    <2> HIDE DEF r
    <2>4. PICK w \in GateRecord : /\ gate' = [gate EXCEPT ![g] = w]
                                  /\ w.phase \in {"challenged", "failed"}
                                  /\ w.asked = gate[g].asked
                                  /\ w.screen = gate[g].screen
                                  /\ w.binding = gate[g].binding
                                  /\ w.code # "ok"
                                  /\ w.phase = "challenged" => w.code = "none"
      <3>1. CASE gate' = [gate EXCEPT ![g] = [gate[g] EXCEPT
                            !.phase = "challenged", !.id = r.id]]
        <4> DEFINE w == [gate[g] EXCEPT !.phase = "challenged", !.id = r.id]
        <4>1. /\ w \in GateRecord /\ w.phase = "challenged"
              /\ w.asked = gate[g].asked /\ w.screen = gate[g].screen
              /\ w.binding = gate[g].binding /\ w.code = gate[g].code
          BY <1>1, <2>3 DEF GateRecord
        <4>3. gate[g].code = "none"
          BY <1>1, <2>1 DEF Tracks
        <4>2. QED
          BY <3>1, <4>1, <4>3
      <3>2. CASE /\ gate' = [gate EXCEPT ![g] = [gate[g] EXCEPT
                               !.phase = "failed", !.code = r.answer]]
                 /\ r.answer # "ok"
        <4> DEFINE w == [gate[g] EXCEPT !.phase = "failed", !.code = r.answer]
        <4>1. /\ w \in GateRecord /\ w.phase = "failed"
              /\ w.asked = gate[g].asked /\ w.screen = gate[g].screen
              /\ w.binding = gate[g].binding /\ w.code = r.answer
          BY <1>1, <2>3 DEF GateRecord
        <4>2. QED
          BY <3>2, <4>1
      <3>3. QED
        BY <2>2, <3>1, <3>2
    <2>5. Tracks(w, req)
      BY <1>1, <2>1, <2>4 DEF Tracks
    <2>6. QED
      BY <1>2, <1>5, <2>4, <2>5 DEF HearChallenge
  <1>6. CASE Approve(g)
    <2>1. gate[g].phase = "challenged" /\ gate[g].screen = "open"
      BY <1>6 DEF Approve, Open
    <2>2. CASE gate' = [gate EXCEPT ![g] = CloseAs(g, "replaced")]
      <3>1. /\ CloseAs(g, "replaced") \in GateRecord
            /\ Tracks(CloseAs(g, "replaced"), req)
        BY <2>1, CloseTracks
      <3>2. QED
        BY <1>2, <1>6, <2>2, <3>1 DEF Approve
    <2>3. CASE gate' = [gate EXCEPT ![g] = [gate[g] EXCEPT
                          !.phase = "deriving", !.screen = ScreenAfterSubmit(g)]]
      <3>1. \/ ScreenAfterSubmit(g) = "open"
            \/ ScreenAfterSubmit(g) = "replaced" /\ Does[gate[g].binding] \in Nested
        BY <2>1 DEF ScreenAfterSubmit, KindOf
      <3> DEFINE w == [gate[g] EXCEPT !.phase = "deriving",
                                      !.screen = ScreenAfterSubmit(g)]
      <3>2. /\ w \in GateRecord /\ w.phase = "deriving"
            /\ w.screen = ScreenAfterSubmit(g) /\ w.code = gate[g].code
            /\ w.asked = gate[g].asked /\ w.binding = gate[g].binding
        BY <1>1, <2>1, <3>1 DEF GateRecord
      <3>3. gate' = [gate EXCEPT ![g] = w]
        BY <2>3
      <3> HIDE DEF w
      <3>4. Tracks(w, req)
        BY <1>1, <2>1, <3>1, <3>2 DEF Tracks
      <3>5. QED
        BY <1>2, <1>6, <3>2, <3>3, <3>4 DEF Approve
    <2>4. QED
      BY <1>6, <2>2, <2>3 DEF Approve
  <1>7. CASE DerivationFails(g)
    <2> DEFINE w == [gate[g] EXCEPT !.phase = "challenged"]
    <2>1. gate[g].phase = "deriving" /\ gate' = [gate EXCEPT ![g] = w]
      BY <1>7 DEF DerivationFails
    <2>2. w \in GateRecord /\ Tracks(w, req)
      BY <1>1, <2>1 DEF GateRecord, Tracks
    <2>3. QED
      BY <1>2, <1>7, <2>1, <2>2 DEF DerivationFails
  <1>8. CASE \E q \in Req : SubmitConfirmed(g, q)
    <2>1. PICK q \in Req : SubmitConfirmed(g, q)
      BY <1>8
    <2> DEFINE w == [gate[g] EXCEPT !.phase = "submitting", !.asked = q]
    <2>2. gate[g].phase = "deriving" /\ gate' = [gate EXCEPT ![g] = w]
      BY <2>1 DEF SubmitConfirmed
    <2>3. /\ w \in GateRecord /\ w.phase = "submitting" /\ w.asked = q
          /\ w.screen = gate[g].screen /\ w.binding = gate[g].binding
          /\ w.code = gate[g].code
      BY <1>1 DEF GateRecord
    <2> HIDE DEF w
    <2>4. req'[q].kind = "operation"
      BY <1>1, <2>1, IdleType DEF SubmitConfirmed, Submit, Request
    <2>5. Tracks(w, req')
      BY <1>1, <2>2, <2>3, <2>4 DEF Tracks, writeIsCertainlyAbsent
    <2>6. Waiting /\ UNCHANGED written
      BY <2>1 DEF SubmitConfirmed, Waiting
    <2>7. QED
      BY <2>2, <2>3, <2>5, <2>6, OneGateMoves
  <1>9. CASE HearAnswer(g)
    <2> DEFINE r == req[gate[g].asked]
               code == Read(g, r.answer)
    <2>1. /\ gate[g].phase = "submitting" /\ r \in Request /\ r.phase = "done"
          /\ gate' = [gate EXCEPT ![g] = Settled(g, code)]
      BY <1>1, <1>9 DEF HearAnswer, Answered, Tracks
    <2>2. writeIsCertainlyAbsent(code) \/ code = "ok" => r.answer = code
      BY <2>1 DEF Read, Code, Request, writeIsCertainlyAbsent
    <2> HIDE DEF code
    <2>3. code \in Code
      BY <2>1 DEF code, Read, Code, Request
    <2>4. Settled(g, code) \in GateRecord /\ Tracks(Settled(g, code), req)
      BY <2>1, <2>2, <2>3, SettledTracks
    <2>5. QED
      BY <1>2, <1>9, <2>1, <2>4 DEF HearAnswer
  <1>10. CASE LoseAnswer(g)
    <2>1. CASE gate[g].phase = "requesting"
      <3> DEFINE w == [gate[g] EXCEPT !.phase = "failed", !.code = "timeout"]
      <3>1. gate' = [gate EXCEPT ![g] = w]
        BY <1>10, <2>1 DEF LoseAnswer
      <3>2. w \in GateRecord /\ Tracks(w, req)
        BY <1>1, <2>1 DEF GateRecord, Code, Tracks, writeIsCertainlyAbsent
      <3>3. QED
        BY <1>2, <1>10, <3>1, <3>2 DEF LoseAnswer
    <2>2. CASE gate[g].phase = "submitting"
      <3>1. gate' = [gate EXCEPT ![g] = Settled(g, "timeout")]
        BY <1>10, <2>2 DEF LoseAnswer
      <3>2. "timeout" \in Code /\ ~ writeIsCertainlyAbsent("timeout")
        BY DEF Code, writeIsCertainlyAbsent
      <3>3. /\ Settled(g, "timeout") \in GateRecord
            /\ Tracks(Settled(g, "timeout"), req)
        BY <2>2, <3>2, SettledTracks
      <3>4. QED
        BY <1>2, <1>10, <3>1, <3>3 DEF LoseAnswer
    <2>3. QED
      BY <1>10, <2>1, <2>2 DEF LoseAnswer
  <1>11. CASE Dismiss(g)
    <2>1. /\ gate[g].phase \notin {"deriving", "submitting"}
          /\ gate' = [gate EXCEPT ![g] = CloseAs(g, "dismissed")]
      BY <1>11 DEF Dismiss, Dismissible
    <2>2. CloseAs(g, "dismissed") \in GateRecord
          /\ Tracks(CloseAs(g, "dismissed"), req)
      BY <2>1, CloseTracks
    <2>3. QED
      BY <1>2, <1>11, <2>1, <2>2 DEF Dismiss
  <1>12. CASE Leave(g)
    <2>1. CloseAs(g, "left") \in GateRecord /\ Tracks(CloseAs(g, "left"), req)
      BY CloseTracks
    <2>2. QED
      BY <1>2, <1>12, <2>1 DEF Leave
  <1>13. QED
    BY <1>3, <1>4, <1>5, <1>6, <1>7, <1>8, <1>9, <1>10, <1>11, <1>12
       DEF GateStep

-----------------------------------------------------------------------------
LEMMA GateInitInv == GateInit => GateInv
  <1> SUFFICES ASSUME GateInit PROVE GateInv
    OBVIOUS
  <1>1. IInv
    BY InitIInv DEF GateInit
  <1>2. QED
    BY <1>1, ClosedType DEF GateInit, GateInv, WrittenAnswered, DoneWritten, Init, Idle

\* The gate's invariant is inductive, whichever gates are inside another form.
THEOREM GateInvariance == GateSpec => []GateInv
  <1>1. GateInv /\ IInv' /\ [GateNext]_allVars => GateInv'
    <2> SUFFICES ASSUME GateInv, IInv', [GateNext]_allVars PROVE GateInv'
      OBVIOUS
    <2>1. ASSUME NEW g \in Gate, GateStep(g) PROVE GateInv'
      BY <2>1, GateStepKeeps
    <2>2. ASSUME NEW q \in Req, CarryOut(q) PROVE GateInv'
      BY <2>2, CarryOutStep
    <2>3. ASSUME NEW q \in Req, Stray(q) \/ Core(q) PROVE GateInv'
      BY <2>3, GatesRest DEF Stray, Core, Waiting
    <2>4. CASE GateTick \/ UNCHANGED allVars
      <3>1. UNCHANGED gateVars /\ Waiting
        BY <2>4 DEF GateTick, allVars, Waiting
      <3>2. QED
        BY <3>1, GatesRest
    <2>5. QED
      BY <2>1, <2>2, <2>3, <2>4 DEF GateNext
  <1>2. Spec => []IInv
    BY Invariance
  <1>3. QED
    BY <1>1, <1>2, GateInitInv, GateImplementsConfirmation, PTL DEF GateSpec

\* The gates' records keep their types, over Confirmation's.
THEOREM GateTypeCorrect == GateSpec => []GateTypeOK
  <1>1. GateInv => GateTypeOK
    BY DEF GateInv, GateTypeOK, IInv
  <1>2. QED
    BY <1>1, GateInvariance, PTL

\* What Confirmation promises it promises under the gate too.
THEOREM GateSingleUse == GateSpec => []SingleUse
  BY GateImplementsConfirmation, ConfirmationSingleUse, PTL

\* Of an operation that was carried out its operator is told at the gate that
\* sent it, unless the operator left it or the form around it took its screen
\* away: what is under way cannot be dismissed, and an answer that was lost is
\* not taken for a refusal. What is told to be done was done (ConfirmationGate,
\* ResetCredential, writeIsCertainlyAbsent).
THEOREM OutcomeHeard == GateSpec => []OutcomeIsHeard
  <1>1. GateInv => OutcomeIsHeard
    <2> SUFFICES ASSUME GateInv, NEW g \in Gate
                 PROVE  /\ gate[g].asked \in written =>
                              \/ gate[g].screen = "left"
                              \/ gate[g].screen = "replaced" /\ KindOf(g) \in Nested
                              \/ Open(g) /\ ~ writeIsCertainlyAbsent(gate[g].code)
                        /\ gate[g].code = "ok" => gate[g].asked \in written
      BY DEF OutcomeIsHeard
    <2>1. gate[g] \in GateRecord /\ Tracks(gate[g], req)
      BY DEF GateInv
    <2>2. ASSUME gate[g].asked \in written
          PROVE  \/ gate[g].screen = "left"
                 \/ gate[g].screen = "replaced" /\ KindOf(g) \in Nested
                 \/ Open(g) /\ ~ writeIsCertainlyAbsent(gate[g].code)
      <3>1. gate[g].asked \in Req /\ gate[g].asked # NoReq
        BY <2>2, AdminGateAssumption DEF GateInv
      <3>2. /\ req[gate[g].asked].kind = "operation"
            /\ req[gate[g].asked].answer \in {"ok", "unavailable"}
        BY <2>2 DEF GateInv, WrittenAnswered
      <3>3. gate[g].phase # "closed"
        BY <2>1, <3>1 DEF Tracks
      <3>4. \/ gate[g].screen \in {"open", "left"}
            \/ gate[g].screen = "replaced" /\ KindOf(g) \in Nested
        BY <2>1, <3>3 DEF Tracks, KindOf
      <3>5. ~ writeIsCertainlyAbsent(gate[g].code)
        BY <2>1, <3>2 DEF Tracks, writeIsCertainlyAbsent
      <3>6. QED
        BY <3>4, <3>5 DEF Open
    <2>3. gate[g].code = "ok" => gate[g].asked \in written
      BY <2>1 DEF Tracks, GateInv, DoneWritten
    <2>4. QED
      BY <2>2, <2>3
  <1>2. QED
    BY <1>1, GateInvariance, PTL

-----------------------------------------------------------------------------
(* Sums over a finite set.                                                   *)
(* SumFunctionOnSet picks one element after the other, by CHOOSE; its        *)
(* recursion is a function on the subsets.                                   *)

Pick(s) == CHOOSE x \in s : TRUE

Adds(iter, f, S) ==
    iter = [s \in SUBSET S |-> IF s = {} THEN 0 ELSE f[Pick(s)] + iter[s \ {Pick(s)}]]

\* What holds of the empty set, and of a set when it does without its pick,
\* holds of every finite set.
LEMMA ByPicks ==
    ASSUME NEW S, IsFiniteSet(S), NEW G, {} \in G,
           \A s \in SUBSET S : s # {} /\ s \ {Pick(s)} \in G => s \in G
    PROVE  SUBSET S \subseteq G
  <1>1. PICK bad : bad = (SUBSET S) \ G
    OBVIOUS
  <1>2. SUFFICES ASSUME bad # {} PROVE FALSE
    BY <1>1
  <1>3. bad \subseteq FiniteSubsetsOf(S)
    BY <1>1, FS_Subset DEF FiniteSubsetsOf
  <1>4. PICK s \in bad : \A t \in bad : <<t, s>> \notin StrictSubsetOrdering(S)
    BY <1>2, <1>3, FS_StrictSubsetOrderingWellFounded, WFMin
  <1>5. s \in SUBSET S /\ s # {}
    BY <1>1
  <1>6. PICK t : t = s \ {Pick(s)}
    OBVIOUS
  <1>7. Pick(s) \in s
    BY <1>5 DEF Pick
  <1>8. t \in SUBSET S /\ t \subseteq s /\ t # s
    BY <1>5, <1>6, <1>7
  <1>9. <<t, s>> \in StrictSubsetOrdering(S)
    BY <1>5, <1>8 DEF StrictSubsetOrdering
  <1>10. t \in G
    BY <1>1, <1>4, <1>8, <1>9
  <1>11. QED
    BY <1>1, <1>5, <1>6, <1>10

\* The recursion has a solution.
LEMMA AddsExists ==
    ASSUME NEW S, IsFiniteSet(S), NEW f
    PROVE  \E iter : Adds(iter, f, S)
  <1> DEFINE Upto(n) == {s \in SUBSET S : Cardinality(s) <= n}
             Sums(g, s) == IF s = {} THEN 0 ELSE f[Pick(s)] + g[s \ {Pick(s)}]
             Solved == {n \in Nat : \E g : g = [s \in Upto(n) |-> Sums(g, s)]}
  <1>1. \A s \in SUBSET S : /\ IsFiniteSet(s) /\ Cardinality(s) \in Nat
                            /\ s # {} => /\ Pick(s) \in s
                                         /\ s \ {Pick(s)} \in SUBSET S
                                         /\ Cardinality(s \ {Pick(s)}) = Cardinality(s) - 1
    <2>1. ASSUME NEW s \in SUBSET S PROVE IsFiniteSet(s) /\ Cardinality(s) \in Nat
      BY FS_Subset, FS_CardinalityType
    <2>2. ASSUME NEW s \in SUBSET S, s # {}
          PROVE  /\ Pick(s) \in s /\ s \ {Pick(s)} \in SUBSET S
                 /\ Cardinality(s \ {Pick(s)}) = Cardinality(s) - 1
      <3>1. Pick(s) \in s
        BY <2>2 DEF Pick
      <3>2. QED
        BY <2>1, <3>1, FS_RemoveElement
    <2>3. QED
      BY <2>1, <2>2
  <1>2. 0 \in Solved
    <2>1. PICK g : g = [s \in Upto(0) |-> 0]
      OBVIOUS
    <2>2. ASSUME NEW s \in Upto(0) PROVE s = {}
      <3>1. Cardinality(s) <= 0 /\ Cardinality(s) \in Nat /\ IsFiniteSet(s)
        BY <1>1, <2>2
      <3>2. QED
        BY <1>1, <3>1, FS_EmptySet
    <2>3. g = [s \in Upto(0) |-> Sums(g, s)]
      BY <2>1, <2>2
    <2>4. QED
      BY <2>3
  <1>3. ASSUME NEW n \in Solved PROVE n + 1 \in Solved
    <2>1. PICK g : g = [s \in Upto(n) |-> Sums(g, s)]
      OBVIOUS
    <2>2. PICK h : h = [s \in Upto(n + 1) |-> Sums(g, s)]
      OBVIOUS
    <2>3. ASSUME NEW s \in Upto(n) PROVE s \in Upto(n + 1) /\ h[s] = g[s]
      <3>1. n \in Nat /\ Cardinality(s) \in Nat
        BY <1>1
      <3>2. s \in Upto(n + 1)
        BY <3>1
      <3>3. h[s] = Sums(g, s) /\ g[s] = Sums(g, s)
        <4> HIDE DEF Upto, Sums
        <4>1. QED
          BY <2>1, <2>2, <2>3, <3>2
      <3>4. QED
        BY <3>2, <3>3
    <2>4. ASSUME NEW s \in Upto(n + 1) PROVE Sums(g, s) = Sums(h, s)
      <3>1. CASE s = {}
        BY <3>1
      <3>2. CASE s # {}
        <4>1. s \ {Pick(s)} \in Upto(n)
          BY <1>1, <3>2
        <4>2. h[s \ {Pick(s)}] = g[s \ {Pick(s)}]
          BY <2>3, <4>1
        <4>3. QED
          BY <3>2, <4>2
      <3>3. QED
        BY <3>1, <3>2
    <2>5. h = [s \in Upto(n + 1) |-> Sums(h, s)]
      <3> HIDE DEF Upto, Sums
      <3>1. QED
        BY <2>2, <2>4
    <2>6. n + 1 \in Nat
      OBVIOUS
    <2>7. QED
      <3> HIDE DEF Upto, Sums
      <3>1. QED
        BY <2>5, <2>6
  <1>4. Solved = Nat
    <2>1. SUFFICES ASSUME Nat \ Solved # {} PROVE FALSE
      OBVIOUS
    <2>2. PICK bad : bad = Nat \ Solved
      OBVIOUS
    <2>3. PICK n \in bad : \A k \in bad : <<k, n>> \notin OpToRel(<, Nat)
      <3> HIDE DEF Solved
      <3>1. bad \subseteq Nat /\ bad # {}
        BY <2>1, <2>2
      <3>2. QED
        BY <3>1, NatLessThanWellFounded, WFMin
    <2>4. n \in Nat /\ n # 0 /\ n - 1 \in Nat
      <3> HIDE DEF Solved
      <3>1. n \in Nat /\ n # 0
        BY <1>2, <2>2, <2>3
      <3>2. QED
        BY <3>1
    <2>5. n - 1 \notin bad
      <3> HIDE DEF Solved
      <3>1. <<n - 1, n>> \in OpToRel(<, Nat)
        BY <2>4 DEF OpToRel
      <3>2. QED
        BY <2>3, <3>1
    <2>6. QED
      <3>1. n - 1 \in Solved
        BY <2>2, <2>4, <2>5
      <3>2. (n - 1) + 1 = n
        BY <2>4
      <3>3. (n - 1) + 1 \in Solved
        BY <1>3, <3>1
      <3> HIDE DEF Solved
      <3>4. n \in Solved
        BY <3>2, <3>3
      <3>5. QED
        BY <2>2, <3>4
  <1>5. Cardinality(S) \in Solved
    BY <1>1, <1>4
  <1>6. PICK g : g = [s \in Upto(Cardinality(S)) |-> Sums(g, s)]
    BY <1>5
  <1>7. Upto(Cardinality(S)) = SUBSET S
    BY FS_Subset
  <1>8. Adds(g, f, S)
    BY <1>6, <1>7 DEF Adds
  <1>9. QED
    BY <1>8

\* The sum is a solution of it.
LEMMA SumRule ==
    ASSUME NEW S, IsFiniteSet(S), NEW f
    PROVE  \E iter : Adds(iter, f, S) /\ SumFunctionOnSet(f, S) = iter[S]
  <1>1. SumFunctionOnSet(f, S) = (CHOOSE iter : Adds(iter, f, S))[S]
    BY DEF SumFunctionOnSet, FoldFunctionOnSet, MapThenFoldSet, Adds, Pick
  <1>2. QED
    BY <1>1, AddsExists

\* A sum of numbers is one.
LEMMA SumType ==
    ASSUME NEW S, IsFiniteSet(S), NEW f, \A x \in S : f[x] \in Nat
    PROVE  SumFunctionOnSet(f, S) \in Nat
  <1>1. PICK iter : Adds(iter, f, S) /\ SumFunctionOnSet(f, S) = iter[S]
    BY SumRule
  <1>2. PICK G : G = {s \in SUBSET S : iter[s] \in Nat}
    OBVIOUS
  <1>3. {} \in G
    BY <1>1, <1>2 DEF Adds
  <1>4. ASSUME NEW s \in SUBSET S, s # {}, s \ {Pick(s)} \in G PROVE s \in G
    <2>1. iter[s] = f[Pick(s)] + iter[s \ {Pick(s)}] /\ Pick(s) \in s
      BY <1>1, <1>4 DEF Adds, Pick
    <2>2. QED
      BY <1>2, <1>4, <2>1
  <1>5. S \in G
    BY <1>3, <1>4, ByPicks
  <1>6. QED
    BY <1>1, <1>2, <1>5

\* If g exceeds f at most by k, and that at y alone, so does its sum.
LEMMA SumGrows ==
    ASSUME NEW S, IsFiniteSet(S), NEW f, NEW g, NEW y, NEW k \in Int,
           \A x \in S : f[x] \in Int /\ g[x] \in Int,
           \A x \in S : g[x] <= f[x] + (IF x = y THEN k ELSE 0)
    PROVE  /\ SumFunctionOnSet(f, S) \in Int /\ SumFunctionOnSet(g, S) \in Int
           /\ SumFunctionOnSet(g, S) <= SumFunctionOnSet(f, S) + (IF y \in S THEN k ELSE 0)
  <1>1. PICK i : Adds(i, f, S) /\ SumFunctionOnSet(f, S) = i[S]
    BY SumRule
  <1>2. PICK j : Adds(j, g, S) /\ SumFunctionOnSet(g, S) = j[S]
    BY SumRule
  <1>3. PICK G : G = {s \in SUBSET S : /\ i[s] \in Int /\ j[s] \in Int
                                       /\ j[s] <= i[s] + (IF y \in s THEN k ELSE 0)}
    OBVIOUS
  <1>4. {} \in G
    BY <1>1, <1>2, <1>3 DEF Adds
  <1>5. ASSUME NEW s \in SUBSET S, s # {}, s \ {Pick(s)} \in G PROVE s \in G
    <2>1. PICK x \in s : x = Pick(s)
      BY <1>5 DEF Pick
    <2>2. PICK t : t = s \ {x}
      OBVIOUS
    <2>3. i[s] = f[x] + i[t] /\ j[s] = g[x] + j[t]
      BY <1>1, <1>2, <1>5, <2>1, <2>2 DEF Adds
    <2>4. i[t] \in Int /\ j[t] \in Int /\ j[t] <= i[t] + (IF y \in t THEN k ELSE 0)
      BY <1>3, <1>5, <2>1, <2>2
    <2>5. f[x] \in Int /\ g[x] \in Int /\ g[x] <= f[x] + (IF x = y THEN k ELSE 0)
      OBVIOUS
    <2>6. y \in s <=> y \in t \/ y = x
      BY <2>2
    <2>7. x \notin t
      BY <2>2
    <2>8. i[s] \in Int /\ j[s] \in Int
      BY <2>3, <2>4, <2>5
    <2>9. j[s] <= i[s] + (IF y \in s THEN k ELSE 0)
      BY <2>3, <2>4, <2>5, <2>6, <2>7
    <2>10. QED
      BY <1>3, <2>8, <2>9
  <1>6. S \in G
    BY <1>4, <1>5, ByPicks
  <1>7. QED
    BY <1>1, <1>2, <1>3, <1>6

\* Nothing adds up to nothing.
LEMMA SumOfNothing ==
    ASSUME NEW S, IsFiniteSet(S), NEW f, \A x \in S : f[x] = 0
    PROVE  SumFunctionOnSet(f, S) = 0
  <1>1. PICK iter : Adds(iter, f, S) /\ SumFunctionOnSet(f, S) = iter[S]
    BY SumRule
  <1>2. PICK G : G = {s \in SUBSET S : iter[s] = 0}
    OBVIOUS
  <1>3. {} \in G
    BY <1>1, <1>2 DEF Adds
  <1>4. ASSUME NEW s \in SUBSET S, s # {}, s \ {Pick(s)} \in G PROVE s \in G
    <2>1. iter[s] = f[Pick(s)] + iter[s \ {Pick(s)}] /\ Pick(s) \in s
      BY <1>1, <1>4 DEF Adds, Pick
    <2>2. QED
      BY <1>2, <1>4, <2>1
  <1>5. S \in G
    BY <1>3, <1>4, ByPicks
  <1>6. QED
    BY <1>1, <1>2, <1>5

-----------------------------------------------------------------------------
(* The ceilings, when admissions take turns.                                 *)
(* Neither ceiling is inductive: a request is let through by counters that   *)
(* are charged only when the ledger has answered.  The proof needs that one  *)
(* request at most stands between the two, that the counters it was judged   *)
(* by still have the room it was promised, and that they count all that was  *)
(* granted on their day.                                                     *)

Takes(q) == req[q].phase = "take"

OneTakes == \A p, q \in Req : Takes(p) /\ Takes(q) => p = q

RoomKept ==
    \A q \in Req : Takes(q) =>
        /\ platform.day = utcDay(req[q].at)
        /\ principal[By(q)].day = utcDay(req[q].at)
        /\ Fits(platform, PlatformCeiling)
        /\ Fits(principal[By(q)], PrincipalCeiling)

\* What a counter knows of day d.
Known(counter, d) == IF counter.day = d THEN counter.used ELSE 0

Counted ==
    /\ \A p \in Principal : principal[p].day <= platform.day
    /\ \A d \in Day, p \in Principal : d > platform.day => granted[d][p] = 0
    /\ platform.day \in Day =>
         /\ \A p \in Principal :
              granted[platform.day][p] <= Known(principal[p], platform.day)
         /\ SumFunctionOnSet(granted[platform.day], Principal) <= platform.used

InTurn == smooth => OneTakes /\ RoomKept /\ Counted
Turns == InTurn /\ CeilingsHeldInTurn

LEMMA KnownRolled ==
    ASSUME NEW c \in Counter, NEW d \in Int
    PROVE  /\ Rolled(c, d) \in Counter /\ Rolled(c, d).day = d
           /\ Rolled(c, d).used = Known(c, d)
           /\ c.day = d => Rolled(c, d) = c
           /\ Known(c, d) \in Nat
  BY DEF Rolled, Known, Counter

\* A request that moves on without a charge, and not to the ledger.
LEMMA TurnsRest ==
    ASSUME IInv, Turns, NEW q \in Req, NEW r, r.phase # "take",
           req' = [req EXCEPT ![q] = r],
           UNCHANGED <<platform, principal, granted, smooth>>
    PROVE  Turns'
  <1>1. \A x \in Req : Takes(x)' => req'[x] = req[x] /\ Takes(x)
    BY DEF IInv, TypeOK, Takes
  <1>2. CeilingsHeldInTurn'
    BY DEF Turns, CeilingsHeldInTurn
  <1>3. CASE ~ smooth
    BY <1>2, <1>3 DEF Turns, InTurn
  <1>4. CASE smooth
    <2>1. OneTakes /\ RoomKept /\ Counted
      BY <1>4 DEF Turns, InTurn
    <2>2. OneTakes'
      BY <1>1, <2>1 DEF OneTakes
    <2>3. RoomKept'
      BY <1>1, <2>1 DEF RoomKept, By
    <2>4. Counted'
      BY <2>1 DEF Counted
    <2>5. QED
      BY <1>2, <2>2, <2>3, <2>4 DEF Turns, InTurn
  <1>5. QED
    BY <1>3, <1>4

\* The check rolls the counters, and lets a request through that they can hold.
LEMMA CheckKeepsTurns ==
    ASSUME IInv, Turns, NEW q \in Req, CheckCeilings(q) PROVE Turns'
  <1>1. PICK r \in Request : r = req[q]
    BY DEF IInv, TypeOK
  <1>2. PICK p \in Principal : p = By(q)
    BY <1>1, ConfirmationAssumption DEF By, Request
  <1>3. PICK d \in Int : d = utcDay(req[q].at)
    BY <1>1, DayIsInt DEF Request
  <1>4. PICK c \in Counter : c = platform
    BY DEF IInv, TypeOK
  <1>5. PICK m \in Counter : m = principal[p]
    BY DEF IInv, TypeOK
  <1>6. PICK all \in Counter : all = Rolled(c, d)
    BY KnownRolled
  <1>7. PICK own \in Counter : own = Rolled(m, d)
    BY KnownRolled
  <1>8. platform' = all /\ UNCHANGED granted
    BY <1>3, <1>4, <1>6 DEF CheckCeilings
  <1>9. \/ /\ req' = [req EXCEPT ![q] = NotAdmitted(r, "quota_exceeded")]
           /\ principal' = principal \/ principal' = [principal EXCEPT ![p] = own]
        \/ /\ req' = [req EXCEPT ![q] = [r EXCEPT !.phase = "take"]]
           /\ principal' = [principal EXCEPT ![p] = own]
           /\ Fits(all, PlatformCeiling) /\ Fits(own, PrincipalCeiling)
    <2>1. /\ Rolled(platform, utcDay(req[q].at)) = all
          /\ Rolled(principal[By(q)], utcDay(req[q].at)) = own
      BY <1>2, <1>3, <1>4, <1>5, <1>6, <1>7
    <2>2. CASE ~ Fits(all, PlatformCeiling)
      BY <1>1, <2>1, <2>2 DEF CheckCeilings, IInv, TypeOK
    <2>3. CASE Fits(all, PlatformCeiling) /\ ~ Fits(own, PrincipalCeiling)
      BY <1>1, <1>2, <2>1, <2>3 DEF CheckCeilings, IInv, TypeOK
    <2>4. CASE Fits(all, PlatformCeiling) /\ Fits(own, PrincipalCeiling)
      BY <1>1, <1>2, <2>1, <2>4 DEF CheckCeilings, IInv, TypeOK
    <2>5. QED
      BY <2>2, <2>3, <2>4
  <1>10. smooth' = (smooth /\ (\A o \in Req : ~ Takes(o)) /\ c.day <= d)
    BY <1>3, <1>4 DEF CheckCeilings, Takes
  <1>11. CASE ~ smooth'
    BY <1>11 DEF Turns, InTurn, CeilingsHeldInTurn
  <1>12. CASE smooth'
    <2>1. smooth /\ (\A o \in Req : ~ Takes(o)) /\ c.day <= d /\ c.day \in Int
      BY <1>10, <1>12 DEF Counter
    <2>2. Counted /\ CeilingsHeldInTurn
      BY <2>1 DEF Turns, InTurn
    <2>3. all.day = d /\ own.day = d
      BY <1>6, <1>7, KnownRolled
    <2>4. \A x \in Principal : principal'[x] = principal[x]
                               \/ (x = p /\ principal'[x] = own)
      BY <1>9 DEF IInv, TypeOK
    <2>5. ASSUME NEW x \in Principal
          PROVE  principal'[x].day <= d /\ Known(principal'[x], d) = Known(principal[x], d)
      <3>1. PICK n \in Counter : n = principal[x]
        BY DEF IInv, TypeOK
      <3>2. n.day <= c.day /\ n.day \in Int
        BY <1>4, <2>2, <3>1 DEF Counted, Counter
      <3>3. CASE principal'[x] = principal[x]
        BY <2>1, <3>1, <3>2, <3>3
      <3>4. CASE x = p /\ principal'[x] = own
        <4>1. own.used = Known(m, d)
          BY <1>7, KnownRolled
        <4>2. Known(own, d) = Known(m, d)
          BY <2>3, <4>1 DEF Known
        <4>3. QED
          BY <1>5, <2>3, <3>4, <4>2
      <3>5. QED
        BY <2>4, <3>3, <3>4
    <2>6. ASSUME NEW e \in Day, NEW x \in Principal, e > d PROVE granted'[e][x] = 0
      <3>1. e \in Int /\ e > c.day
        BY <2>1, <2>6 DEF Day
      <3>2. QED
        BY <1>4, <1>8, <2>2, <3>1 DEF Counted
    <2>7. ASSUME d \in Day
          PROVE  /\ \A x \in Principal : granted'[d][x] <= Known(principal'[x], d)
                 /\ SumFunctionOnSet(granted'[d], Principal) <= all.used
      <3>1. CASE c.day = d
        <4>1. all = c
          BY <1>6, <3>1, KnownRolled
        <4>2. /\ \A x \in Principal : granted[d][x] <= Known(principal[x], d)
              /\ SumFunctionOnSet(granted[d], Principal) <= c.used
          BY <1>4, <2>2, <2>7, <3>1 DEF Counted
        <4>3. QED
          BY <1>8, <2>5, <4>1, <4>2
      <3>2. CASE c.day # d
        <4>1. d > c.day
          BY <2>1, <3>2
        <4>2. \A x \in Principal : granted[d][x] = 0
          BY <1>4, <2>2, <2>7, <4>1 DEF Counted
        <4>3. SumFunctionOnSet(granted[d], Principal) = 0
          BY <4>2, SumOfNothing, ConfirmationAssumption
        <4>4. \A x \in Principal : Known(principal[x], d) \in Nat
          BY KnownRolled DEF IInv, TypeOK
        <4>5. all.used \in Nat
          BY DEF Counter
        <4>6. QED
          BY <1>8, <2>5, <4>2, <4>3, <4>4, <4>5
      <3>3. QED
        BY <3>1, <3>2
    <2>8. Counted'
      BY <1>8, <2>3, <2>5, <2>6, <2>7 DEF Counted
    <2>9. \A x \in Req : Takes(x)' => /\ x = q
                                      /\ req'[q] = [r EXCEPT !.phase = "take"]
                                      /\ principal' = [principal EXCEPT ![p] = own]
                                      /\ Fits(all, PlatformCeiling)
                                      /\ Fits(own, PrincipalCeiling)
      <3> SUFFICES ASSUME NEW x \in Req, Takes(x)'
                   PROVE  /\ x = q
                          /\ req'[q] = [r EXCEPT !.phase = "take"]
                          /\ principal' = [principal EXCEPT ![p] = own]
                          /\ Fits(all, PlatformCeiling)
                          /\ Fits(own, PrincipalCeiling)
        OBVIOUS
      <3>1. x = q
        BY <1>9, <2>1 DEF Takes, IInv, TypeOK
      <3>2. NotAdmitted(r, "quota_exceeded").phase # "take"
        BY DEF NotAdmitted, Request
      <3>3. req'[q].phase = "take"
        BY <3>1 DEF Takes
      <3>4. ~(req' = [req EXCEPT ![q] = NotAdmitted(r, "quota_exceeded")])
        BY <3>2, <3>3 DEF IInv, TypeOK
      <3>5. QED
        BY <1>9, <3>1, <3>4 DEF IInv, TypeOK
    <2>10. OneTakes'
      BY <2>9 DEF OneTakes
    <2>11. RoomKept'
      <3> SUFFICES ASSUME NEW x \in Req, Takes(x)'
                   PROVE  /\ platform'.day = utcDay(req'[x].at)
                          /\ principal'[By(x)'].day = utcDay(req'[x].at)
                          /\ Fits(platform', PlatformCeiling)
                          /\ Fits(principal'[By(x)'], PrincipalCeiling)
        BY DEF RoomKept
      <3>1. /\ x = q /\ req'[x] = [r EXCEPT !.phase = "take"]
            /\ principal' = [principal EXCEPT ![p] = own]
            /\ Fits(all, PlatformCeiling) /\ Fits(own, PrincipalCeiling)
        BY <2>9
      <3>2. req'[x].at = r.at /\ req'[x].binding = r.binding
        BY <3>1 DEF Request
      <3>3. utcDay(req'[x].at) = d
        BY <1>1, <1>3, <3>2
      <3>4. By(x)' = p
        BY <1>1, <1>2, <3>2 DEF By
      <3>5. principal'[p] = own
        BY <3>1 DEF IInv, TypeOK
      <3>6. QED
        BY <1>8, <2>3, <3>1, <3>3, <3>4, <3>5
    <2>12. CeilingsHeldInTurn'
      BY <1>8, <2>1, <2>2 DEF CeilingsHeldInTurn
    <2>13. QED
      BY <2>8, <2>10, <2>11, <2>12 DEF Turns, InTurn
  <1>13. QED
    BY <1>11, <1>12

\* The charge: the one request on its way finds the room it was promised.
LEMMA ChargeKeepsTurns ==
    ASSUME IInv, Turns, NEW q \in Req, TakeFromLedger(q) PROVE Turns'
  <1>1. PICK r \in Request : r = req[q] /\ r.phase = "take"
    BY DEF IInv, TypeOK, TakeFromLedger
  <1>2. PICK p \in Principal : p = By(q)
    BY <1>1, ConfirmationAssumption DEF By, Request
  <1>3. PICK d \in Int : d = utcDay(req[q].at)
    BY <1>1, DayIsInt DEF Request
  <1>4. CASE Taken(d) < Units
    <2>1. /\ req' = [req EXCEPT ![q] = NotAdmitted(r, "quota_exceeded")]
          /\ UNCHANGED <<principal, platform, granted, smooth>>
      BY <1>1, <1>3, <1>4 DEF TakeFromLedger, IInv, TypeOK
    <2>2. NotAdmitted(r, "quota_exceeded").phase # "take"
      BY DEF NotAdmitted, Request
    <2>3. QED
      BY <2>1, <2>2, TurnsRest
  <1>5. CASE ~ (Taken(d) < Units)
    <2>1. /\ req' = [req EXCEPT ![q] = Granted(r)]
          /\ principal' = [principal EXCEPT ![p].used = @ + Units]
          /\ platform' = [platform EXCEPT !.used = @ + Units]
          /\ granted' = [granted EXCEPT ![d][p] = @ + Units]
          /\ smooth' = smooth
      BY <1>1, <1>2, <1>3, <1>5 DEF TakeFromLedger, IInv, TypeOK
    <2>2. CASE ~ smooth
      BY <2>1, <2>2 DEF Turns, InTurn, CeilingsHeldInTurn
    <2>3. CASE smooth
      <3>1. OneTakes /\ RoomKept /\ Counted /\ CeilingsHeldInTurn
        BY <2>3 DEF Turns, InTurn
      <3>2. Takes(q)
        BY <1>1 DEF Takes
      <3>3. PICK c \in Counter : c = platform
        BY DEF IInv, TypeOK
      <3>4. PICK m \in Counter : m = principal[p]
        BY DEF IInv, TypeOK
      <3>5. /\ c.day = d /\ m.day = d
            /\ c.used + Units <= PlatformCeiling
            /\ m.used + Units <= PrincipalCeiling
        BY <1>2, <1>3, <3>1, <3>2, <3>3, <3>4 DEF RoomKept, Fits
      <3>6. Units \in Nat /\ c.used \in Nat /\ m.used \in Nat
            /\ PrincipalCeiling \in Nat /\ PlatformCeiling \in Nat
        BY ConfirmationAssumption DEF Counter
      <3>7. PICK c1 \in Counter : c1 = platform' /\ c1.day = d /\ c1.used = c.used + Units
        BY <2>1, <3>3, <3>5, <3>6 DEF Counter
      <3>8. PICK m1 \in Counter : /\ m1.day = d /\ m1.used = m.used + Units
                                  /\ principal' = [principal EXCEPT ![p] = m1]
        <4>1. PICK u \in Nat : u = m.used + Units
          BY <3>6
        <4>2. principal' = [principal EXCEPT ![p] = [m EXCEPT !.used = u]]
          BY <2>1, <3>4, <4>1
        <4>3. PICK m1 : m1 = [m EXCEPT !.used = u]
          OBVIOUS
        <4>4. m1 \in Counter /\ m1.day = d /\ m1.used = u
          BY <3>5, <4>1, <4>3 DEF Counter
        <4>5. QED
          BY <4>1, <4>2, <4>3, <4>4
      <3>9. \A e \in Day, x \in Principal :
              /\ granted[e][x] \in Nat
              /\ granted'[e][x] = granted[e][x] + (IF e = d /\ x = p THEN Units ELSE 0)
        BY <2>1, <3>6 DEF IInv, TypeOK
      <3>10. \A x \in Principal : principal'[x] = IF x = p THEN m1 ELSE principal[x]
        BY <3>8 DEF IInv, TypeOK
      <3>11. ASSUME NEW x \in Principal
             PROVE  /\ principal'[x].day <= d
                    /\ Known(principal'[x], d)
                         = Known(principal[x], d) + (IF x = p THEN Units ELSE 0)
        <4>1. CASE x = p
          BY <3>4, <3>5, <3>6, <3>8, <3>10, <4>1 DEF Known
        <4>2. CASE x # p
          <5>1. Known(principal[x], d) \in Nat
            BY KnownRolled DEF IInv, TypeOK
          <5>2. principal[x].day <= d
            BY <3>1, <3>3, <3>5 DEF Counted
          <5>3. QED
            BY <3>10, <4>2, <5>1, <5>2
        <4>3. QED
          BY <4>1, <4>2
      <3>12. ASSUME NEW e \in Day, NEW x \in Principal, e > d PROVE granted'[e][x] = 0
        <4>1. granted[e][x] = 0
          BY <3>1, <3>3, <3>5, <3>12 DEF Counted
        <4>2. e # d
          BY <3>12
        <4>3. QED
          BY <3>9, <4>1, <4>2
      <3>13. ASSUME d \in Day
             PROVE  /\ \A x \in Principal : granted'[d][x] <= Known(principal'[x], d)
                    /\ SumFunctionOnSet(granted'[d], Principal) <= c.used + Units
        <4>1. /\ \A x \in Principal : granted[d][x] <= Known(principal[x], d)
              /\ SumFunctionOnSet(granted[d], Principal) <= c.used
          BY <3>1, <3>3, <3>5, <3>13 DEF Counted
        <4>2. \A x \in Principal : Known(principal[x], d) \in Nat
          BY KnownRolled DEF IInv, TypeOK
        <4>3. \A x \in Principal : granted'[d][x] <= Known(principal'[x], d)
          BY <3>6, <3>9, <3>11, <3>13, <4>1, <4>2
        <4>4. PICK f, g : f = granted[d] /\ g = granted'[d]
          OBVIOUS
        <4>5. \A x \in Principal : f[x] \in Int /\ g[x] \in Int
                                   /\ g[x] <= f[x] + (IF x = p THEN Units ELSE 0)
          BY <3>6, <3>9, <3>13, <4>4
        <4>6. /\ SumFunctionOnSet(f, Principal) \in Int
              /\ SumFunctionOnSet(g, Principal) \in Int
              /\ SumFunctionOnSet(g, Principal) <= SumFunctionOnSet(f, Principal) + Units
          BY <3>6, <4>5, SumGrows, ConfirmationAssumption
        <4>7. SumFunctionOnSet(g, Principal) <= c.used + Units
          BY <3>6, <4>1, <4>4, <4>6
        <4>8. QED
          BY <4>3, <4>4, <4>7
      <3>14. Counted'
        BY <3>7, <3>11, <3>12, <3>13 DEF Counted
      <3>15. \A x \in Req : ~ Takes(x)'
        <4> SUFFICES ASSUME NEW x \in Req PROVE ~ Takes(x)'
          OBVIOUS
        <4>1. CASE x = q
          <5>1. Granted(r).phase # "take"
            BY DEF Granted, Request
          <5>2. QED
            BY <2>1, <4>1, <5>1 DEF Takes, IInv, TypeOK
        <4>2. CASE x # q
          BY <2>1, <3>1, <3>2, <4>2 DEF OneTakes, Takes, IInv, TypeOK
        <4>3. QED
          BY <4>1, <4>2
      <3>16. CeilingsHeldInTurn'
        <4> SUFFICES ASSUME NEW e \in Day
                     PROVE  /\ \A x \in Principal : granted'[e][x] <= PrincipalCeiling
                            /\ SumFunctionOnSet(granted'[e], Principal) <= PlatformCeiling
          BY DEF CeilingsHeldInTurn
        <4>1. /\ \A x \in Principal : granted[e][x] <= PrincipalCeiling
              /\ SumFunctionOnSet(granted[e], Principal) <= PlatformCeiling
          BY <2>3, <3>1 DEF CeilingsHeldInTurn
        <4>2. CASE e # d
          <5>1. granted'[e] = granted[e]
            BY <2>1, <4>2 DEF IInv, TypeOK
          <5>2. QED
            BY <4>1, <5>1
        <4>3. CASE e = d
          <5>1. SumFunctionOnSet(granted'[d], Principal) \in Int
            BY <3>9, <4>3, SumType, ConfirmationAssumption
          <5>2. SumFunctionOnSet(granted'[d], Principal) <= PlatformCeiling
            BY <3>5, <3>6, <3>13, <4>3, <5>1
          <5>3. granted[d][p] <= m.used
            BY <3>1, <3>3, <3>4, <3>5, <4>3 DEF Counted, Known
          <5>4. \A x \in Principal : granted'[d][x] <= PrincipalCeiling
            BY <3>5, <3>6, <3>9, <4>1, <4>3, <5>3
          <5>5. QED
            BY <4>3, <5>2, <5>4
        <4>4. QED
          BY <4>2, <4>3
      <3>17. QED
        BY <3>14, <3>15, <3>16 DEF Turns, InTurn, OneTakes, RoomKept
    <2>4. QED
      BY <2>2, <2>3
  <1>6. QED
    BY <1>4, <1>5

LEMMA TurnsInit == Init => Turns
  <1> SUFFICES ASSUME Init PROVE Turns
    OBVIOUS
  <1>1. PICK early \in Principal, used \in Earlier :
          /\ principal = [p \in Principal |->
                            IF p = early THEN [day |-> 0, used |-> used]
                            ELSE [day |-> -1, used |-> 0]]
          /\ platform = [day |-> 0, used |-> used]
          /\ granted = [d \in Day |-> [p \in Principal |->
                          IF d = 0 /\ p = early THEN used ELSE 0]]
    BY DEF Init
  <1>2. /\ used \in Nat /\ used <= PrincipalCeiling /\ used <= PlatformCeiling
        /\ PrincipalCeiling \in Nat /\ PlatformCeiling \in Nat
    BY ConfirmationAssumption
  <1>3. \A q \in Req : ~ Takes(q)
    BY DEF Init, Takes, Idle
  <1>4. ASSUME NEW d \in Day
        PROVE  SumFunctionOnSet(granted[d], Principal) <= used
    <2>1. PICK f, g : f = [p \in Principal |-> 0] /\ g = granted[d]
      OBVIOUS
    <2>2. \A x \in Principal : f[x] = 0
      BY <2>1
    <2>3. \A x \in Principal : g[x] = IF d = 0 /\ x = early THEN used ELSE 0
      BY <1>1, <2>1
    <2>4. \A x \in Principal : f[x] \in Int /\ g[x] \in Int
                               /\ g[x] <= f[x] + (IF x = early THEN used ELSE 0)
      BY <1>2, <2>2, <2>3
    <2>5. SumFunctionOnSet(f, Principal) = 0
      BY <2>2, SumOfNothing, ConfirmationAssumption
    <2>6. SumFunctionOnSet(g, Principal) <= SumFunctionOnSet(f, Principal) + used
          /\ SumFunctionOnSet(g, Principal) \in Int
      BY <1>2, <2>4, SumGrows, ConfirmationAssumption
    <2>7. QED
      BY <1>2, <2>1, <2>5, <2>6
  <1>5. ASSUME NEW d \in Day PROVE SumFunctionOnSet(granted[d], Principal) \in Nat
    BY <1>1, <1>2, SumType, ConfirmationAssumption
  <1>6. CeilingsHeldInTurn
    BY <1>1, <1>2, <1>4, <1>5 DEF CeilingsHeldInTurn
  <1>7. Counted
    <2>1. platform.day = 0 /\ platform.used = used
      BY <1>1
    <2>2. \A p \in Principal : principal[p].day <= platform.day
      BY <1>1
    <2>3. \A d \in Day, p \in Principal : d > platform.day => granted[d][p] = 0
      BY <1>1, <2>1
    <2>4. ASSUME 0 \in Day, NEW p \in Principal PROVE granted[0][p] <= Known(principal[p], 0)
      BY <1>1, <1>2, <2>4 DEF Known
    <2>5. QED
      BY <1>4, <2>1, <2>2, <2>3, <2>4 DEF Counted
  <1>8. QED
    BY <1>3, <1>6, <1>7 DEF Turns, InTurn, OneTakes, RoomKept

\* Every other step leaves the counters alone, and goes nowhere near the ledger.
LEMMA TurnsStep == IInv /\ Turns /\ [Next]_vars => Turns'
  <1> SUFFICES ASSUME IInv, Turns, [Next]_vars PROVE Turns'
    OBVIOUS
  <1>1. ASSUME NEW q \in Req, AskChallenge(q) PROVE Turns'
    <2>1. PICK b \in Binding :
            req' = [req EXCEPT ![q] = [Idle EXCEPT !.phase = "reserve",
                      !.kind = "challenge", !.binding = b, !.at = clock]]
      BY <1>1 DEF AskChallenge
    <2>2. PICK r : r = [Idle EXCEPT !.phase = "reserve", !.kind = "challenge",
                                    !.binding = b, !.at = clock]
      OBVIOUS
    <2>3. r.phase # "take"
      BY <2>2 DEF Idle
    <2>4. req' = [req EXCEPT ![q] = r] /\ UNCHANGED budgetVars
      BY <1>1, <2>1, <2>2 DEF AskChallenge
    <2>5. QED
      BY <2>3, <2>4, TurnsRest DEF budgetVars
  <1>2. ASSUME NEW q \in Req, Submit(q) PROVE Turns'
    <2>1. PICK b \in Binding, c \in shown, credential \in Credential :
            req' = [req EXCEPT ![q] = [Idle EXCEPT !.phase = "reserve",
                      !.kind = "operation", !.binding = b, !.id = c.id,
                      !.credential = credential, !.at = clock]]
      BY <1>2 DEF Submit
    <2>2. PICK r : r = [Idle EXCEPT !.phase = "reserve", !.kind = "operation",
                                    !.binding = b, !.id = c.id,
                                    !.credential = credential, !.at = clock]
      OBVIOUS
    <2>3. r.phase # "take"
      BY <2>2 DEF Idle
    <2>4. req' = [req EXCEPT ![q] = r] /\ UNCHANGED budgetVars
      BY <1>2, <2>1, <2>2 DEF Submit
    <2>5. QED
      BY <2>3, <2>4, TurnsRest DEF budgetVars
  <1>3. ASSUME NEW q \in Req, LedgerFails(q) PROVE Turns'
    <2>1. PICK r : r = NotAdmitted(req[q], "unavailable")
      OBVIOUS
    <2>2. req' = [req EXCEPT ![q] = r]
          /\ UNCHANGED <<platform, principal, granted, smooth>>
      BY <1>3, <2>1 DEF LedgerFails, IInv, TypeOK
    <2>3. r.phase # "take"
      BY <2>1 DEF NotAdmitted, IInv, TypeOK, Request
    <2>4. QED
      BY <2>2, <2>3, TurnsRest
  <1>4. ASSUME NEW q \in Req, StoreChallenge(q) PROVE Turns'
    <2>1. PICK code, id : req' = [req EXCEPT ![q] = [req[q] EXCEPT !.phase = "done",
                                                   !.answer = code, !.id = id]]
      BY <1>4 DEF StoreChallenge
    <2>2. PICK r : r = [req[q] EXCEPT !.phase = "done", !.answer = code, !.id = id]
      OBVIOUS
    <2>3. r.phase # "take"
      BY <2>2 DEF IInv, TypeOK, Request
    <2>4. req' = [req EXCEPT ![q] = r] /\ UNCHANGED budgetVars
      BY <1>4, <2>1, <2>2 DEF StoreChallenge
    <2>5. QED
      BY <2>3, <2>4, TurnsRest DEF budgetVars
  <1>5. ASSUME NEW q \in Req, Spend(q) PROVE Turns'
    <2>1. PICK x \in Request : x = req[q]
      BY DEF IInv, TypeOK
    <2>2. PICK took : took = Spendable(rows[x.binding], x)
      OBVIOUS
    <2>3. PICK spent, failed, lost :
            /\ spent = [[x EXCEPT !.phase = "verify",
                             !.spending = IF took THEN "ok" ELSE "forbidden"]
                           EXCEPT !.took = took]
            /\ failed = [[x EXCEPT !.phase = "verify", !.spending = "unavailable"]
                            EXCEPT !.took = took]
            /\ lost = [x EXCEPT !.phase = "verify", !.spending = "unavailable"]
      OBVIOUS
    <2>4. \/ req' = [req EXCEPT ![q] = spent]
          \/ req' = [req EXCEPT ![q] = failed]
          \/ req' = [req EXCEPT ![q] = lost]
      BY <1>5, <2>1, <2>2, <2>3 DEF Spend
    <2>5. spent.phase = "verify" /\ failed.phase = "verify" /\ lost.phase = "verify"
      BY <2>3 DEF Request
    <2>6. UNCHANGED budgetVars
      BY <1>5 DEF Spend
    <2>7. QED
      BY <2>4, <2>5, <2>6, TurnsRest DEF budgetVars
  <1>6. ASSUME NEW q \in Req, VerifyCredential(q) PROVE Turns'
    <2>1. PICK x \in Request : x = req[q]
      BY DEF IInv, TypeOK
    <2>2. PICK code : code = IF x.spending \in {"quota_exceeded", "unavailable"}
                             THEN x.spending ELSE "forbidden"
      OBVIOUS
    <2>3. PICK passed, refused, lost :
            /\ passed = [x EXCEPT !.phase = "perform"]
            /\ refused = [x EXCEPT !.phase = "done", !.answer = code]
            /\ lost = [x EXCEPT !.phase = "done", !.answer = "unavailable"]
      OBVIOUS
    <2>4. \/ req' = [req EXCEPT ![q] = passed]
          \/ req' = [req EXCEPT ![q] = refused]
          \/ req' = [req EXCEPT ![q] = lost]
      BY <1>6, <2>1, <2>2, <2>3 DEF VerifyCredential
    <2>5. passed.phase = "perform" /\ refused.phase = "done" /\ lost.phase = "done"
      BY <2>3 DEF Request
    <2>6. UNCHANGED budgetVars
      BY <1>6 DEF VerifyCredential
    <2>7. QED
      BY <2>4, <2>5, <2>6, TurnsRest DEF budgetVars
  <1>7. ASSUME NEW q \in Req, Perform(q) PROVE Turns'
    <2>1. PICK x \in Request : x = req[q]
      BY DEF IInv, TypeOK
    <2>2. PICK code : req' = [req EXCEPT ![q] = [x EXCEPT !.phase = "done",
                                                        !.answer = code]]
      BY <1>7, <2>1 DEF Perform
    <2>3. PICK r : r = [x EXCEPT !.phase = "done", !.answer = code]
      OBVIOUS
    <2>4. r.phase = "done"
      BY <2>3 DEF Request
    <2>5. req' = [req EXCEPT ![q] = r] /\ UNCHANGED budgetVars
      BY <1>7, <2>2, <2>3 DEF Perform
    <2>6. QED
      BY <2>4, <2>5, TurnsRest DEF budgetVars
  <1>8. ASSUME UNCHANGED <<req, platform, principal, granted, smooth>> PROVE Turns'
    BY <1>8 DEF Turns, InTurn, OneTakes, RoomKept, Counted, CeilingsHeldInTurn,
                Takes, By
  <1>9. QED
    BY <1>1, <1>2, <1>3, <1>4, <1>5, <1>6, <1>7, <1>8,
       CheckKeepsTurns, ChargeKeepsTurns
       DEF Next, Step, Tick, vars, budgetVars

\* As long as admissions take turns, no day grants one principal more than its
\* ceiling, nor all of them together more than the platform's, whatever the
\* ledger refuses or loses, and whatever was granted earlier that day.
THEOREM CeilingsInTurn == Spec => []CeilingsHeldInTurn
  <1>1. Turns => CeilingsHeldInTurn
    BY DEF Turns
  <1>2. QED
    BY <1>1, Invariance, TurnsInit, TurnsStep, PTL DEF Spec

\* The same behind the gates of the operators' console.
THEOREM GateCeilingsInTurn == GateSpec => []CeilingsHeldInTurn
  BY GateImplementsConfirmation, CeilingsInTurn, PTL
=============================================================================
