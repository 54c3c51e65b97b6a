------------------------ MODULE PlatformConsoleProofs ------------------------
(* The console's properties for any operators, Templates, Organizations and  *)
(* calls, and any finite number of requests.                                 *)
EXTENDS PlatformConsole, FiniteSetTheorems, TLAPS

\* Before its statement a request has done nothing and says nothing.
Early == {"idle", "authority", "admit", "read", "write", "explain"}

\* What is known of request r, being x, when the trails are told and tenants.
Sound(r, x, told, tenants) ==
    /\ x.phase \in Early => /\ ~ x.effected /\ x.outcome = "none"
                            /\ x.answer = "none"
    /\ (x.phase = "write" /\ x.call.kind = "update") =>
          x.next \in [name : Name, labels : Label]
    /\ x.phase = "tenant" => /\ x.call.kind \in ToldTenant
                             /\ x.call.kind \in Changes => x.effected
    /\ x.phase \in {"count", "workspace"} =>
          x.effected /\ x.call.kind \notin ToldTenant
    /\ x.phase = "record" =>
          /\ x.outcome \in {"ok", "denied", "failed"}
          /\ x.answer = "ok" => x.outcome = "ok"
          /\ x.outcome = "ok" =>
                /\ x.call.kind \in Changes => x.effected
                /\ x.call.kind \in ToldTenant => <<x.call.org, r>> \in tenants
          /\ x.outcome = "denied" => ~ x.effected
    /\ x.phase # "done" => \A outcome \in Outcome : <<r, outcome>> \notin told
    /\ x.phase = "done" =>
          /\ x.answer = "ok" =>
                /\ <<r, "ok">> \in told
                /\ x.call.kind \in ToldTenant => <<x.call.org, r>> \in tenants
          /\ <<r, "ok">> \in told => (x.call.kind \in Changes => x.effected)
          /\ <<r, "denied">> \in told => ~ x.effected
          /\ x.effected => \/ x.answer = "unavailable"
                           \/ \E outcome \in {"ok", "failed"} : <<r, outcome>> \in told

EachSound == \A r \in Req : Sound(r, req[r], trail, tenantTrail)

IInv == TypeOK /\ EachSound /\ TrailTellsStatus

-----------------------------------------------------------------------------
LEMMA IdleType == Idle \in Request
  <1>1. (CHOOSE p \in Principal : TRUE) \in Principal
    BY ConsoleAssumption
  <1>2. QED
    BY <1>1 DEF Idle, Unset, Request, Phase, Outcome, Answer, Call

\* Request r becomes y, which is sound; of the trails the others lose nothing
\* and are told nothing.
LEMMA BecomesSound ==
    ASSUME IInv, NEW r \in Req, NEW y \in Request, req' = [req EXCEPT ![r] = y],
           \A s \in Req \ {r}, outcome \in Outcome :
              <<s, outcome>> \in trail' <=> <<s, outcome>> \in trail,
           tenantTrail \subseteq tenantTrail',
           Sound(r, y, trail', tenantTrail')
    PROVE  req' \in [Req -> Request] /\ EachSound'
  <1>1. /\ req' \in [Req -> Request] /\ req'[r] = y
        /\ \A s \in Req \ {r} : req'[s] = req[s]
    BY DEF IInv, TypeOK
  <1>2. ASSUME NEW s \in Req, s # r PROVE Sound(s, req[s], trail', tenantTrail')
    <2>1. /\ <<s, "ok">> \in trail' <=> <<s, "ok">> \in trail
          /\ <<s, "denied">> \in trail' <=> <<s, "denied">> \in trail
          /\ <<s, "failed">> \in trail' <=> <<s, "failed">> \in trail
      BY <1>2 DEF Outcome
    <2>2. Sound(s, req[s], trail, tenantTrail)
      BY DEF IInv, EachSound
    <2>3. QED
      BY <1>2, <2>1, <2>2 DEF Sound
  <1>3. EachSound'
    BY <1>1, <1>2 DEF EachSound
  <1>4. QED
    BY <1>1, <1>3

\* Request x is about Template t.
About(x, kind, t) == x.call.kind = kind /\ x.call.template = t

\* A request that keeps its call and is effected as before, or is not effected
\* before or after, changes no set of effected requests.
LEMMA EffectsKept ==
    ASSUME IInv, NEW r \in Req, NEW y \in Request, req' = [req EXCEPT ![r] = y],
           \/ y.call = req[r].call /\ y.effected = req[r].effected
           \/ ~ y.effected /\ ~ req[r].effected,
           NEW kind, NEW t
    PROVE  Effected(kind, t)' = Effected(kind, t)
  <1>1. req'[r] = y /\ \A s \in Req \ {r} : req'[s] = req[s]
    BY DEF IInv, TypeOK
  <1>2. ASSUME NEW s \in Req
        PROVE  (/\ req'[s].call.kind = kind /\ req'[s].effected
                /\ req'[s].call.template = t)
               <=> (/\ req[s].call.kind = kind /\ req[s].effected
                    /\ req[s].call.template = t)
    BY <1>1
  <1>3. QED
    BY <1>2 DEF Effected, Kind

\* One that keeps its call changes none that is about something else.
LEMMA EffectsOfOthers ==
    ASSUME IInv, NEW r \in Req, NEW y \in Request, req' = [req EXCEPT ![r] = y],
           y.call = req[r].call, NEW kind, NEW t, ~ About(y, kind, t)
    PROVE  Effected(kind, t)' = Effected(kind, t)
  <1>1. req'[r] = y /\ \A s \in Req \ {r} : req'[s] = req[s]
    BY DEF IInv, TypeOK
  <1>2. ASSUME NEW s \in Req
        PROVE  (/\ req'[s].call.kind = kind /\ req'[s].effected
                /\ req'[s].call.template = t)
               <=> (/\ req[s].call.kind = kind /\ req[s].effected
                    /\ req[s].call.template = t)
    BY <1>1 DEF About
  <1>3. QED
    BY <1>2 DEF Effected, Kind

\* So a step that leaves the Templates alone keeps TrailTellsStatus.
LEMMA StatusKept ==
    ASSUME IInv, NEW r \in Req, NEW y \in Request, req' = [req EXCEPT ![r] = y],
           \/ y.call = req[r].call /\ y.effected = req[r].effected
           \/ y.call = req[r].call /\ y.call.kind \notin {"retire", "restore"}
           \/ ~ y.effected /\ ~ req[r].effected,
           \A t \in Template : templates'[t].status = "retired"
                                  <=> templates[t].status = "retired"
    PROVE  TrailTellsStatus'
  <1> SUFFICES ASSUME NEW t \in Template
               PROVE  Cardinality(Effected("retire", t)') =
                         Cardinality(Effected("restore", t)')
                            + (IF templates'[t].status = "retired" THEN 1 ELSE 0)
    BY DEF TrailTellsStatus
  <1>1. Cardinality(Effected("retire", t)) =
           Cardinality(Effected("restore", t))
              + (IF templates[t].status = "retired" THEN 1 ELSE 0)
    BY DEF IInv, TrailTellsStatus
  <1>2. /\ Effected("retire", t)' = Effected("retire", t)
        /\ Effected("restore", t)' = Effected("restore", t)
    <2>1. CASE y.call = req[r].call /\ y.call.kind \notin {"retire", "restore"}
      <3>1. ~ About(y, "retire", t) /\ ~ About(y, "restore", t)
        BY <2>1 DEF About
      <3>2. QED
        BY <2>1, <3>1, EffectsOfOthers
    <2>2. CASE \/ y.call = req[r].call /\ y.effected = req[r].effected
               \/ ~ y.effected /\ ~ req[r].effected
      BY <2>2, EffectsKept
    <2>3. QED
      BY <2>1, <2>2
  <1>3. QED
    BY <1>1, <1>2

\* A step of r alone, that tells nobody and leaves the tables alone.
LEMMA QuietStep ==
    ASSUME IInv, NEW r \in Req, NEW y \in Request, req' = [req EXCEPT ![r] = y],
           \/ y.call = req[r].call /\ y.effected = req[r].effected
           \/ ~ y.effected /\ ~ req[r].effected,
           Sound(r, y, trail, tenantTrail),
           UNCHANGED <<operators, templates, directoryVars, trailVars, grants>>,
           faults' \in Nat
    PROVE  IInv'
  <1>1. trail' = trail /\ tenantTrail' = tenantTrail
    BY DEF trailVars
  <1>2. req' \in [Req -> Request] /\ EachSound'
    BY <1>1, BecomesSound
  <1>3. TypeOK'
    BY <1>1, <1>2 DEF IInv, TypeOK, directoryVars
  <1>4. TrailTellsStatus'
    BY StatusKept
  <1>5. QED
    BY <1>2, <1>3, <1>4 DEF IInv

\* A handler that failed, at any point before its record.
FailedAs(x, code) == [x EXCEPT !.phase = "record", !.outcome = "failed",
                               !.answer = code]

LEMMA FailedSound ==
    ASSUME NEW r \in Req, NEW x \in Request, NEW code \in Answer \ {"ok", "none"},
           NEW told, NEW tenants, Sound(r, x, told, tenants), x.phase # "done"
    PROVE  /\ FailedAs(x, code) \in Request
           /\ Sound(r, FailedAs(x, code), told, tenants)
  BY DEF FailedAs, Sound, Request, Phase, Outcome, Early

LEMMA FailedStep ==
    ASSUME IInv, NEW r \in Req, NEW code \in Answer \ {"ok", "none"},
           Failed(r, code), req[r].phase # "done",
           UNCHANGED <<operators, templates, directoryVars, trailVars, grants>>,
           faults' \in Nat
    PROVE  IInv'
  <1>1. req[r] \in Request /\ Sound(r, req[r], trail, tenantTrail)
    BY DEF IInv, TypeOK, EachSound
  <1>2. req' = [req EXCEPT ![r] = FailedAs(req[r], code)]
    BY DEF Failed, FailedAs
  <1>3. /\ FailedAs(req[r], code) \in Request
        /\ Sound(r, FailedAs(req[r], code), trail, tenantTrail)
    BY <1>1, FailedSound
  <1>4. FailedAs(req[r], code).call = req[r].call
        /\ FailedAs(req[r], code).effected = req[r].effected
    BY <1>1 DEF FailedAs, Request
  <1>5. QED
    BY <1>2, <1>3, <1>4, QuietStep

\* A request that goes on without having written.
LEMMA GoesOnStep ==
    ASSUME IInv, NEW r \in Req, NEW phase \in Early, GoesTo(r, phase),
           req[r].phase \in Early,
           (phase = "write" /\ Kind(r) = "update") =>
              req[r].next \in [name : Name, labels : Label],
           UNCHANGED <<operators, templates, directoryVars, trailVars, grants>>,
           faults' \in Nat
    PROVE  IInv'
  <1> DEFINE y == [req[r] EXCEPT !.phase = phase]
  <1>1. req[r] \in Request /\ Sound(r, req[r], trail, tenantTrail)
    BY DEF IInv, TypeOK, EachSound
  <1>2. /\ y \in Request /\ y.call = req[r].call /\ y.effected = req[r].effected
        /\ y.phase = phase /\ y.next = req[r].next
        /\ y.outcome = req[r].outcome /\ y.answer = req[r].answer
    BY <1>1 DEF Request, Phase, Early
  <1>3. req' = [req EXCEPT ![r] = y]
    BY DEF GoesTo
  <1> HIDE DEF y
  <1>4. Sound(r, y, trail, tenantTrail)
    BY <1>1, <1>2 DEF Sound, Early, Kind
  <1>5. QED
    BY <1>2, <1>3, <1>4, QuietStep

-----------------------------------------------------------------------------
\* What a call of a kind carries.
LEMMA CallType ==
    ASSUME NEW c \in Call
    PROVE  /\ c.kind = "create" => c.name \in Name /\ c.labels \in Label
           /\ c.kind = "update" => /\ c.template \in Template
                                   /\ c.name \in Name \cup {"same"}
                                   /\ c.labels \in Label \cup {"same"}
           /\ c.kind \in {"retire", "restore"} => c.template \in Template
           /\ c.kind = "assign" => /\ c.org \in Org
                                   /\ c.template \in Template \cup {"null"}
           /\ c.kind \in {"identity", "probe"} => c.org \in Org
           /\ c.kind = "revoke" => c.target \in Principal
           /\ c.kind = "onboard" => /\ c.template \in Template
                                    /\ c.identifier \in Identifier
  BY DEF Call

LEMMA InitIInv == Init => IInv
  <1> SUFFICES ASSUME Init PROVE IInv
    OBVIOUS
  <1>1. req \in [Req -> Request]
    BY IdleType DEF Init
  <1>2. TypeOK
    BY <1>1, ConsoleAssumption DEF Init, TypeOK
  <1>3. EachSound
    BY DEF Init, EachSound, Sound, Idle, Early
  <1>4. TrailTellsStatus
    <2> SUFFICES ASSUME NEW t \in Template
                 PROVE  Cardinality(Effected("retire", t)) =
                           Cardinality(Effected("restore", t))
                              + (IF templates[t].status = "retired" THEN 1 ELSE 0)
      BY DEF TrailTellsStatus
    <2>1. Effected("retire", t) = {} /\ Effected("restore", t) = {}
      BY DEF Init, Effected, Idle, Kind
    <2>2. templates[t].status # "retired"
      BY ConsoleAssumption DEF Init
    <2>3. QED
      BY <2>1, <2>2, FS_EmptySet
  <1>5. QED
    BY <1>2, <1>3, <1>4 DEF IInv

-----------------------------------------------------------------------------
\* One step per action: up to the handler.
LEMMA AskStep ==
    ASSUME IInv, NEW r \in Req, Ask(r) PROVE IInv'
  <1>1. PICK p \in Principal, c \in Asked :
           req' = [req EXCEPT ![r] = [Idle EXCEPT !.phase = "authority",
                                        !.by = p, !.call = c]]
    BY DEF Ask
  <1> DEFINE y == [Idle EXCEPT !.phase = "authority", !.by = p, !.call = c]
  <1>2. c \in Call
    BY ConsoleAssumption
  <1>3. /\ y \in Request /\ y.phase = "authority" /\ y.effected = FALSE
        /\ y.outcome = "none" /\ y.answer = "none"
    BY <1>2, IdleType DEF Request, Idle, Phase
  <1>4. req' = [req EXCEPT ![r] = y] /\ req[r].phase = "idle"
    BY <1>1 DEF Ask
  <1> HIDE DEF y
  <1>5. Sound(r, req[r], trail, tenantTrail) /\ req[r] \in Request
    BY DEF IInv, EachSound, TypeOK
  <1>6. Sound(r, y, trail, tenantTrail) /\ ~ req[r].effected
    BY <1>3, <1>4, <1>5 DEF Sound, Early
  <1>7. faults' \in Nat
    BY DEF Ask, IInv, TypeOK
  <1>8. QED
    BY <1>3, <1>4, <1>6, <1>7, QuietStep DEF Ask

\* What becomes of a request before its handler is called.
Judged(x, role) ==
    {[x EXCEPT !.phase = "admit", !.role = role],
     [x EXCEPT !.phase = "done", !.answer = "forbidden"],
     [x EXCEPT !.phase = "done", !.answer = "unavailable"]}
        \cup {[x EXCEPT !.phase = "record", !.outcome = "denied", !.answer = code] :
                 code \in {"forbidden", "invalid_argument", "unavailable"}}

LEMMA JudgedStep ==
    ASSUME IInv, NEW r \in Req, req[r].phase \in {"authority", "admit"},
           NEW role \in PLATFORM_ROLES, NEW y \in Judged(req[r], role),
           req' = [req EXCEPT ![r] = y],
           UNCHANGED <<operators, templates, directoryVars, trailVars, grants, faults>>
    PROVE  IInv'
  <1>1. req[r] \in Request /\ Sound(r, req[r], trail, tenantTrail)
    BY DEF IInv, TypeOK, EachSound
  <1>2. /\ req[r].effected = FALSE /\ req[r].outcome = "none"
        /\ req[r].answer = "none"
        /\ \A outcome \in Outcome : <<r, outcome>> \notin trail
    BY <1>1 DEF Sound, Early, Request
  <1>3. /\ y \in Request /\ y.call = req[r].call /\ y.effected = FALSE
        /\ \/ y.phase = "admit" /\ y.outcome = "none" /\ y.answer = "none"
           \/ y.phase = "done" /\ y.answer # "ok"
           \/ y.phase = "record" /\ y.outcome = "denied" /\ y.answer # "ok"
    <2>1. CASE y = [req[r] EXCEPT !.phase = "admit", !.role = role]
      BY <1>1, <1>2, <2>1 DEF Request, Phase
    <2>2. ASSUME NEW code \in {"forbidden", "unavailable"},
                 y = [req[r] EXCEPT !.phase = "done", !.answer = code]
          PROVE  /\ y \in Request /\ y.call = req[r].call /\ y.effected = FALSE
                 /\ y.phase = "done" /\ y.answer # "ok"
      BY <1>1, <1>2, <2>2 DEF Request, Phase, Answer
    <2>3. ASSUME NEW code \in {"forbidden", "invalid_argument", "unavailable"},
                 y = [req[r] EXCEPT !.phase = "record", !.outcome = "denied",
                                    !.answer = code]
          PROVE  /\ y \in Request /\ y.call = req[r].call /\ y.effected = FALSE
                 /\ y.phase = "record" /\ y.outcome = "denied" /\ y.answer # "ok"
      BY <1>1, <1>2, <2>3 DEF Request, Phase, Answer, Outcome
    <2>4. \/ y = [req[r] EXCEPT !.phase = "admit", !.role = role]
          \/ \E code \in {"forbidden", "unavailable"} :
                y = [req[r] EXCEPT !.phase = "done", !.answer = code]
          \/ \E code \in {"forbidden", "invalid_argument", "unavailable"} :
                y = [req[r] EXCEPT !.phase = "record", !.outcome = "denied",
                                   !.answer = code]
      BY DEF Judged
    <2>5. QED
      BY <2>1, <2>2, <2>3, <2>4
  <1>4. Sound(r, y, trail, tenantTrail)
    BY <1>2, <1>3 DEF Sound, Early, Outcome
  <1>5. faults' \in Nat
    BY DEF IInv, TypeOK
  <1>6. QED
    BY <1>2, <1>3, <1>4, <1>5, QuietStep

LEMMA ResolveStep ==
    ASSUME IInv, NEW r \in Req, Resolve(r) PROVE IInv'
  <1>1. PICK role \in PLATFORM_ROLES : \E y \in Judged(req[r], role) :
           req' = [req EXCEPT ![r] = y]
    <2>1. CASE Known(operators[req[r].by])
      BY <2>1 DEF Resolve, Judged, Known
    <2>2. CASE ~ Known(operators[req[r].by])
      BY <2>2 DEF Resolve, Judged, PLATFORM_ROLES
    <2>3. QED
      BY <2>1, <2>2
  <1>2. QED
    BY <1>1, JudgedStep DEF Resolve

LEMMA ChargeRefusedStep ==
    ASSUME IInv, NEW r \in Req, ChargeRefused(r) PROVE IInv'
  <1>1. "platform-admin" \in PLATFORM_ROLES
    BY DEF PLATFORM_ROLES
  <1>2. \E y \in Judged(req[r], "platform-admin") : req' = [req EXCEPT ![r] = y]
    BY DEF ChargeRefused, Judged
  <1>3. QED
    BY <1>1, <1>2, JudgedStep DEF ChargeRefused

LEMMA DeniedStep ==
    ASSUME IInv, NEW r \in Req, Denied(r) PROVE IInv'
  <1>1. "platform-admin" \in PLATFORM_ROLES
    BY DEF PLATFORM_ROLES
  <1>2. PICK code \in {"forbidden", "invalid_argument", "unavailable"} :
           req' = [req EXCEPT ![r] = [req[r] EXCEPT !.phase = "record",
                                        !.outcome = "denied", !.answer = code]]
    BY DEF Denied, Refusals
  <1>3. \E y \in Judged(req[r], "platform-admin") : req' = [req EXCEPT ![r] = y]
    BY <1>2 DEF Judged
  <1>4. QED
    BY <1>1, <1>3, JudgedStep DEF Denied

LEMMA AdmittedStep ==
    ASSUME IInv, NEW r \in Req, Admitted(r) PROVE IInv'
  <1>1. PICK phase \in {"write", "read"} :
           GoesTo(r, phase) /\ (phase = "write" => Kind(r) # "update")
    BY DEF Admitted
  <1>2. faults' \in Nat /\ req[r].phase \in Early /\ phase \in Early
    BY DEF Admitted, IInv, TypeOK, Early
  <1>3. QED
    BY <1>1, <1>2, GoesOnStep DEF Admitted

-----------------------------------------------------------------------------
\* What the handlers read.
LEMMA ReadFailsStep ==
    ASSUME IInv, NEW r \in Req, ReadFails(r) PROVE IInv'
  <1>1. faults' \in Nat
    BY DEF ReadFails, Fault, IInv, TypeOK
  <1>2. "unavailable" \in Answer \ {"ok", "none"}
    BY DEF Answer
  <1>3. QED
    BY <1>1, <1>2, FailedStep DEF ReadFails

LEMMA ReadForUpdateStep ==
    ASSUME IInv, NEW r \in Req, ReadForUpdate(r) PROVE IInv'
  <1> DEFINE c == req[r].call
             record == templates[c.template]
             y == [req[r] EXCEPT !.phase = "write", !.next = Merged(c, record)]
  <1>1. /\ req[r] \in Request /\ Sound(r, req[r], trail, tenantTrail)
        /\ faults' \in Nat /\ req[r].phase = "read"
    BY DEF ReadForUpdate, IInv, TypeOK, EachSound
  <1>2. {"not_found", "failed_precondition", "invalid_argument"}
           \subseteq Answer \ {"ok", "none"}
    BY DEF Answer
  <1>3. \/ \E code \in {"not_found", "failed_precondition", "invalid_argument"} :
              Failed(r, code)
        \/ record # NoTemplate /\ req' = [req EXCEPT ![r] = y]
    BY DEF ReadForUpdate
  <1>4. CASE \E code \in {"not_found", "failed_precondition", "invalid_argument"} :
                Failed(r, code)
    BY <1>1, <1>2, <1>4, FailedStep DEF ReadForUpdate
  <1>5. CASE record # NoTemplate /\ req' = [req EXCEPT ![r] = y]
    <2>1. c \in Call /\ c.kind = "update"
      BY <1>1 DEF Request, ReadForUpdate, Kind
    <2>2. /\ c.template \in Template /\ c.name \in Name \cup {"same"}
          /\ c.labels \in Label \cup {"same"}
      BY <2>1, CallType
    <2>3. record \in Record
      BY <1>5, <2>2 DEF IInv, TypeOK
    <2>4. Merged(c, record) \in [name : Name, labels : Label]
      BY <2>2, <2>3 DEF Merged, Record
    <2>5. Merged(c, record) \in [name : Name \cup {"same"}, labels : Label \cup {"same"}]
      BY <2>4
    <2>6. /\ y \in Request /\ y.call = c /\ y.effected = req[r].effected
          /\ y.phase = "write" /\ y.next = Merged(c, record)
          /\ y.outcome = req[r].outcome /\ y.answer = req[r].answer
      BY <1>1, <2>5 DEF Request, Phase
    <2> HIDE DEF y, record
    <2>7. Sound(r, y, trail, tenantTrail)
      BY <1>1, <2>1, <2>4, <2>6 DEF Sound, Early
    <2>8. QED
      BY <1>1, <1>5, <2>6, <2>7, QuietStep DEF ReadForUpdate
  <1>6. QED
    BY <1>3, <1>4, <1>5

\* The other reads either fail or go on to the write.
LEMMA ReadStep ==
    ASSUME IInv, NEW r \in Req, req[r].phase = "read", Kind(r) # "update",
           \/ GoesTo(r, "write")
           \/ \E code \in {"not_found", "failed_precondition", "conflict"} :
                 Failed(r, code),
           UNCHANGED <<operators, templates, directoryVars, trailVars, grants, faults>>
    PROVE  IInv'
  <1>1. faults' \in Nat
    BY DEF IInv, TypeOK
  <1>2. {"not_found", "failed_precondition", "conflict"} \subseteq Answer \ {"ok", "none"}
    BY DEF Answer
  <1>3. {"write", "read"} \subseteq Early
    BY DEF Early
  <1>4. CASE GoesTo(r, "write")
    BY <1>1, <1>3, <1>4, GoesOnStep
  <1>5. CASE \E code \in {"not_found", "failed_precondition", "conflict"} : Failed(r, code)
    BY <1>1, <1>2, <1>5, FailedStep
  <1>6. QED
    BY <1>4, <1>5

LEMMA ReadsStep ==
    ASSUME IInv, NEW r \in Req,
           \/ ReadStatus(r) \/ ReadAdopted(r) \/ ReadIdentity(r)
           \/ ReadOperator(r) \/ ReadForOnboarding(r)
    PROVE  IInv'
  <1>1. CASE ReadStatus(r)
    BY <1>1, ReadStep DEF ReadStatus
  <1>2. CASE ReadAdopted(r)
    BY <1>2, ReadStep DEF ReadAdopted
  <1>3. CASE ReadIdentity(r)
    BY <1>3, ReadStep DEF ReadIdentity
  <1>4. CASE ReadOperator(r)
    BY <1>4, ReadStep DEF ReadOperator
  <1>5. CASE ReadForOnboarding(r)
    BY <1>5, ReadStep DEF ReadForOnboarding
  <1>6. QED
    BY <1>1, <1>2, <1>3, <1>4, <1>5

\* A handler that is done, of a kind the tenant need not be told of, and that
\* has written what it had to write.
LEMMA SucceededStep ==
    ASSUME IInv, NEW r \in Req, Succeeded(r), req[r].phase # "done",
           Kind(r) \notin ToldTenant, Kind(r) \in Changes => req[r].effected,
           UNCHANGED <<operators, templates, directoryVars, trailVars, grants, faults>>
    PROVE  IInv'
  <1> DEFINE y == [req[r] EXCEPT !.phase = "record", !.outcome = "ok", !.answer = "ok"]
  <1>1. req[r] \in Request /\ Sound(r, req[r], trail, tenantTrail) /\ faults' \in Nat
    BY DEF IInv, TypeOK, EachSound
  <1>2. /\ y \in Request /\ y.call = req[r].call /\ y.effected = req[r].effected
        /\ y.phase = "record" /\ y.outcome = "ok" /\ y.answer = "ok"
    BY <1>1 DEF Request, Phase, Outcome, Answer
  <1>3. req' = [req EXCEPT ![r] = y]
    BY DEF Succeeded
  <1> HIDE DEF y
  <1>4. Sound(r, y, trail, tenantTrail)
    BY <1>1, <1>2 DEF Sound, Early, Kind
  <1>5. QED
    BY <1>1, <1>2, <1>3, <1>4, QuietStep

LEMMA SucceedingStep ==
    ASSUME IInv, NEW r \in Req, Serve(r) \/ CountRemaining(r) \/ CreateFirstWorkspace(r)
    PROVE  IInv'
  <1>1. Sound(r, req[r], trail, tenantTrail)
    BY DEF IInv, EachSound
  <1>2. CASE Serve(r)
    BY <1>2, SucceededStep DEF Serve, ToldTenant, Changes
  <1>3. CASE CountRemaining(r)
    BY <1>1, <1>3, SucceededStep DEF CountRemaining, Sound, Kind
  <1>4. CASE CreateFirstWorkspace(r)
    BY <1>1, <1>4, SucceededStep DEF CreateFirstWorkspace, Sound, Kind
  <1>5. QED
    BY <1>2, <1>3, <1>4

LEMMA ReadForProbeStep ==
    ASSUME IInv, NEW r \in Req, ReadForProbe(r) PROVE IInv'
  <1> DEFINE y == [req[r] EXCEPT !.phase = "tenant"]
  <1>1. /\ req[r] \in Request /\ Sound(r, req[r], trail, tenantTrail)
        /\ faults' \in Nat /\ req[r].call.kind = "probe" /\ req[r].phase = "read"
    BY DEF ReadForProbe, Kind, IInv, TypeOK, EachSound
  <1>2. /\ y \in Request /\ y.call = req[r].call /\ y.effected = req[r].effected
        /\ y.phase = "tenant"
    BY <1>1 DEF Request, Phase
  <1>3. req' = [req EXCEPT ![r] = y]
    BY DEF ReadForProbe, GoesTo
  <1> HIDE DEF y
  <1>4. Sound(r, y, trail, tenantTrail)
    BY <1>1, <1>2 DEF Sound, Early, ToldTenant, Changes
  <1>5. QED
    BY <1>1, <1>2, <1>3, <1>4, QuietStep DEF ReadForProbe

-----------------------------------------------------------------------------
\* The statements.

\* Where a committed statement of a kind leads.
Leads(kind, phase, outcome) ==
    \/ phase = "record" /\ outcome = "ok" /\ kind \notin ToldTenant
    \/ phase = "tenant" /\ outcome = "none" /\ kind \in ToldTenant
    \/ phase \in {"count", "workspace"} /\ outcome = "none" /\ kind \notin ToldTenant

LEMMA CommittedSound ==
    ASSUME IInv, NEW r \in Req, NEW phase, NEW outcome,
           req[r].phase = "write", Committed(r, phase, outcome),
           Leads(Kind(r), phase, outcome), UNCHANGED trailVars
    PROVE  /\ req' \in [Req -> Request] /\ EachSound' /\ faults' \in Nat
           /\ ~ req[r].effected
           /\ \E y \in Request : /\ req' = [req EXCEPT ![r] = y]
                                 /\ y.call = req[r].call /\ y.effected
  <1>1. req[r] \in Request /\ Sound(r, req[r], trail, tenantTrail) /\ faults \in Nat
    BY DEF IInv, TypeOK, EachSound
  <1>2. /\ ~ req[r].effected
        /\ \A told \in Outcome : <<r, told>> \notin trail
    BY <1>1 DEF Sound, Early
  <1>3. ASSUME NEW y \in Request, req' = [req EXCEPT ![r] = y],
               y.call = req[r].call, y.effected,
               \/ y.phase = phase /\ y.outcome = outcome
                     /\ y.answer = (IF outcome = "ok" THEN "ok" ELSE "none")
               \/ y.phase = "record" /\ y.outcome = "failed" /\ y.answer = "unavailable"
        PROVE  req' \in [Req -> Request] /\ EachSound'
    <2>1. Sound(r, y, trail, tenantTrail)
      BY <1>2, <1>3 DEF Sound, Leads, Kind, Early
    <2>2. QED
      BY <1>3, <2>1, BecomesSound DEF trailVars
  <1>4. CASE /\ req' = [req EXCEPT ![r] = [@ EXCEPT !.phase = phase, !.effected = TRUE,
                                        !.outcome = outcome,
                                        !.answer = IF outcome = "ok" THEN "ok" ELSE "none"]]
             /\ UNCHANGED faults
    <2> DEFINE y == [req[r] EXCEPT !.phase = phase, !.effected = TRUE,
                        !.outcome = outcome,
                        !.answer = IF outcome = "ok" THEN "ok" ELSE "none"]
    <2>1. phase \in Phase /\ outcome \in Outcome
      BY DEF Leads, Phase, Outcome
    <2>2. /\ y \in Request /\ y.call = req[r].call /\ y.effected
          /\ y.phase = phase /\ y.outcome = outcome
          /\ y.answer = (IF outcome = "ok" THEN "ok" ELSE "none")
      BY <1>1, <2>1 DEF Request, Answer
    <2>3. req' = [req EXCEPT ![r] = y]
      BY <1>4
    <2> HIDE DEF y
    <2>4. QED
      BY <1>1, <1>2, <1>3, <1>4, <2>2, <2>3
  <1>5. CASE /\ Fault
             /\ req' = [req EXCEPT ![r] = [@ EXCEPT !.phase = "record", !.effected = TRUE,
                                        !.outcome = "failed", !.answer = "unavailable"]]
    <2> DEFINE y == [req[r] EXCEPT !.phase = "record", !.effected = TRUE,
                        !.outcome = "failed", !.answer = "unavailable"]
    <2>1. /\ y \in Request /\ y.call = req[r].call /\ y.effected
          /\ y.phase = "record" /\ y.outcome = "failed" /\ y.answer = "unavailable"
      BY <1>1 DEF Request, Answer, Phase, Outcome
    <2>2. req' = [req EXCEPT ![r] = y] /\ faults' \in Nat
      BY <1>1, <1>5 DEF Fault
    <2> HIDE DEF y
    <2>3. QED
      BY <1>2, <1>3, <2>1, <2>2
  <1>6. QED
    BY <1>4, <1>5 DEF Committed

\* A statement that sets no status.
LEMMA StatementStep ==
    ASSUME IInv, NEW r \in Req, NEW phase, NEW outcome,
           req[r].phase = "write", Committed(r, phase, outcome),
           Leads(Kind(r), phase, outcome), UNCHANGED <<trailVars, grants>>,
           Kind(r) \notin {"retire", "restore"},
           operators' \in [Principal -> Role \cup {"none"}],
           templates' \in [Template -> Record \cup {NoTemplate}],
           orgs' \in [Org -> Template \cup {"null", "absent"}],
           credentials' \subseteq Identifier,
           \A t \in Template : templates'[t].status = "retired"
                                  <=> templates[t].status = "retired"
    PROVE  IInv'
  <1>1. PICK y \in Request : /\ req' = [req EXCEPT ![r] = y]
                             /\ y.call = req[r].call /\ y.effected
    BY CommittedSound
  <1>2. req' \in [Req -> Request] /\ EachSound' /\ faults' \in Nat
    BY CommittedSound
  <1>3. TypeOK'
    BY <1>2 DEF IInv, TypeOK, trailVars
  <1>4. TrailTellsStatus'
    BY <1>1, StatusKept DEF Kind
  <1>5. QED
    BY <1>2, <1>3, <1>4 DEF IInv

LEMMA NotReservedStep ==
    ASSUME IInv, NEW r \in Req, NotReserved(r) PROVE IInv'
  <1>1. {"quota_exceeded", "unavailable"} \subseteq Answer \ {"ok", "none"}
    BY DEF Answer
  <1>2. faults' \in Nat
    BY DEF NotReserved, IInv, TypeOK
  <1>3. QED
    BY <1>1, <1>2, FailedStep DEF NotReserved

LEMMA WriteFailsStep ==
    ASSUME IInv, NEW r \in Req, WriteFails(r) PROVE IInv'
  <1>1. faults' \in Nat
    BY DEF WriteFails, Fault, IInv, TypeOK
  <1>2. "unavailable" \in Answer \ {"ok", "none"}
    BY DEF Answer
  <1>3. QED
    BY <1>1, <1>2, FailedStep DEF WriteFails

\* A statement whose conditions do not hold any more.
LEMMA RefusedStep ==
    ASSUME IInv, NEW r \in Req, NEW code \in {"conflict", "failed_precondition",
                                             "not_found", "unavailable"},
           Failed(r, code), req[r].phase \in {"write", "explain"},
           UNCHANGED <<operators, templates, directoryVars, trailVars, grants, faults>>
    PROVE  IInv'
  <1>1. code \in Answer \ {"ok", "none"} /\ faults' \in Nat
    BY DEF Answer, IInv, TypeOK
  <1>2. QED
    BY <1>1, FailedStep

LEMMA ExplainStep ==
    ASSUME IInv, NEW r \in Req, ExplainUpdate(r) \/ ExplainAssignment(r) PROVE IInv'
  <1>1. PICK code \in {"conflict", "failed_precondition", "not_found"} : Failed(r, code)
    BY DEF ExplainUpdate, ExplainAssignment
  <1>2. QED
    BY <1>1, RefusedStep DEF ExplainUpdate, ExplainAssignment

LEMMA ToExplainStep ==
    ASSUME IInv, NEW r \in Req, GoesTo(r, "explain"), req[r].phase = "write",
           UNCHANGED <<operators, templates, directoryVars, trailVars, grants, faults>>
    PROVE  IInv'
  <1>1. {"write", "explain"} \subseteq Early /\ faults' \in Nat
    BY DEF Early, IInv, TypeOK
  <1>2. QED
    BY <1>1, GoesOnStep

LEMMA CreateTemplateStep ==
    ASSUME IInv, NEW r \in Req, CreateTemplate(r) PROVE IInv'
  <1> DEFINE c == req[r].call
             new == [name |-> c.name, labels |-> c.labels, status |-> "active"]
  <1>1. c \in Call /\ c.kind = "create" /\ Kind(r) = "create"
    BY DEF IInv, TypeOK, Request, CreateTemplate, Kind
  <1>2. new \in Record
    BY <1>1, CallType DEF Record, Status
  <1>3. CASE Failed(r, "conflict") /\ UNCHANGED <<templates, faults>>
    BY <1>3, RefusedStep DEF CreateTemplate
  <1>4. ASSUME NEW t \in Template, templates[t] = NoTemplate,
               templates' = [templates EXCEPT ![t] = new], Committed(r, "record", "ok")
        PROVE  IInv'
    <2>1. /\ templates' \in [Template -> Record \cup {NoTemplate}]
          /\ \A u \in Template : templates'[u].status = "retired"
                                    <=> templates[u].status = "retired"
      BY <1>2, <1>4 DEF IInv, TypeOK, NoTemplate
    <2>2. Leads(Kind(r), "record", "ok") /\ Kind(r) \notin {"retire", "restore"}
      BY <1>1 DEF Leads, ToldTenant
    <2>3. QED
      BY <1>4, <2>1, <2>2, StatementStep DEF CreateTemplate, IInv, TypeOK, directoryVars
  <1>5. QED
    BY <1>3, <1>4 DEF CreateTemplate

LEMMA UpdateTemplateStep ==
    ASSUME IInv, NEW r \in Req, UpdateTemplate(r) PROVE IInv'
  <1> DEFINE t == req[r].call.template
             next == req[r].next
             new == [templates[t] EXCEPT !.name = next.name, !.labels = next.labels]
  <1>1. /\ req[r].call \in Call /\ Kind(r) = "update" /\ req[r].phase = "write"
        /\ Sound(r, req[r], trail, tenantTrail)
    BY DEF IInv, TypeOK, EachSound, Request, UpdateTemplate
  <1>2. t \in Template /\ next \in [name : Name, labels : Label]
    BY <1>1, CallType DEF Sound, Kind
  <1>3. CASE GoesTo(r, "explain") /\ UNCHANGED <<templates, faults>>
    BY <1>1, <1>3, ToExplainStep DEF UpdateTemplate
  <1>4. CASE /\ Editable(t, next.name) /\ templates' = [templates EXCEPT ![t] = new]
             /\ Committed(r, "record", "ok")
    <2>1. templates[t] \in Record
      BY <1>2, <1>4 DEF IInv, TypeOK, Editable, NoTemplate
    <2>2. new \in Record /\ new.status = templates[t].status
      BY <1>2, <2>1 DEF Record
    <2> HIDE DEF new
    <2>3. /\ templates' \in [Template -> Record \cup {NoTemplate}]
          /\ \A u \in Template : templates'[u].status = "retired"
                                    <=> templates[u].status = "retired"
      BY <1>2, <1>4, <2>2 DEF IInv, TypeOK
    <2>4. Leads(Kind(r), "record", "ok") /\ Kind(r) \notin {"retire", "restore"}
      BY <1>1 DEF Leads, ToldTenant
    <2>5. QED
      BY <1>1, <1>4, <2>3, <2>4, StatementStep
         DEF UpdateTemplate, IInv, TypeOK, directoryVars
  <1>5. QED
    BY <1>3, <1>4 DEF UpdateTemplate

LEMMA SetOrganizationTemplateStep ==
    ASSUME IInv, NEW r \in Req, SetOrganizationTemplate(r) PROVE IInv'
  <1> DEFINE c == req[r].call
  <1>1. c \in Call /\ Kind(r) = "assign" /\ c.kind = "assign" /\ req[r].phase = "write"
    BY DEF IInv, TypeOK, Request, SetOrganizationTemplate, Kind
  <1>2. c.org \in Org /\ c.template \in Template \cup {"null"}
    BY <1>1, CallType
  <1>3. CASE GoesTo(r, "explain") /\ UNCHANGED <<orgs, faults>>
    BY <1>1, <1>3, ToExplainStep DEF SetOrganizationTemplate, directoryVars
  <1>4. CASE orgs' = [orgs EXCEPT ![c.org] = c.template] /\ Committed(r, "tenant", "none")
    <2>1. orgs' \in [Org -> Template \cup {"null", "absent"}]
      BY <1>2, <1>4 DEF IInv, TypeOK
    <2>2. Leads(Kind(r), "tenant", "none") /\ Kind(r) \notin {"retire", "restore"}
      BY <1>1 DEF Leads, ToldTenant
    <2>3. QED
      BY <1>1, <1>4, <2>1, <2>2, StatementStep DEF SetOrganizationTemplate, IInv, TypeOK
  <1>5. QED
    BY <1>3, <1>4 DEF SetOrganizationTemplate

LEMMA UpdateIdentityStep ==
    ASSUME IInv, NEW r \in Req, UpdateOrganizationIdentity(r) PROVE IInv'
  <1>1. Leads(Kind(r), "tenant", "none") /\ Kind(r) \notin {"retire", "restore"}
    BY DEF UpdateOrganizationIdentity, Leads, ToldTenant
  <1>2. QED
    BY <1>1, StatementStep DEF UpdateOrganizationIdentity, IInv, TypeOK, directoryVars

LEMMA RevokeOperatorStep ==
    ASSUME IInv, NEW r \in Req, RevokeOperator(r) PROVE IInv'
  <1> DEFINE p == req[r].call.target
  <1>1. Leads(Kind(r), "count", "none") /\ Kind(r) \notin {"retire", "restore"}
    BY DEF RevokeOperator, Leads, ToldTenant
  <1>2. CASE Failed(r, "failed_precondition") /\ UNCHANGED <<operators, faults>>
    BY <1>2, RefusedStep DEF RevokeOperator
  <1>3. CASE operators' = [operators EXCEPT ![p] = "none"] /\ Committed(r, "count", "none")
    <2>1. operators' \in [Principal -> Role \cup {"none"}]
      BY <1>3 DEF IInv, TypeOK
    <2>2. QED
      BY <1>1, <1>3, <2>1, StatementStep DEF RevokeOperator, IInv, TypeOK, directoryVars
  <1>4. QED
    BY <1>2, <1>3 DEF RevokeOperator

LEMMA CreateOrganizationStep ==
    ASSUME IInv, NEW r \in Req, CreateOrganization(r) PROVE IInv'
  <1> DEFINE c == req[r].call
  <1>1. c \in Call /\ Kind(r) = "onboard" /\ c.kind = "onboard"
    BY DEF IInv, TypeOK, Request, CreateOrganization, Kind
  <1>2. c.template \in Template /\ c.identifier \in Identifier
    BY <1>1, CallType
  <1>3. CASE Failed(r, "unavailable") /\ UNCHANGED <<directoryVars, faults>>
    BY <1>3, RefusedStep DEF CreateOrganization
  <1>4. ASSUME NEW o \in Org, orgs' = [orgs EXCEPT ![o] = c.template],
               credentials' = credentials \cup {c.identifier},
               Committed(r, "workspace", "none")
        PROVE  IInv'
    <2>1. /\ orgs' \in [Org -> Template \cup {"null", "absent"}]
          /\ credentials' \subseteq Identifier
      BY <1>2, <1>4 DEF IInv, TypeOK
    <2>2. Leads(Kind(r), "workspace", "none") /\ Kind(r) \notin {"retire", "restore"}
      BY <1>1 DEF Leads, ToldTenant
    <2>3. QED
      BY <1>4, <2>1, <2>2, StatementStep DEF CreateOrganization, IInv, TypeOK
  <1>5. QED
    BY <1>3, <1>4 DEF CreateOrganization

\* A request that has just been effected joins the requests of its kind and
\* Template.
LEMMA EffectsGrow ==
    ASSUME IInv, NEW r \in Req, NEW y \in Request, req' = [req EXCEPT ![r] = y],
           NEW kind, NEW t,
           y.effected, About(y, kind, t)
    PROVE  Effected(kind, t)' = Effected(kind, t) \cup {r}
  <1>1. req'[r] = y /\ \A s \in Req \ {r} : req'[s] = req[s]
    BY DEF IInv, TypeOK
  <1>2. ASSUME NEW s \in Req
        PROVE  (/\ req'[s].call.kind = kind /\ req'[s].effected
                /\ req'[s].call.template = t)
               <=> \/ /\ req[s].call.kind = kind /\ req[s].effected
                      /\ req[s].call.template = t
                   \/ s = r
    BY <1>1 DEF About
  <1>3. QED
    BY <1>2 DEF Effected, Kind

LEMMA OneMore ==
    ASSUME IInv, NEW kind, NEW t, NEW r \in Req, ~ req[r].effected
    PROVE  /\ Cardinality(Effected(kind, t)) \in Nat
           /\ Cardinality(Effected(kind, t) \cup {r}) = Cardinality(Effected(kind, t)) + 1
  <1>1. IsFiniteSet(Effected(kind, t))
    BY ConsoleAssumption, FS_Subset DEF Effected
  <1>2. r \notin Effected(kind, t)
    BY DEF Effected
  <1>3. QED
    BY <1>1, <1>2, FS_AddElement, FS_CardinalityType

LEMMA SetTemplateStatusStep ==
    ASSUME IInv, NEW r \in Req, SetTemplateStatus(r) PROVE IInv'
  <1> DEFINE t == req[r].call.template
             kind == Kind(r)
  <1>1. /\ req[r].call \in Call /\ req[r].phase = "write"
        /\ kind = req[r].call.kind /\ kind \in {"retire", "restore"}
    BY DEF IInv, TypeOK, Request, SetTemplateStatus, Kind
  <1>2. t \in Template
    BY <1>1, CallType
  <1>3. CASE Failed(r, "failed_precondition") /\ UNCHANGED <<templates, faults>>
    BY <1>1, <1>3, RefusedStep DEF SetTemplateStatus
  <1>4. CASE /\ Settable(t, kind)
             /\ templates' = [templates EXCEPT ![t].status = To(kind)]
             /\ Committed(r, "record", "ok")
    <2>1. templates[t] \in Record /\ templates[t].status = From(kind)
      BY <1>1, <1>2, <1>4 DEF IInv, TypeOK, Settable, From, NoTemplate
    <2>2. /\ [templates[t] EXCEPT !.status = To(kind)] \in Record
          /\ [templates[t] EXCEPT !.status = To(kind)].status = To(kind)
      BY <2>1 DEF Record, Status, To
    <2>3. /\ templates' \in [Template -> Record \cup {NoTemplate}]
          /\ templates'[t].status = To(kind)
          /\ \A u \in Template \ {t} : templates'[u] = templates[u]
      BY <1>2, <1>4, <2>2 DEF IInv, TypeOK
    <2>4. Leads(kind, "record", "ok")
      BY <1>1 DEF Leads, ToldTenant
    <2>5. UNCHANGED <<trailVars, operators, directoryVars, grants>>
      BY DEF SetTemplateStatus
    <2>6. /\ req' \in [Req -> Request] /\ EachSound' /\ faults' \in Nat
          /\ ~ req[r].effected
      BY <1>1, <1>4, <2>4, <2>5, CommittedSound
    <2>7. PICK y \in Request : /\ req' = [req EXCEPT ![r] = y]
                               /\ y.call = req[r].call /\ y.effected
      BY <1>1, <1>4, <2>4, <2>5, CommittedSound
    <2>8. TypeOK'
      BY <2>3, <2>5, <2>6 DEF IInv, TypeOK, trailVars, directoryVars
    <2>9. ASSUME NEW u \in Template
          PROVE  Cardinality(Effected("retire", u)') =
                    Cardinality(Effected("restore", u)')
                       + (IF templates'[u].status = "retired" THEN 1 ELSE 0)
      <3>1. Cardinality(Effected("retire", u)) =
               Cardinality(Effected("restore", u))
                  + (IF templates[u].status = "retired" THEN 1 ELSE 0)
        BY DEF IInv, TrailTellsStatus
      <3>2. /\ (kind = "retire" /\ t = u) =>
                  Effected("retire", u)' = Effected("retire", u) \cup {r}
            /\ ~ (kind = "retire" /\ t = u) =>
                  Effected("retire", u)' = Effected("retire", u)
            /\ (kind = "restore" /\ t = u) =>
                  Effected("restore", u)' = Effected("restore", u) \cup {r}
            /\ ~ (kind = "restore" /\ t = u) =>
                  Effected("restore", u)' = Effected("restore", u)
        <4>1. /\ About(y, "retire", u) <=> kind = "retire" /\ t = u
              /\ About(y, "restore", u) <=> kind = "restore" /\ t = u
          BY <1>1, <2>7 DEF About
        <4>2. /\ About(y, "retire", u) =>
                    Effected("retire", u)' = Effected("retire", u) \cup {r}
              /\ About(y, "restore", u) =>
                    Effected("restore", u)' = Effected("restore", u) \cup {r}
          BY <2>7, EffectsGrow
        <4>3. /\ ~ About(y, "retire", u) =>
                    Effected("retire", u)' = Effected("retire", u)
              /\ ~ About(y, "restore", u) =>
                    Effected("restore", u)' = Effected("restore", u)
          BY <2>7, EffectsOfOthers
        <4>4. QED
          BY <4>1, <4>2, <4>3
      <3>3. /\ Cardinality(Effected("retire", u)) \in Nat
            /\ Cardinality(Effected("restore", u)) \in Nat
            /\ Cardinality(Effected("retire", u) \cup {r})
                  = Cardinality(Effected("retire", u)) + 1
            /\ Cardinality(Effected("restore", u) \cup {r})
                  = Cardinality(Effected("restore", u)) + 1
        BY <2>6, OneMore
      <3>4. CASE u # t
        <4>1. /\ Effected("retire", u)' = Effected("retire", u)
              /\ Effected("restore", u)' = Effected("restore", u)
          BY <3>2, <3>4
        <4>2. QED
          BY <2>3, <3>1, <3>4, <4>1
      <3>5. CASE u = t /\ kind = "retire"
        <4>1. /\ Effected("retire", u)' = Effected("retire", u) \cup {r}
              /\ Effected("restore", u)' = Effected("restore", u)
          BY <3>2, <3>5
        <4>2. templates[u].status = "active" /\ templates'[u].status = "retired"
          BY <2>1, <2>3, <3>5 DEF From, To
        <4>3. Cardinality(Effected("retire", u)) = Cardinality(Effected("restore", u))
          BY <3>1, <3>3, <4>2
        <4>4. /\ Cardinality(Effected("retire", u)') = Cardinality(Effected("retire", u)) + 1
              /\ Cardinality(Effected("restore", u)') = Cardinality(Effected("restore", u))
          BY <3>3, <4>1
        <4>5. QED
          BY <4>2, <4>3, <4>4
      <3>6. CASE u = t /\ kind = "restore"
        <4>1. /\ Effected("retire", u)' = Effected("retire", u)
              /\ Effected("restore", u)' = Effected("restore", u) \cup {r}
          BY <3>2, <3>6
        <4>2. templates[u].status = "retired" /\ templates'[u].status = "active"
          BY <2>1, <2>3, <3>6 DEF From, To
        <4>3. Cardinality(Effected("retire", u)) = Cardinality(Effected("restore", u)) + 1
          BY <3>1, <4>2
        <4>4. /\ Cardinality(Effected("retire", u)') = Cardinality(Effected("retire", u))
              /\ Cardinality(Effected("restore", u)') = Cardinality(Effected("restore", u)) + 1
          BY <3>3, <4>1
        <4>5. Cardinality(Effected("retire", u)') = Cardinality(Effected("restore", u)') + 0
          BY <3>3, <4>3, <4>4
        <4>6. QED
          BY <4>2, <4>5
      <3>7. QED
        BY <1>1, <3>4, <3>5, <3>6
    <2>10. TrailTellsStatus'
      BY <2>9 DEF TrailTellsStatus
    <2>11. QED
      BY <2>6, <2>8, <2>10 DEF IInv
  <1>5. QED
    BY <1>3, <1>4 DEF SetTemplateStatus

-----------------------------------------------------------------------------
\* The records.
LEMMA TenantRecordedStep ==
    ASSUME IInv, NEW r \in Req, TenantRecorded(r) PROVE IInv'
  <1>1. /\ req[r] \in Request /\ Sound(r, req[r], trail, tenantTrail)
        /\ req[r].phase = "tenant" /\ trail' = trail /\ faults \in Nat
    BY DEF TenantRecorded, IInv, TypeOK, EachSound
  <1>2. req[r].call \in Call /\ req[r].call.kind \in {"assign", "identity", "probe"}
    BY <1>1 DEF Sound, ToldTenant, Request
  <1>3. req[r].call.org \in Org
    BY <1>2, CallType
  <1>4. /\ tenantTrail' \subseteq Org \X Req /\ tenantTrail \subseteq tenantTrail'
        /\ <<req[r].call.org, r>> \in tenantTrail'
    BY <1>3 DEF TenantRecorded, IInv, TypeOK
  <1>5. /\ faults' \in Nat
        /\ \/ req' = [req EXCEPT ![r] = [req[r] EXCEPT !.phase = "record",
                                           !.outcome = "ok", !.answer = "ok"]]
           \/ req' = [req EXCEPT ![r] = FailedAs(req[r], "unavailable")]
    BY <1>1 DEF TenantRecorded, Succeeded, Failed, FailedAs, Fault
  <1>6. [req[r] EXCEPT !.phase = "record", !.outcome = "ok", !.answer = "ok"] \in Request
    BY <1>1 DEF Request, Phase, Outcome, Answer
  <1>7. FailedAs(req[r], "unavailable") \in Request
    BY <1>1 DEF FailedAs, Request, Phase, Outcome, Answer
  <1>8. PICK y \in Request :
           /\ req' = [req EXCEPT ![r] = y]
           /\ y.call = req[r].call /\ y.effected = req[r].effected
           /\ y.phase = "record"
           /\ \/ y.outcome = "ok" /\ y.answer = "ok"
              \/ y.outcome = "failed" /\ y.answer = "unavailable"
    <2>1. CASE req' = [req EXCEPT ![r] = [req[r] EXCEPT !.phase = "record",
                                            !.outcome = "ok", !.answer = "ok"]]
      BY <1>1, <1>6, <2>1 DEF Request
    <2>2. CASE req' = [req EXCEPT ![r] = FailedAs(req[r], "unavailable")]
      BY <1>1, <1>7, <2>2 DEF FailedAs, Request
    <2>3. QED
      BY <1>5, <2>1, <2>2
  <1>9. Sound(r, y, trail', tenantTrail')
    BY <1>1, <1>4, <1>8 DEF Sound, Early
  <1>10. req' \in [Req -> Request] /\ EachSound'
    BY <1>1, <1>4, <1>8, <1>9, BecomesSound
  <1>11. TrailTellsStatus'
    BY <1>8, StatusKept DEF TenantRecorded
  <1>12. TypeOK'
    BY <1>4, <1>5, <1>10 DEF TenantRecorded, IInv, TypeOK, directoryVars
  <1>13. QED
    BY <1>10, <1>11, <1>12 DEF IInv

LEMMA TenantNotRecordedStep ==
    ASSUME IInv, NEW r \in Req, TenantNotRecorded(r) PROVE IInv'
  <1>1. PICK code \in {"not_found", "rate_limited", "quota_exceeded", "unavailable"} :
           Failed(r, code)
    BY DEF TenantNotRecorded, TenantRefused
  <1>2. code \in Answer \ {"ok", "none"} /\ faults' \in Nat
    BY DEF Answer, TenantNotRecorded, IInv, TypeOK
  <1>3. QED
    BY <1>1, <1>2, FailedStep DEF TenantNotRecorded

\* The record is stored, or not; the caller gets its answer, or unavailable.
LEMMA AnsweredStep ==
    ASSUME IInv, NEW r \in Req, req[r].phase = "record", NEW stored \in BOOLEAN,
           trail' = (IF stored THEN trail \cup {<<r, req[r].outcome>>} ELSE trail),
           NEW answer \in {req[r].answer, "unavailable"},
           answer = "unavailable" \/ stored,
           req' = [req EXCEPT ![r] = [req[r] EXCEPT !.phase = "done", !.answer = answer]],
           UNCHANGED <<operators, templates, directoryVars, tenantTrail, grants>>,
           faults' \in Nat
    PROVE  IInv'
  <1> DEFINE y == [req[r] EXCEPT !.phase = "done", !.answer = answer]
  <1>1. /\ req[r] \in Request /\ Sound(r, req[r], trail, tenantTrail)
        /\ trail \subseteq Req \X Outcome
    BY DEF IInv, TypeOK, EachSound
  <1>2. /\ y \in Request /\ y.call = req[r].call /\ y.effected = req[r].effected
        /\ y.phase = "done" /\ y.outcome = req[r].outcome /\ y.answer = answer
    BY <1>1 DEF Request, Phase, Answer
  <1>3. req' = [req EXCEPT ![r] = y]
    OBVIOUS
  <1>4. /\ \A outcome : <<r, outcome>> \in trail' <=> stored /\ outcome = req[r].outcome
        /\ \A s \in Req \ {r}, outcome \in Outcome :
              <<s, outcome>> \in trail' <=> <<s, outcome>> \in trail
        /\ trail' \subseteq Req \X Outcome
    <2>1. \A outcome : <<r, outcome>> \notin trail
      BY <1>1 DEF Sound
    <2>2. req[r].outcome \in Outcome
      BY <1>1 DEF Request
    <2>3. QED
      BY <1>1, <2>1, <2>2
  <1> HIDE DEF y
  <1>5. Sound(r, y, trail', tenantTrail')
    <2>1. /\ req[r].outcome \in {"ok", "denied", "failed"}
          /\ req[r].answer = "ok" => req[r].outcome = "ok"
          /\ req[r].outcome = "ok" =>
                /\ req[r].call.kind \in Changes => req[r].effected
                /\ req[r].call.kind \in ToldTenant =>
                      <<req[r].call.org, r>> \in tenantTrail
          /\ req[r].outcome = "denied" => ~ req[r].effected
      BY <1>1 DEF Sound
    <2>2. y.answer = "ok" => /\ <<r, "ok">> \in trail'
                             /\ y.call.kind \in ToldTenant =>
                                   <<y.call.org, r>> \in tenantTrail'
      BY <1>2, <1>4, <2>1
    <2>3. /\ <<r, "ok">> \in trail' => (y.call.kind \in Changes => y.effected)
          /\ <<r, "denied">> \in trail' => ~ y.effected
      BY <1>2, <1>4, <2>1
    <2>4. y.effected => \/ y.answer = "unavailable"
                        \/ \E outcome \in {"ok", "failed"} : <<r, outcome>> \in trail'
      BY <1>2, <1>4, <2>1
    <2>5. QED
      BY <1>2, <2>2, <2>3, <2>4 DEF Sound, Early
  <1>6. req' \in [Req -> Request] /\ EachSound'
    BY <1>2, <1>3, <1>4, <1>5, BecomesSound
  <1>7. TrailTellsStatus'
    BY <1>2, <1>3, StatusKept
  <1>8. TypeOK'
    BY <1>4, <1>6 DEF IInv, TypeOK, directoryVars
  <1>9. QED
    BY <1>6, <1>7, <1>8 DEF IInv

LEMMA RecordedStep ==
    ASSUME IInv, NEW r \in Req, Recorded(r) PROVE IInv'
  <1>1. req' = [req EXCEPT ![r] = [req[r] EXCEPT !.phase = "done",
                                                 !.answer = req[r].answer]]
    <2>1. req[r] \in Request
      BY DEF IInv, TypeOK
    <2>2. [req[r] EXCEPT !.phase = "done", !.answer = req[r].answer]
             = [req[r] EXCEPT !.phase = "done"]
      BY <2>1 DEF Request
    <2>3. QED
      BY <2>2 DEF Recorded, GoesTo
  <1>2. faults' \in Nat
    BY DEF Recorded, IInv, TypeOK
  <1>3. TRUE \in BOOLEAN
    OBVIOUS
  <1>4. QED
    BY <1>1, <1>2, <1>3, AnsweredStep DEF Recorded

LEMMA NotRecordedStep ==
    ASSUME IInv, NEW r \in Req, NotRecorded(r) PROVE IInv'
  <1>1. faults' \in Nat
    BY DEF NotRecorded, Fault, IInv, TypeOK
  <1>2. PICK stored \in BOOLEAN :
           trail' = (IF stored THEN trail \cup {<<r, req[r].outcome>>} ELSE trail)
    BY DEF NotRecorded
  <1>3. QED
    BY <1>1, <1>2, AnsweredStep DEF NotRecorded

-----------------------------------------------------------------------------
LEMMA SeedOperatorStep ==
    ASSUME IInv, NEW p \in Principal, SeedOperator(p) PROVE IInv'
  <1>1. /\ operators' \in [Principal -> Role \cup {"none"}] /\ grants' \in Nat
    <2>1. PICK role \in PLATFORM_ROLES : operators' = [operators EXCEPT ![p] = role]
      BY DEF SeedOperator
    <2>2. QED
      BY <2>1 DEF SeedOperator, IInv, TypeOK, Role
  <1>2. TypeOK'
    BY <1>1 DEF SeedOperator, IInv, TypeOK, directoryVars, trailVars
  <1>3. EachSound' /\ TrailTellsStatus'
    BY DEF SeedOperator, IInv, EachSound, TrailTellsStatus, Effected, Kind, trailVars
  <1>4. QED
    BY <1>2, <1>3 DEF IInv

LEMMA StutterStep == IInv /\ UNCHANGED vars => IInv'
  BY DEF vars, directoryVars, trailVars, IInv, TypeOK, EachSound,
         TrailTellsStatus, Effected, Kind

\* The invariant is inductive, so it holds in every reachable state.
THEOREM Invariance == Spec => []IInv
  <1>1. IInv /\ [Next]_vars => IInv'
    <2> SUFFICES ASSUME IInv, [Next]_vars PROVE IInv'
      OBVIOUS
    <2>1. ASSUME NEW r \in Req, Dispatch(r) PROVE IInv'
      BY <2>1, AskStep, ResolveStep, ChargeRefusedStep, DeniedStep, AdmittedStep
         DEF Dispatch
    <2>2. ASSUME NEW r \in Req, Read(r) PROVE IInv'
      BY <2>2, ReadFailsStep, ReadForUpdateStep, ReadsStep, SucceedingStep,
         ReadForProbeStep DEF Read
    <2>3. ASSUME NEW r \in Req, Write(r) PROVE IInv'
      BY <2>3, NotReservedStep, WriteFailsStep, CreateTemplateStep,
         UpdateTemplateStep, ExplainStep, SetTemplateStatusStep,
         SetOrganizationTemplateStep, UpdateIdentityStep, RevokeOperatorStep,
         SucceedingStep, CreateOrganizationStep DEF Write
    <2>4. ASSUME NEW r \in Req, Tell(r) PROVE IInv'
      BY <2>4, TenantRecordedStep, TenantNotRecordedStep, SucceedingStep,
         RecordedStep, NotRecordedStep DEF Tell
    <2>5. ASSUME NEW p \in Principal, SeedOperator(p) PROVE IInv'
      BY <2>5, SeedOperatorStep
    <2>6. CASE Finished \/ UNCHANGED vars
      BY <2>6, StutterStep DEF Finished
    <2>7. QED
      BY <2>1, <2>2, <2>3, <2>4, <2>5, <2>6 DEF Next
  <1>2. QED
    BY InitIInv, <1>1, PTL DEF Spec

\* Every variable keeps its type (PlatformConsole's state).
THEOREM ConsoleTypeCorrect == Spec => []TypeOK
  <1>1. IInv => TypeOK
    BY DEF IInv
  <1>2. QED
    BY <1>1, Invariance, PTL

\* Retirements and restorations of a Template take turns (setStatus).
THEOREM StatusChangesTakeTurns == Spec => []TrailTellsStatus
  <1>1. IInv => TrailTellsStatus
    BY DEF IInv
  <1>2. QED
    BY <1>1, Invariance, PTL

\* Records and answers tell what happened (recordThen, recordProbe).
THEOREM ConsoleRecordedAsDone == Spec => []RecordedAsDone
  <1>1. IInv => RecordedAsDone
    <2> SUFFICES ASSUME IInv, NEW r \in Req
                 PROVE /\ (req[r].phase = "done" /\ req[r].answer = "ok") =>
                             /\ <<r, "ok">> \in trail
                             /\ Kind(r) \in ToldTenant =>
                                   <<req[r].call.org, r>> \in tenantTrail
                       /\ (<<r, "ok">> \in trail /\ Kind(r) \in Changes) =>
                             req[r].effected
                       /\ <<r, "denied">> \in trail => ~ req[r].effected
                       /\ (req[r].phase = "done" /\ req[r].effected) =>
                             \/ req[r].answer = "unavailable"
                             \/ \E outcome \in {"ok", "failed"} :
                                   <<r, outcome>> \in trail
      BY DEF RecordedAsDone
    <2>1. Sound(r, req[r], trail, tenantTrail) /\ {"ok", "denied"} \subseteq Outcome
      BY DEF IInv, EachSound, Outcome
    <2>2. QED
      BY <2>1 DEF Sound, Kind
  <1>2. QED
    BY <1>1, Invariance, PTL

-----------------------------------------------------------------------------
\* Only a revocation, and the seeding of one, change the operators.
LEMMA OperatorsKept ==
    ASSUME NEW r \in Req,
           \/ Dispatch(r) \/ Read(r) \/ Tell(r)
           \/ Write(r) /\ ~ RevokeOperator(r)
    PROVE  Operators' = Operators
  <1>1. CASE Dispatch(r)
    BY <1>1 DEF Dispatch, Ask, Resolve, ChargeRefused, Denied, Admitted, Operators
  <1>2. CASE Read(r)
    BY <1>2 DEF Read, ReadFails, ReadForUpdate, ReadStatus, ReadAdopted,
                ReadIdentity, ReadOperator, ReadForOnboarding, Serve,
                ReadForProbe, Operators
  <1>3. CASE Tell(r)
    BY <1>3 DEF Tell, TenantRecorded, TenantNotRecorded, CreateFirstWorkspace,
                Recorded, NotRecorded, Operators
  <1>4. CASE Write(r) /\ ~ RevokeOperator(r)
    BY <1>4 DEF Write, NotReserved, WriteFails, CreateTemplate, UpdateTemplate,
                ExplainUpdate, SetTemplateStatus, SetOrganizationTemplate,
                ExplainAssignment, UpdateOrganizationIdentity, CountRemaining,
                CreateOrganization, Operators
  <1>5. QED
    BY <1>1, <1>2, <1>3, <1>4

LEMMA LastOneStep == IInv /\ [Next]_vars => LastOneResigns
  <1> SUFFICES ASSUME IInv, [Next]_vars, Operators # {}, Operators' = {}
               PROVE  \E r \in Req : /\ req[r].phase = "write" /\ Kind(r) = "revoke"
                                     /\ req[r].by = req[r].call.target
                                     /\ Operators = {req[r].by}
                                     /\ req'[r] # req[r]
    BY DEF LastOneResigns
  <1>1. ~ (Finished \/ UNCHANGED vars)
    BY DEF Finished, vars, Operators
  <1>2. ASSUME NEW p \in Principal, SeedOperator(p) PROVE FALSE
    <2>1. PICK role \in PLATFORM_ROLES : operators' = [operators EXCEPT ![p] = role]
      BY <1>2 DEF SeedOperator
    <2>2. operators'[p] # "none"
      BY <2>1 DEF IInv, TypeOK, PLATFORM_ROLES
    <2>3. QED
      BY <1>2, <2>2 DEF Operators
  <1>3. PICK r \in Req : RevokeOperator(r)
    BY <1>1, <1>2, OperatorsKept DEF Next
  <1> DEFINE p == req[r].call.target
  <1>4. /\ Revocable(p, req[r].by) /\ operators' = [operators EXCEPT ![p] = "none"]
        /\ Committed(r, "count", "none")
    BY <1>3 DEF RevokeOperator, Operators
  <1>5. Operators = {p}
    <2>1. p \in Operators
      <3>1. p \in Principal
        BY <1>3, CallType DEF RevokeOperator, IInv, TypeOK, Request, Kind
      <3>2. QED
        BY <1>4, <3>1 DEF Revocable, Operators
    <2>2. \A q \in Principal \ {p} : operators'[q] = operators[q]
      BY <1>4 DEF IInv, TypeOK
    <2>3. QED
      BY <2>1, <2>2 DEF Operators
  <1>6. p = req[r].by
    <2>1. Cardinality(Operators) = 1
      BY <1>5, FS_Singleton
    <2>2. QED
      BY <1>4, <2>1 DEF Revocable
  <1>7. req'[r] # req[r]
    <2>1. Leads(Kind(r), "count", "none") /\ req[r].phase = "write" /\ UNCHANGED trailVars
      BY <1>3 DEF RevokeOperator, Leads, ToldTenant
    <2>2. PICK y \in Request : req' = [req EXCEPT ![r] = y] /\ y.effected
      BY <1>4, <2>1, CommittedSound
    <2>3. req'[r] = y /\ ~ req[r].effected
      BY <1>4, <2>1, <2>2, CommittedSound DEF IInv, TypeOK
    <2>4. QED
      BY <2>2, <2>3
  <1>8. QED
    BY <1>3, <1>5, <1>6, <1>7 DEF RevokeOperator

\* The last operator leaves only by its own resignation (revokeOperator).
THEOREM LastOperatorResigns == Spec => LastOperatorLeavesOnlyItself
  <1>1. IInv /\ [Next]_vars => [LastOneResigns]_vars
    BY LastOneStep
  <1>2. QED
    BY <1>1, Invariance, PTL DEF Spec, LastOperatorLeavesOnlyItself

-----------------------------------------------------------------------------
\* Steps that leave Templates and Organizations alone.
LEMMA ConsoleKept ==
    ASSUME NEW r \in Req,
           \/ Dispatch(r) \/ Read(r) \/ Tell(r) \/ NotReserved(r)
           \/ WriteFails(r) \/ ExplainUpdate(r) \/ ExplainAssignment(r)
           \/ UpdateOrganizationIdentity(r) \/ RevokeOperator(r)
           \/ CountRemaining(r)
    PROVE  UNCHANGED <<templates, orgs>>
  <1>1. CASE Dispatch(r)
    BY <1>1 DEF Dispatch, Ask, Resolve, ChargeRefused, Denied, Admitted, directoryVars
  <1>2. CASE Read(r)
    BY <1>2 DEF Read, ReadFails, ReadForUpdate, ReadStatus, ReadAdopted,
                ReadIdentity, ReadOperator, ReadForOnboarding, Serve,
                ReadForProbe, directoryVars
  <1>3. CASE Tell(r)
    BY <1>3 DEF Tell, TenantRecorded, TenantNotRecorded, CreateFirstWorkspace,
                Recorded, NotRecorded, directoryVars
  <1>4. CASE \/ NotReserved(r) \/ WriteFails(r) \/ ExplainUpdate(r)
             \/ ExplainAssignment(r) \/ UpdateOrganizationIdentity(r)
             \/ RevokeOperator(r) \/ CountRemaining(r)
    BY <1>4 DEF NotReserved, WriteFails, ExplainUpdate, ExplainAssignment,
                UpdateOrganizationIdentity, RevokeOperator, CountRemaining,
                directoryVars
  <1>5. QED
    BY <1>1, <1>2, <1>3, <1>4

LEMMA WithdrawnStep == IInv /\ [Next]_vars => StaysWithdrawn
  <1> SUFFICES ASSUME IInv, [Next]_vars PROVE StaysWithdrawn
    OBVIOUS
  <1>1. CASE UNCHANGED <<templates, orgs>>
    BY <1>1 DEF StaysWithdrawn
  <1>2. ASSUME NEW r \in Req, CreateTemplate(r) PROVE StaysWithdrawn
    <2>1. UNCHANGED templates \/ \E t \in Template, new \in Record :
             templates[t] = NoTemplate /\ templates' = [templates EXCEPT ![t] = new]
      <3>1. req[r].call \in Call /\ req[r].call.kind = "create"
        BY <1>2 DEF IInv, TypeOK, Request, CreateTemplate, Kind
      <3>2. [name |-> req[r].call.name, labels |-> req[r].call.labels,
             status |-> "active"] \in Record
        BY <3>1, CallType DEF Record, Status
      <3>3. QED
        BY <1>2, <3>2 DEF CreateTemplate
    <2>2. UNCHANGED orgs
      BY <1>2 DEF CreateTemplate, directoryVars
    <2>3. QED
      BY <2>1, <2>2 DEF StaysWithdrawn, IInv, TypeOK, NoTemplate
  <1>3. ASSUME NEW r \in Req, UpdateTemplate(r) PROVE StaysWithdrawn
    <2> DEFINE t == req[r].call.template
    <2>1. UNCHANGED orgs
      BY <1>3 DEF UpdateTemplate, directoryVars
    <2>2. \/ UNCHANGED templates
          \/ /\ templates[t].status = "active"
             /\ \A u \in Template \ {t} : templates'[u] = templates[u]
      BY <1>3 DEF UpdateTemplate, Editable, IInv, TypeOK
    <2>3. QED
      BY <2>1, <2>2 DEF StaysWithdrawn
  <1>4. ASSUME NEW r \in Req, SetTemplateStatus(r) PROVE StaysWithdrawn
    <2> DEFINE t == req[r].call.template
               kind == Kind(r)
    <2>1. UNCHANGED orgs
      BY <1>4 DEF SetTemplateStatus, directoryVars
    <2>2. \/ UNCHANGED templates
          \/ /\ templates[t].status = From(kind)
             /\ templates' = [templates EXCEPT ![t] = [templates[t] EXCEPT !.status = To(kind)]]
      BY <1>4 DEF SetTemplateStatus, Settable
    <2>3. templates[t].status = "retired" /\ templates[t].status = From(kind)
             => To(kind) = "active"
      BY DEF From, To
    <2> HIDE DEF t, kind
    <2>4. \A u \in Template : templates[u].status = "retired" =>
             templates'[u] \in {templates[u], [templates[u] EXCEPT !.status = "active"]}
      BY <2>2, <2>3 DEF IInv, TypeOK
    <2>5. QED
      BY <2>1, <2>4 DEF StaysWithdrawn
  <1>5. ASSUME NEW r \in Req, SetOrganizationTemplate(r) PROVE StaysWithdrawn
    <2> DEFINE c == req[r].call
    <2>1. UNCHANGED templates
      BY <1>5 DEF SetOrganizationTemplate
    <2>2. UNCHANGED orgs \/ /\ orgs' = [orgs EXCEPT ![c.org] = c.template]
                            /\ Adoptable(c.template)
      BY <1>5 DEF SetOrganizationTemplate
    <2>3. QED
      BY <2>1, <2>2 DEF StaysWithdrawn, Adoptable, IInv, TypeOK
  <1>6. ASSUME NEW r \in Req, CreateOrganization(r) PROVE StaysWithdrawn
    <2>1. UNCHANGED templates
      BY <1>6 DEF CreateOrganization
    <2>2. UNCHANGED orgs \/ \E o \in Org : /\ orgs[o] = "absent"
                            /\ orgs' = [orgs EXCEPT ![o] = req[r].call.template]
      BY <1>6 DEF CreateOrganization, directoryVars
    <2>3. QED
      BY <2>1, <2>2 DEF StaysWithdrawn, IInv, TypeOK
  <1>7. ASSUME NEW p \in Principal, SeedOperator(p) PROVE StaysWithdrawn
    BY <1>1, <1>7 DEF SeedOperator, directoryVars
  <1>8. CASE Finished \/ UNCHANGED vars
    BY <1>1, <1>8 DEF Finished, vars, directoryVars
  <1>9. ASSUME NEW r \in Req, Dispatch(r) \/ Read(r) \/ Write(r) \/ Tell(r)
        PROVE  StaysWithdrawn
    BY <1>1, <1>2, <1>3, <1>4, <1>5, <1>6, <1>9, ConsoleKept DEF Write
  <1>10. QED
    BY <1>7, <1>8, <1>9 DEF Next

\* A retired Template is not edited, and no Organization that exists is moved
\* to it (update, setOrganizationTemplate).
THEOREM RetiredStaysWithdrawn == Spec => RetiredIsWithdrawn
  <1>1. IInv /\ [Next]_vars => [StaysWithdrawn]_vars
    BY WithdrawnStep
  <1>2. QED
    BY <1>1, Invariance, PTL DEF Spec, RetiredIsWithdrawn

-----------------------------------------------------------------------------
\* An update and what it was not asked to change.

\* Of a table of Templates and the requests: what is stored in a field of t is
\* value, or an update wrote it.
Untouched(table, rs, t, field, value) ==
    \/ table[t][field] = value
    \/ \E s \in Req : /\ rs[s].call.kind = "update" /\ rs[s].effected
                     /\ rs[s].call.template = t
                     /\ rs[s].next[field] = table[t][field]

\* A request about to update a Template bears, where it was asked for nothing,
\* what is stored there, unless another update wrote meanwhile.
EditsCurrent ==
    \A r \in Req : (req[r].phase = "write" /\ Kind(r) = "update") =>
        LET t == req[r].call.template
        IN  /\ templates[t] # NoTemplate
            /\ \A field \in {"name", "labels"} : req[r].call[field] = "same" =>
                  Untouched(templates, req, t, field, req[r].next[field])

\* What a step of request x makes of it, if it neither reads for an update nor
\* makes one.
Moved(x, y) ==
    /\ x.effected => y.effected /\ y.call = x.call /\ y.next = x.next
    /\ (y.effected /\ ~ x.effected) => x.call.kind # "update"
    /\ y.phase = "write" => y.call.kind # "update"

\* No Template is lost, and its name and labels stay.
LabelsKept ==
    \A t \in Template : templates[t] # NoTemplate =>
        /\ templates'[t] # NoTemplate
        /\ \A field \in {"name", "labels"} : templates'[t][field] = templates[t][field]

LEMMA AnsweredMoved ==
    ASSUME IInv, NEW r \in Req, NEW code, Failed(r, code) \/ Succeeded(r)
    PROVE  Moved(req[r], req'[r]) /\ \A s \in Req \ {r} : req'[s] = req[s]
  <1>1. PICK outcome \in {"failed", "ok"}, answer \in {code, "ok"} :
           req' = [req EXCEPT ![r] = [req[r] EXCEPT !.phase = "record",
                                        !.outcome = outcome, !.answer = answer]]
    BY DEF Failed, Succeeded
  <1>2. req \in [Req -> Request] /\ req[r] \in Request
    BY DEF IInv, TypeOK
  <1>3. /\ req'[r].phase = "record" /\ req'[r].effected = req[r].effected
        /\ req'[r].call = req[r].call /\ req'[r].next = req[r].next
    BY <1>1, <1>2 DEF Request
  <1>4. QED
    BY <1>1, <1>2, <1>3 DEF Moved

LEMMA GoesToMoved ==
    ASSUME IInv, NEW r \in Req, NEW phase, GoesTo(r, phase),
           phase = "write" => Kind(r) # "update"
    PROVE  Moved(req[r], req'[r]) /\ \A s \in Req \ {r} : req'[s] = req[s]
  <1>1. req \in [Req -> Request] /\ req[r] \in Request
    BY DEF IInv, TypeOK
  <1>2. req' = [req EXCEPT ![r] = [req[r] EXCEPT !.phase = phase]]
    BY DEF GoesTo
  <1>3. /\ req'[r].phase = phase /\ req'[r].effected = req[r].effected
        /\ req'[r].call = req[r].call /\ req'[r].next = req[r].next
    BY <1>1, <1>2 DEF Request
  <1>4. QED
    BY <1>1, <1>2, <1>3 DEF Moved, Kind

\* A statement that was committed leaves its request as it was, but effected.
LEMMA CommittedLeaves ==
    ASSUME IInv, NEW r \in Req, NEW phase, NEW outcome, phase # "write",
           Committed(r, phase, outcome)
    PROVE  /\ req'[r].effected /\ req'[r].call = req[r].call
           /\ req'[r].next = req[r].next /\ req'[r].phase # "write"
           /\ \A s \in Req \ {r} : req'[s] = req[s]
  <1>1. PICK p \in {phase, "record"}, told \in {outcome, "failed"},
             answer \in {"ok", "none", "unavailable"} :
           req' = [req EXCEPT ![r] = [req[r] EXCEPT !.phase = p, !.effected = TRUE,
                                        !.outcome = told, !.answer = answer]]
    <2>1. CASE req' = [req EXCEPT ![r] = [req[r] EXCEPT !.phase = phase,
                         !.effected = TRUE, !.outcome = outcome,
                         !.answer = IF outcome = "ok" THEN "ok" ELSE "none"]]
      <3>1. CASE outcome = "ok"
        BY <2>1, <3>1
      <3>2. CASE outcome # "ok"
        BY <2>1, <3>2
      <3>3. QED
        BY <3>1, <3>2
    <2>2. CASE req' = [req EXCEPT ![r] = [req[r] EXCEPT !.phase = "record",
                         !.effected = TRUE, !.outcome = "failed",
                         !.answer = "unavailable"]]
      BY <2>2
    <2>3. QED
      BY <2>1, <2>2 DEF Committed
  <1>2. req \in [Req -> Request] /\ req[r] \in Request
    BY DEF IInv, TypeOK
  <1>3. /\ req'[r].phase = p /\ req'[r].effected = TRUE
        /\ req'[r].call = req[r].call /\ req'[r].next = req[r].next
    BY <1>1, <1>2 DEF Request
  <1>4. QED
    BY <1>1, <1>2, <1>3

LEMMA DispatchMoved ==
    ASSUME IInv, NEW r \in Req, Dispatch(r)
    PROVE  Moved(req[r], req'[r]) /\ \A s \in Req \ {r} : req'[s] = req[s]
  <1>1. req \in [Req -> Request] /\ req[r] \in Request
    BY DEF IInv, TypeOK
  <1>2. CASE Ask(r)
    <2>1. PICK p \in Principal, c \in Asked :
             req' = [req EXCEPT ![r] = [Idle EXCEPT !.phase = "authority",
                                          !.by = p, !.call = c]]
      BY <1>2 DEF Ask
    <2>2. req'[r].phase = "authority" /\ req'[r].effected = FALSE
      BY <1>1, <2>1 DEF Idle
    <2>3. ~ req[r].effected
      BY <1>2 DEF Ask, IInv, EachSound, Sound, Early
    <2>4. QED
      BY <1>1, <2>1, <2>2, <2>3 DEF Moved
  <1>3. CASE Admitted(r)
    BY <1>3, GoesToMoved DEF Admitted
  <1>4. CASE Resolve(r) \/ ChargeRefused(r) \/ Denied(r)
    <2>1. ASSUME req'[r].phase # "write", req'[r].effected = req[r].effected,
                 req'[r].call = req[r].call, req'[r].next = req[r].next,
                 \A s \in Req \ {r} : req'[s] = req[s]
          PROVE  Moved(req[r], req'[r]) /\ \A s \in Req \ {r} : req'[s] = req[s]
      BY <2>1 DEF Moved
    <2>2. CASE Resolve(r) /\ Known(operators[req[r].by])
      <3>1. req' = [req EXCEPT ![r] = [req[r] EXCEPT !.phase = "admit",
                       !.role = operators[req[r].by]]]
        BY <2>2 DEF Resolve
      <3>2. /\ req'[r].phase # "write" /\ req'[r].effected = req[r].effected
            /\ req'[r].call = req[r].call /\ req'[r].next = req[r].next
            /\ \A s \in Req \ {r} : req'[s] = req[s]
        BY <1>1, <3>1 DEF Request
      <3>3. QED
        BY <2>1, <3>2
    <2>3. CASE ChargeRefused(r) \/ (Resolve(r) /\ ~ Known(operators[req[r].by]))
      <3>1. PICK answer : req' = [req EXCEPT ![r] = [req[r] EXCEPT
                                      !.phase = "done", !.answer = answer]]
        BY <2>3 DEF Resolve, ChargeRefused
      <3>2. /\ req'[r].phase # "write" /\ req'[r].effected = req[r].effected
            /\ req'[r].call = req[r].call /\ req'[r].next = req[r].next
            /\ \A s \in Req \ {r} : req'[s] = req[s]
        BY <1>1, <3>1 DEF Request
      <3>3. QED
        BY <2>1, <3>2
    <2>4. CASE Denied(r)
      <3>1. PICK code : req' = [req EXCEPT ![r] = [req[r] EXCEPT
                           !.phase = "record", !.outcome = "denied", !.answer = code]]
        BY <2>4 DEF Denied
      <3>2. /\ req'[r].phase # "write" /\ req'[r].effected = req[r].effected
            /\ req'[r].call = req[r].call /\ req'[r].next = req[r].next
            /\ \A s \in Req \ {r} : req'[s] = req[s]
        BY <1>1, <3>1 DEF Request
      <3>3. QED
        BY <2>1, <3>2
    <2>5. QED
      BY <1>4, <2>2, <2>3, <2>4
  <1>5. QED
    BY <1>2, <1>3, <1>4 DEF Dispatch

\* Every step of a request but the two moves it, and keeps labels.
LEMMA OthersMove ==
    ASSUME IInv, NEW r \in Req,
           \/ Dispatch(r) \/ Tell(r)
           \/ Read(r) /\ ~ ReadForUpdate(r)
           \/ Write(r) /\ ~ UpdateTemplate(r)
    PROVE  Moved(req[r], req'[r]) /\ \A s \in Req \ {r} : req'[s] = req[s]
  <1>1. CASE Dispatch(r)
    BY <1>1, DispatchMoved
  <1>2. CASE Read(r) /\ ~ ReadForUpdate(r)
    <2>1. CASE ReadFails(r) \/ Serve(r)
      BY <2>1, AnsweredMoved DEF ReadFails, Serve
    <2>2. CASE ReadStatus(r)
      BY <2>2, AnsweredMoved, GoesToMoved DEF ReadStatus
    <2>3. CASE ReadAdopted(r)
      BY <2>3, AnsweredMoved, GoesToMoved DEF ReadAdopted
    <2>4. CASE ReadIdentity(r)
      BY <2>4, AnsweredMoved, GoesToMoved DEF ReadIdentity
    <2>5. CASE ReadOperator(r)
      BY <2>5, AnsweredMoved, GoesToMoved DEF ReadOperator
    <2>6. CASE ReadForOnboarding(r)
      BY <2>6, AnsweredMoved, GoesToMoved DEF ReadForOnboarding
    <2>7. CASE ReadForProbe(r)
      BY <2>7, GoesToMoved DEF ReadForProbe
    <2>8. QED
      BY <1>2, <2>1, <2>2, <2>3, <2>4, <2>5, <2>6, <2>7 DEF Read
  <1>3. CASE Write(r) /\ ~ UpdateTemplate(r)
    <2>1. ASSUME NEW phase \in {"record", "tenant", "count", "workspace"},
                 NEW outcome, Committed(r, phase, outcome), Kind(r) # "update"
          PROVE  Moved(req[r], req'[r]) /\ \A s \in Req \ {r} : req'[s] = req[s]
      BY <2>1, CommittedLeaves DEF Moved, Kind
    <2>2. CASE NotReserved(r) \/ WriteFails(r) \/ ExplainUpdate(r)
               \/ ExplainAssignment(r) \/ CountRemaining(r)
      BY <2>2, AnsweredMoved DEF NotReserved, WriteFails, ExplainUpdate,
                                 ExplainAssignment, CountRemaining
    <2>3. CASE CreateTemplate(r)
      BY <2>1, <2>3, AnsweredMoved DEF CreateTemplate
    <2>4. CASE SetTemplateStatus(r)
      BY <2>1, <2>4, AnsweredMoved DEF SetTemplateStatus
    <2>5. CASE SetOrganizationTemplate(r)
      BY <2>1, <2>5, GoesToMoved DEF SetOrganizationTemplate
    <2>6. CASE UpdateOrganizationIdentity(r)
      BY <2>1, <2>6 DEF UpdateOrganizationIdentity
    <2>7. CASE RevokeOperator(r)
      BY <2>1, <2>7, AnsweredMoved DEF RevokeOperator
    <2>8. CASE CreateOrganization(r)
      BY <2>1, <2>8, AnsweredMoved DEF CreateOrganization
    <2>9. QED
      BY <1>3, <2>2, <2>3, <2>4, <2>5, <2>6, <2>7, <2>8 DEF Write
  <1>4. CASE Tell(r)
    <2>1. CASE TenantRecorded(r)
      BY <2>1, AnsweredMoved DEF TenantRecorded
    <2>2. CASE TenantNotRecorded(r)
      BY <2>2, AnsweredMoved DEF TenantNotRecorded, TenantRefused
    <2>3. CASE CreateFirstWorkspace(r)
      BY <2>3, AnsweredMoved DEF CreateFirstWorkspace
    <2>4. CASE Recorded(r)
      BY <2>4, GoesToMoved DEF Recorded
    <2>5. CASE NotRecorded(r)
      <3>1. req \in [Req -> Request] /\ req[r] \in Request
        BY DEF IInv, TypeOK
      <3>2. req' = [req EXCEPT ![r] = [req[r] EXCEPT !.phase = "done",
                                                     !.answer = "unavailable"]]
        BY <2>5 DEF NotRecorded
      <3>3. /\ req'[r].phase = "done" /\ req'[r].effected = req[r].effected
            /\ req'[r].call = req[r].call /\ req'[r].next = req[r].next
        BY <3>1, <3>2 DEF Request
      <3>4. QED
        BY <3>1, <3>2, <3>3 DEF Moved
    <2>6. QED
      BY <1>4, <2>1, <2>2, <2>3, <2>4, <2>5 DEF Tell
  <1>5. QED
    BY <1>1, <1>2, <1>3, <1>4

LEMMA OthersKeepLabels ==
    ASSUME IInv, NEW r \in Req,
           \/ Dispatch(r) \/ Read(r) \/ Tell(r)
           \/ Write(r) /\ ~ UpdateTemplate(r)
    PROVE  LabelsKept
  <1>1. CASE UNCHANGED templates
    BY <1>1 DEF LabelsKept
  <1>2. CASE CreateTemplate(r)
    <2>1. \/ UNCHANGED templates
          \/ \E t \in Template : \E new : /\ templates[t] = NoTemplate
                                           /\ templates' = [templates EXCEPT ![t] = new]
      BY <1>2 DEF CreateTemplate
    <2>2. QED
      BY <1>1, <2>1 DEF LabelsKept, IInv, TypeOK
  <1>3. CASE SetTemplateStatus(r)
    <2> DEFINE t == req[r].call.template
               status == To(Kind(r))
    <2>1. \/ UNCHANGED templates
          \/ /\ templates[t].status = From(Kind(r))
             /\ templates' = [templates EXCEPT ![t] = [templates[t] EXCEPT !.status = status]]
      BY <1>3 DEF SetTemplateStatus, Settable
    <2>2. From(Kind(r)) # "absent" /\ t \in Template
      BY <1>3, CallType DEF From, SetTemplateStatus, IInv, TypeOK, Request, Kind
    <2>3. status # "absent"
      BY DEF To
    <2> HIDE DEF t, status
    <2>4. CASE UNCHANGED templates
      BY <1>1, <2>4
    <2>5. CASE /\ templates[t].status = From(Kind(r))
               /\ templates' = [templates EXCEPT ![t] = [templates[t] EXCEPT !.status = status]]
      <3>1. templates[t] \in Record
        BY <2>2, <2>5 DEF IInv, TypeOK, NoTemplate
      <3>2. /\ templates'[t].name = templates[t].name
            /\ templates'[t].labels = templates[t].labels
            /\ templates'[t].status = status
        BY <2>2, <2>5, <3>1 DEF IInv, TypeOK, Record
      <3>3. templates'[t] # NoTemplate
        BY <2>3, <3>2 DEF NoTemplate
      <3>4. \A u \in Template \ {t} : templates'[u] = templates[u]
        BY <2>5 DEF IInv, TypeOK
      <3>5. QED
        BY <3>2, <3>3, <3>4 DEF LabelsKept
    <2>6. QED
      BY <2>1, <2>4, <2>5
  <1>4. CASE \/ Dispatch(r) \/ Read(r) \/ Tell(r) \/ NotReserved(r)
             \/ WriteFails(r) \/ ExplainUpdate(r) \/ ExplainAssignment(r)
             \/ UpdateOrganizationIdentity(r) \/ RevokeOperator(r)
             \/ CountRemaining(r)
    BY <1>1, <1>4, ConsoleKept
  <1>5. CASE SetOrganizationTemplate(r) \/ CreateOrganization(r)
    BY <1>1, <1>5 DEF SetOrganizationTemplate, CreateOrganization
  <1>6. QED
    BY <1>2, <1>3, <1>4, <1>5 DEF Write

\* What an update wrote is remembered, so what was untouched remains so.
LEMMA UntouchedKept ==
    ASSUME NEW rs, NEW rs2, NEW r \in Req, NEW table, NEW table2,
           rs[r].effected => /\ rs2[r].effected
                             /\ rs2[r].call = rs[r].call
                             /\ rs2[r].next = rs[r].next,
           \A s \in Req \ {r} : rs2[s] = rs[s],
           NEW t, NEW field, NEW value, table2[t][field] = table[t][field],
           Untouched(table, rs, t, field, value)
    PROVE  Untouched(table2, rs2, t, field, value)
  BY DEF Untouched

LEMMA EditsCurrentKept ==
    ASSUME IInv, EditsCurrent, NEW r \in Req, Moved(req[r], req'[r]),
           \A s \in Req \ {r} : req'[s] = req[s], LabelsKept
    PROVE  EditsCurrent' /\ EditKeepsTheRest
  <1>1. EditsCurrent'
    <2> SUFFICES ASSUME NEW s \in Req, req'[s].phase = "write",
                        req'[s].call.kind = "update"
                 PROVE  /\ templates'[req'[s].call.template] # NoTemplate
                        /\ \A field \in {"name", "labels"} :
                              req'[s].call[field] = "same" =>
                                 Untouched(templates', req', req'[s].call.template,
                                           field, req'[s].next[field])
      BY DEF EditsCurrent, Kind
    <2>1. s # r /\ req'[s] = req[s]
      BY DEF Moved
    <2> DEFINE t == req[s].call.template
    <2>2. t \in Template
      BY <2>1, CallType DEF IInv, TypeOK, Request
    <2>3. /\ templates[t] # NoTemplate
          /\ \A field \in {"name", "labels"} : req[s].call[field] = "same" =>
                Untouched(templates, req, t, field, req[s].next[field])
      BY <2>1 DEF EditsCurrent, Kind
    <2>4. /\ templates'[t] # NoTemplate
          /\ \A field \in {"name", "labels"} :
                templates'[t][field] = templates[t][field]
      BY <2>2, <2>3 DEF LabelsKept
    <2>5. ASSUME NEW field \in {"name", "labels"}, req[s].call[field] = "same"
          PROVE  Untouched(templates', req', t, field, req[s].next[field])
      <3>1. Untouched(templates, req, t, field, req[s].next[field])
        BY <2>3, <2>5
      <3>2. templates'[t][field] = templates[t][field]
        BY <2>4
      <3>3. req[r].effected => /\ req'[r].effected /\ req'[r].call = req[r].call
                               /\ req'[r].next = req[r].next
        BY DEF Moved
      <3>4. QED
        BY <3>1, <3>2, <3>3 DEF Untouched
    <2>6. QED
      BY <2>1, <2>4, <2>5
  <1>2. EditKeepsTheRest
    BY DEF EditKeepsTheRest, Moved, Kind
  <1>3. QED
    BY <1>1, <1>2

\* An update reads what is current.
LEMMA ReadForUpdateCurrent ==
    ASSUME IInv, EditsCurrent, NEW r \in Req, ReadForUpdate(r)
    PROVE  EditsCurrent' /\ EditKeepsTheRest
  <1> DEFINE c == req[r].call
             t == c.template
             record == templates[t]
  <1>1. req \in [Req -> Request] /\ req[r] \in Request /\ LabelsKept
    BY DEF IInv, TypeOK, ReadForUpdate, LabelsKept
  <1>2. CASE \E code : Failed(r, code)
    BY <1>1, <1>2, AnsweredMoved, EditsCurrentKept
  <1>3. CASE /\ record # NoTemplate
             /\ req' = [req EXCEPT ![r] = [req[r] EXCEPT !.phase = "write",
                                             !.next = Merged(c, record)]]
    <2>1. /\ req'[r].call = c /\ req'[r].effected = req[r].effected
          /\ req'[r].next = Merged(c, record) /\ ~ req[r].effected
          /\ \A s \in Req \ {r} : req'[s] = req[s]
      BY <1>1, <1>3 DEF Request, ReadForUpdate, IInv, EachSound, Sound, Early
    <2>2. templates' = templates
      BY DEF ReadForUpdate
    <2>3. \A field \in {"name", "labels"} : c[field] = "same" =>
             Untouched(templates', req', t, field, req'[r].next[field])
      BY <2>1, <2>2 DEF Untouched, Merged
    <2>4. ASSUME NEW s \in Req \ {r}, req'[s].phase = "write",
                 req'[s].call.kind = "update"
          PROVE  /\ templates'[req'[s].call.template] # NoTemplate
                 /\ \A field \in {"name", "labels"} :
                       req'[s].call[field] = "same" =>
                          Untouched(templates', req', req'[s].call.template,
                                    field, req'[s].next[field])
      <3>1. /\ templates[req[s].call.template] # NoTemplate
            /\ \A field \in {"name", "labels"} : req[s].call[field] = "same" =>
                  Untouched(templates, req, req[s].call.template, field,
                            req[s].next[field])
        BY <2>1, <2>4 DEF EditsCurrent, Kind
      <3>2. QED
        BY <2>1, <2>2, <2>4, <3>1, UntouchedKept
    <2>5. EditsCurrent'
      BY <1>3, <2>1, <2>2, <2>3, <2>4 DEF EditsCurrent, Kind
    <2>6. EditKeepsTheRest
      BY <2>1 DEF EditKeepsTheRest
    <2>7. QED
      BY <2>5, <2>6
  <1>4. QED
    BY <1>2, <1>3 DEF ReadForUpdate

\* An update writes what it was asked, and else what was current.
LEMMA UpdateTemplateCurrent ==
    ASSUME IInv, EditsCurrent, NEW r \in Req, UpdateTemplate(r)
    PROVE  EditsCurrent' /\ EditKeepsTheRest
  <1> DEFINE t == req[r].call.template
             next == req[r].next
             new == [templates[t] EXCEPT !.name = next.name, !.labels = next.labels]
  <1>1. /\ req \in [Req -> Request] /\ req[r] \in Request /\ t \in Template
        /\ req[r].phase = "write" /\ req[r].call.kind = "update"
        /\ ~ req[r].effected
    BY CallType DEF IInv, TypeOK, UpdateTemplate, Request, Kind, EachSound, Sound, Early
  <1>2. CASE GoesTo(r, "explain") /\ UNCHANGED templates
    <2>1. LabelsKept
      BY <1>2 DEF LabelsKept
    <2>2. QED
      BY <1>2, <2>1, GoesToMoved, EditsCurrentKept
  <1>3. CASE /\ Editable(t, next.name) /\ templates' = [templates EXCEPT ![t] = new]
             /\ Committed(r, "record", "ok")
    <2>1. templates[t] \in Record
      BY <1>1, <1>3 DEF IInv, TypeOK, Editable, NoTemplate
    <2>2. /\ new \in [name : {next.name}, labels : {next.labels}, status : Status]
      BY <2>1 DEF Record
    <2>3. /\ templates'[t] = new
          /\ \A u \in Template \ {t} : templates'[u] = templates[u]
      BY <1>1, <1>3 DEF IInv, TypeOK
    <2> HIDE DEF new
    <2>4. /\ templates'[t].name = next.name /\ templates'[t].labels = next.labels
          /\ templates'[t] # NoTemplate
      BY <2>2, <2>3 DEF NoTemplate, Status
    <2>5. /\ req'[r].effected /\ req'[r].call = req[r].call
          /\ req'[r].next = next /\ req'[r].phase # "write"
          /\ \A s \in Req \ {r} : req'[s] = req[s]
      BY <1>3, CommittedLeaves
    <2>6. ASSUME NEW field \in {"name", "labels"}, NEW value
          PROVE  Untouched(templates', req', t, field, value)
      BY <1>1, <2>4, <2>5 DEF Untouched
    <2>7. ASSUME NEW s \in Req, req'[s].phase = "write",
                 req'[s].call.kind = "update"
          PROVE  /\ templates'[req'[s].call.template] # NoTemplate
                 /\ \A field \in {"name", "labels"} :
                       req'[s].call[field] = "same" =>
                          Untouched(templates', req', req'[s].call.template,
                                    field, req'[s].next[field])
      <3> DEFINE u == req[s].call.template
      <3>1. s # r /\ req'[s] = req[s] /\ u \in Template
        BY <2>5, <2>7, CallType DEF IInv, TypeOK, Request
      <3>2. /\ templates[u] # NoTemplate
            /\ \A field \in {"name", "labels"} : req[s].call[field] = "same" =>
                  Untouched(templates, req, u, field, req[s].next[field])
        BY <2>7, <3>1 DEF EditsCurrent, Kind
      <3>3. CASE u = t
        BY <2>4, <2>6, <3>1, <3>3
      <3>4. CASE u # t
        <4>1. templates'[u] = templates[u]
          BY <2>3, <3>1, <3>4
        <4>2. ASSUME NEW field \in {"name", "labels"}, req[s].call[field] = "same"
              PROVE  Untouched(templates', req', u, field, req[s].next[field])
          <5>1. Untouched(templates, req, u, field, req[s].next[field])
            BY <3>2, <4>2
          <5>2. templates'[u][field] = templates[u][field]
            BY <4>1
          <5>3. QED
            BY <1>1, <2>5, <5>1, <5>2 DEF Untouched
        <4>3. QED
          BY <3>1, <3>2, <4>1, <4>2
      <3>5. QED
        BY <3>3, <3>4
    <2>8. EditsCurrent'
      BY <2>7 DEF EditsCurrent, Kind
    <2>9. ASSUME NEW field \in {"name", "labels"}, req[r].call[field] = "same"
          PROVE  \/ templates'[t][field] = templates[t][field]
                 \/ \E s \in Effected("update", t) :
                       req[s].next[field] = templates[t][field]
      <3>1. Untouched(templates, req, t, field, next[field])
        BY <1>1, <2>9 DEF EditsCurrent, Kind
      <3>2. templates'[t][field] = next[field]
        BY <2>4
      <3>3. QED
        BY <3>1, <3>2 DEF Untouched, Effected, Kind
    <2>10. EditKeepsTheRest
      BY <2>5, <2>9 DEF EditKeepsTheRest
    <2>11. QED
      BY <2>8, <2>10
  <1>4. QED
    BY <1>2, <1>3 DEF UpdateTemplate

LEMMA EditStep == IInv /\ EditsCurrent /\ [Next]_vars => EditsCurrent' /\ EditKeepsTheRest
  <1> SUFFICES ASSUME IInv, EditsCurrent, [Next]_vars
               PROVE  EditsCurrent' /\ EditKeepsTheRest
    OBVIOUS
  <1>1. CASE UNCHANGED <<templates, req>>
    BY <1>1 DEF EditsCurrent, EditKeepsTheRest, Kind
  <1>2. ASSUME NEW p \in Principal, SeedOperator(p)
        PROVE  EditsCurrent' /\ EditKeepsTheRest
    BY <1>1, <1>2 DEF SeedOperator
  <1>3. CASE Finished \/ UNCHANGED vars
    BY <1>1, <1>3 DEF Finished, vars
  <1>4. ASSUME NEW r \in Req, Dispatch(r) \/ Read(r) \/ Write(r) \/ Tell(r)
        PROVE  EditsCurrent' /\ EditKeepsTheRest
    BY <1>4, ReadForUpdateCurrent, UpdateTemplateCurrent, OthersMove,
       OthersKeepLabels, EditsCurrentKept
  <1>5. QED
    BY <1>2, <1>3, <1>4 DEF Next

\* An update overwrites, where it was asked for nothing, only what was there
\* when it read or what another update wrote (parseTemplateUpdate, update).
THEOREM EditsLeaveTheRest == Spec => EditsKeepTheRest
  <1>1. Init => EditsCurrent
    BY DEF Init, EditsCurrent, Idle
  <1>2. IInv /\ EditsCurrent /\ [Next]_vars => EditsCurrent' /\ [EditKeepsTheRest]_vars
    BY EditStep
  <1>3. QED
    BY <1>1, <1>2, Invariance, PTL DEF Spec, EditsKeepTheRest
=============================================================================
