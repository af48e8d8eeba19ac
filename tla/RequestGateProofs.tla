--------------------------- MODULE RequestGateProofs ---------------------------
(***************************************************************************)
(* Theorems about RequestGate.  The gate and the transport are callers of  *)
(* the manager like any other, so everything proved of TokenManager holds  *)
(* of the composed system, and what the manager promises its callers is    *)
(* what the properties of a request rest on.                               *)
(***************************************************************************)
EXTENDS RequestGate, TokenManagerProofs

---------------------------------------------------------------------------
(* Headers.                                                                *)

LEMMA CredentialsFit ==
    ASSUME NEW h \in Inputs, WellFormed(h), HasCredentials(h)
    PROVE  h.account \in Accounts /\ h.password \in Passwords
  BY HeadersAssumption DEF Headers, WellFormed, TooLong, HasCredentials

LEMMA OwnToken ==
    ASSUME NEW h \in Inputs, WellFormed(h), ~HasCredentials(h)
    PROVE  PersonalToken(h) \in PersonalTokens
<1>1. h \in Headers
  BY HeadersAssumption
<1>2. h.account = NoHeader /\ h.password = NoHeader
  BY <1>1 DEF WellFormed, Incomplete, HasCredentials, Headers
<1>3. h.token # NoHeader \/ h.authorization # NoHeader
  <2>1. SUFFICES ASSUME h.token = NoHeader, h.authorization = NoHeader PROVE h = NoHeaders
    BY DEF WellFormed, Incomplete
  <2> QED
    BY <1>1, <1>2, <2>1 DEF Headers, NoHeaders
<1> QED
  BY <1>1, <1>3 DEF WellFormed, TooLong, HasCredentials, PersonalToken, Headers

---------------------------------------------------------------------------
(* Which way a request goes: with credentials through the manager, without *)
(* them never.                                                             *)

Route(c) ==
    /\ stage[c] \notin {"idle", "answering"} => asked[c] \in Inputs /\ WellFormed(asked[c])
    /\ stage[c] \in {"login", "token", "refresh"} => HasCredentials(asked[c])
    /\ stage[c] \in {"validating", "sending"} => ~HasCredentials(asked[c])

RouteInv == GateTypeOK /\ \A c \in Callers : Route(c)

\* What a step of another request leaves alone.
SameRequest(c) ==
    /\ SameCaller(c) /\ verdict'[c] = verdict[c]
    /\ stage'[c] = stage[c] /\ asked'[c] = asked[c]
    /\ first'[c] = first[c] /\ second'[c] = second[c]
    /\ effects'[c] = effects[c] /\ outcome'[c] = outcome[c] /\ answer'[c] = answer[c]
    /\ asOf'[c] = asOf[c] /\ wasLive'[c] = wasLive[c] /\ denied'[c] = denied[c]

LEMMA CarriedType ==
    ASSUME TypeOK, RouteInv, NEW c \in Callers, OnTheWire(c)
    PROVE  /\ Carried(c) \in Sessions
           /\ stage[c] \in {"sending", "token", "refresh"}
           /\ HasCredentials(asked[c]) => Carried(c) = result[c].token
           /\ ~HasCredentials(asked[c]) => Carried(c) = PersonalToken(asked[c])
<1>1. stage[c] \in {"sending", "token", "refresh"}
  BY DEF OnTheWire, HasSessionNow, Returned
<1>2. asked[c] \in Inputs /\ WellFormed(asked[c])
  BY <1>1 DEF RouteInv, Route
<1>3. result[c].token \in Token \cup {NoToken}
  BY DEF TypeOK
<1> QED
  BY <1>1, <1>2, <1>3, OwnToken DEF Carried, Sessions

LEMMA NoLongerGoodTypes ==
    ASSUME GateTypeOK, NEW t, NoLongerGood(t)
    PROVE  closed' \subseteq Token /\ live' \subseteq PersonalTokens
  BY DEF GateTypeOK, NoLongerGood, zentaoVars

LEMMA StatusTypes ==
    ASSUME NEW kind
    PROVE  /\ StatusOf(kind) \subseteq Answers /\ ToldOf(kind) \subseteq Told \ {"denied", "none"}
           /\ "unauthorized" \in StatusOf(kind) => kind = "rejected"
<1>1. CASE kind = "rejected"
  BY <1>1 DEF StatusOf, ToldOf, Answers, Told
<1>2. CASE kind \in {"throttled", "guarded"}
  BY <1>2 DEF StatusOf, ToldOf, Answers, Told
<1>3. CASE kind = "failed"
  BY <1>3 DEF StatusOf, ToldOf, Answers, Told
<1>4. CASE kind \notin {"rejected", "throttled", "guarded", "failed"}
  BY <1>4 DEF StatusOf, ToldOf, Answers, Told
<1> QED
  BY <1>1, <1>2, <1>3, <1>4

LEMMA BeginTypes ==
    ASSUME RouteInv, NEW c \in Callers, Begin(c) PROVE RouteInv'
<1> USE DEF GateTypeOK, RouteInv, Route, zentaoVars
<1>1. PICK h \in Inputs :
          RefuseRequest(c, h) \/ RefuseHeaders(c, h) \/ StartLogin(c, h) \/ StartValidation(c, h)
  BY DEF Begin
<1>2. CASE Arrive(c, h) /\ \E what \in Answers : AnswerWith(c, what)
  <2>1. PICK what \in Answers : answer' = [answer EXCEPT ![c] = what]
    BY <1>2 DEF AnswerWith
  <2> QED BY <1>2, <2>1 DEF Arrive, AnswerWith, Goto, Stages
<1>3. CASE StartLogin(c, h)
  BY <1>3 DEF StartLogin, Arrive, Goto, Stages
<1>4. CASE StartValidation(c, h)
  BY <1>4 DEF StartValidation, Arrive, Goto, Stages
<1> QED
  BY <1>1, <1>2, <1>3, <1>4 DEF RefuseRequest, RefuseHeaders, Answers

LEMMA FrontTypes ==
    ASSUME RouteInv, NEW c \in Callers, Front(c) PROVE RouteInv'
<1> USE DEF GateTypeOK, RouteInv, Route, zentaoVars, Quietly, ghostVars
<1>1. ASSUME NEW what \in Answers, AnswerWith(c, what), closed' \subseteq Token,
             live' \subseteq PersonalTokens, Quietly, UNCHANGED outcome
      PROVE  RouteInv'
  BY <1>1 DEF AnswerWith, Goto, Stages
<1>2. CASE RefuseLogin(c)
  BY <1>1, <1>2, StatusTypes DEF RefuseLogin
<1>3. CASE AdmitToken(c)
  BY <1>3 DEF AdmitToken, Goto, Stages
<1>4. CASE RefuseToken(c)
  BY <1>1, <1>4, StatusTypes, NoLongerGoodTypes DEF RefuseToken, Answers
<1> QED
  BY <1>2, <1>3, <1>4 DEF Front

\* A request for which the tool is told something goes on in the handler.
LEMMA TellTypes ==
    ASSUME RouteInv, NEW c \in Callers, NEW what \in Told, Tell(c, what), stage[c] # "answering",
           stage[c] # "idle"
    PROVE  /\ stage' \in [Callers -> Stages] /\ outcome' \in [Callers -> Told]
           /\ UNCHANGED asked => \A d \in Callers : Route(d)'
  BY DEF RouteInv, GateTypeOK, Route, Tell, Goto, Stages

LEMMA SentTypes ==
    ASSUME TypeOK, RouteInv, NEW c \in Callers, Sent(c)
    PROVE  /\ first' \in [Callers -> Sessions] /\ second' \in [Callers -> Sessions]
           /\ stage[c] \in {"sending", "token", "refresh"}
           /\ UNCHANGED <<asked, gone, sent, answer, requests, asOf, wasLive, opened, turnedDown>>
<1>1. Carried(c) \in Sessions /\ stage[c] \in {"sending", "token", "refresh"}
  BY CarriedType DEF Sent
<1> QED
  BY <1>1 DEF Sent, RouteInv, GateTypeOK

LEMMA BusinessTypes ==
    ASSUME TypeOK, RouteInv, NEW c \in Callers, Business(c) PROVE RouteInv'
<1> USE DEF GateTypeOK, zentaoVars
<1>1. CASE AskToken(c) \/ UsePersonalToken(c)
  <2>1. stage[c] \in {"handling", "login"} /\ NoToken \in Sessions
    BY <1>1 DEF AskToken, UsePersonalToken, NewBusiness, Handling, HasSessionNow, Returned, Sessions
  <2>2. NewBusiness(c) /\ stage' \in [Callers -> Stages]
    BY <1>1 DEF AskToken, UsePersonalToken, RouteInv, Goto, Stages
  <2>3. GateTypeOK'
    BY <2>1, <2>2 DEF NewBusiness, RouteInv, Told
  <2>4. \A d \in Callers : Route(d)'
    BY <1>1, <2>1 DEF AskToken, UsePersonalToken, NewBusiness, RouteInv, Route, Goto
  <2> QED BY <2>3, <2>4 DEF RouteInv
<1>2. CASE NoSession(c)
  <2>1. PICK what \in Told : Tell(c, what)
    BY <1>2, StatusTypes DEF NoSession
  <2>2. stage[c] \in {"token", "refresh"}
    BY <1>2 DEF NoSession, HasNone, Returned
  <2> QED
    BY <1>2, <2>1, <2>2, TellTypes DEF NoSession, Quietly, ghostVars, RouteInv
<1>3. CASE Execute(c) \/ SendFails(c)
  <2>1. PICK what \in Told : Tell(c, what)
    BY <1>3 DEF Execute, SendFails, Told
  <2>2. effects' \in [Callers -> Nat]
    BY <1>3 DEF Execute, SendFails, RouteInv
  <2> QED
    BY <1>3, <2>1, <2>2, TellTypes, SentTypes DEF Execute, SendFails, RouteInv
<1>4. CASE Reject401(c)
  <2>1. /\ closed' \subseteq Token /\ live' \subseteq PersonalTokens
        /\ denied' \in [Callers -> BOOLEAN]
    BY <1>4, NoLongerGoodTypes DEF Reject401, RouteInv
  <2>2. /\ stage' \in [Callers -> Stages] /\ outcome' \in [Callers -> Told]
        /\ \A d \in Callers : Route(d)'
    <3>1. CASE MayRefresh(c)
      <4>1. /\ stage[c] = "token" /\ stage' = [stage EXCEPT ![c] = "refresh"]
            /\ UNCHANGED <<outcome, asked>>
        BY <1>4, <3>1, SentTypes DEF Reject401, MayRefresh, Retry, Goto
      <4> QED BY <4>1 DEF RouteInv, Route, Stages
    <3>2. CASE ~MayRefresh(c)
      BY <1>4, <3>2, TellTypes, SentTypes DEF Reject401, Told
    <3> QED BY <3>1, <3>2
  <2> QED
    BY <1>4, <2>1, <2>2, SentTypes DEF Reject401, RouteInv
<1> QED
  BY <1>1, <1>2, <1>3, <1>4 DEF Business

LEMMA ServeTypes ==
    ASSUME RouteInv, NEW c \in Callers, Serve(c) \/ Depart(c) PROVE RouteInv'
<1> USE DEF GateTypeOK, RouteInv, Route, zentaoVars, Goto, Stages
<1>1. CASE Serve(c)
  BY <1>1 DEF Serve, Quietly, ghostVars, AnswerWith, Answers
<1>2. CASE Depart(c)
  BY <1>2 DEF Depart, Sessions, Told, Answers
<1> QED
  BY <1>1, <1>2

ManagerActs(c) ==
    ManagerLookup(c) \/ ManagerWaits(c) \/ ZentaoDecides(c) \/ ManagerReceives(c)

LEMMA ManagerTypesKept ==
    ASSUME TypeOK, RouteInv, NEW c \in Callers, ManagerActs(c) PROVE RouteInv'
<1> USE DEF requestVars, zentaoVars
<1>1. ASSUME Moment(c), UNCHANGED <<requestVars, zentaoVars, wasLive, denied, opened, turnedDown>>
      PROVE  RouteInv'
  BY <1>1 DEF Moment, RouteInv, Route, GateTypeOK, TypeOK
<1>2. CASE ZentaoDecides(c)
  <2>1. opened' \subseteq [account : Accounts, password : Passwords, at : Nat]
    BY <1>2, CallTypes DEF ZentaoDecides, RouteInv, GateTypeOK, TypeOK
  <2>2. turnedDown' \subseteq Accounts \X Passwords
    BY <1>2, CallTypes DEF ZentaoDecides, RouteInv, GateTypeOK
  <2> QED
    BY <1>2, <2>1, <2>2 DEF ZentaoDecides, RouteInv, Route, GateTypeOK
<1> QED
  BY <1>1, <1>2 DEF ManagerActs, ManagerLookup, ManagerWaits, ManagerReceives

LEMMA RouteStep ==
    ASSUME TypeOK, RouteInv, [GateNext]_allVars PROVE RouteInv'
<1>1. CASE UNCHANGED allVars
  BY <1>1 DEF allVars, gateVars, requestVars, zentaoVars, ghostVars, RouteInv, Route, GateTypeOK
<1>2. CASE GateCleanup \/ GateTick \/ \E c \in Callers : ContextDone(c)
  BY <1>2 DEF GateCleanup, GateTick, ContextDone, gateVars, requestVars, zentaoVars, ghostVars,
              RouteInv, Route, GateTypeOK
<1>3. ASSUME NEW c \in Callers, HangUp(c) PROVE RouteInv'
  BY <1>3 DEF HangUp, zentaoVars, ghostVars, RouteInv, Route, GateTypeOK
<1> QED
  BY <1>1, <1>2, <1>3, BeginTypes, FrontTypes, BusinessTypes, ServeTypes, ManagerTypesKept
     DEF GateNext, Handle, ManagerActs

LEMMA RouteInit == GateInit => RouteInv
  BY DEF GateInit, RouteInv, Route, GateTypeOK, Stages, Sessions, Told, Answers

---------------------------------------------------------------------------
(* Every step of a request is a step of the manager's callers, or none of  *)
(* the manager's business.                                                 *)

LEMMA DrivesStep ==
    ASSUME RouteInv, [GateNext]_allVars PROVE [Next]_vars
<1>1. CASE UNCHANGED allVars
  BY <1>1 DEF allVars
<1>2. CASE GateCleanup \/ GateTick
  BY <1>2 DEF GateCleanup, GateTick, Next
<1>3. ASSUME NEW c \in Callers, HangUp(c) \/ ContextDone(c) \/ ManagerActs(c) PROVE Next
  BY <1>3 DEF HangUp, ContextDone, ManagerActs, ManagerLookup, ManagerWaits, ZentaoDecides,
              ManagerReceives, Lookup, Next
<1>4. ASSUME NEW c \in Callers, NEW h \in Inputs, WellFormed(h), HasCredentials(h),
             Enter(c, Credentials(h))
      PROVE  Next
  BY <1>4, CredentialsFit DEF CallToken, Credentials, Next
<1>5. ASSUME NEW c \in Callers, Begin(c) PROVE [Next]_vars
  <2>1. PICK h \in Inputs :
            RefuseRequest(c, h) \/ RefuseHeaders(c, h) \/ StartLogin(c, h) \/ StartValidation(c, h)
    BY <1>5 DEF Begin
  <2> QED
    BY <1>4, <2>1 DEF RefuseRequest, RefuseHeaders, StartLogin, StartValidation
<1>6. ASSUME NEW c \in Callers, AskToken(c) PROVE Next
  <2>1. stage[c] \in {"handling", "login"}
    BY <1>6 DEF AskToken, NewBusiness, Handling, HasSessionNow, Returned
  <2>2. asked[c] \in Inputs /\ WellFormed(asked[c])
    BY <2>1 DEF RouteInv, Route
  <2> QED
    BY <1>4, <1>6, <2>2 DEF AskToken
<1>7. ASSUME NEW c \in Callers, Handle(c), ~AskToken(c) PROVE [Next]_vars
  <2>1. CASE Front(c) \/ Serve(c) \/ Depart(c)
    BY <2>1 DEF Front, RefuseLogin, AdmitToken, RefuseToken, Serve, Depart, Quietly
  <2>2. CASE Business(c)
    BY <1>7, <2>2 DEF Business, UsePersonalToken, NoSession, Execute, SendFails, Reject401, Retry,
                      Quietly, Next
  <2> QED
    BY <1>7, <2>1, <2>2 DEF Handle
<1> QED
  BY <1>1, <1>2, <1>3, <1>5, <1>6, <1>7 DEF GateNext, ManagerActs

LEMMA GateInvariant == GateSpec => [](TypeOK /\ RouteInv)
<1>1. GateInit => TypeOK /\ RouteInv
  BY RouteInit, InitTypes DEF GateInit
<1>2. TypeOK /\ RouteInv /\ [GateNext]_allVars => (TypeOK /\ RouteInv)'
  BY RouteStep, DrivesStep, StepTypes
<1> QED
  BY <1>1, <1>2, PTL DEF GateSpec

(* Whatever requests come in and whatever becomes of them, the gate and    *)
(* the transport use the manager as any callers of Token and Refresh do:   *)
(* its one login per account, its budget and its caches are those of       *)
(* TokenManager.                                                           *)
THEOREM GateDrivesManager == GateSpec => DrivesManager
<1>1. GateInit => Init
  BY DEF GateInit
<1>2. RouteInv /\ [GateNext]_allVars => [Next]_vars
  BY DrivesStep
<1> QED
  BY <1>1, <1>2, GateInvariant, PTL DEF GateSpec, DrivesManager, Spec

---------------------------------------------------------------------------
(* What a step leaves alone.                                               *)

WorldGrows ==
    /\ opened \subseteq opened' /\ turnedDown \subseteq turnedDown'
    /\ closed \subseteq closed' /\ live' \subseteq live

ManagerCall(c) == Lookup(c) \/ Wake(c) \/ StopWaiting(c) \/ Answer(c) \/ Receive(c)

\* A caller that the manager works for is still in its call, or its call returns.
InCall(c)  == pc[c] # "idle" /\ pc'[c] # "idle" /\ req'[c] = req[c] /\ result'[c] = result[c]
Returns(c) ==
    /\ pc[c] # "idle" /\ pc'[c] = "idle"
    /\ req'[c] = IF result'[c].kind = "token" THEN req[c] ELSE NoRequest

LEMMA ReturnReturns ==
    ASSUME TypeOK, NEW c \in Callers, pc[c] # "idle", NEW kind, NEW t, Return(c, kind, t)
    PROVE  /\ \A d \in Callers \ {c} : SameCaller(d) /\ verdict'[d] = verdict[d]
           /\ Returns(c) /\ result'[c] = [kind |-> kind, token |-> t]
<1>1. /\ \A d \in Callers \ {c} : SameCaller(d)
      /\ pc'[c] = "idle" /\ result'[c] = [kind |-> kind, token |-> t]
      /\ req'[c] = IF kind = "token" THEN req[c] ELSE NoRequest
  BY ReturnFits
<1>2. \A d \in Callers \ {c} : verdict'[d] = verdict[d]
  BY DEF Return, TypeOK
<1> QED
  BY <1>1, <1>2 DEF Returns

LEMMA ManagerLocality ==
    ASSUME TypeOK, NEW c \in Callers, ManagerCall(c)
    PROVE  /\ \A d \in Callers \ {c} : SameCaller(d) /\ verdict'[d] = verdict[d]
           /\ InCall(c) \/ Returns(c)
<1>1. ASSUME pc[c] # "idle", NEW kind, NEW t, Return(c, kind, t)
      PROVE  /\ \A d \in Callers \ {c} : SameCaller(d) /\ verdict'[d] = verdict[d]
             /\ InCall(c) \/ Returns(c)
  BY <1>1, ReturnReturns
<1>2. CASE Lookup(c)
  <2>1. CASE WaitForLogin(c) \/ BeginLogin(c)
    BY <2>1 DEF WaitForLogin, BeginLogin, MayLogin, LookingUp, TypeOK, SameCaller, InCall
  <2>2. CASE ~(WaitForLogin(c) \/ BeginLogin(c))
    BY <1>1, <1>2, <2>2 DEF Lookup, ReturnCancelled, ReuseSession, ThrottleAccount, SuppressRetry,
       RefuseNewAccount, GuardRefuses, Refuse, MayLogin, LookingUp
  <2> QED BY <2>1, <2>2
<1>3. CASE Wake(c) \/ Answer(c)
  BY <1>3 DEF Wake, Answer, Decide, TypeOK, SameCaller, InCall
<1>4. CASE StopWaiting(c)
  BY <1>1, <1>4 DEF StopWaiting
<1>5. CASE Receive(c)
  BY <1>1, <1>5 DEF Receive, ReceiveAccepted, ReceiveRejected, ReceiveFailed
<1> QED
  BY <1>2, <1>3, <1>4, <1>5 DEF ManagerCall

LEMMA EnterLocality ==
    ASSUME TypeOK, NEW c \in Callers, NEW r, Enter(c, r)
    PROVE  /\ \A d \in Callers \ {c} : SameCaller(d) /\ verdict'[d] = verdict[d]
           /\ pc[c] = "idle" /\ pc'[c] = "lookup" /\ req'[c] = r
           /\ result'[c] = [kind |-> "none", token |-> NoToken]
  BY DEF Enter, TypeOK, SameCaller

\* The steps of a request outside the manager.
RequestActs(c) == Begin(c) \/ Handle(c)

LEMMA Locality ==
    ASSUME TypeOK, RouteInv, NEW c \in Callers, RequestActs(c) \/ ManagerActs(c)
    PROVE  WorldGrows /\ \A d \in Callers \ {c} : SameRequest(d)
<1> USE DEF requestVars, zentaoVars, ghostVars, GateTypeOK
<1>1. WorldGrows
  BY DEF WorldGrows, RequestActs, ManagerActs, Begin, RefuseRequest, RefuseHeaders, StartLogin,
         StartValidation, Arrive, Handle, Front, RefuseLogin, AdmitToken, RefuseToken, NoLongerGood,
         Business, AskToken, UsePersonalToken, NewBusiness, NoSession, Execute, SendFails, Sent,
         Reject401, Serve, Depart, Quietly, ManagerLookup, ManagerWaits, ZentaoDecides,
         ManagerReceives
<1>2. SUFFICES ASSUME NEW d \in Callers \ {c} PROVE SameRequest(d)
  BY <1>1
<1>3. CASE ManagerActs(c)
  <2>1. SameCaller(d) /\ verdict'[d] = verdict[d]
    BY <1>3, ManagerLocality DEF ManagerActs, ManagerCall, ManagerLookup, ManagerWaits,
       ZentaoDecides, ManagerReceives, Lookup
  <2>2. UNCHANGED requestVars /\ asOf'[d] = asOf[d] /\ UNCHANGED <<wasLive, denied>>
    BY <1>3 DEF ManagerActs, ManagerLookup, ManagerWaits, ZentaoDecides, ManagerReceives, Moment,
       RouteInv
  <2> QED BY <2>1, <2>2 DEF SameRequest
<1>4. CASE RequestActs(c)
  <2>1. UNCHANGED vars \/ \E r : Enter(c, r)
    BY <1>4 DEF RequestActs, Begin, RefuseRequest, RefuseHeaders, StartLogin, StartValidation,
       Handle, Front, RefuseLogin, AdmitToken, RefuseToken, Business, AskToken, UsePersonalToken,
       NoSession, Execute, SendFails, Reject401, Retry, CallRefresh, Serve, Depart, Quietly
  <2>2. SameCaller(d) /\ verdict'[d] = verdict[d]
    BY <2>1, EnterLocality DEF vars, callerVars, SameCaller
  <2>3. CASE Begin(c)
    BY <2>2, <2>3 DEF Begin, RefuseRequest, RefuseHeaders, StartLogin, StartValidation, Arrive,
       AnswerWith, Goto, RouteInv, SameRequest
  <2>4. CASE Front(c) \/ Serve(c) \/ Depart(c)
    BY <2>2, <2>4 DEF Front, RefuseLogin, AdmitToken, RefuseToken, Serve, Depart, Quietly,
       AnswerWith, Goto, RouteInv, SameRequest
  <2>5. CASE Business(c)
    BY <2>2, <2>5 DEF Business, AskToken, UsePersonalToken, NewBusiness, NoSession, Execute,
       SendFails, Sent, Reject401, Retry, Tell, Quietly, Goto, RouteInv, SameRequest
  <2> QED BY <1>4, <2>3, <2>4, <2>5 DEF RequestActs, Handle
<1> QED
  BY <1>3, <1>4

LEMMA RequestsLeaveManager ==
    ASSUME TypeOK, RouteInv, NEW c \in Callers, RequestActs(c)
    PROVE  /\ UNCHANGED <<managerVars, now>>
           /\ UNCHANGED vars \/ pc'[c] = "lookup"
<1>1. UNCHANGED vars \/ \E r : Enter(c, r)
  BY DEF RequestActs, Begin, RefuseRequest, RefuseHeaders, StartLogin, StartValidation,
     Handle, Front, RefuseLogin, AdmitToken, RefuseToken, Business, AskToken, UsePersonalToken,
     NoSession, Execute, SendFails, Reject401, Retry, CallRefresh, Serve, Depart, Quietly
<1> QED
  BY <1>1, EnterLocality DEF Enter, vars

\* The other steps touch no request but for its context.
OtherStep ==
    /\ WorldGrows /\ \A d \in Callers : SameRequest(d)
    /\ tokens' \in {tokens, LiveTokens} /\ failures' \in {failures, LiveFailures}
    /\ UNCHANGED opened /\ (UNCHANGED now \/ Tick)

LEMMA OtherSteps ==
    ASSUME TypeOK, RouteInv, [GateNext]_allVars
    PROVE  \/ OtherStep
           \/ \E c \in Callers : RequestActs(c) \/ ManagerActs(c)
<1> USE DEF requestVars, zentaoVars, ghostVars, gateVars, callerVars, managerVars, WorldGrows,
            SameRequest, SameCaller, OtherStep
<1>1. CASE UNCHANGED allVars
  BY <1>1 DEF allVars, vars
<1>2. CASE GateCleanup \/ GateTick
  BY <1>2 DEF GateCleanup, GateTick, Cleanup, Cleaned, Tick
<1>3. ASSUME NEW c \in Callers, HangUp(c) \/ ContextDone(c) PROVE OtherStep
  BY <1>3 DEF HangUp, ContextDone, Cancel
<1> QED
  BY <1>1, <1>2, <1>3 DEF GateNext, RequestActs, ManagerActs

---------------------------------------------------------------------------
(* A request effects what it does once.                                    *)

Untouched(c) ==
    /\ stage[c] # "answering" => answer[c] = "none"
    /\ stage[c] \notin {"handling", "answering"} => outcome[c] = "none" /\ effects[c] = 0
    /\ effects[c] <= 1

UntouchedInv == \A c \in Callers : Untouched(c)

LEMMA UntouchedRequest ==
    ASSUME TypeOK, RouteInv, UntouchedInv, NEW c \in Callers, RequestActs(c) PROVE Untouched(c)'
<1> USE DEF GateTypeOK, RouteInv, UntouchedInv, Untouched
<1>1. CASE Begin(c)
  BY <1>1 DEF Begin, RefuseRequest, RefuseHeaders, StartLogin, StartValidation, Arrive,
     AnswerWith, Goto
<1>2. CASE Front(c) \/ Serve(c) \/ Depart(c)
  BY <1>2 DEF Front, RefuseLogin, AdmitToken, RefuseToken, Serve, Depart, Quietly, AnswerWith,
     Goto, Handling, HasNone, HasSessionNow, Returned
<1>3. CASE Business(c)
  BY <1>3, SentTypes DEF Business, AskToken, UsePersonalToken, NewBusiness, NoSession, Execute,
     SendFails, Reject401, Retry, MayRefresh, Tell, Quietly, Goto, Handling, HasNone, HasSessionNow,
     Returned
<1> QED
  BY <1>1, <1>2, <1>3 DEF RequestActs, Handle

LEMMA UntouchedStep ==
    ASSUME TypeOK, RouteInv, UntouchedInv, [GateNext]_allVars PROVE UntouchedInv'
<1>1. ASSUME NEW d \in Callers, SameRequest(d) PROVE Untouched(d)'
  BY <1>1 DEF SameRequest, UntouchedInv, Untouched
<1>2. ASSUME NEW c \in Callers, ManagerActs(c) PROVE Untouched(c)'
  BY <1>2 DEF ManagerActs, ManagerLookup, ManagerWaits, ZentaoDecides, ManagerReceives,
     requestVars, UntouchedInv, Untouched
<1> QED
  BY <1>1, <1>2, Locality, OtherSteps, UntouchedRequest DEF UntouchedInv, OtherStep

(* A business request is executed at most once, whether its session has    *)
(* expired, its answer is lost or its client is gone.                      *)
THEOREM EffectsKept == GateSpec => []EffectsAtMostOnce
<1>1. GateInit => UntouchedInv
  BY DEF GateInit, UntouchedInv, Untouched
<1>2. UntouchedInv => EffectsAtMostOnce
  BY DEF UntouchedInv, Untouched, EffectsAtMostOnce
<1> QED
  BY <1>1, <1>2, UntouchedStep, GateInvariant, PTL DEF GateSpec

---------------------------------------------------------------------------
(* The call of the manager that a request makes is for its credentials,    *)
(* and after a 401 for a replacement of the token it has just used.        *)

CallFits(c) ==
    /\ pc[c] # "idle" => stage[c] \in {"login", "token", "refresh"}
    /\ HasCredentials(asked[c]) /\ stage[c] \in {"login", "token", "refresh", "handling"}
       /\ (pc[c] # "idle" \/ result[c].kind = "token") =>
           key(c) = asked[c].account /\ hash(c) = asked[c].password
    /\ stage[c] = "refresh" /\ (pc[c] # "idle" \/ result[c].kind = "token") =>
           req[c].stale = first[c]

\* The tokens of a business request are its client's.
Own(c, t) ==
    \/ t = NoToken
    \/ IF HasCredentials(asked[c])
       THEN t \in Token /\ t.account = asked[c].account /\ t.password = asked[c].password
       ELSE t = PersonalToken(asked[c])

CarriesOwn(c) ==
    /\ Own(c, first[c]) /\ Own(c, second[c])
    /\ stage[c] \in {"idle", "login", "validating", "token", "sending"} =>
           first[c] = NoToken /\ second[c] = NoToken
    /\ stage[c] = "validating" /\ PersonalToken(asked[c]) \in live => wasLive[c]
    /\ stage[c] \in {"sending", "handling"} /\ ~HasCredentials(asked[c]) => wasLive[c]

OwnInv == \A c \in Callers : CallFits(c) /\ CarriesOwn(c)

LEMMA CarriedFits ==
    ASSUME TypeOK, RouteInv, SessionInv, OwnInv, NEW c \in Callers, OnTheWire(c)
    PROVE  /\ Own(c, Carried(c))
           /\ HasCredentials(asked[c]) =>
                  /\ result[c].kind = "token" /\ Carried(c) = result[c].token
                  /\ Carried(c) \in Token
                  /\ stage[c] = "refresh" => Carried(c) # first[c]
<1>1. stage[c] \in {"sending", "token", "refresh"}
  BY CarriedType
<1>2. CASE ~HasCredentials(asked[c])
  BY <1>2, CarriedType DEF Own
<1>3. CASE HasCredentials(asked[c])
  <2>1. stage[c] \in {"token", "refresh"} /\ result[c].kind = "token" /\ Carried(c) = result[c].token
    BY <1>1, <1>3, CarriedType DEF RouteInv, Route, OnTheWire, HasSessionNow
  <2>2. /\ result[c].token \in Token
        /\ result[c].token.account = key(c) /\ result[c].token.password = hash(c)
        /\ result[c].token # req[c].stale
    BY <2>1 DEF SessionInv, CallerFits, Fits, key, hash
  <2> QED
    BY <1>3, <2>1, <2>2 DEF OwnInv, CallFits, Own
<1> QED
  BY <1>2, <1>3

LEMMA OwnBegin ==
    ASSUME TypeOK, RouteInv, OwnInv, NEW c \in Callers, Begin(c)
    PROVE  CallFits(c)' /\ CarriesOwn(c)'
<1> USE DEF GateTypeOK, RouteInv, OwnInv
<1>1. PICK h \in Inputs :
          RefuseRequest(c, h) \/ RefuseHeaders(c, h) \/ StartLogin(c, h) \/ StartValidation(c, h)
  BY DEF Begin
<1>2. /\ stage[c] = "idle" /\ asked'[c] = h /\ UNCHANGED <<first, second, live>>
      /\ wasLive'[c] = (PersonalToken(h) \in live)
  BY <1>1 DEF RefuseRequest, RefuseHeaders, StartLogin, StartValidation, Arrive, zentaoVars
<1>3. first[c] = NoToken /\ second[c] = NoToken /\ pc[c] = "idle"
  BY <1>2 DEF CarriesOwn, CallFits
<1>4. CASE StartLogin(c, h)
  <2>1. /\ stage'[c] = "login" /\ HasCredentials(h)
        /\ req'[c] = Credentials(h) /\ result'[c].kind = "none"
    BY <1>4, EnterLocality DEF StartLogin, Goto
  <2> QED
    BY <1>2, <1>3, <2>1 DEF CallFits, CarriesOwn, Own, Credentials, key, hash
<1>5. CASE ~StartLogin(c, h)
  <2>1. /\ pc' = pc /\ stage'[c] \in {"answering", "validating"}
        /\ stage'[c] = "validating" => ~HasCredentials(h)
    BY <1>1, <1>5 DEF RefuseRequest, RefuseHeaders, StartValidation, AnswerWith, Goto, vars, callerVars
  <2> QED
    BY <1>2, <1>3, <2>1 DEF CallFits, CarriesOwn, Own
<1> QED
  BY <1>4, <1>5

LEMMA OwnFront ==
    ASSUME TypeOK, RouteInv, OwnInv, NEW c \in Callers, Front(c) \/ Serve(c) \/ Depart(c)
    PROVE  CallFits(c)' /\ CarriesOwn(c)'
<1> USE DEF GateTypeOK, RouteInv, OwnInv
<1>1. UNCHANGED <<pc, req, result>> /\ pc[c] = "idle"
  BY DEF Front, RefuseLogin, AdmitToken, RefuseToken, Serve, Depart, Quietly, vars, callerVars,
     Handling, HasNone, HasSessionNow, Returned, CallFits
<1>2. CASE Depart(c)
  BY <1>1, <1>2 DEF Depart, Goto, CallFits, CarriesOwn, Own
<1>3. CASE AdmitToken(c)
  <2>1. /\ stage[c] = "validating" /\ PersonalToken(asked[c]) \in live /\ stage'[c] = "handling"
        /\ UNCHANGED <<asked, first, second, wasLive, live>>
    BY <1>3 DEF AdmitToken, Goto, Quietly, ghostVars, zentaoVars
  <2> QED
    BY <1>1, <2>1 DEF CallFits, CarriesOwn, Own, Route
<1>4. CASE RefuseLogin(c) \/ RefuseToken(c) \/ Serve(c)
  <2>1. stage'[c] = "answering" /\ UNCHANGED <<asked, first, second, wasLive>>
    BY <1>4 DEF RefuseLogin, RefuseToken, Serve, AnswerWith, Goto, Quietly, ghostVars
  <2> QED
    BY <1>1, <2>1 DEF CallFits, CarriesOwn, Own
<1> QED
  BY <1>2, <1>3, <1>4 DEF Front

LEMMA OwnBusiness ==
    ASSUME TypeOK, RouteInv, SessionInv, OwnInv, NEW c \in Callers, Business(c)
    PROVE  CallFits(c)' /\ CarriesOwn(c)'
<1> USE DEF GateTypeOK, RouteInv, OwnInv
<1>1. CASE NewBusiness(c)
  <2>1. /\ stage[c] \in {"handling", "login"}
        /\ first'[c] = NoToken /\ second'[c] = NoToken /\ UNCHANGED <<asked, wasLive>>
    BY <1>1 DEF NewBusiness, Handling, HasSessionNow, Returned
  <2>2. pc[c] = "idle"
    BY <1>1 DEF NewBusiness, Handling, HasSessionNow, Returned, CallFits
  <2>3. CASE AskToken(c)
    <3>1. /\ stage'[c] = "token" /\ HasCredentials(asked[c])
          /\ req'[c] = Credentials(asked[c]) /\ result'[c].kind = "none"
      BY <2>3, EnterLocality DEF AskToken, Goto
    <3> QED
      BY <2>1, <3>1 DEF CallFits, CarriesOwn, Own, Credentials, key, hash
  <2>4. CASE UsePersonalToken(c)
    <3>1. stage'[c] = "sending" /\ ~HasCredentials(asked[c]) /\ UNCHANGED pc
      BY <2>4 DEF UsePersonalToken, Goto, vars, callerVars
    <3> QED
      BY <2>1, <2>2, <3>1 DEF CallFits, CarriesOwn, Own, Route
  <2> QED
    BY <1>1, <2>1, <2>3, <2>4 DEF Business, NoSession, HasNone, Execute, SendFails, Reject401, Sent,
       OnTheWire, HasSessionNow, Returned
<1>2. CASE NoSession(c)
  <2>1. /\ stage[c] \in {"token", "refresh"} /\ stage'[c] = "handling" /\ pc[c] = "idle"
        /\ result[c].kind # "token"
        /\ UNCHANGED <<asked, first, second, wasLive, pc, req, result>>
    BY <1>2 DEF NoSession, HasNone, Returned, Tell, Goto, Quietly, ghostVars, vars, callerVars
  <2> QED
    BY <2>1 DEF CallFits, CarriesOwn, Own, Route
<1>3. CASE Sent(c)
  <2>1. /\ first'[c] \in {first[c], Carried(c)} /\ second'[c] \in {second[c], Carried(c)}
        /\ stage[c] = "refresh" => first'[c] = first[c]
        /\ stage[c] # "refresh" => first'[c] = Carried(c)
        /\ stage[c] \in {"sending", "token", "refresh"} /\ OnTheWire(c)
        /\ UNCHANGED <<asked, wasLive>>
    BY <1>3, SentTypes DEF Sent
  <2>2. Own(c, first[c])' /\ Own(c, second[c])'
    BY <2>1, CarriedFits DEF CarriesOwn, Own
  <2>3. ~HasCredentials(asked[c]) => wasLive[c] /\ stage[c] = "sending"
    BY <2>1 DEF CarriesOwn, Route
  <2>4. pc[c] = "idle"
    BY <2>1 DEF OnTheWire, HasSessionNow, Returned, CallFits
  <2>5. CASE stage'[c] = "handling" /\ UNCHANGED vars
    <3>1. HasCredentials(asked[c]) => stage[c] \in {"token", "refresh"}
      BY <2>1 DEF Route
    <3>2. UNCHANGED <<pc, req, result>>
      BY <2>5 DEF vars, callerVars
    <3> QED
      BY <2>1, <2>2, <2>3, <2>4, <2>5, <3>1, <3>2 DEF CallFits, CarriesOwn, key, hash
  <2>6. CASE stage[c] = "token" /\ stage'[c] = "refresh" /\ CallRefresh(c)
    <3>1. /\ req'[c] = [req[c] EXCEPT !.stale = result[c].token] /\ result[c].kind = "token"
          /\ result'[c].kind = "none" /\ pc'[c] = "lookup"
      BY <2>6, EnterLocality DEF CallRefresh
    <3>2. HasCredentials(asked[c])
      BY <2>6 DEF Route
    <3>3. first'[c] = result[c].token
      BY <2>1, <2>6, <3>2, CarriedType
    <3>4. req[c].account = asked[c].account /\ req[c].password = asked[c].password
      BY <2>6, <3>1, <3>2 DEF CallFits, key, hash
    <3>5. /\ req'[c].account = asked[c].account /\ req'[c].password = asked[c].password
          /\ req'[c].stale = result[c].token
      BY <3>1, <3>4 DEF TypeOK, Request
    <3> QED
      BY <2>1, <2>2, <2>6, <3>1, <3>2, <3>3, <3>5 DEF CallFits, CarriesOwn, key, hash
  <2> QED
    BY <1>3, <2>1, <2>5, <2>6 DEF Business, AskToken, UsePersonalToken, NewBusiness, NoSession,
       Handling, HasNone, HasSessionNow, OnTheWire, Returned, Execute, SendFails, Reject401, Retry,
       MayRefresh, Tell, Goto
<1> QED
  BY <1>1, <1>2, <1>3 DEF Business, AskToken, UsePersonalToken, Execute, SendFails, Reject401

LEMMA OwnManager ==
    ASSUME TypeOK, RouteInv, OwnInv, NEW c \in Callers, ManagerActs(c)
    PROVE  CallFits(c)' /\ CarriesOwn(c)'
<1>1. UNCHANGED <<stage, asked, first, second, wasLive, live>>
  BY DEF ManagerActs, ManagerLookup, ManagerWaits, ZentaoDecides, ManagerReceives, requestVars,
     zentaoVars
<1>2. InCall(c) \/ Returns(c)
  BY ManagerLocality DEF ManagerActs, ManagerCall, ManagerLookup, ManagerWaits, ZentaoDecides,
     ManagerReceives, Lookup
<1> QED
  BY <1>1, <1>2 DEF InCall, Returns, OwnInv, CallFits, CarriesOwn, Own, key, hash

LEMMA OwnStep ==
    ASSUME TypeOK, RouteInv, SessionInv, OwnInv, [GateNext]_allVars PROVE OwnInv'
<1>1. ASSUME NEW d \in Callers, SameRequest(d), WorldGrows PROVE CallFits(d)' /\ CarriesOwn(d)'
  BY <1>1 DEF SameRequest, SameCaller, WorldGrows, OwnInv, CallFits, CarriesOwn, Own, key, hash
<1> QED
  BY <1>1, Locality, OtherSteps, OwnBegin, OwnFront, OwnBusiness, OwnManager
     DEF OwnInv, RequestActs, Handle, OtherStep

LEMMA OwnInvariant == GateSpec => [](TypeOK /\ RouteInv /\ UntouchedInv /\ SessionInv /\ OwnInv)
<1>1. GateInit => TypeOK /\ RouteInv /\ UntouchedInv /\ SessionInv /\ OwnInv
  BY RouteInit, InitTypes, SessionInit
     DEF GateInit, UntouchedInv, Untouched, OwnInv, CallFits, CarriesOwn, Own, Init, HasCredentials,
         NoHeaders
<1>2. TypeOK /\ RouteInv /\ UntouchedInv /\ SessionInv /\ OwnInv /\ [GateNext]_allVars
          => (TypeOK /\ RouteInv /\ UntouchedInv /\ SessionInv /\ OwnInv)'
  BY RouteStep, DrivesStep, StepTypes, UntouchedStep, SessionStep, OwnStep
<1> QED
  BY <1>1, <1>2, PTL DEF GateSpec

---------------------------------------------------------------------------
(* Closed sessions.                                                        *)

Unseen(c) ==
    HasCredentials(asked[c]) /\ outcome[c] = "denied" /\ ~denied[c] =>
        first[c] # second[c] /\ {first[c], second[c]} \subseteq closed

Expiry(c) ==
    /\ stage[c] = "refresh" /\ ~denied[c] => first[c] \in closed
    /\ Unseen(c)

ExpiryInv == \A c \in Callers : Expiry(c)

LEMMA ClosedNow ==
    ASSUME GateTypeOK, NEW t \in Token, NoLongerGood(t) PROVE t \in closed'
  BY HeadersAssumption DEF GateTypeOK, NoLongerGood, Good, zentaoVars

LEMMA ExpiryRequest ==
    ASSUME TypeOK, RouteInv, UntouchedInv, SessionInv, OwnInv, ExpiryInv,
           NEW c \in Callers, RequestActs(c), WorldGrows
    PROVE  Expiry(c)'
<1> USE DEF GateTypeOK, RouteInv, ExpiryInv
<1>1. CASE Begin(c)
  <2>1. outcome[c] = "none" /\ UNCHANGED outcome /\ stage'[c] # "refresh"
    BY <1>1 DEF Begin, RefuseRequest, RefuseHeaders, StartLogin, StartValidation, Arrive,
       AnswerWith, Goto, UntouchedInv, Untouched
  <2> QED BY <2>1 DEF Expiry, Unseen
<1>2. CASE Depart(c)
  BY <1>2 DEF Depart, Goto, Expiry, Unseen
<1>3. CASE Front(c) \/ Serve(c)
  <2>1. /\ stage'[c] # "refresh"
        /\ UNCHANGED <<outcome, asked, denied, first, second>>
    BY <1>3 DEF Front, RefuseLogin, AdmitToken, RefuseToken, Serve, Quietly, AnswerWith, Goto,
       ghostVars
  <2> QED BY <2>1 DEF Expiry, Unseen, WorldGrows
<1>4. CASE NewBusiness(c) /\ Business(c)
  <2>1. outcome'[c] = "none"
    BY <1>4 DEF NewBusiness
  <2>2. stage'[c] \in {"token", "sending"}
    BY <1>4 DEF Business, AskToken, UsePersonalToken, NewBusiness, Handling, NoSession, HasNone,
       Execute, SendFails, Reject401, Sent, OnTheWire, HasSessionNow, Returned, Goto
  <2> QED BY <2>1, <2>2 DEF Expiry, Unseen
<1>5. ASSUME NEW what, Tell(c, what), what # "denied" PROVE Expiry(c)'
  BY <1>5 DEF Tell, Goto, Expiry, Unseen
<1>6. CASE NoSession(c) \/ Execute(c) \/ SendFails(c)
  <2>1. PICK what : Tell(c, what) /\ what # "denied"
    BY <1>6, StatusTypes DEF NoSession, Execute, SendFails
  <2> QED BY <1>5, <2>1
<1>7. CASE Reject401(c)
  <2>1. /\ Sent(c) /\ OnTheWire(c) /\ UNCHANGED asked
        /\ IF stage[c] = "refresh"
           THEN second'[c] = Carried(c) /\ first'[c] = first[c]
           ELSE first'[c] = Carried(c)
        /\ \/ NoLongerGood(Carried(c)) /\ UNCHANGED denied
           \/ denied'[c] = TRUE
    BY <1>7 DEF Reject401, Sent
  <2>2. CASE ~HasCredentials(asked[c])
    <3>1. stage[c] = "sending"
      BY <2>1, <2>2, CarriedType DEF Route
    <3>2. stage'[c] = "handling"
      BY <1>7, <3>1 DEF Reject401, MayRefresh, Tell, Goto
    <3> QED BY <2>1, <2>2, <3>2 DEF Expiry, Unseen, HasCredentials
  <2>3. CASE HasCredentials(asked[c])
    <3>0. Carried(c) \in Token /\ (stage[c] = "refresh" => Carried(c) # first[c])
      BY <2>1, <2>3, CarriedFits
    <3>1. denied'[c] \/ (Carried(c) \in closed' /\ UNCHANGED denied)
      <4>1. CASE NoLongerGood(Carried(c)) /\ UNCHANGED denied
        BY <3>0, <4>1, ClosedNow
      <4>2. CASE denied'[c] = TRUE
        BY <4>2
      <4> QED BY <2>1, <4>1, <4>2
    <3>2. stage[c] \in {"token", "refresh"}
      BY <2>1, <2>3, CarriedType DEF Route
    <3>3. CASE stage[c] = "token"
      <4>1. stage'[c] = "refresh" /\ outcome'[c] = "none"
        BY <1>7, <3>3 DEF Reject401, MayRefresh, Retry, Goto, UntouchedInv, Untouched
      <4> QED BY <2>1, <3>0, <3>1, <3>3, <4>1 DEF Expiry, Unseen
    <3>4. CASE stage[c] = "refresh"
      <4>1. stage'[c] = "handling"
        BY <1>7, <3>4 DEF Reject401, MayRefresh, Tell, Goto
      <4> QED BY <2>1, <3>0, <3>1, <3>4, <4>1 DEF Expiry, Unseen, WorldGrows
    <3> QED BY <3>2, <3>3, <3>4
  <2> QED BY <2>2, <2>3
<1> QED
  BY <1>1, <1>2, <1>3, <1>4, <1>6, <1>7
     DEF RequestActs, Handle, Business, AskToken, UsePersonalToken

LEMMA ExpiryStep ==
    ASSUME TypeOK, RouteInv, UntouchedInv, SessionInv, OwnInv, ExpiryInv, [GateNext]_allVars
    PROVE  ExpiryInv'
<1>1. ASSUME NEW d \in Callers, SameRequest(d), WorldGrows PROVE Expiry(d)'
  BY <1>1 DEF SameRequest, WorldGrows, ExpiryInv, Expiry, Unseen
<1>2. ASSUME NEW c \in Callers, ManagerActs(c), WorldGrows PROVE Expiry(c)'
  BY <1>2 DEF ManagerActs, ManagerLookup, ManagerWaits, ZentaoDecides, ManagerReceives,
     requestVars, WorldGrows, ExpiryInv, Expiry, Unseen
<1> QED
  BY <1>1, <1>2, Locality, OtherSteps, ExpiryRequest DEF ExpiryInv, OtherStep

(* The tools hear of closed sessions only when two different ones were     *)
(* closed under one business request, the second after it had been fetched *)
(* to replace the first: Refresh never hands out the token it was called   *)
(* to replace, whatever other requests of the account do meanwhile.        *)
THEOREM ExpiryKept == GateSpec => []ExpiryIsInvisible
<1>1. GateInit => ExpiryInv
  BY DEF GateInit, ExpiryInv, Expiry, Unseen
<1>2. ExpiryInv => ExpiryIsInvisible
  BY DEF ExpiryInv, Expiry, Unseen, ExpiryIsInvisible
<1> QED
  BY <1>1, <1>2, ExpiryStep, OwnInvariant, PTL DEF GateSpec

---------------------------------------------------------------------------
(* Refusals.  What the manager remembers as rejected, ZenTao has rejected. *)

RejectionsKnown ==
    /\ \A k \in DOMAIN failures : failures[k].err = "rejected" => k \in turnedDown
    /\ \A c \in Callers : pc[c] = "reply" /\ verdict[c] = "rejected" => fkey(c) \in turnedDown

Honest(c) ==
    answer[c] = "unauthorized" =>
        \/ Incomplete(asked[c]) \/ TooLong(asked[c])
        \/ HasCredentials(asked[c]) /\ <<asked[c].account, asked[c].password>> \in turnedDown
        \/ ~HasCredentials(asked[c]) /\ PersonalToken(asked[c]) \notin live

Refused(c) ==
    /\ stage[c] \in {"login", "token", "refresh"} /\ result[c].kind = "rejected" =>
           <<asked[c].account, asked[c].password>> \in turnedDown
    /\ Honest(c)

RefusalInv == RejectionsKnown /\ \A c \in Callers : Refused(c)

\* Failures that are not new.
OldFailures == \A k \in DOMAIN failures' : k \in DOMAIN failures /\ failures'[k] = failures[k]

LEMMA ManagerFailures ==
    ASSUME TypeOK, RejectionsKnown, NEW c \in Callers, ManagerCall(c)
    PROVE  /\ \A k \in DOMAIN failures' : failures'[k].err = "rejected" => k \in turnedDown
           /\ result'[c].kind = "rejected" => result'[c] = result[c] \/ fkey(c) \in turnedDown
<1>1. ASSUME OldFailures
      PROVE  \A k \in DOMAIN failures' : failures'[k].err = "rejected" => k \in turnedDown
  BY <1>1 DEF OldFailures, RejectionsKnown
<1>2. ASSUME NEW err, RecordFailure(c, err), err = "rejected" => fkey(c) \in turnedDown
      PROVE  \A k \in DOMAIN failures' : failures'[k].err = "rejected" => k \in turnedDown
  <2>1. CASE cancelled[c]
    BY <1>1, <1>2, <2>1 DEF RecordFailure, OldFailures
  <2>2. CASE ~cancelled[c]
    <3> DEFINE e == [err       |-> err,
                     until     |-> now + Wait(Count(fkey(c))),
                     count     |-> Count(fkey(c)) + 1,
                     expiresAt |-> now + Larger(FailureTTL, Wait(Count(fkey(c))))]
    <3>1. PICK victims : failures' = Put(Drop(failures, victims), fkey(c), e)
      BY <1>2, <2>2 DEF RecordFailure
    <3>2. e.err = err
      OBVIOUS
    <3> HIDE DEF e
    <3>3. \A k \in DOMAIN failures' :
              \/ k = fkey(c) /\ failures'[k] = e
              \/ k \in DOMAIN failures /\ failures'[k] = failures[k]
      BY <3>1 DEF Put, Drop, Restrict
    <3> QED BY <1>2, <3>2, <3>3 DEF RejectionsKnown
  <2> QED BY <2>1, <2>2
<1>3. ASSUME failures' = LiveFailures \/ failures' = failures PROVE OldFailures
  BY <1>3 DEF OldFailures, LiveFailures, Restrict
<1>4. ASSUME NEW kind, NEW t, Return(c, kind, t) PROVE result'[c].kind = kind
  <2>1. result'[c] = [kind |-> kind, token |-> t]
    BY <1>4, ReturnFits
  <2> QED BY <2>1
<1>5. CASE Lookup(c)
  <2>1. OldFailures
    BY <1>3, <1>5 DEF Lookup, ReturnCancelled, ReuseSession, ThrottleAccount, SuppressRetry,
       WaitForLogin, RefuseNewAccount, GuardRefuses, BeginLogin, Refuse, Cleaned, managerVars
  <2>2. CASE SuppressRetry(c)
    <3>1. LiveFailures[fkey(c)] = failures[fkey(c)] /\ fkey(c) \in DOMAIN failures
      BY <2>2 DEF SuppressRetry, BackingOff, LiveFailures, Restrict
    <3>2. result'[c].kind = LiveFailures[fkey(c)].err
      BY <1>4, <2>2 DEF SuppressRetry, Refuse
    <3> QED BY <1>1, <2>1, <3>1, <3>2 DEF RejectionsKnown
  <2>3. CASE WaitForLogin(c) \/ BeginLogin(c)
    BY <1>1, <2>1, <2>3 DEF WaitForLogin, BeginLogin
  <2>4. CASE ReuseSession(c)
    BY <1>1, <1>4, <2>1, <2>4 DEF ReuseSession
  <2>5. CASE ReturnCancelled(c) \/ ThrottleAccount(c) \/ RefuseNewAccount(c) \/ GuardRefuses(c)
    BY <1>1, <1>4, <2>1, <2>5
       DEF ReturnCancelled, ThrottleAccount, RefuseNewAccount, GuardRefuses, Refuse
  <2> QED BY <1>5, <2>2, <2>3, <2>4, <2>5 DEF Lookup
<1>6. CASE Wake(c) \/ Answer(c)
  BY <1>1, <1>3, <1>6 DEF Wake, Answer, Decide, managerVars
<1>7. CASE StopWaiting(c)
  BY <1>1, <1>3, <1>4, <1>7 DEF StopWaiting, managerVars
<1>8. CASE ReceiveAccepted(c)
  <2>1. OldFailures
    BY <1>8 DEF ReceiveAccepted, OldFailures, Restrict
  <2> QED BY <1>1, <1>4, <1>8, <2>1 DEF ReceiveAccepted
<1>9. CASE ReceiveRejected(c)
  <2>1. fkey(c) \in turnedDown
    BY <1>9 DEF ReceiveRejected, RejectionsKnown
  <2> QED BY <1>2, <1>9, <2>1 DEF ReceiveRejected
<1>10. CASE ReceiveFailed(c)
  BY <1>2, <1>4, <1>10 DEF ReceiveFailed
<1> QED
  BY <1>5, <1>6, <1>7, <1>8, <1>9, <1>10 DEF ManagerCall, Receive

LEMMA RefusedRequest ==
    ASSUME TypeOK, RouteInv, UntouchedInv, OwnInv, RefusalInv,
           NEW c \in Callers, RequestActs(c), WorldGrows
    PROVE  Refused(c)'
<1> USE DEF GateTypeOK, RouteInv
<1>1. CASE Begin(c)
  <2>1. PICK h \in Inputs :
            RefuseRequest(c, h) \/ RefuseHeaders(c, h) \/ StartLogin(c, h) \/ StartValidation(c, h)
    BY <1>1 DEF Begin
  <2>2. asked'[c] = h /\ answer[c] = "none"
    BY <2>1 DEF RefuseRequest, RefuseHeaders, StartLogin, StartValidation, Arrive,
       UntouchedInv, Untouched
  <2>3. CASE RefuseRequest(c, h) \/ RefuseHeaders(c, h)
    BY <2>2, <2>3 DEF RefuseRequest, RefuseHeaders, AnswerWith, Goto, Refused, Honest
  <2>4. CASE StartLogin(c, h)
    <3>1. result'[c].kind = "none"
      BY <2>4, EnterLocality DEF StartLogin
    <3> QED BY <2>2, <2>4, <3>1 DEF StartLogin, Goto, Refused, Honest
  <2>5. CASE StartValidation(c, h)
    BY <2>2, <2>5 DEF StartValidation, Goto, Refused, Honest
  <2> QED BY <2>1, <2>3, <2>4, <2>5
<1>2. CASE RefuseLogin(c)
  <2>1. PICK what \in StatusOf(result[c].kind) : AnswerWith(c, what)
    BY <1>2 DEF RefuseLogin
  <2>2. /\ stage[c] = "login" /\ UNCHANGED asked /\ turnedDown' = turnedDown
        /\ stage'[c] = "answering" /\ answer'[c] = what
    BY <1>2, <2>1 DEF RefuseLogin, HasNone, Returned, AnswerWith, Goto, Quietly, ghostVars
  <2>3. what = "unauthorized" => result[c].kind = "rejected"
    BY <2>1, StatusTypes
  <2>4. HasCredentials(asked[c])
    BY <2>2 DEF Route
  <2> QED
    BY <2>2, <2>3, <2>4 DEF RefusalInv, Refused, Honest
<1>3. CASE RefuseToken(c)
  <2>1. stage[c] = "validating" /\ stage'[c] = "answering" /\ UNCHANGED asked
    BY <1>3 DEF RefuseToken, AnswerWith, Goto, Quietly
  <2>2. ~HasCredentials(asked[c]) /\ PersonalToken(asked[c]) \in PersonalTokens
    BY <2>1, OwnToken DEF Route
  <2>3. ASSUME answer'[c] = "unauthorized" PROVE PersonalToken(asked[c]) \notin live'
    <3>1. CASE NoLongerGood(PersonalToken(asked[c]))
      BY <2>2, <3>1, HeadersAssumption DEF NoLongerGood, Good, zentaoVars
    <3>2. CASE \E what \in StatusOf("failed") : AnswerWith(c, what)
      BY <2>3, <3>2, StatusTypes DEF AnswerWith
    <3> QED BY <1>3, <3>1, <3>2 DEF RefuseToken
  <2> QED
    BY <2>1, <2>2, <2>3 DEF Refused, Honest
<1>4. CASE AdmitToken(c)
  BY <1>4 DEF AdmitToken, Goto, Quietly, UntouchedInv, Untouched, Refused, Honest
<1>5. CASE Serve(c) \/ Depart(c)
  BY <1>5 DEF Serve, Depart, AnswerWith, Goto, Quietly, Refused, Honest
<1>6. CASE Business(c)
  <2>1. UNCHANGED answer /\ answer[c] = "none"
    BY <1>6, SentTypes DEF Business, AskToken, UsePersonalToken, NewBusiness, NoSession, Execute,
       SendFails, Reject401, Quietly, Handling, HasNone, HasSessionNow, Returned, UntouchedInv,
       Untouched
  <2>2. stage'[c] \in {"token", "refresh"} => result'[c].kind = "none"
    BY <1>6, EnterLocality DEF Business, AskToken, UsePersonalToken, NewBusiness, NoSession,
       Execute, SendFails, Reject401, Retry, CallRefresh, Tell, Goto
  <2>3. stage'[c] # "login"
    BY <1>6 DEF Business, AskToken, UsePersonalToken, NoSession, Execute, SendFails, Reject401,
       Retry, Tell, Goto, NewBusiness, Sent, HasNone, Returned
  <2> QED BY <2>1, <2>2, <2>3 DEF Refused, Honest
<1> QED
  BY <1>1, <1>2, <1>3, <1>4, <1>5, <1>6 DEF RequestActs, Handle, Front

LEMMA RefusedManager ==
    ASSUME TypeOK, RouteInv, OwnInv, RefusalInv, NEW c \in Callers, ManagerActs(c), WorldGrows
    PROVE  RefusalInv'
<1>1. /\ ManagerCall(c) /\ UNCHANGED <<stage, asked, answer, live>>
      /\ \A d \in Callers \ {c} : SameRequest(d)
  BY Locality DEF ManagerActs, ManagerCall, ManagerLookup, ManagerWaits, ZentaoDecides,
     ManagerReceives, Lookup, requestVars, zentaoVars
<1>2. InCall(c) \/ Returns(c)
  BY <1>1, ManagerLocality
<1>3. /\ \A k \in DOMAIN failures' : failures'[k].err = "rejected" => k \in turnedDown'
      /\ result'[c].kind = "rejected" => result'[c] = result[c] \/ fkey(c) \in turnedDown'
  BY <1>1, ManagerFailures DEF RefusalInv, WorldGrows
<1>4. ASSUME NEW d \in Callers, pc'[d] = "reply", verdict'[d] = "rejected"
      PROVE  fkey(d)' \in turnedDown'
  <2>1. CASE d # c
    BY <1>1, <1>4, <2>1 DEF SameRequest, SameCaller, RefusalInv, RejectionsKnown, WorldGrows,
       fkey, key, hash
  <2>2. CASE d = c
    <3>1. ZentaoDecides(c)
      BY <1>4, <2>2, ReturnFits DEF ManagerActs, ManagerLookup, ManagerWaits, ManagerReceives, Receive,
         ReturnCancelled, ReuseSession, ThrottleAccount, SuppressRetry, WaitForLogin,
         RefuseNewAccount, GuardRefuses, BeginLogin, Refuse, Wake, StopWaiting, ReceiveAccepted,
         ReceiveRejected, ReceiveFailed, TypeOK
    <3>2. UNCHANGED req /\ turnedDown' = turnedDown \cup {fkey(c)}
      BY <1>4, <2>2, <3>1 DEF ZentaoDecides, Answer, Decide
    <3> QED BY <2>2, <3>2 DEF fkey, key, hash
  <2> QED BY <2>1, <2>2
<1>5. ASSUME NEW d \in Callers \ {c} PROVE Refused(d)'
  BY <1>1, <1>5 DEF SameRequest, SameCaller, WorldGrows, RefusalInv, Refused, Honest
<1>6. Refused(c)'
  <2>1. Honest(c)'
    BY <1>1 DEF WorldGrows, RefusalInv, Refused, Honest
  <2>2. ASSUME stage[c] \in {"login", "token", "refresh"}, result'[c].kind = "rejected"
        PROVE  <<asked[c].account, asked[c].password>> \in turnedDown'
    <3>1. CASE result'[c] = result[c]
      BY <2>2, <3>1 DEF WorldGrows, RefusalInv, Refused
    <3>2. CASE fkey(c) \in turnedDown'
      <4>1. HasCredentials(asked[c]) /\ pc[c] # "idle"
        BY <1>2, <2>2 DEF RouteInv, Route, InCall, Returns
      <4>2. fkey(c) = <<asked[c].account, asked[c].password>>
        BY <2>2, <4>1 DEF OwnInv, CallFits, fkey
      <4> QED BY <3>2, <4>2
    <3> QED BY <1>3, <2>2, <3>1, <3>2
  <2> QED BY <1>1, <2>1, <2>2 DEF Refused
<1> QED
  BY <1>3, <1>4, <1>5, <1>6 DEF RefusalInv, RejectionsKnown

LEMMA RefusalStep ==
    ASSUME TypeOK, RouteInv, UntouchedInv, OwnInv, RefusalInv, [GateNext]_allVars
    PROVE  RefusalInv'
<1>1. ASSUME NEW d \in Callers, SameRequest(d), WorldGrows
      PROVE  /\ Refused(d)'
             /\ pc'[d] = "reply" /\ verdict'[d] = "rejected" => fkey(d)' \in turnedDown'
  BY <1>1 DEF SameRequest, SameCaller, WorldGrows, RefusalInv, Refused, Honest, RejectionsKnown,
     fkey, key, hash
<1>2. ASSUME failures' \in {failures, LiveFailures}, WorldGrows
      PROVE  \A k \in DOMAIN failures' : failures'[k].err = "rejected" => k \in turnedDown'
  BY <1>2 DEF LiveFailures, Restrict, WorldGrows, RefusalInv, RejectionsKnown
<1>3. CASE OtherStep
  BY <1>1, <1>2, <1>3 DEF OtherStep, RefusalInv, RejectionsKnown
<1>4. ASSUME NEW c \in Callers, RequestActs(c) PROVE RefusalInv'
  <2>1. /\ WorldGrows /\ Refused(c)' /\ failures' = failures
        /\ \A d \in Callers \ {c} : SameRequest(d)
    BY <1>4, Locality, RequestsLeaveManager, RefusedRequest DEF managerVars
  <2>2. pc'[c] = "reply" /\ verdict'[c] = "rejected" => fkey(c)' \in turnedDown'
    BY <1>4, <2>1, RequestsLeaveManager DEF vars, callerVars, RefusalInv, RejectionsKnown,
       WorldGrows, fkey, key, hash
  <2> QED
    BY <1>1, <1>2, <2>1, <2>2 DEF RefusalInv, RejectionsKnown
<1> QED
  BY <1>3, <1>4, Locality, OtherSteps, RefusedManager

(* A client is told that its credentials are bad only if ZenTao has        *)
(* rejected exactly them, or does not take its token; an outage, the       *)
(* protection and other callers' attempts are never held against it.       *)
THEOREM RefusalsKept == GateSpec => []RefusalIsHonest
<1>1. GateInit => RefusalInv
  BY DEF GateInit, Init, RefusalInv, RejectionsKnown, Refused, Honest, Empty
<1>2. RefusalInv => RefusalIsHonest
  BY DEF RefusalInv, Refused, Honest, RefusalIsHonest
<1> QED
  BY <1>1, <1>2, RefusalStep, OwnInvariant, PTL DEF GateSpec

---------------------------------------------------------------------------
(* Whom a request acts as.  When ZenTao's answers arrive before the clock  *)
(* moves, a session lives TokenTTL from the moment ZenTao opened it.       *)

Opened(a, p, at) == [account |-> a, password |-> p, at |-> at] \in opened

VouchedSession(a) ==
    \E at \in Nat : /\ Opened(a, tokens[a].password, at)
                    /\ at <= now /\ tokens[a].expiresAt = at + TokenTTL

Accepted(c) == pc[c] = "reply" /\ verdict[c] = "accepted" => Opened(key(c), hash(c), now)

Holds(c) ==
    HasCredentials(asked[c]) /\ stage[c] \in {"login", "token", "refresh", "handling"}
    /\ result[c].kind = "token" => Vouched(asked[c].account, asked[c].password, asOf[c])

VouchInv ==
    /\ \A a \in DOMAIN tokens : VouchedSession(a)
    /\ \A c \in Callers : Accepted(c) /\ Holds(c)

LEMMA OpenedVouches ==
    ASSUME NEW a, NEW p, NEW at \in Nat, NEW moment, Opened(a, p, at), at <= moment,
           moment < at + TokenTTL
    PROVE  Vouched(a, p, moment)
<1> DEFINE s == [account |-> a, password |-> p, at |-> at]
<1>1. s \in opened /\ s.account = a /\ s.password = p /\ s.at = at
  BY DEF Opened
<1> QED
  BY <1>1 DEF Vouched

\* Sessions that are not new.
SameSession(a) ==
    /\ a \in DOMAIN tokens
    /\ tokens'[a].password = tokens[a].password /\ tokens'[a].expiresAt = tokens[a].expiresAt

LEMMA SameSessionVouched ==
    ASSUME TypeOK, VouchInv, WorldGrows, NEW a \in DOMAIN tokens', SameSession(a),
           now' \in {now, now + 1}
    PROVE  VouchedSession(a)'
<1>1. PICK at \in Nat : /\ Opened(a, tokens[a].password, at)
                        /\ at <= now /\ tokens[a].expiresAt = at + TokenTTL
  BY DEF VouchInv, VouchedSession, SameSession
<1>2. Opened(a, tokens[a].password, at)'
  BY <1>1 DEF Opened, WorldGrows, SameSession
<1> QED
  BY <1>1, <1>2 DEF VouchedSession, SameSession, TypeOK, Opened

LEMMA LiveSessionsSame ==
    ASSUME tokens' \in {tokens, LiveTokens}
    PROVE  \A a \in DOMAIN tokens' : SameSession(a)
  BY DEF LiveTokens, Restrict, SameSession

\* What the manager's step for c leaves in the cache, and gives to c.
LEMMA ManagerSessions ==
    ASSUME TypeOK, VouchInv, NEW c \in Callers, ManagerCall(c)
    PROVE  /\ now' = now
           /\ \A a \in DOMAIN tokens' :
                  \/ SameSession(a)
                  \/ /\ a = key(c) /\ tokens'[a].password = hash(c)
                     /\ tokens'[a].expiresAt = now + TokenTTL
                     /\ Opened(key(c), hash(c), now)
           /\ result'[c].kind = "token" => result'[c] = result[c] \/ Vouched(key(c), hash(c), now)
<1>0. now \in Nat /\ TokenTTL \in Nat \ {0}
  BY OptionsAssumption DEF TypeOK
<1>1. ASSUME NEW kind, NEW t, Return(c, kind, t) PROVE result'[c].kind = kind
  <2>1. result'[c] = [kind |-> kind, token |-> t]
    BY <1>1, ReturnFits
  <2> QED BY <2>1
<1>2. CASE ReuseSession(c)
  <2>1. /\ key(c) \in DOMAIN tokens /\ LiveTokens[key(c)] = tokens[key(c)]
        /\ tokens[key(c)].password = hash(c) /\ now < tokens[key(c)].expiresAt
        /\ tokens' = [LiveTokens EXCEPT ![key(c)].lastUsed = now] /\ now' = now
    BY <1>2 DEF ReuseSession, HasSession, LiveTokens, Restrict
  <2>2. \A a \in DOMAIN tokens' : SameSession(a)
    BY <2>1 DEF LiveTokens, Restrict, SameSession
  <2>3. PICK at \in Nat : /\ Opened(key(c), hash(c), at)
                          /\ at <= now /\ tokens[key(c)].expiresAt = at + TokenTTL
    BY <2>1 DEF VouchInv, VouchedSession
  <2>4. Vouched(key(c), hash(c), now)
    BY <2>1, <2>3, OpenedVouches
  <2> QED BY <2>1, <2>2, <2>4
<1>3. CASE Lookup(c) /\ ~ReuseSession(c)
  <2>1. tokens' \in {tokens, LiveTokens} /\ now' = now
    BY <1>3 DEF Lookup, ReturnCancelled, ThrottleAccount, SuppressRetry, WaitForLogin,
       RefuseNewAccount, GuardRefuses, BeginLogin, Refuse, Cleaned, managerVars
  <2>2. CASE WaitForLogin(c) \/ BeginLogin(c)
    BY <2>1, <2>2, LiveSessionsSame DEF WaitForLogin, BeginLogin
  <2>3. CASE SuppressRetry(c)
    <3>1. LiveFailures[fkey(c)].err # "token"
      BY <2>3, LiveTypes DEF SuppressRetry, BackingOff, IsMap, FailureEntry
    <3>2. result'[c].kind = LiveFailures[fkey(c)].err
      BY <1>1, <2>3 DEF SuppressRetry, Refuse
    <3> QED BY <2>1, <3>1, <3>2, LiveSessionsSame
  <2>4. CASE ReturnCancelled(c) \/ ThrottleAccount(c) \/ RefuseNewAccount(c) \/ GuardRefuses(c)
    <3>1. result'[c].kind # "token"
      BY <1>1, <2>4 DEF ReturnCancelled, ThrottleAccount, RefuseNewAccount, GuardRefuses, Refuse
    <3> QED BY <2>1, <3>1, LiveSessionsSame
  <2> QED BY <1>3, <2>2, <2>3, <2>4 DEF Lookup
<1>4. CASE Wake(c) \/ Answer(c)
  BY <1>4, LiveSessionsSame DEF Wake, Answer, Decide, managerVars
<1>5. CASE StopWaiting(c)
  BY <1>1, <1>5, LiveSessionsSame DEF StopWaiting, managerVars
<1>6. CASE ReceiveAccepted(c)
  <2> DEFINE e == [token |-> Issued(c), password |-> hash(c),
                   expiresAt |-> now + TokenTTL, lastUsed |-> now]
  <2>1. PICK victims : tokens' = Put(Drop(tokens, victims), key(c), e)
    BY <1>6 DEF ReceiveAccepted
  <2>2. Opened(key(c), hash(c), now) /\ now' = now
    BY <1>6 DEF ReceiveAccepted, VouchInv, Accepted
  <2>3. Vouched(key(c), hash(c), now)
    BY <1>0, <2>2, OpenedVouches
  <2>4. e.password = hash(c) /\ e.expiresAt = now + TokenTTL
    OBVIOUS
  <2> HIDE DEF e
  <2>5. ASSUME NEW a \in DOMAIN tokens'
        PROVE  SameSession(a) \/ (a = key(c) /\ tokens'[a] = e)
    BY <2>1 DEF Put, Drop, Restrict, SameSession
  <2> QED BY <2>2, <2>3, <2>4, <2>5
<1>7. CASE ReceiveRejected(c) \/ ReceiveFailed(c)
  <2>1. ForgetOwnSession(c) /\ now' = now /\ result'[c].kind # "token"
    BY <1>1, <1>7 DEF ReceiveRejected, ReceiveFailed
  <2>2. \A a \in DOMAIN tokens' : SameSession(a)
    BY <2>1 DEF ForgetOwnSession, Drop, Restrict, SameSession
  <2> QED BY <2>1, <2>2
<1> QED
  BY <1>2, <1>3, <1>4, <1>5, <1>6, <1>7 DEF ManagerCall, Receive

LEMMA VouchedGrows ==
    ASSUME WorldGrows, NEW a, NEW p, NEW moment, Vouched(a, p, moment) PROVE Vouched(a, p, moment)'
  BY DEF Vouched, WorldGrows

LEMMA VouchManager ==
    ASSUME TypeOK, RouteInv, SessionInv, OwnInv, VouchInv, NEW c \in Callers, ManagerActs(c),
           WorldGrows
    PROVE  VouchInv'
<1>1. /\ ManagerCall(c) /\ UNCHANGED <<stage, asked>>
      /\ \A d \in Callers \ {c} : SameRequest(d)
      /\ asOf'[c] = now \/ (UNCHANGED asOf /\ ZentaoDecides(c))
  BY Locality DEF ManagerActs, ManagerCall, ManagerLookup, ManagerWaits, ZentaoDecides,
     ManagerReceives, Lookup, requestVars, zentaoVars, Moment, RouteInv, GateTypeOK
<1>2. InCall(c) \/ Returns(c)
  BY <1>1, ManagerLocality
<1>3. /\ now' = now /\ now \in Nat
      /\ \A a \in DOMAIN tokens' :
             \/ SameSession(a)
             \/ /\ a = key(c) /\ tokens'[a].password = hash(c)
                /\ tokens'[a].expiresAt = now + TokenTTL
                /\ Opened(key(c), hash(c), now)
      /\ result'[c].kind = "token" => result'[c] = result[c] \/ Vouched(key(c), hash(c), now)
  BY <1>1, ManagerSessions DEF TypeOK
<1>4. ASSUME NEW a \in DOMAIN tokens' PROVE VouchedSession(a)'
  <2>1. CASE SameSession(a)
    BY <1>3, <2>1, SameSessionVouched
  <2>2. CASE ~SameSession(a)
    <3>1. /\ Opened(a, tokens'[a].password, now) /\ tokens'[a].expiresAt = now + TokenTTL
      BY <1>3, <2>2
    <3>2. Opened(a, tokens[a].password, now)'
      BY <1>3, <3>1 DEF Opened, WorldGrows
    <3> QED BY <1>3, <3>1, <3>2 DEF VouchedSession, Opened
  <2> QED BY <2>1, <2>2
<1>5. ASSUME NEW d \in Callers \ {c} PROVE Accepted(d)' /\ Holds(d)'
  BY <1>1, <1>3, VouchedGrows DEF SameRequest, SameCaller, WorldGrows, VouchInv, Accepted, Holds,
     Opened, Vouched, key, hash
<1>6. Accepted(c)'
  <2>1. CASE ZentaoDecides(c)
    BY <2>1 DEF ZentaoDecides, Answer, Decide, Accepted, Opened, key, hash
  <2>2. CASE ~ZentaoDecides(c)
    <3>1. pc'[c] # "reply"
      BY <2>2, ReturnFits DEF ManagerActs, ManagerLookup, ManagerWaits, ManagerReceives, Receive,
         ReturnCancelled, ReuseSession, ThrottleAccount, SuppressRetry, WaitForLogin,
         RefuseNewAccount, GuardRefuses, BeginLogin, Refuse, Wake, StopWaiting, ReceiveAccepted,
         ReceiveRejected, ReceiveFailed, TypeOK
    <3> QED BY <3>1 DEF Accepted
  <2> QED BY <2>1, <2>2
<1>7. ASSUME HasCredentials(asked[c]), stage[c] \in {"login", "token", "refresh", "handling"},
             result'[c].kind = "token"
      PROVE  Vouched(asked[c].account, asked[c].password, asOf'[c])
  <2>1. pc[c] # "idle" /\ result[c].kind # "token"
    BY <1>2 DEF InCall, Returns, SessionInv, CallerFits
  <2>2. Vouched(key(c), hash(c), now) /\ asOf'[c] = now
    BY <1>1, <1>3, <1>7, <2>1 DEF ZentaoDecides, Answer, Decide
  <2>3. key(c) = asked[c].account /\ hash(c) = asked[c].password
    BY <1>7, <2>1 DEF OwnInv, CallFits
  <2> QED BY <2>2, <2>3
<1>8. Holds(c)'
  BY <1>1, <1>7, VouchedGrows DEF Holds
<1> QED
  BY <1>4, <1>5, <1>6, <1>8 DEF VouchInv

LEMMA HoldsRequest ==
    ASSUME TypeOK, RouteInv, VouchInv, NEW c \in Callers, RequestActs(c), WorldGrows
    PROVE  Holds(c)'
<1> USE DEF GateTypeOK, RouteInv
<1>1. CASE stage'[c] \in {"idle", "answering", "validating", "sending"}
  BY <1>1 DEF Holds
<1>2. CASE \E r : Enter(c, r)
  BY <1>2, EnterLocality DEF Holds
<1>3. ASSUME UNCHANGED <<asked, result, asOf>>, stage'[c] = "handling",
             stage[c] \in {"login", "token", "refresh", "handling"} \/ ~HasCredentials(asked[c])
      PROVE  Holds(c)'
  <2>1. ASSUME HasCredentials(asked[c]), result[c].kind = "token"
        PROVE  Vouched(asked[c].account, asked[c].password, asOf[c])'
    <3>1. Vouched(asked[c].account, asked[c].password, asOf[c])
      BY <1>3, <2>1 DEF VouchInv, Holds
    <3>2. asked'[c] = asked[c] /\ asOf'[c] = asOf[c]
      BY <1>3
    <3> QED BY <3>1, <3>2 DEF Vouched, WorldGrows
  <2> QED BY <1>3, <2>1 DEF Holds
<1>4. CASE Begin(c)
  BY <1>1, <1>2, <1>4 DEF Begin, RefuseRequest, RefuseHeaders, StartLogin, StartValidation,
     AnswerWith, Goto
<1>5. CASE Front(c) \/ Serve(c) \/ Depart(c)
  <2>1. CASE AdmitToken(c)
    BY <1>3, <2>1 DEF AdmitToken, Goto, Quietly, ghostVars, vars, callerVars, Route
  <2> QED
    BY <1>1, <1>5, <2>1 DEF Front, RefuseLogin, RefuseToken, Serve, Depart, AnswerWith, Goto
<1>6. CASE Business(c)
  <2>1. CASE AskToken(c) \/ UsePersonalToken(c)
    BY <1>1, <1>2, <2>1 DEF AskToken, UsePersonalToken, Goto
  <2>2. CASE NoSession(c)
    BY <1>3, <2>2 DEF NoSession, HasNone, Returned, Tell, Goto, Quietly, ghostVars, vars, callerVars
  <2>3. CASE Execute(c) \/ SendFails(c)
    <3>1. /\ stage'[c] = "handling" /\ UNCHANGED <<asked, result, asOf>>
          /\ stage[c] \in {"sending", "token", "refresh"}
      BY <2>3, SentTypes, CarriedType DEF Execute, SendFails, Sent, Tell, Goto, vars, callerVars,
         OnTheWire, HasSessionNow, Returned
    <3> QED BY <1>3, <3>1 DEF Route
  <2>4. CASE Reject401(c)
    <3>1. stage[c] \in {"sending", "token", "refresh"} /\ UNCHANGED <<asked, asOf>>
      BY <2>4, SentTypes DEF Reject401
    <3>2. CASE MayRefresh(c)
      BY <1>2, <2>4, <3>2 DEF Reject401, Retry, CallRefresh
    <3>3. CASE ~MayRefresh(c)
      BY <1>3, <2>4, <3>1, <3>3 DEF Reject401, Tell, Goto, vars, callerVars, Route
    <3> QED BY <3>2, <3>3
  <2> QED BY <1>6, <2>1, <2>2, <2>3, <2>4 DEF Business
<1> QED
  BY <1>4, <1>5, <1>6 DEF RequestActs, Handle

LEMMA VouchStep ==
    ASSUME PromptReplies, TypeOK, RouteInv, SessionInv, OwnInv, VouchInv, [GateNext]_allVars
    PROVE  VouchInv'
<1>1. ASSUME NEW d \in Callers, SameRequest(d), WorldGrows PROVE Holds(d)'
  BY <1>1 DEF SameRequest, SameCaller, WorldGrows, VouchInv, Holds, Vouched
<1>2. ASSUME NEW d \in Callers, SameRequest(d), WorldGrows, UNCHANGED now \/ pc[d] # "reply"
      PROVE  Accepted(d)'
  BY <1>2 DEF SameRequest, SameCaller, WorldGrows, VouchInv, Accepted, Opened, key, hash
<1>3. ASSUME tokens' \in {tokens, LiveTokens}, WorldGrows, UNCHANGED now \/ Tick
      PROVE  \A a \in DOMAIN tokens' : VouchedSession(a)'
  BY <1>3, LiveSessionsSame, SameSessionVouched DEF Tick
<1>4. CASE OtherStep
  <2>1. UNCHANGED now \/ \A d \in Callers : pc[d] # "reply"
    BY <1>4 DEF OtherStep, Tick
  <2> QED
    BY <1>1, <1>2, <1>3, <1>4, <2>1 DEF OtherStep, VouchInv
<1>5. ASSUME NEW c \in Callers, RequestActs(c) PROVE VouchInv'
  <2>1. /\ WorldGrows /\ \A d \in Callers \ {c} : SameRequest(d)
        /\ UNCHANGED <<tokens, now>> /\ (UNCHANGED vars \/ pc'[c] = "lookup")
    BY <1>5, Locality, RequestsLeaveManager DEF managerVars
  <2>2. Accepted(c)'
    BY <2>1 DEF vars, callerVars, VouchInv, Accepted, Opened, WorldGrows, key, hash
  <2>3. Holds(c)'
    BY <1>5, <2>1, HoldsRequest
  <2> QED
    BY <1>1, <1>2, <1>3, <2>1, <2>2, <2>3 DEF VouchInv
<1> QED
  BY <1>4, <1>5, Locality, OtherSteps, VouchManager

LEMMA VouchInit == GateInit => VouchInv
  BY DEF GateInit, Init, VouchInv, Accepted, Holds, Empty

(* Behind the gate a request has what its own headers earned: a session    *)
(* that ZenTao opened for its account and password no more than TokenTTL   *)
(* ago, or the good token it brought; and its business requests carry that *)
(* and nothing of the requests that share the cache with it.               *)
THEOREM CallersKept ==
    ASSUME PromptReplies
    PROVE  GateSpec => []ActsAsCaller
<1>1. RouteInv /\ OwnInv /\ VouchInv => ActsAsCaller
  <2> SUFFICES ASSUME RouteInv, OwnInv, VouchInv, NEW c \in Callers, Inside(c)
               PROVE  IF HasCredentials(asked[c])
                      THEN /\ result[c].kind = "token" =>
                                  Vouched(asked[c].account, asked[c].password, asOf[c])
                           /\ \A t \in {first[c], second[c]} \ {NoToken} :
                                  /\ t \in Token
                                  /\ t.account = asked[c].account /\ t.password = asked[c].password
                      ELSE /\ wasLive[c]
                           /\ {first[c], second[c]} \subseteq {NoToken, PersonalToken(asked[c])}
    BY DEF ActsAsCaller
  <2>1. stage[c] \in {"login", "token", "refresh", "handling", "sending"}
    BY DEF Inside, Handling, OnTheWire, HasSessionNow, Returned
  <2>2. CASE HasCredentials(asked[c])
    BY <2>1, <2>2 DEF RouteInv, Route, VouchInv, Holds, OwnInv, CarriesOwn, Own
  <2>3. CASE ~HasCredentials(asked[c])
    BY <2>1, <2>3 DEF RouteInv, Route, OwnInv, CarriesOwn, Own
  <2> QED BY <2>2, <2>3
<1>2. TypeOK /\ RouteInv /\ SessionInv /\ OwnInv /\ VouchInv /\ [GateNext]_allVars => VouchInv'
  BY VouchStep
<1> QED
  BY <1>1, <1>2, VouchInit, OwnInvariant, PTL DEF GateSpec
=============================================================================
