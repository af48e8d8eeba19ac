---------------------------- MODULE RequestGate ----------------------------
(***************************************************************************)
(* One request of an MCP client from its headers to its answer:            *)
(* ZentaoAuthenticator.Wrap in front (internal/middleware/                 *)
(* zentao_authenticator.go), the tool handler behind it, and authTransport *)
(* (auth_transport.go) under every business request the handler sends.     *)
(* All of them share one ZentaoTokenManager, which is TokenManager here:   *)
(* its callers are the goroutines of the requests, and each step of it is  *)
(* one of the actions of that module.                                      *)
(*                                                                         *)
(* ZenTao is external: it closes sessions and revokes tokens when it       *)
(* likes, and it answers 401 both to a token it does not know and to some  *)
(* things the account may not do.                                          *)
(***************************************************************************)
EXTENDS TokenManager

CONSTANTS
    PersonalTokens,   \* tokens that clients bring themselves
    NoHeader,         \* a header that is absent or empty
    Unfit,            \* a header that is blank after TrimSpace, or too long
    Inputs,           \* the headers clients send
    MaxRequests,      \* bound on the requests
    MaxBusiness,      \* bound on the business requests of one request
    MaxClosed,        \* bound on the sessions ZenTao closes by itself
    MaxHangUps        \* bound on the clients that are gone at a time

Headers == [account       : Accounts \cup {NoHeader, Unfit},
            password      : Passwords \cup {NoHeader, Unfit},
            token         : PersonalTokens \cup {NoHeader, Unfit},
            authorization : PersonalTokens \cup {NoHeader, Unfit}]
NoHeaders == [account |-> NoHeader, password |-> NoHeader,
              token |-> NoHeader, authorization |-> NoHeader]

ASSUME HeadersAssumption ==
    /\ Inputs \subseteq Headers
    /\ NoHeader \notin Accounts \cup Passwords \cup PersonalTokens \cup Token
    /\ Unfit \notin Accounts \cup Passwords \cup PersonalTokens \cup {NoHeader}
    /\ (PersonalTokens \cup {NoToken}) \cap Token = {} /\ NoToken \notin PersonalTokens

\* Every request can make the calls of the manager it needs.
ASSUME CallsAssumption ==
    /\ MaxRequests \in Nat /\ MaxBusiness \in Nat /\ MaxClosed \in Nat /\ MaxHangUps \in Nat
    /\ MaxCalls >= MaxRequests * (1 + 2 * MaxBusiness)

VARIABLES
    stage,            \* where the handling of each request is
    asked,            \* the headers of the request
    gone,             \* its client has hung up: ctx is done
    sent,             \* business requests it has begun
    first, second,    \* the tokens its last business request was sent with
    effects,          \* how often ZenTao executed that business request
    outcome,          \* what the tool was told of it
    answer,           \* the HTTP answer
    requests,         \* requests so far
    closed,           \* sessions ZenTao has closed
    live,             \* personal tokens ZenTao still takes
    asOf,             \* when the manager last did something for this request
    wasLive,          \* was its personal token good when it arrived?
    denied,           \* did ZenTao deny the business request itself, with a 401?
    opened,           \* every login ZenTao accepted: whose, and when
    turnedDown        \* the credentials ZenTao has rejected

requestVars == <<stage, asked, gone, sent, first, second, effects, outcome, answer, requests>>
zentaoVars  == <<closed, live>>
ghostVars   == <<asOf, wasLive, denied, opened, turnedDown>>
gateVars    == <<requestVars, zentaoVars, ghostVars>>
allVars     == <<vars, gateVars>>

Sessions == Token \cup PersonalTokens \cup {NoToken}
Stages   == {"idle", "login", "validating", "handling", "token", "sending", "refresh", "answering"}
Told     == {"none", "ok", "denied", "authFailed", "error"}
Answers  == {"none", "unauthorized", "throttled", "unavailable", "served"}

GateTypeOK ==
    /\ stage \in [Callers -> Stages]
    /\ asked \in [Callers -> Inputs \cup {NoHeaders}]
    /\ gone \in [Callers -> BOOLEAN]
    /\ sent \in [Callers -> Nat]
    /\ first \in [Callers -> Sessions] /\ second \in [Callers -> Sessions]
    /\ effects \in [Callers -> Nat]
    /\ outcome \in [Callers -> Told]
    /\ answer \in [Callers -> Answers]
    /\ requests \in Nat
    /\ closed \subseteq Token /\ live \subseteq PersonalTokens
    /\ asOf \in [Callers -> Nat]
    /\ wasLive \in [Callers -> BOOLEAN] /\ denied \in [Callers -> BOOLEAN]
    /\ opened \subseteq [account : Accounts, password : Passwords, at : Nat]
    /\ turnedDown \subseteq Accounts \X Passwords

GateInit ==
    /\ Init
    /\ stage = [c \in Callers |-> "idle"]
    /\ asked = [c \in Callers |-> NoHeaders]
    /\ gone = [c \in Callers |-> FALSE]
    /\ sent = [c \in Callers |-> 0]
    /\ first = [c \in Callers |-> NoToken] /\ second = [c \in Callers |-> NoToken]
    /\ effects = [c \in Callers |-> 0]
    /\ outcome = [c \in Callers |-> "none"]
    /\ answer = [c \in Callers |-> "none"]
    /\ requests = 0
    /\ closed = {} /\ live = PersonalTokens
    /\ asOf = [c \in Callers |-> 0]
    /\ wasLive = [c \in Callers |-> FALSE] /\ denied = [c \in Callers |-> FALSE]
    /\ opened = {} /\ turnedDown = {}

---------------------------------------------------------------------------
(* What the context carries after AuthorizationHandler: credentials before *)
(* the token header, and that before Authorization ("Bearer " is cut off). *)

HasCredentials(h) == h.account # NoHeader /\ h.password # NoHeader
PersonalToken(h)  == IF h.token # NoHeader THEN h.token ELSE h.authorization

\* One half of the credentials, or nothing at all.
Incomplete(h) == (h.account # NoHeader) # (h.password # NoHeader) \/ h = NoHeaders
TooLong(h) == IF HasCredentials(h) THEN Unfit \in {h.account, h.password}
                                   ELSE PersonalToken(h) = Unfit

Credentials(h) == [account |-> h.account, password |-> h.password, stale |-> NoToken]

(* ZenTao closes sessions and revokes tokens when it likes.  Nobody can    *)
(* tell before the token is used again, so that is when it happens here.   *)
Good(t) == t \in live \cup (Token \ closed)

NoLongerGood(t) ==
    \/ ~Good(t) /\ UNCHANGED zentaoVars
    \/ t \in live /\ live' = live \ {t} /\ UNCHANGED closed
    \/ /\ t \in Token \ closed /\ Cardinality(closed) < MaxClosed
       /\ closed' = closed \cup {t} /\ UNCHANGED live

(* The request goes on, or is answered.                                    *)
Goto(c, to) == stage' = [stage EXCEPT ![c] = to]
AnswerWith(c, what) == Goto(c, "answering") /\ answer' = [answer EXCEPT ![c] = what]

(* A request comes in.  What its goroutine does before it calls the        *)
(* manager or ZenTao touches nothing that others see, and is one step.     *)
Arrive(c, h) ==
    /\ stage[c] = "idle" /\ requests < MaxRequests
    /\ requests' = requests + 1
    /\ asked' = [asked EXCEPT ![c] = h]
    /\ wasLive' = [wasLive EXCEPT ![c] = PersonalToken(h) \in live]
    /\ UNCHANGED <<gone, sent, first, second, effects, outcome, zentaoVars,
                   asOf, denied, opened, turnedDown>>

(* requests.allow (AccessLimiter) refuses before a header is looked at.    *)
RefuseRequest(c, h) == Arrive(c, h) /\ AnswerWith(c, "throttled") /\ UNCHANGED vars

RefuseHeaders(c, h) ==
    /\ Arrive(c, h) /\ (Incomplete(h) \/ TooLong(h))
    /\ AnswerWith(c, "unauthorized")
    /\ UNCHANGED vars

WellFormed(h) == ~Incomplete(h) /\ ~TooLong(h)

(* TokenWithLoginGuard.                                                    *)
StartLogin(c, h) ==
    /\ Arrive(c, h) /\ WellFormed(h) /\ HasCredentials(h)
    /\ Enter(c, Credentials(h))
    /\ Goto(c, "login") /\ UNCHANGED answer

(* validateToken: GET user with the client's own token.                    *)
StartValidation(c, h) ==
    /\ Arrive(c, h) /\ WellFormed(h) /\ ~HasCredentials(h)
    /\ Goto(c, "validating") /\ UNCHANGED <<vars, answer>>

(* writeZentaoAuthError: 400, 401 and 403 are bad credentials, 429 is      *)
(* protection, and everything else is an outage.  A failed login may carry *)
(* any other status, 429 among them.                                       *)
\* Mutant: what cannot be told apart is the client's fault.
StatusOf_Blames(kind) == CASE kind \in {"throttled", "guarded"} -> {"throttled"}
                           [] OTHER                             -> {"unauthorized"}

StatusOf(kind) == CASE kind = "rejected"                -> {"unauthorized"}
                    [] kind \in {"throttled", "guarded"} -> {"throttled"}
                    [] kind = "failed"                   -> {"throttled", "unavailable"}
                    [] OTHER                             -> {"unavailable"}

\* The manager has returned to the request, with a session or without one.
Returned(c, at) == stage[c] = at /\ pc[c] = "idle"
HasSessionNow(c, at) == Returned(c, at) /\ result[c].kind = "token"
HasNone(c, at)       == Returned(c, at) /\ result[c].kind # "token"

\* Only the answer and the place in the code change.
Quietly == UNCHANGED <<vars, asked, gone, sent, first, second, effects, requests, ghostVars>>

RefuseLogin(c) ==
    /\ HasNone(c, "login")
    /\ \E what \in StatusOf(result[c].kind) : AnswerWith(c, what)
    /\ Quietly /\ UNCHANGED <<outcome, zentaoVars>>

\* 200 and a profile with an account.
AdmitToken(c) ==
    /\ stage[c] = "validating" /\ PersonalToken(asked[c]) \in live
    /\ Goto(c, "handling")
    /\ Quietly /\ UNCHANGED <<outcome, answer, zentaoVars>>

\* 401, or 200 without an account; an outage, a timeout or another status.
RefuseToken(c) ==
    /\ stage[c] = "validating"
    /\ \/ NoLongerGood(PersonalToken(asked[c])) /\ AnswerWith(c, "unauthorized")
       \/ /\ \E what \in StatusOf("failed") : AnswerWith(c, what)
          /\ UNCHANGED zentaoVars
    /\ Quietly /\ UNCHANGED outcome

---------------------------------------------------------------------------
(* Past the gate the tool handler runs.  It sends business requests        *)
(* through authTransport, one after the other; Execute, getJSON and        *)
(* doRequest build only requests that canReplay (no body, or a             *)
(* bytes.Reader).                                                          *)

Handling(c) == stage[c] = "handling" \/ HasSessionNow(c, "login")

NewBusiness(c) ==
    /\ Handling(c) /\ sent[c] < MaxBusiness
    /\ sent' = [sent EXCEPT ![c] = sent[c] + 1]
    /\ first' = [first EXCEPT ![c] = NoToken] /\ second' = [second EXCEPT ![c] = NoToken]
    /\ effects' = [effects EXCEPT ![c] = 0]
    /\ outcome' = [outcome EXCEPT ![c] = "none"]
    /\ denied' = [denied EXCEPT ![c] = FALSE]
    /\ UNCHANGED <<asked, gone, answer, requests, zentaoVars, asOf, wasLive, opened, turnedDown>>

\* roundTripWithManagedToken begins: Token, without a guard.
AskToken(c) ==
    /\ NewBusiness(c) /\ HasCredentials(asked[c])
    /\ Enter(c, Credentials(asked[c]))
    /\ Goto(c, "token")

\* The client's own token, behind the gate always in the token header.
UsePersonalToken(c) ==
    NewBusiness(c) /\ ~HasCredentials(asked[c]) /\ Goto(c, "sending") /\ UNCHANGED vars

(* The business request ends: the tool is told what became of it.          *)
Tell(c, what) == Goto(c, "handling") /\ outcome' = [outcome EXCEPT ![c] = what]

(* loginErrorResponse: a ZentaoLoginError becomes a response marked with   *)
(* AuthFailureHeader, any other error stays an error.                      *)
ToldOf(kind) == CASE kind \in {"rejected", "throttled", "guarded"} -> {"authFailed"}
                  [] kind = "failed"                              -> {"authFailed", "error"}
                  [] OTHER                                        -> {"error"}

NoSession(c) ==
    /\ HasNone(c, "token") \/ HasNone(c, "refresh")
    /\ \E what \in ToldOf(result[c].kind) : Tell(c, what)
    /\ Quietly /\ UNCHANGED <<answer, zentaoVars>>

OnTheWire(c) == stage[c] = "sending" \/ HasSessionNow(c, "token") \/ HasSessionNow(c, "refresh")
Carried(c)   == IF HasCredentials(asked[c]) THEN result[c].token ELSE PersonalToken(asked[c])

\* The request goes out with a token: the first time, or the second.
Sent(c) ==
    /\ OnTheWire(c)
    /\ IF stage[c] = "refresh"
       THEN second' = [second EXCEPT ![c] = Carried(c)] /\ UNCHANGED first
       ELSE first' = [first EXCEPT ![c] = Carried(c)] /\ UNCHANGED second
    /\ UNCHANGED <<asked, gone, sent, answer, requests, asOf, wasLive, opened, turnedDown>>

\* roundTripWithManagedToken, lines 38-47: Refresh with the stale token.
MayRefresh(c) == stage[c] = "token"
Retry(c) == CallRefresh(c) /\ Goto(c, "refresh") /\ UNCHANGED outcome

(* ZenTao (external) does what it is asked; the transport hears of it, or  *)
(* gets an error (a timeout, a reset connection, a client that hung up).   *)
\* Mutant: an error is taken for a reason to send again.
Execute_Retried(c) ==
    /\ Sent(c) /\ Good(Carried(c))
    /\ effects' = [effects EXCEPT ![c] = effects[c] + 1]
    /\ IF MayRefresh(c) THEN Retry(c) ELSE Tell(c, "error") /\ UNCHANGED vars
    /\ UNCHANGED <<zentaoVars, denied>>

Execute(c) ==
    /\ Sent(c) /\ Good(Carried(c))
    /\ effects' = [effects EXCEPT ![c] = effects[c] + 1]
    /\ \E what \in {"ok", "error"} : Tell(c, what)
    /\ UNCHANGED <<vars, zentaoVars, denied>>

SendFails(c) == Sent(c) /\ Tell(c, "error") /\ UNCHANGED <<vars, zentaoVars, effects, denied>>

(* 401: the token is not good, or the account may not do this.  The first  *)
(* one to a managed token is answered with Refresh, any other is passed on. *)
\* Mutant: the stale token is not named.
Reject401_NotStale(c) ==
    /\ Sent(c)
    /\ \/ NoLongerGood(Carried(c)) /\ UNCHANGED denied
       \/ Good(Carried(c)) /\ denied' = [denied EXCEPT ![c] = TRUE] /\ UNCHANGED zentaoVars
    /\ IF MayRefresh(c)
       THEN Enter(c, Credentials(asked[c])) /\ Goto(c, "refresh") /\ UNCHANGED outcome
       ELSE Tell(c, "denied") /\ UNCHANGED vars
    /\ UNCHANGED effects

Reject401(c) ==
    /\ Sent(c)
    /\ \/ NoLongerGood(Carried(c)) /\ UNCHANGED denied
       \/ Good(Carried(c)) /\ denied' = [denied EXCEPT ![c] = TRUE] /\ UNCHANGED zentaoVars
    /\ IF MayRefresh(c) THEN Retry(c) ELSE Tell(c, "denied") /\ UNCHANGED vars
    /\ UNCHANGED effects

(* The handler is done, or needs nothing of ZenTao.                        *)
Serve(c) == Handling(c) /\ AnswerWith(c, "served") /\ Quietly /\ UNCHANGED <<outcome, zentaoVars>>

(* The answer is written, and nothing of the request remains.              *)
Depart(c) ==
    /\ stage[c] = "answering" /\ Goto(c, "idle")
    /\ asked' = [asked EXCEPT ![c] = NoHeaders]
    /\ gone' = [gone EXCEPT ![c] = FALSE]
    /\ sent' = [sent EXCEPT ![c] = 0]
    /\ first' = [first EXCEPT ![c] = NoToken] /\ second' = [second EXCEPT ![c] = NoToken]
    /\ effects' = [effects EXCEPT ![c] = 0]
    /\ outcome' = [outcome EXCEPT ![c] = "none"]
    /\ answer' = [answer EXCEPT ![c] = "none"]
    /\ asOf' = [asOf EXCEPT ![c] = 0]
    /\ wasLive' = [wasLive EXCEPT ![c] = FALSE] /\ denied' = [denied EXCEPT ![c] = FALSE]
    /\ UNCHANGED <<vars, requests, zentaoVars, opened, turnedDown>>

---------------------------------------------------------------------------
(* The manager works for the request that called it.                       *)

Moment(c) == asOf' = [asOf EXCEPT ![c] = now]

(* ctx.Err() is what the manager looks at first (163), and only the gate   *)
(* has given it a guard.                                                   *)
ManagerLookup(c) ==
    /\ gone[c] => cancelled[c]
    /\ \/ ReturnCancelled(c) \/ ReuseSession(c) \/ ThrottleAccount(c) \/ SuppressRetry(c)
       \/ WaitForLogin(c) \/ RefuseNewAccount(c) \/ BeginLogin(c)
       \/ stage[c] = "login" /\ GuardRefuses(c)
    /\ Moment(c)
    /\ UNCHANGED <<requestVars, zentaoVars, wasLive, denied, opened, turnedDown>>

ManagerWaits(c) ==
    /\ Wake(c) \/ StopWaiting(c)
    /\ Moment(c)
    /\ UNCHANGED <<requestVars, zentaoVars, wasLive, denied, opened, turnedDown>>

ZentaoDecides(c) ==
    /\ Answer(c)
    /\ opened' = IF verdict'[c] = "accepted"
                 THEN opened \cup {[account |-> key(c), password |-> hash(c), at |-> now]}
                 ELSE opened
    /\ turnedDown' = IF verdict'[c] = "rejected" THEN turnedDown \cup {fkey(c)} ELSE turnedDown
    /\ UNCHANGED <<requestVars, zentaoVars, asOf, wasLive, denied>>

ManagerReceives(c) ==
    /\ Receive(c)
    /\ Moment(c)
    /\ UNCHANGED <<requestVars, zentaoVars, wasLive, denied, opened, turnedDown>>

(* The client hangs up: its context is done.  The manager is who looks at  *)
(* that, in this call or in a later one; elsewhere a hang-up is one of the *)
(* failures of a read.                                                     *)
HangUp(c) ==
    /\ ~gone[c] /\ Cardinality({d \in Callers : gone[d]}) < MaxHangUps
    /\ Cancel(c)
    /\ gone' = [gone EXCEPT ![c] = TRUE]
    /\ UNCHANGED <<stage, asked, sent, first, second, effects, outcome, answer, requests,
                   zentaoVars, ghostVars>>

ContextDone(c) == gone[c] /\ Cancel(c) /\ UNCHANGED gateVars

GateCleanup == Cleanup /\ UNCHANGED gateVars
GateTick    == Tick /\ UNCHANGED gateVars

Begin(c) == \E h \in Inputs :
    RefuseRequest(c, h) \/ RefuseHeaders(c, h) \/ StartLogin(c, h) \/ StartValidation(c, h)
Front(c) == RefuseLogin(c) \/ AdmitToken(c) \/ RefuseToken(c)
Business(c) ==
    \/ AskToken(c) \/ UsePersonalToken(c) \/ NoSession(c)
    \/ Execute(c) \/ SendFails(c) \/ Reject401(c)
Handle(c) == Front(c) \/ Business(c) \/ Serve(c) \/ Depart(c)

GateNext ==
    \/ \E c \in Callers :
           \/ Begin(c) \/ Handle(c) \/ HangUp(c) \/ ContextDone(c)
           \/ ManagerLookup(c) \/ ManagerWaits(c) \/ ZentaoDecides(c) \/ ManagerReceives(c)
    \/ GateCleanup \/ GateTick

GateSpec == GateInit /\ [][GateNext]_allVars

---------------------------------------------------------------------------
(* Properties.                                                             *)

\* Past the gate, with something in its hands.
Inside(c) == Handling(c) \/ OnTheWire(c) \/ stage[c] = "refresh"

\* ZenTao accepted these credentials less than TokenTTL before that moment.
Vouched(a, p, moment) ==
    \E s \in opened : /\ s.account = a /\ s.password = p
                      /\ s.at <= moment /\ moment < s.at + TokenTTL

(* A request acts as the client that sent it and as nobody else.  Behind   *)
(* the gate, what a request with credentials holds from the manager is     *)
(* vouched for by ZenTao for exactly its account and its password, not too *)
(* long ago; a request with a token of its own had a good one; and every   *)
(* business request carries a session of that account and password, or     *)
(* that very token (authenticator 45-69, transport 18-50, and the cache    *)
(* that all requests share).                                               *)
ActsAsCaller ==
    \A c \in Callers : Inside(c) =>
        IF HasCredentials(asked[c])
        THEN /\ result[c].kind = "token" => Vouched(asked[c].account, asked[c].password, asOf[c])
             /\ \A t \in {first[c], second[c]} \ {NoToken} :
                    t \in Token /\ t.account = asked[c].account /\ t.password = asked[c].password
        ELSE /\ wasLive[c]
             /\ {first[c], second[c]} \subseteq {NoToken, PersonalToken(asked[c])}

(* ZenTao executes a business request at most once, though it may be sent  *)
(* twice: only a 401 makes the transport send it again (38-49).  A tool    *)
(* call that creates a bug creates one.                                    *)
EffectsAtMostOnce == \A c \in Callers : effects[c] <= 1

(* That ZenTao closes sessions stays hidden from the tools: a request with *)
(* credentials is told "denied" because of a closed session only when two  *)
(* different sessions were closed under it, the second one after it had    *)
(* been fetched to replace the first (44-49, and Refresh's stale token).   *)
ExpiryIsInvisible ==
    \A c \in Callers : HasCredentials(asked[c]) /\ outcome[c] = "denied" /\ ~denied[c] =>
        first[c] # second[c] /\ {first[c], second[c]} \subseteq closed

(* "Bad credentials" is never said of an outage, of the protection, or of  *)
(* somebody else's attempt: ZenTao itself has rejected this account with   *)
(* this password, or does not take this token (authenticator 109-120: "so  *)
(* distinguish bad credentials from an unavailable API").                  *)
RefusalIsHonest ==
    \A c \in Callers : answer[c] = "unauthorized" =>
        \/ Incomplete(asked[c]) \/ TooLong(asked[c])
        \/ HasCredentials(asked[c]) /\ <<asked[c].account, asked[c].password>> \in turnedDown
        \/ ~HasCredentials(asked[c]) /\ PersonalToken(asked[c]) \notin live

(* Seen from the manager, the gate and the transport are callers like any  *)
(* other, so what holds of TokenManager holds here: proved as              *)
(* GateDrivesManager.                                                      *)
DrivesManager == Spec

=============================================================================
