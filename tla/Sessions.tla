-------------------------------- MODULE Sessions --------------------------------
(***************************************************************************)
(* The session of one user on several devices.  The server keeps a single  *)
(* session_token per user (login in backend/src/modules/auth/              *)
(* auth.service.js) and renews the JWT of every call it accepts            *)
(* (backend/src/middlewares/auth.middleware.js); a browser keeps one JWT   *)
(* (frontend/src/api/axiosClient.js, store/authStore.js), polls while it   *)
(* is in front (useNotifications) and sends a heartbeat while there is     *)
(* activity (components/auth/SessionActivityGuard.jsx).                    *)
(*                                                                         *)
(* A call is sent, served and received in three steps, or lost; a device   *)
(* has one login, one call of its screen and one heartbeat on their way.   *)
(* Time passes in ticks longer than the 30 s after which a call is given   *)
(* up.  Left out: passwords, roles and deactivated users, several tabs of  *)
(* one browser, and the answer of /auth/logout, which changes nothing.     *)
(***************************************************************************)
EXTENDS Naturals, FiniteSets

CONSTANTS
    Devices,    \* browsers of the user
    Lifetime,   \* ticks a JWT lives (12 hours)
    Interval,   \* ticks between heartbeats (5 minutes)
    Inactivity, \* ticks without activity that end the heartbeats (10 minutes)
    MaxLogins,  \* bound: logins
    MaxLosses   \* bound: times that a device gets no answer

ASSUME SessionAssumption ==
    /\ Lifetime \in Nat \ {0} /\ Interval \in Nat \ {0} /\ Inactivity \in Nat \ {0}
    /\ MaxLogins \in Nat /\ MaxLosses \in Nat
    /\ IsFiniteSet(Devices) /\ Interval < Lifetime

VARIABLES
    current, \* users.session_token; 0 before the first login
    shared,  \* sessions that a login of another session signed
    token,   \* auth_token of each device
    call,    \* what each device has on its way
    guard,   \* what SessionActivityGuard counts while a user is logged in:
             \* ticks since the last activity and the last heartbeat, and
             \* whether a heartbeat was tried since the last tick
    front,   \* devices whose screen is visible
    losses   \* times so far that a device got no answer

vars == <<current, shared, token, call, guard, front, losses>>

None == [session |-> 0, life |-> 0]
NoCall == [stage |-> "none"]
Slots == {"login", "screen", "beat"}
Smaller(a, b) == IF a < b THEN a ELSE b
LoggedIn(d) == token[d].session # 0
Mounted == [idle |-> 0, since |-> 0, tried |-> FALSE]

Put(d, slot, c) == call' = [call EXCEPT ![d][slot] = c]
Free(d, slot) == call[d][slot] = NoCall
AllFree(d) == \A slot \in Slots : Free(d, slot)
At(d, slot, stage) == call[d][slot].stage = stage

-----------------------------------------------------------------------------
(* login: the new session_token is saved, then the user is read again and  *)
(* what was read is signed.                                                *)
Login(d) ==
    /\ ~LoggedIn(d) /\ d \in front
    /\ Free(d, "login")
    /\ current + Cardinality({e \in Devices : At(e, "login", "sent")}) < MaxLogins
    /\ Put(d, "login", [stage |-> "sent"])
    /\ UNCHANGED <<current, shared, token, guard, front, losses>>

SaveSession(d) ==
    /\ At(d, "login", "sent")
    /\ current' = current + 1
    /\ Put(d, "login", [stage |-> "saved", session |-> current + 1])
    /\ UNCHANGED <<shared, token, guard, front, losses>>

SignSession(d) ==
    /\ At(d, "login", "saved")
    /\ Put(d, "login", [stage |-> "signed", answer |-> [session |-> current, life |-> Lifetime]])
    /\ shared' = IF call[d]["login"].session = current THEN shared ELSE shared \cup {current}
    /\ UNCHANGED <<current, token, guard, front, losses>>

LoggedInto(d) ==
    /\ At(d, "login", "signed")
    /\ token' = [token EXCEPT ![d] = call[d]["login"].answer]
    /\ guard' = [guard EXCEPT ![d] = Mounted]
    /\ Put(d, "login", NoCall)
    /\ UNCHANGED <<current, shared, front, losses>>

(* logout forgets the JWT; the server keeps the session.                   *)
Logout(d) ==
    /\ LoggedIn(d) /\ d \in front
    /\ token' = [token EXCEPT ![d] = None]
    /\ guard' = [guard EXCEPT ![d] = Mounted]
    /\ UNCHANGED <<current, shared, call, front, losses>>

-----------------------------------------------------------------------------
Send(d, slot, kind) == Put(d, slot, [stage |-> "sent", kind |-> kind, token |-> token[d]])

(* Every 5 s the screen in front asks for the notifications.               *)
Poll(d) ==
    /\ LoggedIn(d) /\ d \in front
    /\ Free(d, "screen")
    /\ Send(d, "screen", "poll")
    /\ UNCHANGED <<current, shared, token, guard, front, losses>>

(* The page is loaded again, which drops what was on its way:              *)
(* initializeAuth asks who the user is.                                    *)
Reload(d) ==
    /\ LoggedIn(d) /\ d \in front
    /\ AllFree(d) \/ losses < MaxLosses
    /\ losses' = IF AllFree(d) THEN losses ELSE losses + 1
    /\ guard' = [guard EXCEPT ![d] = Mounted]
    /\ call' = [call EXCEPT ![d] = [slot \in Slots |->
                   IF slot = "screen" THEN [stage |-> "sent", kind |-> "start", token |-> token[d]]
                   ELSE NoCall]]
    /\ UNCHANGED <<current, shared, token, front>>

(* renewIfActive, once a minute.                                           *)
BeatDue(d) == /\ LoggedIn(d)
              /\ guard[d].idle < Inactivity
              /\ guard[d].since >= Interval
Beat(d) ==
    /\ BeatDue(d)
    /\ Free(d, "beat")
    /\ Send(d, "beat", "beat")
    /\ guard' = [guard EXCEPT ![d].tried = TRUE]
    /\ UNCHANGED <<current, shared, token, front, losses>>

-----------------------------------------------------------------------------
(* authMiddleware: a JWT that did not expire, of the user's session, is    *)
(* renewed; any other call is answered 401.                                *)
OfAnySession(t) == t.life > 0
Accepts(t) == t.life > 0 /\ t.session = current
SameLife(t) == t
Renewed(t) == [session |-> current, life |-> Lifetime]

Serve(d, slot) ==
    LET c == call[d][slot]
    IN /\ slot # "login" /\ c.stage = "sent"
       /\ Put(d, slot, [stage |-> "served", kind |-> c.kind,
                        answer |-> IF Accepts(c.token) THEN Renewed(c.token) ELSE None])
       /\ UNCHANGED <<current, shared, token, guard, front, losses>>

(* The interceptor of the answers keeps the renewed JWT, if there is one   *)
(* to replace.                                                             *)
Succeed(d, slot) ==
    LET c == call[d][slot]
    IN /\ slot # "login" /\ c.stage = "served" /\ c.answer # None
       /\ token' = IF LoggedIn(d) THEN [token EXCEPT ![d] = c.answer] ELSE token
       /\ guard' = IF c.kind = "beat" /\ LoggedIn(d) THEN [guard EXCEPT ![d].since = 0] ELSE guard
       /\ Put(d, slot, NoCall)
       /\ UNCHANGED <<current, shared, front, losses>>

(* A 401 forgets the JWT, whichever it is by now, and loads the login      *)
(* page, which drops what was on its way.                                  *)
KeepsToken(d) == token[d]
Denied(d) == None
Fail(d, slot) ==
    LET c == call[d][slot]
    IN /\ slot # "login" /\ c.stage = "served" /\ c.answer = None
       /\ token' = [token EXCEPT ![d] = Denied(d)]
       /\ guard' = [guard EXCEPT ![d] = Mounted]
       /\ call' = [call EXCEPT ![d] = [s \in Slots |-> NoCall]]
       /\ UNCHANGED <<current, shared, front, losses>>

(* No answer in 30 s: the next interval tries again, but initializeAuth    *)
(* forgets the JWT.                                                        *)
Starting(d, slot) == slot = "screen" /\ call[d][slot].kind = "start"
Lose(d, slot) ==
    /\ ~Free(d, slot)
    /\ losses < MaxLosses
    /\ losses' = losses + 1
    /\ token' = IF Starting(d, slot) THEN [token EXCEPT ![d] = None] ELSE token
    /\ guard' = IF Starting(d, slot) THEN [guard EXCEPT ![d] = Mounted] ELSE guard
    /\ Put(d, slot, NoCall)
    /\ UNCHANGED <<current, shared, front>>

-----------------------------------------------------------------------------
Touch(d) ==
    /\ LoggedIn(d) /\ d \in front
    /\ guard' = [guard EXCEPT ![d].idle = 0]
    /\ UNCHANGED <<current, shared, token, call, front, losses>>

Turn(d) ==
    /\ front' = IF d \in front THEN front \ {d} ELSE front \cup {d}
    /\ UNCHANGED <<current, shared, token, call, guard, losses>>

(* Calls are over, and a heartbeat that is due was tried, before a tick.   *)
PastZero(t) == [t EXCEPT !.life = @ - 1]
Older(t) == IF t.life = 0 THEN t ELSE [t EXCEPT !.life = @ - 1]
Waited(g) == [idle |-> Smaller(Inactivity, g.idle + 1),
              since |-> Smaller(Interval, g.since + 1),
              tried |-> FALSE]
Tick ==
    /\ \A d \in Devices : AllFree(d) /\ (BeatDue(d) => guard[d].tried)
    /\ token' = [d \in Devices |-> Older(token[d])]
    /\ guard' = [d \in Devices |-> IF LoggedIn(d) THEN Waited(guard[d]) ELSE guard[d]]
    /\ UNCHANGED <<current, shared, call, front, losses>>

-----------------------------------------------------------------------------
Init ==
    /\ current = 0
    /\ shared = {}
    /\ token = [d \in Devices |-> None]
    /\ call = [d \in Devices |-> [slot \in Slots |-> NoCall]]
    /\ guard = [d \in Devices |-> Mounted]
    /\ front = Devices
    /\ losses = 0

Use(d) ==
    \/ Login(d)
    \/ SaveSession(d)
    \/ SignSession(d)
    \/ LoggedInto(d)
    \/ Logout(d)
    \/ Poll(d)
    \/ Reload(d)
    \/ Beat(d)
    \/ Touch(d)
    \/ Turn(d)
    \/ \E slot \in Slots : \/ Serve(d, slot) \/ Succeed(d, slot) \/ Fail(d, slot)
                           \/ Lose(d, slot)

Next == Tick \/ \E d \in Devices : Use(d)

(* The intervals of the browser fire, a call is served and its answer      *)
(* arrives unless it is lost (MaxLosses), and time passes between calls.   *)
Answer(d, slot) == Serve(d, slot) \/ Succeed(d, slot) \/ Fail(d, slot)
Fairness ==
    /\ SF_vars(Tick)
    /\ \A d \in Devices :
          /\ WF_vars(Poll(d))
          /\ WF_vars(Beat(d))
          /\ WF_vars(Answer(d, "screen"))
          /\ WF_vars(Answer(d, "beat"))
          /\ WF_vars(SaveSession(d) \/ SignSession(d) \/ LoggedInto(d))

Spec == Init /\ [][Next]_vars /\ Fairness
-----------------------------------------------------------------------------
TokenType == [session : 0..MaxLogins, life : 0..Lifetime]
GuardType == [idle : 0..Inactivity, since : 0..Interval, tried : BOOLEAN]
CallType ==
    {NoCall, [stage |-> "sent"]}
    \cup [stage : {"saved"}, session : 1..MaxLogins]
    \cup [stage : {"signed"}, answer : TokenType]
    \cup [stage : {"sent"}, kind : {"poll", "start", "beat"}, token : TokenType]
    \cup [stage : {"served"}, kind : {"poll", "start", "beat"}, answer : TokenType]

Superseded(d) == LoggedIn(d) /\ token[d].session # current
Live(d) == token[d].life > 0 /\ token[d].session = current
Active(d) == guard[d].idle < Inactivity

(* What browsers and server keep is well formed; no JWT is of a session    *)
(* that was never opened.                                                  *)
TypeOK ==
    /\ current \in 0..MaxLogins
    /\ shared \subseteq 1..current
    /\ token \in [Devices -> TokenType]
    /\ \A d \in Devices : token[d].session <= current
    /\ call \in [Devices -> [Slots -> CallType]]
    /\ guard \in [Devices -> GuardType]
    /\ front \subseteq Devices
    /\ losses \in 0..MaxLosses

(* One device at a time ("Has iniciado sesión en otro dispositivo"): a     *)
(* renewal never brings a device into the session of another.  Except a    *)
(* login that read the user after another login had saved its session:     *)
(* both sign the later one.                                                *)
OneDevice ==
    \A d, e \in Devices : Live(d) /\ Live(e) /\ d # e => current \in shared

(* The JWT of an active user does not expire, however the renewals of the  *)
(* screen and the heartbeats interleave: only if the heartbeat of that     *)
(* interval was tried and got no answer.                                   *)
ActiveIsKept ==
    [][\A d \in Devices :
          Live(d) /\ ~guard[d].tried /\ Active(d) /\ token'[d].session = token[d].session
              => token'[d].life > 0]_vars

(* A screen that stays in front does not stay in a session that another    *)
(* device took over.                                                       *)
SupersededEnds ==
    \A d \in Devices : ~<>[](Superseded(d) /\ d \in front)
=============================================================================
