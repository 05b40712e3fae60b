----------------------------- MODULE SessionsProofs -----------------------------
(***************************************************************************)
(* One device at a time, for any number of devices and logins: no call     *)
(* brings a device into the session of another, except a login that signs  *)
(* what a later login saved (IInv).  And for any lifetimes and intervals:  *)
(* the JWT of an active user does not expire, since until a heartbeat is   *)
(* due it is at most as old as the last one (SessionInv).                  *)
(***************************************************************************)
EXTENDS Sessions, FiniteSetTheorems, TLAPS

(* A JWT, or none: what has no session is not valid.                       *)
Tokens == {t \in [session : Nat, life : Nat] : t.session = 0 => t.life = 0}

LoginRows ==
    {NoCall, [stage |-> "sent"]}
    \cup [stage : {"saved"}, session : Nat \ {0}]
    \cup [stage : {"signed"}, answer : Tokens]
Kinds == {"poll", "start", "beat"}
CallRows ==
    {NoCall}
    \cup [stage : {"sent"}, kind : Kinds, token : Tokens]
    \cup [stage : {"served"}, kind : Kinds, answer : Tokens]
Rows == LoginRows \cup CallRows

TablesOK ==
    /\ current \in Nat
    /\ token \in [Devices -> Tokens]
    /\ call \in [Devices -> [Slots -> Rows]]
    /\ \A d \in Devices, slot \in Slots :
          IF slot = "login" THEN call[d][slot] \in LoginRows ELSE call[d][slot] \in CallRows

(* The sessions that a call on its way carries, and those that a device    *)
(* has, in its browser or on their way.                                    *)
Carries(slot, c, s) ==
    \/ slot = "login" /\ c.stage = "saved" /\ c.session = s
    \/ slot = "login" /\ c.stage = "signed" /\ c.answer.session = s
    \/ slot # "login" /\ c.stage = "sent" /\ c.token.session = s
    \/ slot # "login" /\ c.stage = "served" /\ c.answer.session = s
Has(d, s) ==
    \/ token[d].session = s
    \/ \E slot \in Slots : Carries(slot, call[d][slot], s)

Ids == Nat \ {0}
Opened == \A d \in Devices, s \in Ids : Has(d, s) => s <= current
OneOwner ==
    \A d, e \in Devices, s \in Ids : Has(d, s) /\ Has(e, s) /\ d # e => s \in shared

IInv == TablesOK /\ Opened /\ OneOwner

-----------------------------------------------------------------------------
(* A device gets no session it had not, but the new one of a login and     *)
(* those a login shares.                                                   *)
LEMMA Owners ==
    ASSUME IInv, TablesOK', NEW c \in Devices, shared \subseteq shared',
           \/ current' = current
           \/ current' = current + 1,
           \A d \in Devices, s \in Ids : Has(d, s)' =>
              \/ Has(d, s)
              \/ s <= current /\ s \in shared'
              \/ d = c /\ s = current + 1 /\ s = current'
    PROVE  IInv'
<1>1. Opened'
  BY DEF IInv, TablesOK, Opened, Ids
<1>2. OneOwner'
  <2> SUFFICES ASSUME NEW d \in Devices, NEW e \in Devices, NEW s \in Ids,
                      Has(d, s)', Has(e, s)', d # e
               PROVE  s \in shared'
    BY DEF OneOwner
  <2>1. CASE s = current + 1
    <3>1. ~Has(d, s) /\ ~Has(e, s)
      BY <2>1 DEF IInv, TablesOK, Opened
    <3>. QED
      BY <2>1, <3>1
  <2>2. CASE s # current + 1
    BY <2>2 DEF IInv, OneOwner
  <2>. QED
    BY <2>1, <2>2
<1>. QED
  BY <1>1, <1>2 DEF IInv

(* Put replaces one row, and keeps each row of the type of its slot.       *)
LEMMA PutRow ==
    ASSUME TablesOK, NEW d \in Devices, NEW slot \in Slots, NEW c, Put(d, slot, c),
           IF slot = "login" THEN c \in LoginRows ELSE c \in CallRows
    PROVE  /\ call' \in [Devices -> [Slots -> Rows]]
           /\ \A e \in Devices, sl \in Slots :
                 /\ call'[e][sl] = IF e = d /\ sl = slot THEN c ELSE call[e][sl]
                 /\ IF sl = "login" THEN call'[e][sl] \in LoginRows
                                    ELSE call'[e][sl] \in CallRows
<1>1. c \in Rows
  BY DEF Rows
<1>2. call' = [call EXCEPT ![d][slot] = c]
  BY DEF Put
<1>3. /\ call' \in [Devices -> [Slots -> Rows]]
      /\ \A e \in Devices, sl \in Slots :
            call'[e][sl] = IF e = d /\ sl = slot THEN c ELSE call[e][sl]
  BY <1>1, <1>2 DEF TablesOK
<1>. QED
  BY <1>3 DEF TablesOK

(* The new row carries a session the device had, or one of Owners.         *)
LEMMA PutOwners ==
    ASSUME IInv, NEW d \in Devices, NEW slot \in Slots, NEW c, Put(d, slot, c),
           IF slot = "login" THEN c \in LoginRows ELSE c \in CallRows,
           token' \in [Devices -> Tokens], shared \subseteq shared',
           \A e \in Devices : token'[e].session # 0 => Has(e, token'[e].session),
           current' = current \/ current' = current + 1,
           \A s \in Ids : Carries(slot, c, s) =>
              \/ Has(d, s)
              \/ s <= current /\ s \in shared'
              \/ s = current + 1 /\ s = current'
    PROVE  IInv'
<1>1. /\ call' \in [Devices -> [Slots -> Rows]]
      /\ \A e \in Devices, sl \in Slots :
            /\ call'[e][sl] = IF e = d /\ sl = slot THEN c ELSE call[e][sl]
            /\ IF sl = "login" THEN call'[e][sl] \in LoginRows
                               ELSE call'[e][sl] \in CallRows
  BY PutRow DEF IInv
<1>2. TablesOK'
  BY <1>1 DEF IInv, TablesOK
<1>3. ASSUME NEW e \in Devices, NEW s \in Ids, Has(e, s)'
      PROVE  \/ Has(e, s)
             \/ s <= current /\ s \in shared'
             \/ e = d /\ s = current + 1 /\ s = current'
  <2>1. CASE token'[e].session = s
    BY <2>1 DEF Ids
  <2>2. CASE \E sl \in Slots : Carries(sl, call'[e][sl], s)
    <3>1. PICK sl \in Slots : Carries(sl, call'[e][sl], s)
      BY <2>2
    <3>2. CASE e = d /\ sl = slot
      BY <1>1, <3>1, <3>2
    <3>3. CASE ~(e = d /\ sl = slot)
      BY <1>1, <3>1, <3>3 DEF Has
    <3>. QED
      BY <3>2, <3>3
  <2>. QED
    BY <1>3, <2>1, <2>2 DEF Has
<1>. QED
  BY <1>2, <1>3, Owners

(* A step after which no device has a session it had not.                  *)
LEMMA NothingNew ==
    ASSUME IInv, TablesOK', UNCHANGED <<current, shared>>,
           \A d \in Devices, s \in Ids : Has(d, s)' => Has(d, s)
    PROVE  IInv'
BY DEF IInv, Opened, OneOwner

(* A free slot and a JWT that was forgotten are of their types.            *)
LEMMA NoCallOK == NoCall \in LoginRows /\ NoCall \in CallRows /\ None \in Tokens
BY DEF NoCall, LoginRows, CallRows, None, Tokens

(* A free slot carries no session.                                         *)
LEMMA NoCallCarriesNothing == \A slot \in Slots, s \in Ids : ~Carries(slot, NoCall, s)
BY DEF Carries, NoCall, Ids

(* What IInv says of one device.                                           *)
LEMMA Typed ==
    ASSUME IInv
    PROVE  /\ current \in Nat
           /\ \A d \in Devices : token[d] \in Tokens /\ token[d].session \in Nat
           /\ \A d \in Devices : token[d].session # 0 => Has(d, token[d].session)
BY DEF IInv, TablesOK, Tokens, Has

-----------------------------------------------------------------------------
(* A login that is sent carries no session yet.                            *)
LEMMA LoginOK ==
    ASSUME IInv, NEW d \in Devices, Login(d)
    PROVE  IInv'
<1> DEFINE c == [stage |-> "sent"]
<1>1. Put(d, "login", c) /\ UNCHANGED <<current, shared, token>>
  BY DEF Login
<1>2. c \in LoginRows /\ "login" \in Slots
  BY DEF LoginRows, Slots
<1>3. \A s \in Ids : ~Carries("login", c, s)
  BY DEF Carries
<1>. QED
  BY <1>1, <1>2, <1>3, Typed, PutOwners DEF IInv, TablesOK

(* The server opens a session that nobody has.                             *)
LEMMA SaveSessionOK ==
    ASSUME IInv, NEW d \in Devices, SaveSession(d)
    PROVE  IInv'
<1> DEFINE c == [stage |-> "saved", session |-> current + 1]
<1>1. /\ Put(d, "login", c) /\ current' = current + 1
      /\ UNCHANGED <<shared, token>>
  BY DEF SaveSession
<1>2. c \in LoginRows /\ "login" \in Slots
  BY Typed DEF LoginRows, Slots
<1>3. \A s \in Ids : Carries("login", c, s) => s = current + 1
  BY DEF Carries
<1>. QED
  BY <1>1, <1>2, <1>3, Typed, PutOwners DEF IInv, TablesOK

(* What is signed is the session of this login, or one that becomes        *)
(* shared.                                                                 *)
LEMMA SignSessionOK ==
    ASSUME IInv, NEW d \in Devices, SignSession(d)
    PROVE  IInv'
<1> DEFINE c == [stage |-> "signed", answer |-> [session |-> current, life |-> Lifetime]]
           own == call[d]["login"].session
<1>1. /\ call[d]["login"].stage = "saved"
      /\ Put(d, "login", c)
      /\ shared' = IF own = current THEN shared ELSE shared \cup {current}
      /\ UNCHANGED <<current, token>>
  BY DEF SignSession, At
<1>2. "login" \in Slots
  BY DEF Slots
<1>3. own \in Ids
  BY <1>1, <1>2 DEF IInv, TablesOK, LoginRows, NoCall, Ids
<1>4. Has(d, own)
  BY <1>1, <1>2 DEF Has, Carries
<1>5. current \in Ids
  BY <1>3, <1>4, Typed DEF IInv, Opened, Ids
<1>6. [session |-> current, life |-> Lifetime] \in Tokens
  BY <1>5, SessionAssumption DEF Tokens, Ids
<1>7. c \in LoginRows
  BY <1>6 DEF LoginRows
<1>8. \A s \in Ids : Carries("login", c, s) => s = current
  BY DEF Carries
<1>9. Has(d, current) \/ current \in shared'
  BY <1>1, <1>4
<1>10. current <= current /\ shared \subseteq shared'
  BY <1>1, Typed
<1>11. \A e \in Devices : token'[e].session # 0 => Has(e, token'[e].session)
  BY <1>1, Typed
<1>12. token' \in [Devices -> Tokens]
  BY <1>1 DEF IInv, TablesOK
<1> HIDE DEF c, own
<1>. QED
  BY <1>1, <1>2, <1>7, <1>8, <1>9, <1>10, <1>11, <1>12, PutOwners

(* The browser keeps the session that its login carried.                   *)
LEMMA LoggedIntoOK ==
    ASSUME IInv, NEW d \in Devices, LoggedInto(d)
    PROVE  IInv'
<1>1. /\ call[d]["login"].stage = "signed"
      /\ token' = [token EXCEPT ![d] = call[d]["login"].answer]
      /\ Put(d, "login", NoCall)
      /\ UNCHANGED <<current, shared>>
  BY DEF LoggedInto, At
<1>2. "login" \in Slots
  BY DEF Slots
<1>3. call[d]["login"].answer \in Tokens
  BY <1>1, <1>2 DEF IInv, TablesOK, LoginRows, NoCall
<1>4. token' \in [Devices -> Tokens]
  BY <1>1, <1>3 DEF IInv, TablesOK
<1>5. Has(d, call[d]["login"].answer.session)
  BY <1>1, <1>2 DEF Has, Carries
<1>6. \A e \in Devices : token'[e].session # 0 => Has(e, token'[e].session)
  BY <1>1, <1>5, Typed DEF IInv, TablesOK
<1>. QED
  BY <1>1, <1>2, <1>4, <1>6, NoCallOK, NoCallCarriesNothing, PutOwners

(* Forgetting a JWT, or letting it grow old, gives no device a session.    *)
LEMMA OlderTokens ==
    ASSUME IInv, NEW tokens, tokens \in [Devices -> Tokens], token' = tokens,
           UNCHANGED <<current, shared>>,
           \A d \in Devices : tokens[d].session \in {0, token[d].session},
           call' \in [Devices -> [Slots -> Rows]],
           \A d \in Devices, slot \in Slots : call'[d][slot] \in {NoCall, call[d][slot]}
    PROVE  IInv'
<1>1. TablesOK'
  BY NoCallOK DEF IInv, TablesOK
<1>2. \A d \in Devices, s \in Ids : Has(d, s)' => Has(d, s)
  BY NoCallCarriesNothing DEF Has, Ids
<1>. QED
  BY <1>1, <1>2, NothingNew

(* Logging out only forgets a JWT.                                         *)
LEMMA LogoutOK ==
    ASSUME IInv, NEW d \in Devices, Logout(d)
    PROVE  IInv'
<1>1. /\ token' = [token EXCEPT ![d] = None]
      /\ UNCHANGED <<current, shared, call>>
  BY DEF Logout
<1>2. token' \in [Devices -> Tokens]
  BY <1>1, NoCallOK DEF IInv, TablesOK
<1>3. \A e \in Devices : token'[e].session \in {0, token[e].session}
  BY <1>1 DEF IInv, TablesOK, None
<1>. QED
  BY <1>1, <1>2, <1>3, OlderTokens DEF IInv, TablesOK

(* A 401 forgets the JWT and what was on its way.                          *)
LEMMA FailOK ==
    ASSUME IInv, NEW d \in Devices, NEW slot \in Slots, Fail(d, slot)
    PROVE  IInv'
<1>1. /\ token' = [token EXCEPT ![d] = None]
      /\ call' = [call EXCEPT ![d] = [s \in Slots |-> NoCall]]
      /\ UNCHANGED <<current, shared>>
  BY DEF Fail, Denied
<1>2. token' \in [Devices -> Tokens]
  BY <1>1, NoCallOK DEF IInv, TablesOK
<1>3. \A e \in Devices : token'[e].session \in {0, token[e].session}
  BY <1>1 DEF IInv, TablesOK, None
<1>4. [s \in Slots |-> NoCall] \in [Slots -> Rows]
  BY NoCallOK DEF Rows
<1>5. /\ call' \in [Devices -> [Slots -> Rows]]
      /\ \A e \in Devices, sl \in Slots : call'[e][sl] \in {NoCall, call[e][sl]}
  BY <1>1, <1>4 DEF IInv, TablesOK
<1>. QED
  BY <1>1, <1>2, <1>3, <1>5, OlderTokens

(* A call that gets no answer is forgotten.                                *)
LEMMA LoseOK ==
    ASSUME IInv, NEW d \in Devices, NEW slot \in Slots, Lose(d, slot)
    PROVE  IInv'
<1>1. /\ token' = IF Starting(d, slot) THEN [token EXCEPT ![d] = None] ELSE token
      /\ Put(d, slot, NoCall)
      /\ UNCHANGED <<current, shared>>
  BY DEF Lose
<1>2. token' \in [Devices -> Tokens]
  BY <1>1, NoCallOK DEF IInv, TablesOK
<1>3. \A e \in Devices : token'[e].session \in {0, token[e].session}
  BY <1>1 DEF IInv, TablesOK, None
<1>4. /\ call' \in [Devices -> [Slots -> Rows]]
      /\ \A e \in Devices, sl \in Slots : call'[e][sl] \in {NoCall, call[e][sl]}
  BY <1>1, NoCallOK, PutRow DEF IInv
<1>. QED
  BY <1>1, <1>2, <1>3, <1>4, OlderTokens

(* A tick makes the JWTs older and changes no session.                     *)
LEMMA TickOK ==
    ASSUME IInv, Tick
    PROVE  IInv'
<1>1. /\ token' = [d \in Devices |-> Older(token[d])]
      /\ UNCHANGED <<current, shared, call>>
  BY DEF Tick
<1>2. \A t \in Tokens : Older(t) \in Tokens /\ Older(t).session = t.session
  BY DEF Tokens, Older
<1>3. token' \in [Devices -> Tokens]
  BY <1>1, <1>2 DEF IInv, TablesOK
<1>4. \A d \in Devices : token'[d].session \in {0, token[d].session}
  BY <1>1, <1>2 DEF IInv, TablesOK
<1>. QED
  BY <1>1, <1>3, <1>4, OlderTokens DEF IInv, TablesOK

-----------------------------------------------------------------------------
(* A call carries the JWT of its device.                                   *)
LEMMA SendOK ==
    ASSUME IInv, NEW d \in Devices, NEW slot \in {"screen", "beat"}, NEW kind \in Kinds,
           Send(d, slot, kind), UNCHANGED <<current, shared, token>>
    PROVE  IInv'
<1> DEFINE c == [stage |-> "sent", kind |-> kind, token |-> token[d]]
<1>1. Put(d, slot, c)
  BY DEF Send
<1>2. slot \in Slots /\ slot # "login"
  BY DEF Slots
<1>3. c \in CallRows
  BY Typed DEF CallRows
<1>4. \A s \in Ids : Carries(slot, c, s) => Has(d, s)
  BY <1>2 DEF Carries, Has
<1> HIDE DEF c
<1>. QED
  BY <1>1, <1>2, <1>3, <1>4, Typed, PutOwners DEF IInv, TablesOK

(* The call of a page that is loaded again carries the JWT of its device.  *)
LEMMA ReloadOK ==
    ASSUME IInv, NEW d \in Devices, Reload(d)
    PROVE  IInv'
<1> DEFINE c == [stage |-> "sent", kind |-> "start", token |-> token[d]]
           row == [slot \in Slots |-> IF slot = "screen" THEN c ELSE NoCall]
<1>1. call' = [call EXCEPT ![d] = row] /\ UNCHANGED <<current, shared, token>>
  BY Zenon DEF Reload
<1>2. c \in CallRows
  BY Typed DEF CallRows, Kinds
<1>3. \A s \in Ids : Carries("screen", c, s) => Has(d, s)
  BY DEF Carries, Has
<1> HIDE DEF c
<1>4. /\ row \in [Slots -> Rows]
      /\ \A slot \in Slots :
            IF slot = "login" THEN row[slot] \in LoginRows ELSE row[slot] \in CallRows
  BY <1>2, NoCallOK DEF Rows
<1>5. \A slot \in Slots, s \in Ids : Carries(slot, row[slot], s) => Has(d, s)
  BY <1>3, NoCallCarriesNothing
<1> HIDE DEF row
<1>6. TablesOK'
  BY <1>1, <1>4 DEF IInv, TablesOK
<1>7. \A e \in Devices, s \in Ids : Has(e, s)' => Has(e, s)
  BY <1>1, <1>5 DEF IInv, TablesOK, Has
<1>. QED
  BY <1>1, <1>6, <1>7, NothingNew

(* A call is renewed only into the session its device has.                 *)
LEMMA ServeOK ==
    ASSUME IInv, NEW d \in Devices, NEW slot \in Slots, Serve(d, slot)
    PROVE  IInv'
<1> DEFINE t == call[d][slot].token
           answer == IF Accepts(t) THEN Renewed(t) ELSE None
           c == [stage |-> "served", kind |-> call[d][slot].kind, answer |-> answer]
<1>1. /\ slot # "login" /\ call[d][slot].stage = "sent"
      /\ Put(d, slot, c)
      /\ UNCHANGED <<current, shared, token>>
  BY Zenon DEF Serve
<1>2. t \in Tokens /\ call[d][slot].kind \in Kinds
  BY <1>1 DEF IInv, TablesOK, CallRows, NoCall
<1>3. Has(d, t.session)
  BY <1>1 DEF Has, Carries
<1>4. answer \in Tokens /\ (answer.session # 0 => answer.session = t.session)
  BY <1>2, Typed, SessionAssumption DEF Accepts, Renewed, None, Tokens
<1> HIDE DEF answer, t
<1>5. c \in CallRows
  BY <1>2, <1>4 DEF CallRows
<1>6. \A s \in Ids : Carries(slot, c, s) => Has(d, s)
  BY <1>1, <1>3, <1>4 DEF Carries, Ids
<1> HIDE DEF c
<1>. QED
  BY <1>1, <1>5, <1>6, Typed, PutOwners DEF IInv, TablesOK

(* The browser keeps the session that its call carried.                    *)
LEMMA SucceedOK ==
    ASSUME IInv, NEW d \in Devices, NEW slot \in Slots, Succeed(d, slot)
    PROVE  IInv'
<1> DEFINE answer == call[d][slot].answer
<1>1. /\ slot # "login" /\ call[d][slot].stage = "served"
      /\ token' = IF LoggedIn(d) THEN [token EXCEPT ![d] = answer] ELSE token
      /\ Put(d, slot, NoCall)
      /\ UNCHANGED <<current, shared>>
  BY DEF Succeed
<1>2. answer \in Tokens
  BY <1>1 DEF IInv, TablesOK, CallRows, NoCall
<1>3. Has(d, answer.session)
  BY <1>1 DEF Has, Carries
<1> HIDE DEF answer
<1>4. token' \in [Devices -> Tokens]
  BY <1>1, <1>2 DEF IInv, TablesOK
<1>5. \A e \in Devices : token'[e].session # 0 => Has(e, token'[e].session)
  BY <1>1, <1>3, Typed DEF IInv, TablesOK
<1>. QED
  BY <1>1, <1>4, <1>5, NoCallOK, NoCallCarriesNothing, PutOwners

-----------------------------------------------------------------------------
(* Nobody has a session at the start.                                      *)
LEMMA InitOK == Init => IInv
<1> SUFFICES ASSUME Init PROVE IInv
  OBVIOUS
<1>1. TablesOK
  BY NoCallOK DEF Init, TablesOK, Rows
<1>2. \A d \in Devices, s \in Ids : ~Has(d, s)
  BY NoCallCarriesNothing DEF Init, Has, None, Ids
<1>. QED
  BY <1>1, <1>2 DEF IInv, Opened, OneOwner

(* Steps that touch neither JWTs nor calls.                                *)
LEMMA UnchangedOK ==
    ASSUME IInv, UNCHANGED <<current, shared, token, call>>
    PROVE  IInv'
BY DEF IInv, TablesOK, Opened, OneOwner, Has, Carries

(* Every step keeps owners and types.                                      *)
LEMMA StepOK == IInv /\ [Next]_vars => IInv'
<1> SUFFICES ASSUME IInv, [Next]_vars PROVE IInv'
  OBVIOUS
<1>1. ASSUME NEW d \in Devices, Poll(d) \/ Beat(d)
      PROVE  IInv'
  BY <1>1, SendOK DEF Poll, Beat, Kinds
<1>2. ASSUME NEW d \in Devices, Touch(d) \/ Turn(d)
      PROVE  IInv'
  BY <1>2, UnchangedOK DEF Touch, Turn
<1>3. ASSUME NEW d \in Devices, Use(d)
      PROVE  IInv'
  BY <1>1, <1>2, <1>3, LoginOK, SaveSessionOK, SignSessionOK, LoggedIntoOK, LogoutOK,
     ReloadOK, ServeOK, SucceedOK, FailOK, LoseOK DEF Use
<1>4. CASE UNCHANGED vars
  BY <1>4, UnchangedOK DEF vars
<1>. QED
  BY <1>3, <1>4, TickOK DEF Next

(* Two devices have valid JWTs of the user's session only if logins        *)
(* overlapped and one signed what the other saved: no renewal, reload,     *)
(* late answer or repeated heartbeat makes a second one ("Has iniciado     *)
(* sesión en otro dispositivo").                                           *)
THEOREM SingleDevice == Spec => []OneDevice
<1>1. IInv => OneDevice
  <2> SUFFICES ASSUME IInv, NEW d \in Devices, NEW e \in Devices, Live(d), Live(e), d # e
               PROVE  current \in shared
    BY DEF OneDevice
  <2>1. token[d].session = current /\ token[e].session = current
    BY DEF Live
  <2>2. current \in Ids
    BY <2>1, Typed DEF Live, Tokens, Ids
  <2>3. Has(d, current) /\ Has(e, current)
    BY <2>1 DEF Has
  <2>. QED
    BY <2>2, <2>3 DEF IInv, OneOwner
<1>. QED
  BY <1>1, InitOK, StepOK, PTL DEF Spec

-----------------------------------------------------------------------------
(* The devices whose login the server has not saved yet.                   *)
Opening == {e \in Devices : At(e, "login", "sent")}
Room == current + Cardinality(Opening) <= MaxLogins

(* An answer on its way was given in this tick.                            *)
Fresh(c) == c.stage \in {"signed", "served"} => c.answer = None \/ c.answer.life = Lifetime
AnswersFresh == \A d \in Devices, slot \in Slots : Fresh(call[d][slot])

(* Until a heartbeat is due, the JWT is at most as old as the last         *)
(* heartbeat; a page that was just loaded has yet to ask who the user is.  *)
Asking(row) == row["screen"].stage \in {"sent", "served"} /\ row["screen"].kind = "start"
Kept(t, g, row) ==
    t.session # 0 /\ g.since < Interval => Asking(row) \/ t.life + g.since >= Lifetime
AllKept == \A d \in Devices : Kept(token[d], guard[d], call[d])

SessionInv == IInv /\ TypeOK /\ Room /\ AnswersFresh /\ AllKept

(* The logins on their way can be counted.                                 *)
LEMMA OpeningIsFinite == IsFiniteSet(Opening) /\ Cardinality(Opening) \in Nat
<1>1. Opening \subseteq Devices
  BY DEF Opening
<1>. QED
  BY <1>1, FS_Subset, FS_CardinalityType, SessionAssumption

(* A step of one device, by what it does to the rows of that device.       *)
OneDeviceSteps(d) ==
    /\ call' \in [Devices -> [Slots -> CallType]]
    /\ token' \in [Devices -> TokenType]
    /\ guard' \in [Devices -> GuardType]
    /\ \A e \in Devices : e # d => /\ call'[e] = call[e]
                                   /\ token'[e] = token[e]
                                   /\ guard'[e] = guard[e]
    /\ \A slot \in Slots : Fresh(call'[d][slot])
    /\ Kept(token'[d], guard'[d], call'[d])
    /\ front' \subseteq Devices
    /\ losses' \in 0..MaxLosses

(* A step of one device keeps the tables if it keeps the rows of the       *)
(* device.                                                                 *)
LEMMA StepIsTyped ==
    ASSUME SessionInv, IInv', NEW d \in Devices, OneDeviceSteps(d),
           current' \in 0..MaxLogins, shared' \subseteq 1..current'
    PROVE  TypeOK' /\ AnswersFresh' /\ AllKept'
<1>1. \A e \in Devices : token'[e].session <= current'
  <2> SUFFICES ASSUME NEW e \in Devices PROVE token'[e].session <= current'
    OBVIOUS
  <2>1. CASE token'[e].session = 0
    BY <2>1
  <2>2. CASE token'[e].session # 0
    <3>1. token'[e].session \in Ids
      BY <2>2 DEF OneDeviceSteps, TokenType, Ids
    <3>. QED
      BY <3>1 DEF IInv, Opened, Has
  <2>. QED
    BY <2>1, <2>2
<1>2. TypeOK'
  BY <1>1 DEF OneDeviceSteps, TypeOK
<1>3. AnswersFresh'
  BY DEF OneDeviceSteps, AnswersFresh, SessionInv
<1>4. AllKept'
  BY DEF OneDeviceSteps, AllKept, SessionInv
<1>. QED
  BY <1>2, <1>3, <1>4

(* A step that opens no login keeps the room for those on their way.       *)
LEMMA RoomIsKept ==
    ASSUME SessionInv, current' = current, Opening' \subseteq Opening
    PROVE  Room' /\ current' \in 0..MaxLogins
<1>1. Cardinality(Opening') <= Cardinality(Opening) /\ Cardinality(Opening') \in Nat
  BY OpeningIsFinite, FS_Subset, FS_CardinalityType
<1>. QED
  BY <1>1, OpeningIsFinite, SessionAssumption DEF SessionInv, Room, TypeOK

(* The same, for a step that opens no login.                               *)
LEMMA QuietStep ==
    ASSUME SessionInv, IInv', NEW d \in Devices, OneDeviceSteps(d), current' = current,
           shared' \subseteq 1..current,
           call'[d]["login"].stage = "sent" => call[d]["login"].stage = "sent"
    PROVE  SessionInv'
<1>1. Opening' \subseteq Opening
  BY DEF OneDeviceSteps, Opening, At
<1>2. Room' /\ current' \in 0..MaxLogins
  BY <1>1, RoomIsKept
<1>3. TypeOK' /\ AnswersFresh' /\ AllKept'
  BY <1>2, StepIsTyped
<1>. QED
  BY <1>2, <1>3 DEF SessionInv

(* Put keeps the bounded types and the answers fresh.                      *)
LEMMA PutTyped ==
    ASSUME SessionInv, NEW d \in Devices, NEW slot \in Slots, NEW c \in CallType, Put(d, slot, c),
           Fresh(c)
    PROVE  /\ call' \in [Devices -> [Slots -> CallType]]
           /\ \A e \in Devices, sl \in Slots :
                 call'[e][sl] = IF e = d /\ sl = slot THEN c ELSE call[e][sl]
           /\ \A e \in Devices : e # d => call'[e] = call[e]
           /\ \A sl \in Slots : Fresh(call'[d][sl])
<1>1. call' = [call EXCEPT ![d][slot] = c]
  BY DEF Put
<1>2. call \in [Devices -> [Slots -> CallType]]
  BY DEF SessionInv, TypeOK
<1>3. /\ call' \in [Devices -> [Slots -> CallType]]
      /\ \A e \in Devices, sl \in Slots :
            call'[e][sl] = IF e = d /\ sl = slot THEN c ELSE call[e][sl]
      /\ \A e \in Devices : e # d => call'[e] = call[e]
  BY <1>1, <1>2
<1>. QED
  BY <1>3 DEF SessionInv, AnswersFresh

(* A free slot, a forgotten JWT and a new guard are within the bounds.     *)
LEMMA NoCallIsTyped == NoCall \in CallType /\ Fresh(NoCall) /\ None \in TokenType
                       /\ Mounted \in GuardType /\ None.session = 0
BY SessionAssumption
   DEF NoCall, CallType, Fresh, None, TokenType, Mounted, GuardType

-----------------------------------------------------------------------------
(* What the type invariants say of the rows of one device.                 *)
LEMMA OneDeviceTyped ==
    ASSUME SessionInv, NEW d \in Devices
    PROVE  /\ current \in 0..MaxLogins /\ shared \subseteq 1..current
           /\ front \subseteq Devices /\ losses \in 0..MaxLosses
           /\ call \in [Devices -> [Slots -> CallType]]
           /\ token \in [Devices -> TokenType] /\ token[d] \in TokenType
           /\ guard \in [Devices -> GuardType] /\ guard[d] \in GuardType
           /\ token[d].life \in 0..Lifetime /\ guard[d].since \in 0..Interval
           /\ call[d]["login"] \in LoginRows /\ call[d]["login"] \in CallType
           /\ \A slot \in Slots \ {"login"} :
                 call[d][slot] \in CallRows /\ call[d][slot] \in CallType
           /\ \A slot \in Slots : Fresh(call[d][slot])
           /\ Kept(token[d], guard[d], call[d])
BY DEF SessionInv, IInv, TablesOK, TypeOK, TokenType, GuardType, AnswersFresh, AllKept, Slots

(* The slots.                                                              *)
LEMMA SlotsAre == "login" \in Slots /\ "screen" \in Slots /\ "beat" \in Slots
BY DEF Slots

(* A row that is put elsewhere than in the screen keeps what is asked.     *)
LEMMA StillKept ==
    ASSUME NEW t, NEW g, NEW row, NEW new, Kept(t, g, row), new["screen"] = row["screen"]
    PROVE  Kept(t, g, new)
BY DEF Kept, Asking

(* A login is sent only if there is room for one more session.             *)
LEMMA LoginTyped ==
    ASSUME SessionInv, IInv', NEW d \in Devices, Login(d)
    PROVE  SessionInv'
<1> DEFINE c == [stage |-> "sent"]
<1>1. /\ Free(d, "login")
      /\ current + Cardinality({e \in Devices : At(e, "login", "sent")}) < MaxLogins
      /\ Put(d, "login", c) /\ UNCHANGED <<current, shared, token, guard, front, losses>>
  BY DEF Login
<1>2. c \in CallType /\ Fresh(c)
  BY DEF CallType, Fresh
<1>3. /\ call' \in [Devices -> [Slots -> CallType]]
      /\ \A e \in Devices, sl \in Slots :
            call'[e][sl] = IF e = d /\ sl = "login" THEN c ELSE call[e][sl]
      /\ \A e \in Devices : e # d => call'[e] = call[e]
      /\ \A sl \in Slots : Fresh(call'[d][sl])
  BY <1>1, <1>2, SlotsAre, PutTyped
<1>4. Kept(token[d], guard[d], call'[d])
  BY <1>3, OneDeviceTyped, SlotsAre, StillKept
<1>5. OneDeviceSteps(d)
  BY <1>1, <1>3, <1>4, OneDeviceTyped DEF OneDeviceSteps
<1>6. current' \in 0..MaxLogins /\ shared' \subseteq 1..current'
  BY <1>1, OneDeviceTyped
<1>7. Opening' \subseteq Opening \cup {d}
  BY <1>3, SlotsAre DEF Opening, At
<1>8. Cardinality(Opening') <= Cardinality(Opening) + 1 /\ Cardinality(Opening') \in Nat
  <2>1. /\ IsFiniteSet(Opening \cup {d})
        /\ Cardinality(Opening \cup {d}) =
              IF d \in Opening THEN Cardinality(Opening) ELSE Cardinality(Opening) + 1
    BY OpeningIsFinite, FS_AddElement
  <2>2. Cardinality(Opening \cup {d}) <= Cardinality(Opening) + 1
    BY <2>1, OpeningIsFinite
  <2>. QED
    BY <2>1, <2>2, <1>7, OpeningIsFinite, FS_Subset, FS_CardinalityType
<1>9. Room'
  BY <1>1, <1>8, OpeningIsFinite, OneDeviceTyped, SessionAssumption DEF Room, Opening
<1>10. TypeOK' /\ AnswersFresh' /\ AllKept'
  BY <1>5, <1>6, StepIsTyped
<1>. QED
  BY <1>9, <1>10 DEF SessionInv

(* A saved session takes the room of its login.                            *)
LEMMA SaveSessionTyped ==
    ASSUME SessionInv, IInv', NEW d \in Devices, SaveSession(d)
    PROVE  SessionInv'
<1> DEFINE c == [stage |-> "saved", session |-> current + 1]
<1>1. /\ At(d, "login", "sent") /\ current' = current + 1
      /\ Put(d, "login", c) /\ UNCHANGED <<shared, token, guard, front, losses>>
  BY DEF SaveSession
<1>2. d \in Opening
  BY <1>1 DEF Opening
<1>3. current + 1 <= MaxLogins
  <2>1. Cardinality(Opening) # 0
    BY <1>2, OpeningIsFinite, FS_EmptySet
  <2>2. current \in Nat /\ Cardinality(Opening) \in Nat
    BY OpeningIsFinite, OneDeviceTyped, SessionAssumption
  <2>3. current + Cardinality(Opening) <= MaxLogins
    BY DEF SessionInv, Room
  <2>. QED
    BY <2>1, <2>2, <2>3, SessionAssumption
<1>4. c \in CallType /\ Fresh(c)
  BY <1>3, OneDeviceTyped, SessionAssumption DEF CallType, Fresh
<1>5. /\ call' \in [Devices -> [Slots -> CallType]]
      /\ \A e \in Devices, sl \in Slots :
            call'[e][sl] = IF e = d /\ sl = "login" THEN c ELSE call[e][sl]
      /\ \A e \in Devices : e # d => call'[e] = call[e]
      /\ \A sl \in Slots : Fresh(call'[d][sl])
  BY <1>1, <1>4, SlotsAre, PutTyped
<1>6. Kept(token[d], guard[d], call'[d])
  BY <1>5, OneDeviceTyped, SlotsAre, StillKept
<1>7. OneDeviceSteps(d)
  BY <1>1, <1>5, <1>6, OneDeviceTyped DEF OneDeviceSteps
<1>8. current' \in 0..MaxLogins /\ shared' \subseteq 1..current'
  BY <1>1, <1>3, OneDeviceTyped, SessionAssumption
<1>9. Opening' \subseteq Opening \ {d}
  BY <1>5, SlotsAre DEF Opening, At
<1>10. Cardinality(Opening') <= Cardinality(Opening) - 1 /\ Cardinality(Opening') \in Nat
  <2>1. /\ IsFiniteSet(Opening \ {d})
        /\ Cardinality(Opening \ {d}) = Cardinality(Opening) - 1
    BY <1>2, OpeningIsFinite, FS_RemoveElement
  <2>. QED
    BY <2>1, <1>9, FS_Subset, FS_CardinalityType
<1>11. Room'
  BY <1>1, <1>10, OpeningIsFinite, OneDeviceTyped, SessionAssumption DEF SessionInv, Room
<1>12. TypeOK' /\ AnswersFresh' /\ AllKept'
  BY <1>7, <1>8, StepIsTyped
<1>. QED
  BY <1>11, <1>12 DEF SessionInv

(* What is signed is as long as a JWT lives, and of an opened session.     *)
LEMMA SignSessionTyped ==
    ASSUME SessionInv, IInv', NEW d \in Devices, SignSession(d)
    PROVE  SessionInv'
<1> DEFINE c == [stage |-> "signed", answer |-> [session |-> current, life |-> Lifetime]]
           own == call[d]["login"].session
<1>1. /\ call[d]["login"].stage = "saved"
      /\ Put(d, "login", c)
      /\ shared' = IF own = current THEN shared ELSE shared \cup {current}
      /\ UNCHANGED <<current, token, guard, front, losses>>
  BY DEF SignSession, At
<1>2. own \in Ids
  BY <1>1, OneDeviceTyped DEF LoginRows, NoCall, Ids
<1>3. own <= current
  BY <1>1, <1>2, SlotsAre DEF SessionInv, IInv, Opened, Has, Carries
<1>4. c \in CallType /\ Fresh(c)
  BY OneDeviceTyped, SessionAssumption DEF CallType, TokenType, Fresh
<1>5. shared' \subseteq 1..current
  BY <1>1, <1>2, <1>3, OneDeviceTyped DEF Ids
<1> HIDE DEF c, own
<1>6. /\ call' \in [Devices -> [Slots -> CallType]]
      /\ \A e \in Devices, sl \in Slots :
            call'[e][sl] = IF e = d /\ sl = "login" THEN c ELSE call[e][sl]
      /\ \A e \in Devices : e # d => call'[e] = call[e]
      /\ \A sl \in Slots : Fresh(call'[d][sl])
  BY <1>1, <1>4, SlotsAre, PutTyped
<1>7. Kept(token[d], guard[d], call'[d])
  BY <1>6, OneDeviceTyped, SlotsAre, StillKept
<1>8. OneDeviceSteps(d)
  BY <1>1, <1>6, <1>7, OneDeviceTyped DEF OneDeviceSteps
<1>9. call'[d]["login"].stage # "sent"
  BY <1>6, SlotsAre DEF c
<1>. QED
  BY <1>1, <1>5, <1>8, <1>9, QuietStep

(* The guard starts to count with a JWT that was just signed.              *)
LEMMA LoggedIntoTyped ==
    ASSUME SessionInv, IInv', NEW d \in Devices, LoggedInto(d)
    PROVE  SessionInv'
<1> DEFINE answer == call[d]["login"].answer
<1>1. /\ call[d]["login"].stage = "signed"
      /\ token' = [token EXCEPT ![d] = answer]
      /\ guard' = [guard EXCEPT ![d] = Mounted]
      /\ Put(d, "login", NoCall)
      /\ UNCHANGED <<current, shared, front, losses>>
  BY DEF LoggedInto, At
<1>2. answer \in TokenType
  BY <1>1, OneDeviceTyped DEF CallType, NoCall
<1>3. answer = None \/ answer.life = Lifetime
  BY <1>1, OneDeviceTyped, SlotsAre DEF Fresh
<1> HIDE DEF answer
<1>4. /\ call' \in [Devices -> [Slots -> CallType]]
      /\ \A e \in Devices, sl \in Slots :
            call'[e][sl] = IF e = d /\ sl = "login" THEN NoCall ELSE call[e][sl]
      /\ \A e \in Devices : e # d => call'[e] = call[e]
      /\ \A sl \in Slots : Fresh(call'[d][sl])
  BY <1>1, NoCallIsTyped, SlotsAre, PutTyped
<1>5. Kept(answer, Mounted, call'[d])
  BY <1>3, SessionAssumption DEF Kept, None, Mounted
<1>6. OneDeviceSteps(d)
  BY <1>1, <1>2, <1>4, <1>5, OneDeviceTyped, NoCallIsTyped DEF OneDeviceSteps
<1>7. call'[d]["login"].stage # "sent"
  BY <1>4, SlotsAre DEF NoCall
<1>. QED
  BY <1>1, <1>6, <1>7, OneDeviceTyped, QuietStep

(* A device that has no session has nothing to keep.                       *)
LEMMA LogoutTyped ==
    ASSUME SessionInv, IInv', NEW d \in Devices, Logout(d)
    PROVE  SessionInv'
<1>1. /\ token' = [token EXCEPT ![d] = None]
      /\ guard' = [guard EXCEPT ![d] = Mounted]
      /\ UNCHANGED <<current, shared, call, front, losses>>
  BY DEF Logout
<1>2. Kept(None, Mounted, call[d])
  BY DEF Kept, None
<1>3. OneDeviceSteps(d)
  BY <1>1, <1>2, OneDeviceTyped, NoCallIsTyped DEF OneDeviceSteps
<1>. QED
  BY <1>1, <1>3, OneDeviceTyped, QuietStep

(* A 401 leaves nothing to keep.                                           *)
LEMMA FailTyped ==
    ASSUME SessionInv, IInv', NEW d \in Devices, NEW slot \in Slots, Fail(d, slot)
    PROVE  SessionInv'
<1> DEFINE row == [s \in Slots |-> NoCall]
<1>1. /\ token' = [token EXCEPT ![d] = None]
      /\ guard' = [guard EXCEPT ![d] = Mounted]
      /\ call' = [call EXCEPT ![d] = row]
      /\ UNCHANGED <<current, shared, front, losses>>
  BY DEF Fail, Denied
<1>2. row \in [Slots -> CallType] /\ \A s \in Slots : Fresh(row[s])
  BY NoCallIsTyped
<1>3. row["login"].stage = "none"
  BY SlotsAre DEF NoCall
<1> HIDE DEF row
<1>4. Kept(None, Mounted, row)
  BY DEF Kept, None
<1>5. OneDeviceSteps(d)
  BY <1>1, <1>2, <1>4, OneDeviceTyped, NoCallIsTyped DEF OneDeviceSteps
<1>6. call'[d]["login"].stage = "none"
  BY <1>1, <1>3, OneDeviceTyped
<1>. QED
  BY <1>1, <1>5, <1>6, OneDeviceTyped, QuietStep

(* What is lost is asked again, or the JWT is forgotten.                   *)
LEMMA LoseTyped ==
    ASSUME SessionInv, IInv', NEW d \in Devices, NEW slot \in Slots, Lose(d, slot)
    PROVE  SessionInv'
<1>1. /\ losses < MaxLosses /\ losses' = losses + 1
      /\ token' = IF Starting(d, slot) THEN [token EXCEPT ![d] = None] ELSE token
      /\ guard' = IF Starting(d, slot) THEN [guard EXCEPT ![d] = Mounted] ELSE guard
      /\ Put(d, slot, NoCall)
      /\ UNCHANGED <<current, shared, front>>
  BY DEF Lose
<1>2. /\ call' \in [Devices -> [Slots -> CallType]]
      /\ \A e \in Devices, sl \in Slots :
            call'[e][sl] = IF e = d /\ sl = slot THEN NoCall ELSE call[e][sl]
      /\ \A e \in Devices : e # d => call'[e] = call[e]
      /\ \A sl \in Slots : Fresh(call'[d][sl])
  BY <1>1, NoCallIsTyped, PutTyped
<1>3. Kept(token'[d], guard'[d], call'[d])
  <2>1. CASE Starting(d, slot)
    BY <1>1, <2>1, OneDeviceTyped DEF Kept, None
  <2>2. CASE ~Starting(d, slot) /\ slot = "screen"
    <3>1. ~Asking(call[d])
      BY <2>2 DEF Starting, Asking
    <3>. QED
      BY <1>1, <2>2, <3>1, OneDeviceTyped DEF Kept
  <2>3. CASE slot # "screen"
    <3>1. call'[d]["screen"] = call[d]["screen"]
      BY <1>2, <2>3, SlotsAre
    <3>2. token'[d] = token[d] /\ guard'[d] = guard[d]
      BY <1>1, <2>3 DEF Starting
    <3>. QED
      BY <3>1, <3>2, OneDeviceTyped, StillKept
  <2>. QED
    BY <2>1, <2>2, <2>3
<1>4. losses' \in 0..MaxLosses
  BY <1>1, OneDeviceTyped, SessionAssumption
<1>5. OneDeviceSteps(d)
  BY <1>1, <1>2, <1>3, <1>4, OneDeviceTyped, NoCallIsTyped DEF OneDeviceSteps
<1>6. call'[d]["login"].stage = "sent" => call[d]["login"].stage = "sent"
  BY <1>2, SlotsAre DEF NoCall
<1>. QED
  BY <1>1, <1>5, <1>6, OneDeviceTyped, QuietStep

-----------------------------------------------------------------------------
(* A call that is sent takes a copy of the JWT and lets the guard count    *)
(* on.                                                                     *)
LEMMA SendTyped ==
    ASSUME SessionInv, IInv', NEW d \in Devices, NEW slot \in {"screen", "beat"},
           NEW kind \in {"poll", "start", "beat"}, Send(d, slot, kind), Free(d, slot),
           UNCHANGED <<current, shared, token, front, losses>>,
           guard' \in [Devices -> GuardType],
           \A e \in Devices : guard'[e].since = guard[e].since /\ (e # d => guard'[e] = guard[e])
    PROVE  SessionInv'
<1> DEFINE c == [stage |-> "sent", kind |-> kind, token |-> token[d]]
<1>1. Put(d, slot, c)
  BY DEF Send
<1>2. c \in CallType /\ Fresh(c)
  BY OneDeviceTyped DEF CallType, Fresh
<1> HIDE DEF c
<1>3. slot \in Slots /\ slot # "login"
  BY SlotsAre
<1>4. /\ call' \in [Devices -> [Slots -> CallType]]
      /\ \A e \in Devices, sl \in Slots :
            call'[e][sl] = IF e = d /\ sl = slot THEN c ELSE call[e][sl]
      /\ \A e \in Devices : e # d => call'[e] = call[e]
      /\ \A sl \in Slots : Fresh(call'[d][sl])
  BY <1>1, <1>2, <1>3, PutTyped
<1>5. Asking(call[d]) => Asking(call'[d])
  BY <1>3, <1>4, SlotsAre DEF Asking, Free, NoCall
<1>6. Kept(token'[d], guard'[d], call'[d])
  BY <1>5, OneDeviceTyped DEF Kept
<1>7. OneDeviceSteps(d)
  BY <1>4, <1>6, OneDeviceTyped DEF OneDeviceSteps
<1>8. call'[d]["login"] = call[d]["login"]
  BY <1>3, <1>4, SlotsAre
<1>. QED
  BY <1>7, <1>8, OneDeviceTyped, QuietStep

(* A poll.                                                                 *)
LEMMA PollTyped ==
    ASSUME SessionInv, IInv', NEW d \in Devices, Poll(d)
    PROVE  SessionInv'
<1>1. /\ Free(d, "screen") /\ Send(d, "screen", "poll")
      /\ UNCHANGED <<current, shared, token, guard, front, losses>>
  BY DEF Poll
<1>. QED
  BY <1>1, OneDeviceTyped, SendTyped

(* A heartbeat counts again only when it is answered.                      *)
LEMMA BeatTyped ==
    ASSUME SessionInv, IInv', NEW d \in Devices, Beat(d)
    PROVE  SessionInv'
<1>1. /\ Free(d, "beat") /\ Send(d, "beat", "beat")
      /\ guard' = [guard EXCEPT ![d].tried = TRUE]
      /\ UNCHANGED <<current, shared, token, front, losses>>
  BY DEF Beat
<1>2. /\ guard' \in [Devices -> GuardType]
      /\ \A e \in Devices :
            guard'[e].since = guard[e].since /\ (e # d => guard'[e] = guard[e])
  BY <1>1, OneDeviceTyped DEF GuardType
<1>. QED
  BY <1>1, <1>2, SendTyped

(* A page that is loaded again asks who the user is before anything else.  *)
LEMMA ReloadTyped ==
    ASSUME SessionInv, IInv', NEW d \in Devices, Reload(d)
    PROVE  SessionInv'
<1> DEFINE c == [stage |-> "sent", kind |-> "start", token |-> token[d]]
           row == [slot \in Slots |-> IF slot = "screen" THEN c ELSE NoCall]
<1>1. /\ call' = [call EXCEPT ![d] = row]
      /\ guard' = [guard EXCEPT ![d] = Mounted]
      /\ UNCHANGED <<current, shared, token, front>>
  BY Zenon DEF Reload
<1>2. losses' \in 0..MaxLosses
  BY OneDeviceTyped, SessionAssumption DEF Reload
<1>3. c \in CallType /\ Fresh(c)
  BY OneDeviceTyped DEF CallType, Fresh
<1>4. Asking(row)
  BY SlotsAre DEF Asking
<1> HIDE DEF c
<1>5. row \in [Slots -> CallType] /\ \A s \in Slots : Fresh(row[s])
  BY <1>3, NoCallIsTyped
<1>6. row["login"].stage = "none"
  BY SlotsAre DEF NoCall
<1> HIDE DEF row
<1>7. Kept(token[d], Mounted, row)
  BY <1>4 DEF Kept
<1>8. OneDeviceSteps(d)
  BY <1>1, <1>2, <1>5, <1>7, OneDeviceTyped, NoCallIsTyped DEF OneDeviceSteps
<1>9. call'[d]["login"].stage = "none"
  BY <1>1, <1>6, OneDeviceTyped
<1>. QED
  BY <1>1, <1>8, <1>9, OneDeviceTyped, QuietStep

(* An answer is a JWT as long as a new one, or none.                       *)
LEMMA ServeTyped ==
    ASSUME SessionInv, IInv', NEW d \in Devices, NEW slot \in Slots, Serve(d, slot)
    PROVE  SessionInv'
<1> DEFINE kind == call[d][slot].kind
           answer == IF Accepts(call[d][slot].token) THEN Renewed(call[d][slot].token) ELSE None
           c == [stage |-> "served", kind |-> kind, answer |-> answer]
<1>1. /\ slot # "login" /\ call[d][slot].stage = "sent"
      /\ Put(d, slot, c)
      /\ UNCHANGED <<current, shared, token, guard, front, losses>>
  BY Zenon DEF Serve
<1>2. kind \in {"poll", "start", "beat"}
  BY <1>1, OneDeviceTyped DEF CallRows, Kinds, NoCall
<1>3. answer \in TokenType /\ (answer = None \/ answer.life = Lifetime)
  BY OneDeviceTyped, NoCallIsTyped, SessionAssumption DEF Renewed, TokenType
<1> HIDE DEF answer
<1>4. c \in CallType /\ Fresh(c)
  BY <1>2, <1>3 DEF CallType, Fresh
<1>5. /\ call' \in [Devices -> [Slots -> CallType]]
      /\ \A e \in Devices, sl \in Slots :
            call'[e][sl] = IF e = d /\ sl = slot THEN c ELSE call[e][sl]
      /\ \A e \in Devices : e # d => call'[e] = call[e]
      /\ \A sl \in Slots : Fresh(call'[d][sl])
  BY <1>1, <1>4, PutTyped
<1>6. Asking(call[d]) => Asking(call'[d])
  BY <1>5, SlotsAre DEF Asking
<1>7. Kept(token[d], guard[d], call'[d])
  BY <1>6, OneDeviceTyped DEF Kept
<1>8. OneDeviceSteps(d)
  BY <1>1, <1>5, <1>7, OneDeviceTyped DEF OneDeviceSteps
<1>9. call'[d]["login"] = call[d]["login"]
  BY <1>1, <1>5, SlotsAre
<1>. QED
  BY <1>1, <1>8, <1>9, OneDeviceTyped, QuietStep

(* A heartbeat starts to count again with a JWT that was just renewed.     *)
LEMMA SucceedTyped ==
    ASSUME SessionInv, IInv', NEW d \in Devices, NEW slot \in Slots, Succeed(d, slot)
    PROVE  SessionInv'
<1> DEFINE answer == call[d][slot].answer
           beats == call[d][slot].kind = "beat" /\ LoggedIn(d)
<1>1. /\ slot # "login" /\ call[d][slot].stage = "served" /\ answer # None
      /\ token' = IF LoggedIn(d) THEN [token EXCEPT ![d] = answer] ELSE token
      /\ guard' = IF beats THEN [guard EXCEPT ![d].since = 0] ELSE guard
      /\ Put(d, slot, NoCall)
      /\ UNCHANGED <<current, shared, front, losses>>
  BY Zenon DEF Succeed
<1>2. answer \in TokenType /\ answer.life = Lifetime
  BY <1>1, OneDeviceTyped DEF CallType, Fresh, CallRows, NoCall
<1> HIDE DEF answer
<1>3. /\ call' \in [Devices -> [Slots -> CallType]]
      /\ \A e \in Devices, sl \in Slots :
            call'[e][sl] = IF e = d /\ sl = slot THEN NoCall ELSE call[e][sl]
      /\ \A e \in Devices : e # d => call'[e] = call[e]
      /\ \A sl \in Slots : Fresh(call'[d][sl])
  BY <1>1, NoCallIsTyped, PutTyped
<1>4. /\ guard' \in [Devices -> GuardType]
      /\ guard'[d].since \in 0..Interval
      /\ \A e \in Devices : e # d => guard'[e] = guard[e]
  BY <1>1, OneDeviceTyped, SessionAssumption DEF GuardType
<1>5. /\ token' \in [Devices -> TokenType]
      /\ token'[d] = IF LoggedIn(d) THEN answer ELSE token[d]
      /\ \A e \in Devices : e # d => token'[e] = token[e]
  BY <1>1, <1>2, OneDeviceTyped
<1>6. Kept(token'[d], guard'[d], call'[d])
  BY <1>2, <1>4, <1>5, SessionAssumption DEF Kept, LoggedIn
<1>7. OneDeviceSteps(d)
  BY <1>1, <1>3, <1>4, <1>5, <1>6, OneDeviceTyped DEF OneDeviceSteps
<1>8. call'[d]["login"] = call[d]["login"]
  BY <1>1, <1>3, SlotsAre
<1>. QED
  BY <1>1, <1>7, <1>8, OneDeviceTyped, QuietStep

(* Activity does not change when the next heartbeat is due.                *)
LEMMA TouchTyped ==
    ASSUME SessionInv, IInv', NEW d \in Devices, Touch(d)
    PROVE  SessionInv'
<1>1. /\ guard' = [guard EXCEPT ![d].idle = 0]
      /\ UNCHANGED <<current, shared, token, call, front, losses>>
  BY DEF Touch
<1>2. /\ guard' \in [Devices -> GuardType]
      /\ guard'[d].since = guard[d].since
      /\ \A e \in Devices : e # d => guard'[e] = guard[e]
  BY <1>1, OneDeviceTyped, SessionAssumption DEF GuardType
<1>3. Kept(token[d], guard'[d], call[d])
  BY <1>2, OneDeviceTyped DEF Kept
<1>4. OneDeviceSteps(d)
  BY <1>1, <1>2, <1>3, OneDeviceTyped DEF OneDeviceSteps
<1>. QED
  BY <1>1, <1>4, OneDeviceTyped, QuietStep

(* A screen that is turned to, or from.                                    *)
LEMMA TurnTyped ==
    ASSUME SessionInv, IInv', NEW d \in Devices, Turn(d)
    PROVE  SessionInv'
<1>1. /\ front' = IF d \in front THEN front \ {d} ELSE front \cup {d}
      /\ UNCHANGED <<current, shared, token, call, guard, losses>>
  BY DEF Turn
<1>2. OneDeviceSteps(d)
  BY <1>1, OneDeviceTyped DEF OneDeviceSteps
<1>. QED
  BY <1>1, <1>2, OneDeviceTyped, QuietStep
-----------------------------------------------------------------------------
(* What a tick does to a JWT and to the guard of its device.               *)
LEMMA Aged ==
    ASSUME NEW t \in TokenType, NEW g \in GuardType
    PROVE  /\ Older(t) \in TokenType /\ Waited(g) \in GuardType
           /\ Older(t).session = t.session
           /\ Older(t).life >= t.life - 1
           /\ Waited(g).since < Interval => Waited(g).since = g.since + 1
           /\ t.life \in Nat /\ g.since \in 0..Interval
           /\ Older(t).life \in Nat /\ Waited(g).since \in 0..Interval
BY SessionAssumption DEF TokenType, GuardType, Older, Waited, Smaller

(* A JWT and the guard of its device grow old together.                    *)
LEMMA TickTyped ==
    ASSUME SessionInv, IInv', Tick
    PROVE  SessionInv'
<1>1. /\ \A d \in Devices : AllFree(d)
      /\ token' = [d \in Devices |-> Older(token[d])]
      /\ guard' = [d \in Devices |-> IF LoggedIn(d) THEN Waited(guard[d]) ELSE guard[d]]
      /\ UNCHANGED <<current, shared, call, front, losses>>
  BY DEF Tick
<1>2. token' \in [Devices -> TokenType] /\ guard' \in [Devices -> GuardType]
  BY <1>1, OneDeviceTyped, Aged
<1>3. \A d \in Devices : token'[d].session <= current
  BY <1>1, OneDeviceTyped, Aged DEF SessionInv, TypeOK
<1>4. TypeOK'
  BY <1>1, <1>2, <1>3 DEF SessionInv, TypeOK
<1>5. Room'
  <2>1. Opening' = Opening
    BY <1>1 DEF Opening, At
  <2>. QED
    BY <1>1, <2>1 DEF SessionInv, Room
<1>6. AnswersFresh'
  BY <1>1 DEF SessionInv, AnswersFresh, Fresh
<1>7. AllKept'
  <2> SUFFICES ASSUME NEW d \in Devices, token'[d].session # 0, guard'[d].since < Interval
               PROVE  token'[d].life + guard'[d].since >= Lifetime
    BY DEF AllKept, Kept
  <2>1. ~Asking(call[d])
    BY <1>1, SlotsAre DEF AllFree, Free, Asking, NoCall
  <2>2. LoggedIn(d)
    BY <1>1, OneDeviceTyped, Aged DEF LoggedIn
  <2>3. token'[d] = Older(token[d]) /\ guard'[d] = Waited(guard[d])
    BY <1>1, <2>2
  <2>4. guard'[d].since = guard[d].since + 1 /\ token'[d].life >= token[d].life - 1
    BY <2>3, OneDeviceTyped, Aged
  <2>5. guard[d].since < Interval
    BY <2>4, OneDeviceTyped, SessionAssumption
  <2>6. token[d].life + guard[d].since >= Lifetime
    BY <2>1, <2>2, <2>5, OneDeviceTyped DEF Kept, LoggedIn
  <2>7. token'[d].life \in Nat
    BY <2>3, OneDeviceTyped, Aged
  <2>. QED
    BY <2>4, <2>6, <2>7, OneDeviceTyped, SessionAssumption
<1>. QED
  BY <1>4, <1>5, <1>6, <1>7 DEF SessionInv

-----------------------------------------------------------------------------
(* The invariant at the start.                                             *)
LEMMA SessionInit == Init => SessionInv
<1> SUFFICES ASSUME Init PROVE SessionInv
  OBVIOUS
<1>1. IInv
  BY InitOK
<1>2. TypeOK
  BY NoCallIsTyped, SessionAssumption DEF Init, TypeOK, None
<1>3. Opening = {}
  BY SlotsAre DEF Init, Opening, At, NoCall
<1>4. Room
  BY <1>3, FS_EmptySet, SessionAssumption DEF Init, Room
<1>5. AnswersFresh
  BY NoCallIsTyped DEF Init, AnswersFresh
<1>6. AllKept
  BY DEF Init, AllKept, Kept, None
<1>. QED
  BY <1>1, <1>2, <1>4, <1>5, <1>6 DEF SessionInv

(* Steps of nothing.                                                       *)
LEMMA SessionStutter ==
    ASSUME SessionInv, IInv', UNCHANGED vars
    PROVE  SessionInv'
<1>1. UNCHANGED <<current, shared, token, call, guard, front, losses>>
  BY DEF vars
<1>2. TypeOK' /\ AnswersFresh' /\ AllKept'
  BY <1>1 DEF SessionInv, TypeOK, AnswersFresh, Fresh, AllKept, Kept, Asking
<1>3. Opening' = Opening
  BY <1>1 DEF Opening, At
<1>. QED
  BY <1>1, <1>2, <1>3 DEF SessionInv, Room

(* Every step keeps the invariant.                                         *)
LEMMA SessionStep == SessionInv /\ [Next]_vars => SessionInv'
<1> SUFFICES ASSUME SessionInv, [Next]_vars PROVE SessionInv'
  OBVIOUS
<1>1. IInv'
  BY StepOK DEF SessionInv
<1>2. ASSUME NEW d \in Devices, Use(d)
      PROVE  SessionInv'
  <2>1. CASE Login(d) \/ SaveSession(d) \/ SignSession(d) \/ LoggedInto(d) \/ Logout(d)
    BY <1>1, <2>1, LoginTyped, SaveSessionTyped, SignSessionTyped, LoggedIntoTyped, LogoutTyped
  <2>2. CASE Poll(d) \/ Reload(d) \/ Beat(d) \/ Touch(d) \/ Turn(d)
    BY <1>1, <2>2, PollTyped, ReloadTyped, BeatTyped, TouchTyped, TurnTyped
  <2>3. ASSUME NEW slot \in Slots,
               Serve(d, slot) \/ Succeed(d, slot) \/ Fail(d, slot) \/ Lose(d, slot)
        PROVE  SessionInv'
    BY <1>1, <2>3, ServeTyped, SucceedTyped, FailTyped, LoseTyped
  <2>. QED
    BY <1>2, <2>1, <2>2, <2>3 DEF Use
<1>3. CASE UNCHANGED vars
  BY <1>1, <1>3, SessionStutter
<1>. QED
  BY <1>1, <1>2, <1>3, TickTyped DEF Next

(* The invariant holds.                                                    *)
LEMMA SessionsInductive == Spec => []SessionInv
BY SessionInit, SessionStep, PTL DEF Spec

(* Server and browsers keep well-formed sessions and JWTs: a JWT is of a   *)
(* session that was opened, and the logins on their way fit the bound.     *)
THEOREM SessionsTyped == Spec => []TypeOK
<1>1. SessionInv => TypeOK
  BY DEF SessionInv
<1>. QED
  BY <1>1, SessionsInductive, PTL

(* A valid JWT is of an opened session.                                    *)
LEMMA LiveIsLoggedIn ==
    ASSUME SessionInv, NEW d \in Devices, Live(d)
    PROVE  LoggedIn(d) /\ token[d].session \in Nat /\ token[d].life > 0
BY DEF SessionInv, IInv, TablesOK, Live, LoggedIn, Tokens

(* A tick that passes with no heartbeat due finds a JWT that outlives it.  *)
LEMMA TickKeeps ==
    ASSUME SessionInv, Tick, NEW d \in Devices, Live(d), ~guard[d].tried, Active(d)
    PROVE  token'[d].life > 0
<1>1. /\ AllFree(d) /\ (BeatDue(d) => guard[d].tried)
      /\ token' = [e \in Devices |-> Older(token[e])]
  BY DEF Tick
<1>2. ~Asking(call[d])
  BY <1>1, SlotsAre DEF AllFree, Free, Asking, NoCall
<1>3. LoggedIn(d)
  BY LiveIsLoggedIn
<1>4. guard[d].since < Interval
  BY <1>1, <1>3, OneDeviceTyped, SessionAssumption DEF BeatDue, Active
<1>5. token[d].life + guard[d].since >= Lifetime
  BY <1>2, <1>3, <1>4, OneDeviceTyped DEF Kept, LoggedIn
<1>6. token[d].life - 1 > 0
  BY <1>4, <1>5, OneDeviceTyped, SessionAssumption
<1>7. token'[d].life >= token[d].life - 1 /\ token'[d].life \in Nat
  BY <1>1, OneDeviceTyped, Aged
<1>. QED
  BY <1>6, <1>7, OneDeviceTyped

(* An answer that replaces the JWT of a device is as long as a new one.    *)
LEMMA AnswerKeeps ==
    ASSUME SessionInv, NEW d \in Devices, NEW slot \in Slots,
           LoggedInto(d) \/ Succeed(d, slot), NEW e \in Devices, Live(e),
           token'[e].session = token[e].session
    PROVE  token'[e].life > 0
<1>1. CASE token'[e] = token[e]
  BY <1>1 DEF Live
<1>2. CASE token'[e] # token[e]
  <2>1. e = d
    BY <1>2, OneDeviceTyped DEF LoggedInto, Succeed
  <2>2. PICK sl \in Slots : /\ call[d][sl].stage \in {"signed", "served"}
                            /\ token'[d] = call[d][sl].answer
    <3>1. CASE LoggedInto(d)
      BY <3>1, OneDeviceTyped, SlotsAre DEF LoggedInto, At
    <3>2. CASE Succeed(d, slot)
      BY <1>2, <2>1, <3>2, OneDeviceTyped DEF Succeed
    <3>. QED
      BY <3>1, <3>2
  <2>3. token'[d] = None \/ token'[d].life = Lifetime
    BY <2>2, OneDeviceTyped DEF Fresh
  <2>4. token'[d] # None
    BY <2>1, LiveIsLoggedIn, NoCallIsTyped DEF LoggedIn
  <2>. QED
    BY <2>1, <2>3, <2>4, SessionAssumption
<1>. QED
  BY <1>1, <1>2

(* No step lets a valid JWT of an active user expire.                      *)
LEMMA StepKeeps ==
    ASSUME SessionInv, [Next]_vars, NEW e \in Devices, Live(e), ~guard[e].tried, Active(e),
           token'[e].session = token[e].session
    PROVE  token'[e].life > 0
<1>1. CASE token'[e] = token[e]
  BY <1>1 DEF Live
<1>2. CASE token'[e] # token[e]
  <2>1. ASSUME NEW d \in Devices,
               \/ Logout(d)
               \/ \E slot \in Slots : Fail(d, slot) \/ Lose(d, slot)
        PROVE  token'[e] = token[e] \/ token'[e] = None
    BY <2>1, OneDeviceTyped DEF Logout, Fail, Denied, Lose
  <2>2. token'[e] # None
    BY LiveIsLoggedIn, NoCallIsTyped DEF LoggedIn
  <2>3. \A d \in Devices :
           ~(Logout(d) \/ \E slot \in Slots : Fail(d, slot) \/ Lose(d, slot))
    BY <1>2, <2>1, <2>2
  <2>4. \A d \in Devices :
           ~(\/ Login(d) \/ SaveSession(d) \/ SignSession(d) \/ Poll(d) \/ Reload(d) \/ Beat(d)
             \/ Touch(d) \/ Turn(d) \/ \E slot \in Slots : Serve(d, slot))
    BY <1>2 DEF Login, SaveSession, SignSession, Poll, Reload, Beat, Touch, Turn, Serve
  <2>5. ~UNCHANGED vars
    BY <1>2 DEF vars
  <2>6. Tick \/ \E d \in Devices : LoggedInto(d) \/ \E slot \in Slots : Succeed(d, slot)
    BY <2>3, <2>4, <2>5 DEF Next, Use
  <2>. QED
    BY <2>6, TickKeeps, AnswerKeeps, SlotsAre
<1>. QED
  BY <1>1, <1>2

(* The JWT of an active user does not expire before a heartbeat was tried, *)
(* on any number of devices and for any lifetime longer than the interval  *)
(* of the heartbeats: whatever the polls, reloads and late answers do.     *)
THEOREM ActiveUserIsKept == Spec => ActiveIsKept
<1>1. SessionInv /\ [Next]_vars =>
        [\A d \in Devices :
           Live(d) /\ ~guard[d].tried /\ Active(d) /\ token'[d].session = token[d].session
               => token'[d].life > 0]_vars
  BY StepKeeps
<1>. QED
  BY <1>1, SessionsInductive, PTL DEF Spec, ActiveIsKept
=============================================================================
