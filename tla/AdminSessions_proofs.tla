------------------------- MODULE AdminSessions_proofs -------------------------
(***************************************************************************)
(* What the session stores guarantee for every set of users, names,        *)
(* concurrent logins and handlers, tokens, and every limit.                *)
(***************************************************************************)
EXTENDS AdminSessions, FiniteSetTheorems, TLAPS

(* A task at work carries the name or user its step is about; only a user  *)
(* gets past the verification, only Redis has a lookup to wait for.        *)
Roles ==
  /\ \A t \in Logins :
       /\ login[t].step /= "idle" => login[t].name \in Names
       /\ login[t].step \in {"clear", "open"} => login[t].name \in Users
  /\ \A h \in Handlers :
       /\ handler[h].step /= "idle" => handler[h].user \in Users
       /\ handler[h].step = "idle" => handler[h].user = Nobody
       /\ handler[h].step = "delete" => Redis

(* What remove_user will delete covers what it has to, except for the      *)
(* sessions opened since it read the index.                                *)
FoundCoversSessions ==
  \A h \in Handlers : \A tok \in Tokens :
    handler[h].step = "delete" /\ sessions[tok] = handler[h].user
      => tok \in handler[h].found \/ overlap[tok] = "crossed"

(* Once the sessions of a disabled user have been looked up, any login of  *)
(* the user still to be completed verified before that.                    *)
LookedUp(u) ==
  /\ ~active[u]
  /\ u \notin missed
  /\ \A h \in Handlers : handler[h].user = u => handler[h].step = "delete"

VerifiedBeforeIsLate ==
  \A u \in Users : LookedUp(u) =>
    \A t \in Logins :
      login[t].name = u /\ login[t].step \in {"clear", "open"} => login[t].late

IInv ==
  /\ TypeOK
  /\ Roles
  /\ IndexFindsSessions
  /\ FoundCoversSessions
  /\ VerifiedBeforeIsLate
  /\ SignedOutUnlessOverlapping

-----------------------------------------------------------------------------
LoginRecord == [step : {"idle", "find", "fail", "lock", "clear", "open"},
                name : Names \cup {Nobody}, late : BOOLEAN]
HandlerRecord == [step : {"idle", "drop", "delete"},
                  user : Users \cup {Nobody}, found : SUBSET Tokens]

(* The types hold initially, and no task is at work.                       *)
LEMMA InitIInv == Init => IInv
PROOF
  <1> SUFFICES ASSUME Init PROVE IInv
    OBVIOUS
  <1>1. TypeOK
    BY LimitAssumption, FS_EmptySet DEF Init, TypeOK, IdleLogin, Resting
  <1>2. Roles
    BY DEF Init, Roles, IdleLogin, Resting
  <1>3. IndexFindsSessions /\ SignedOutUnlessOverlapping
    BY NobodyAssumption DEF Init, IndexFindsSessions, SignedOutUnlessOverlapping, Live
  <1>4. FoundCoversSessions /\ VerifiedBeforeIsLate
    BY DEF Init, FoundCoversSessions, VerifiedBeforeIsLate, IdleLogin, Resting
  <1> QED  BY <1>1, <1>2, <1>3, <1>4 DEF IInv

-----------------------------------------------------------------------------
(* Type correctness, one variable's worth at a time.                       *)

(* Purging the map leaves a part of it.                                    *)
LEMMA KeptIsPart ==
  ASSUME TypeOK, NEW n \in Names
  PROVE  /\ Kept(n) \subseteq entries
         /\ IsFiniteSet(Kept(n))
         /\ Cardinality(Kept(n)) \in Nat
         /\ Cardinality(Kept(n)) <= MaxEntries
PROOF
  <1>1. entries \subseteq Names /\ IsFiniteSet(entries) /\ Cardinality(entries) <= MaxEntries
    BY NameAssumption, FS_Subset DEF TypeOK
  <1>2. Kept(n) \subseteq entries
    BY DEF Kept
  <1>3. IsFiniteSet(Kept(n)) /\ Cardinality(Kept(n)) <= Cardinality(entries)
    BY <1>1, <1>2, FS_Subset
  <1>4. Cardinality(Kept(n)) \in Nat /\ Cardinality(entries) \in Nat
    BY <1>1, <1>3, FS_CardinalityType
  <1> QED  BY <1>1, <1>2, <1>3, <1>4, LimitAssumption

LimiterTyped ==
  /\ entries \subseteq Names /\ Cardinality(entries) <= MaxEntries
  /\ fails \in [Names -> Nat]
  /\ locked \subseteq Names
  /\ failures \in [Names -> Nat]

(* A counted failure stays within the cap.                                 *)
LEMMA CountTyped ==
  ASSUME TypeOK, NEW n \in Names, CountInMemory(n)
  PROVE  LimiterTyped'
PROOF
  <1>1. Kept(n) \subseteq Names /\ IsFiniteSet(Kept(n))
        /\ Cardinality(Kept(n)) \in Nat /\ Cardinality(Kept(n)) <= MaxEntries
    BY KeptIsPart DEF TypeOK
  <1>2. Cardinality(Kept(n) \cup {n}) = IF n \in Kept(n) THEN Cardinality(Kept(n))
                                                       ELSE Cardinality(Kept(n)) + 1
    BY <1>1, FS_AddElement
  <1>3. entries' \subseteq Names /\ Cardinality(entries') <= MaxEntries
    BY <1>1, <1>2, LimitAssumption DEF CountInMemory, HasRoom
  <1>4. fails' \in [Names -> Nat] /\ failures' \in [Names -> Nat] /\ locked' \subseteq Names
    BY DEF CountInMemory, TypeOK
  <1> QED  BY <1>3, <1>4 DEF LimiterTyped

(* So does every other change of the limiter.                              *)
LEMMA ForgetTyped ==
  ASSUME TypeOK, NEW n \in Names, Forget(n)
  PROVE  LimiterTyped'
PROOF
  <1>1. entries \subseteq Names /\ IsFiniteSet(entries) /\ Cardinality(entries) <= MaxEntries
    BY NameAssumption, FS_Subset DEF TypeOK
  <1>2. entries' \subseteq entries
    BY DEF Forget
  <1>3. Cardinality(entries') <= MaxEntries
    <2>1. IsFiniteSet(entries') /\ Cardinality(entries') <= Cardinality(entries)
      BY <1>1, <1>2, FS_Subset
    <2>2. Cardinality(entries') \in Nat /\ Cardinality(entries) \in Nat
      BY <1>1, <2>1, FS_CardinalityType
    <2> QED  BY <1>1, <2>1, <2>2, LimitAssumption
  <1>4. fails' \in [Names -> Nat] /\ failures' \in [Names -> Nat] /\ locked' \subseteq Names
    BY DEF Forget, TypeOK
  <1> QED  BY <1>1, <1>2, <1>3, <1>4 DEF LimiterTyped

LEMMA LimiterUnchanged ==
  ASSUME TypeOK, UNCHANGED limiterVars
  PROVE  LimiterTyped'
PROOF BY DEF TypeOK, LimiterTyped, limiterVars

SessionsTyped ==
  /\ sessions \in [Tokens -> Users \cup {Nobody}]
  /\ index \in [Users -> SUBSET Tokens]
  /\ overlap \in [Tokens -> {"none", "late", "crossed"}]

TasksTyped ==
  /\ backend \in {"memory", "redis"}
  /\ active \in [Users -> BOOLEAN]
  /\ login \in [Logins -> LoginRecord]
  /\ handler \in [Handlers -> HandlerRecord]
  /\ missed \subseteq Users
  /\ events \in 0 .. MaxEvents

(* The three parts of TypeOK, as a step leaves them.                       *)
LEMMA TypeParts == LimiterTyped' /\ SessionsTyped' /\ TasksTyped' => TypeOK'
PROOF BY DEF TypeOK, LimiterTyped, SessionsTyped, TasksTyped, LoginRecord, HandlerRecord

-----------------------------------------------------------------------------
(* A login keeps types and roles.                                          *)
LEMMA LoginTyped ==
  ASSUME TypeOK, Roles, NEW t \in Logins, LoginStep(t)
  PROVE  TypeOK' /\ Roles'
PROOF
  <1> USE DEF TypeOK, Roles
  <1>t. login[t] \in LoginRecord /\ IdleLogin \in LoginRecord
    BY DEF LoginRecord, IdleLogin
  <1>e. Event => events' \in 0 .. MaxEvents
    BY LimitAssumption DEF Event
  <1>s. ASSUME NEW step \in {"find", "fail", "lock", "clear", "open"}, Goto(t, step)
        PROVE  /\ login' \in [Logins -> LoginRecord]
               /\ login'[t].step = step /\ login'[t].name = login[t].name
               /\ \A x \in Logins \ {t} : login'[x] = login[x]
    BY <1>s DEF Goto, LoginRecord
  <1>i. ASSUME EndLogin(t)
        PROVE  /\ login' \in [Logins -> LoginRecord]
               /\ login'[t].step = "idle"
               /\ \A x \in Logins \ {t} : login'[x] = login[x]
    BY <1>i, <1>t DEF EndLogin, LoginRecord, IdleLogin
  <1>g. \/ EndLogin(t)
        \/ Goto(t, "fail") /\ login[t].name \in Names
        \/ Goto(t, "lock") /\ login[t].name \in Names
        \/ Goto(t, "clear") /\ login[t].name \in Users
        \/ Goto(t, "open") /\ login[t].name \in Users
        => login' \in [Logins -> LoginRecord]
           /\ (UNCHANGED <<backend, handler>> => Roles')
    <2>1. CASE EndLogin(t)
      BY <2>1, <1>i DEF Redis
    <2>2. CASE Goto(t, "fail") /\ login[t].name \in Names
      BY <2>2, <1>s DEF Redis
    <2>3. CASE Goto(t, "lock") /\ login[t].name \in Names
      BY <2>3, <1>s DEF Redis
    <2>4. CASE Goto(t, "clear") /\ login[t].name \in Users
      BY <2>4, <1>s, NameAssumption DEF Redis
    <2>5. CASE Goto(t, "open") /\ login[t].name \in Users
      BY <2>5, <1>s, NameAssumption DEF Redis
    <2> QED  BY <2>1, <2>2, <2>3, <2>4, <2>5
  <1>u. UNCHANGED sessionVars => SessionsTyped'
    BY DEF sessionVars, SessionsTyped
  <1>1. ASSUME NEW n \in Names, StartLogin(t, n) PROVE TypeOK' /\ Roles'
    <2>1. login' \in [Logins -> LoginRecord]
      BY <1>1, <1>t DEF StartLogin, LoginRecord
    <2>2. events' \in 0 .. MaxEvents
      BY <1>1, <1>e DEF StartLogin, NoEvent
    <2>3. TasksTyped'
      BY <1>1, <2>1, <2>2 DEF StartLogin, TasksTyped, HandlerRecord
    <2>4. LimiterTyped' /\ SessionsTyped'
      BY <1>1, <1>u, LimiterUnchanged DEF StartLogin
    <2>5. Roles'
      BY <1>1 DEF StartLogin, IdleLogin, Redis
    <2> HIDE DEF TypeOK, Roles
    <2> QED  BY <2>3, <2>4, <2>5, TypeParts
  <1>2. CASE FindUser(t)
    <2>1. login' \in [Logins -> LoginRecord] /\ events' = events
      BY <1>2, <1>g DEF FindUser
    <2>3. TasksTyped'
      BY <1>2, <2>1 DEF FindUser, TasksTyped, HandlerRecord
    <2>4. LimiterTyped' /\ SessionsTyped'
      BY <1>2, <1>u, LimiterUnchanged DEF FindUser
    <2>5. Roles'
      BY <1>2, <1>g DEF FindUser, IdleLogin, Redis
    <2> HIDE DEF TypeOK, Roles
    <2> QED  BY <2>3, <2>4, <2>5, TypeParts
  <1>3. CASE RegisterFailure(t)
    <2>n. login[t].name \in Names
      BY <1>3 DEF RegisterFailure
    <2>1. login' \in [Logins -> LoginRecord] /\ events' \in 0 .. MaxEvents
      BY <1>3, <1>g, <1>e DEF RegisterFailure, CountInRedis, NoEvent
    <2>3. TasksTyped'
      BY <1>3, <2>1 DEF RegisterFailure, TasksTyped, HandlerRecord
    <2>4. LimiterTyped'
      <3>1. CASE CountInMemory(login[t].name)
        BY <3>1, <2>n, CountTyped
      <3>2. CASE CountInRedis(t, login[t].name)
        BY <3>2, <2>n DEF CountInRedis, LimiterTyped
      <3>3. CASE UNCHANGED limiterVars
        BY <3>3, LimiterUnchanged
      <3> QED  BY <1>3, <3>1, <3>2, <3>3 DEF RegisterFailure
    <2>5. SessionsTyped'
      BY <1>3, <1>u DEF RegisterFailure
    <2>6. Roles'
      BY <1>3, <2>n, <1>g DEF RegisterFailure, CountInRedis, IdleLogin, Redis
    <2> HIDE DEF TypeOK, Roles
    <2> QED  BY <2>3, <2>4, <2>5, <2>6, TypeParts
  <1>4. CASE Lock(t)
    <2>n. login[t].name \in Names
      BY <1>4 DEF Lock
    <2>1. login' \in [Logins -> LoginRecord] /\ events' \in 0 .. MaxEvents
      BY <1>4, <1>g, <1>e DEF Lock, NoEvent
    <2>3. TasksTyped'
      BY <1>4, <2>1 DEF Lock, TasksTyped, HandlerRecord
    <2>4. LimiterTyped'
      BY <1>4, <2>n, LimiterUnchanged DEF Lock, LockInRedis, LimiterTyped
    <2>5. SessionsTyped' /\ Roles'
      BY <1>4, <1>u, <1>g DEF Lock, IdleLogin, Redis
    <2> HIDE DEF TypeOK, Roles
    <2> QED  BY <2>3, <2>4, <2>5, TypeParts
  <1>5. CASE ClearFailures(t)
    <2>n. login[t].name \in Names /\ login[t].name \in Users
      BY <1>5 DEF ClearFailures
    <2>1. login' \in [Logins -> LoginRecord] /\ events' \in 0 .. MaxEvents
      BY <1>5, <1>g, <1>e DEF ClearFailures, NoEvent
    <2>3. TasksTyped'
      BY <1>5, <2>1 DEF ClearFailures, TasksTyped, HandlerRecord
    <2>4. LimiterTyped'
      BY <1>5, <2>n, LimiterUnchanged, ForgetTyped DEF ClearFailures
    <2>5. SessionsTyped' /\ Roles'
      BY <1>5, <2>n, <1>u, <1>g DEF ClearFailures, Redis
    <2> HIDE DEF TypeOK, Roles
    <2> QED  BY <2>3, <2>4, <2>5, TypeParts
  <1>6. CASE Open(t)
    <2>n. login[t].name \in Users
      BY <1>6 DEF Open
    <2>1. login' \in [Logins -> LoginRecord] /\ events' \in 0 .. MaxEvents
      BY <1>6, <1>g, <1>e DEF Open, NoEvent
    <2>3. TasksTyped'
      BY <1>6, <2>1 DEF Open, TasksTyped, HandlerRecord
    <2>4. SessionsTyped'
      <3>1. ASSUME NEW tok \in Tokens, Store(tok, login[t].name),
                   NEW how \in {"none", "late", "crossed"},
                   overlap' = [overlap EXCEPT ![tok] = how]
            PROVE  SessionsTyped'
        BY <3>1, <2>n DEF Store, SessionsTyped
      <3> QED  BY <1>6, <1>u, <3>1 DEF Open, Unused
    <2>5. LimiterTyped' /\ Roles'
      BY <1>6, <1>g, LimiterUnchanged DEF Open, IdleLogin, Redis
    <2> HIDE DEF TypeOK, Roles
    <2> QED  BY <2>3, <2>4, <2>5, TypeParts
  <1>7. CASE HangUp(t)
    <2>1. login' \in [Logins -> LoginRecord] /\ events' \in 0 .. MaxEvents
      BY <1>7, <1>g, <1>e DEF HangUp
    <2>3. TasksTyped'
      BY <1>7, <2>1 DEF HangUp, TasksTyped, HandlerRecord
    <2>4. SessionsTyped' /\ LimiterTyped' /\ Roles'
      BY <1>7, <1>g, <1>u, LimiterUnchanged DEF HangUp, IdleLogin, Redis
    <2> HIDE DEF TypeOK, Roles
    <2> QED  BY <2>3, <2>4, TypeParts
  <1> HIDE DEF TypeOK, Roles
  <1> QED  BY <1>1, <1>2, <1>3, <1>4, <1>5, <1>6, <1>7 DEF LoginStep

(* So does a handler.                                                      *)
LEMMA HandlerTyped ==
  ASSUME TypeOK, Roles, NEW h \in Handlers, HandlerStep(h)
  PROVE  TypeOK' /\ Roles'
PROOF
  <1> USE DEF TypeOK, Roles
  <1>r. Resting \in HandlerRecord
    BY DEF Resting, HandlerRecord
  <1>e. Event => events' \in 0 .. MaxEvents
    BY LimitAssumption DEF Event
  <1>i. ASSUME Rest(h)
        PROVE  /\ handler' \in [Handlers -> HandlerRecord]
               /\ handler'[h].step = "idle" /\ handler'[h].user = Nobody
               /\ \A x \in Handlers \ {h} : handler'[x] = handler[x]
    BY <1>i, <1>r DEF Rest, HandlerRecord, Resting
  <1>m. ASSUME NEW u, MarkLate(u)
        PROVE  /\ login' \in [Logins -> LoginRecord]
               /\ \A t \in Logins : /\ login'[t].step = login[t].step
                                    /\ login'[t].name = login[t].name
    BY <1>m, ZenonT(60) DEF MarkLate, LoginRecord
  <1>c. ASSUME NEW gone, Close(gone)
        PROVE  /\ sessions' \in [Tokens -> Users \cup {Nobody}]
               /\ overlap' \in [Tokens -> {"none", "late", "crossed"}]
    BY <1>c DEF Close
  <1>1. ASSUME NEW u \in Users, DisableUser(h, u) \/ ResetPassword(h, u)
        PROVE  TypeOK' /\ Roles'
    <2>1. handler' \in [Handlers -> HandlerRecord]
      BY <1>1 DEF DisableUser, ResetPassword, StartInvalidation, HandlerRecord
    <2>2. TasksTyped'
      BY <1>1, <2>1 DEF DisableUser, ResetPassword, StartInvalidation, TasksTyped, LoginRecord
    <2>3. LimiterTyped' /\ SessionsTyped'
      BY <1>1, LimiterUnchanged
         DEF DisableUser, ResetPassword, StartInvalidation, SessionsTyped, sessionVars
    <2>r. /\ handler'[h].step = "drop" /\ handler'[h].user = u
          /\ \A x \in Handlers \ {h} : handler'[x] = handler[x]
          /\ UNCHANGED <<backend, login>>
      BY <1>1 DEF DisableUser, ResetPassword, StartInvalidation
    <2>4. Roles'
      BY <2>r DEF Redis
    <2> HIDE DEF TypeOK, Roles
    <2> QED  BY <2>2, <2>3, <2>4, TypeParts
  <1>2. CASE DropSessions(h)
    <2>1. TasksTyped'
      BY <1>2, <1>i, <1>m DEF DropSessions, TasksTyped
    <2>2. LimiterTyped' /\ SessionsTyped'
      BY <1>2, <1>c, LimiterUnchanged DEF DropSessions, SessionsTyped
    <2>3. Roles'
      BY <1>2, <1>i, <1>m DEF DropSessions, Redis
    <2> HIDE DEF TypeOK, Roles
    <2> QED  BY <2>1, <2>2, <2>3, TypeParts
  <1>3. CASE ReadIndex(h)
    <2>n. handler[h].user \in Users
      BY <1>3 DEF ReadIndex
    <2>1. handler' \in [Handlers -> HandlerRecord]
      <3>1. handler \in [Handlers -> HandlerRecord]
            /\ index[handler[h].user] \in SUBSET Tokens
        BY <2>n DEF HandlerRecord
      <3> HIDE DEF TypeOK, Roles
      <3> QED  BY <1>3, <3>1 DEF ReadIndex, HandlerRecord
    <2>2. TasksTyped'
      BY <1>3, <2>1, <1>m DEF ReadIndex, TasksTyped
    <2>3. LimiterTyped' /\ SessionsTyped'
      BY <1>3, LimiterUnchanged DEF ReadIndex, SessionsTyped, sessionVars
    <2>r. /\ handler'[h].step = "delete" /\ handler'[h].user = handler[h].user
          /\ \A x \in Handlers \ {h} : handler'[x] = handler[x]
          /\ UNCHANGED backend /\ Redis
      <3>1. handler \in [Handlers -> HandlerRecord]
        BY DEF HandlerRecord
      <3> HIDE DEF TypeOK, Roles
      <3> QED  BY <1>3, <3>1 DEF ReadIndex, HandlerRecord
    <2>4. Roles'
      BY <1>3, <1>m, <2>n, <2>r DEF ReadIndex, Redis
    <2> HIDE DEF TypeOK, Roles
    <2> QED  BY <2>2, <2>3, <2>4, TypeParts
  <1>4. CASE DeleteFound(h)
    <2>1. TasksTyped'
      BY <1>4, <1>i DEF DeleteFound, TasksTyped, LoginRecord
    <2>2. LimiterTyped' /\ SessionsTyped'
      BY <1>4, <1>c, LimiterUnchanged DEF DeleteFound, SessionsTyped
    <2>3. Roles'
      BY <1>4, <1>i DEF DeleteFound, Redis
    <2> HIDE DEF TypeOK, Roles
    <2> QED  BY <2>1, <2>2, <2>3, TypeParts
  <1>5. CASE GiveUp(h)
    <2>1. TasksTyped'
      BY <1>5, <1>i, <1>e DEF GiveUp, TasksTyped, LoginRecord
    <2>2. LimiterTyped' /\ SessionsTyped'
      BY <1>5, <1>c, LimiterUnchanged DEF GiveUp, SessionsTyped
    <2>3. Roles'
      BY <1>5, <1>i DEF GiveUp, Redis
    <2> HIDE DEF TypeOK, Roles
    <2> QED  BY <2>1, <2>2, <2>3, TypeParts
  <1> HIDE DEF TypeOK, Roles
  <1> QED  BY <1>1, <1>2, <1>3, <1>4, <1>5 DEF HandlerStep

(* And what ends by itself: a session, the index, a window, the process.   *)
Ending ==
  \/ \E tok \in Tokens : Logout(tok) \/ Expire(tok)
  \/ \E u \in Users : EnableUser(u) \/ ExpireIndex(u)
  \/ \E n \in Names : EndWindow(n)
  \/ Restart

LEMMA EndingTyped ==
  ASSUME TypeOK, Roles, Ending
  PROVE  TypeOK' /\ Roles'
PROOF
  <1> USE DEF TypeOK, Roles
  <1>e. Event => events' \in 0 .. MaxEvents
    BY LimitAssumption DEF Event
  <1>c. ASSUME NEW gone, Close(gone)
        PROVE  /\ sessions' \in [Tokens -> Users \cup {Nobody}]
               /\ overlap' \in [Tokens -> {"none", "late", "crossed"}]
    BY <1>c DEF Close
  <1>1. ASSUME NEW tok \in Tokens, Logout(tok) PROVE TypeOK' /\ Roles'
    <2>1. TasksTyped'
      BY <1>1, <1>e DEF Logout, NoEvent, TasksTyped, LoginRecord, HandlerRecord
    <2>2. index' \in [Users -> SUBSET Tokens]
      BY <1>1 DEF Logout
    <2>3. LimiterTyped' /\ SessionsTyped'
      BY <1>1, <1>c, <2>2, LimiterUnchanged DEF Logout, SessionsTyped
    <2>4. Roles'
      BY <1>1 DEF Logout, Redis
    <2> HIDE DEF TypeOK, Roles
    <2> QED  BY <2>1, <2>3, <2>4, TypeParts
  <1>2. ASSUME NEW tok \in Tokens, Expire(tok) PROVE TypeOK' /\ Roles'
    <2>1. TasksTyped' /\ LimiterTyped' /\ SessionsTyped'
      BY <1>2, <1>c, LimiterUnchanged
         DEF Expire, TasksTyped, LoginRecord, HandlerRecord, SessionsTyped
    <2>2. Roles'
      BY <1>2 DEF Expire, Redis
    <2> HIDE DEF TypeOK, Roles
    <2> QED  BY <2>1, <2>2, TypeParts
  <1>3. ASSUME NEW u \in Users, EnableUser(u) \/ ExpireIndex(u) PROVE TypeOK' /\ Roles'
    <2>1. TasksTyped'
      BY <1>3 DEF EnableUser, ExpireIndex, TasksTyped, LoginRecord, HandlerRecord
    <2>2. LimiterTyped' /\ SessionsTyped'
      BY <1>3, LimiterUnchanged DEF EnableUser, ExpireIndex, SessionsTyped, sessionVars
    <2>3. Roles'
      BY <1>3 DEF EnableUser, ExpireIndex, Redis
    <2> HIDE DEF TypeOK, Roles
    <2> QED  BY <2>1, <2>2, <2>3, TypeParts
  <1>4. ASSUME NEW n \in Names, EndWindow(n) PROVE TypeOK' /\ Roles'
    <2>1. TasksTyped' /\ SessionsTyped'
      BY <1>4 DEF EndWindow, TasksTyped, LoginRecord, HandlerRecord, SessionsTyped, sessionVars
    <2>2. LimiterTyped'
      BY <1>4 DEF EndWindow, LimiterTyped
    <2>3. Roles'
      BY <1>4 DEF EndWindow, Redis
    <2> HIDE DEF TypeOK, Roles
    <2> QED  BY <2>1, <2>2, <2>3, TypeParts
  <1>5. CASE Restart
    <2>1. TasksTyped'
      BY <1>5, <1>e DEF Restart, TasksTyped, LoginRecord, HandlerRecord, IdleLogin, Resting
    <2>2. LimiterTyped'
      <3>0. {} \subseteq Names /\ Cardinality({}) <= MaxEntries
        BY FS_EmptySet, LimitAssumption
      <3>1. CASE Memory
        <4>1. /\ entries' = {} /\ locked' = {}
              /\ fails' = [n \in Names |-> 0] /\ failures' = [n \in Names |-> 0]
          BY <1>5, <3>1 DEF Restart, Memory
        <4> QED  BY <3>0, <4>1 DEF LimiterTyped
      <3>2. CASE ~Memory
        BY <1>5, <3>2 DEF Restart, LimiterTyped, Memory
      <3> QED  BY <3>1, <3>2
    <2>3. SessionsTyped'
      BY <1>5, <1>c DEF Restart, SessionsTyped
    <2>4. Roles'
      BY <1>5 DEF Restart, IdleLogin, Resting
    <2> HIDE DEF TypeOK, Roles
    <2> QED  BY <2>1, <2>2, <2>3, <2>4, TypeParts
  <1> HIDE DEF TypeOK, Roles
  <1> QED  BY <1>1, <1>2, <1>3, <1>4, <1>5 DEF Ending

-----------------------------------------------------------------------------
(* The session invariants, by what a step changes.                         *)
SessionInv ==
  /\ IndexFindsSessions
  /\ FoundCoversSessions
  /\ VerifiedBeforeIsLate
  /\ SignedOutUnlessOverlapping

(* A step of the lockout, or of a login that does not open a session: only *)
(* an active user gets past the verification.                              *)
LEMMA NoSessionOpened ==
  ASSUME IInv,
         UNCHANGED <<backend, active, sessionVars, handler, missed>>,
         \A t \in Logins : login'[t].step \in {"clear", "open"} =>
           \/ /\ login[t].step \in {"clear", "open"}
              /\ login'[t].name = login[t].name
              /\ login'[t].late = login[t].late
           \/ active[login'[t].name]
  PROVE  SessionInv'
PROOF
  <1>1. IndexFindsSessions' /\ FoundCoversSessions' /\ SignedOutUnlessOverlapping'
    BY DEF IInv, IndexFindsSessions, FoundCoversSessions, SignedOutUnlessOverlapping,
           Redis, Live, Invalidating, sessionVars
  <1>2. VerifiedBeforeIsLate'
    BY DEF IInv, VerifiedBeforeIsLate, LookedUp
  <1> QED  BY <1>1, <1>2 DEF SessionInv

(* Sessions end, and the index loses nothing but what has ended.           *)
LEMMA SessionsEnd ==
  ASSUME IInv,
         UNCHANGED <<backend, active, handler, missed, login>>,
         NEW gone, Close(gone),
         \A u \in Users : \A tok \in index[u] :
           tok \in index'[u] \/ tok \in gone \/ sessions[tok] /= u
  PROVE  SessionInv'
PROOF
  <1>0. \A tok \in Tokens : sessions'[tok] \in Users =>
          tok \notin gone /\ sessions'[tok] = sessions[tok] /\ overlap'[tok] = overlap[tok]
    BY NobodyAssumption DEF Close
  <1>1. IndexFindsSessions'
    BY <1>0 DEF IInv, TypeOK, IndexFindsSessions, Redis
  <1>2. FoundCoversSessions'
    BY <1>0 DEF IInv, Roles, FoundCoversSessions
  <1>3. VerifiedBeforeIsLate'
    BY DEF IInv, VerifiedBeforeIsLate, LookedUp
  <1>4. SignedOutUnlessOverlapping'
    BY <1>0 DEF IInv, SignedOutUnlessOverlapping, Live, Invalidating
  <1> QED  BY <1>1, <1>2, <1>3, <1>4 DEF SessionInv

(* A session is opened.                                                    *)
LEMMA SessionOpened ==
  ASSUME IInv, NEW t \in Logins, Open(t)
  PROVE  SessionInv'
PROOF
  <1> DEFINE u == login[t].name
  <1>0. /\ u \in Users
        /\ login[t].step = "open"
        /\ login' = [login EXCEPT ![t] = IdleLogin]
        /\ UNCHANGED <<backend, active, handler, missed>>
    BY DEF Open, EndLogin, IInv, Roles
  <1>1. \A x \in Logins : login'[x].step \in {"clear", "open"} => login'[x] = login[x]
    BY <1>0 DEF IInv, TypeOK, IdleLogin
  <1>2. CASE UNCHANGED sessionVars
    BY <1>0, <1>1, <1>2, NoSessionOpened
  <1>3. ASSUME NEW tok \in Unused, Store(tok, u),
               overlap' = [overlap EXCEPT ![tok] = IF BetweenReadAndDelete(u) THEN "crossed"
                                                   ELSE IF login[t].late THEN "late"
                                                   ELSE "none"]
        PROVE  SessionInv'
    <2>0. tok \in Tokens
      BY DEF Unused
    <2>1. /\ sessions'[tok] = u
          /\ Redis => tok \in index'[u]
          /\ \A x \in Tokens \ {tok} : sessions'[x] = sessions[x] /\ overlap'[x] = overlap[x]
          /\ \A v \in Users : index[v] \subseteq index'[v]
      BY <1>0, <1>3, <2>0 DEF Store, IInv, TypeOK
    <2>2. /\ BetweenReadAndDelete(u) => overlap'[tok] = "crossed"
          /\ login[t].late => overlap'[tok] /= "none"
      BY <1>3, <2>0 DEF IInv, TypeOK
    <2>3. IndexFindsSessions'
      BY <1>0, <2>1 DEF IInv, TypeOK, IndexFindsSessions, Redis
    <2>4. FoundCoversSessions'
      BY <1>0, <2>1, <2>2 DEF IInv, FoundCoversSessions, BetweenReadAndDelete
    <2>5. VerifiedBeforeIsLate'
      BY <1>0, <1>1 DEF IInv, VerifiedBeforeIsLate, LookedUp
    <2>6. SignedOutUnlessOverlapping'
      <3>1. SUFFICES ASSUME NEW v \in Users, ~active[v], ~Invalidating(v), v \notin missed,
                            NEW x \in Tokens, sessions'[x] = v
                     PROVE  overlap'[x] /= "none"
        BY <1>0 DEF SignedOutUnlessOverlapping, Live, Invalidating
      <3>2. LookedUp(v)
        BY <3>1 DEF LookedUp, Invalidating
      <3>3. CASE x = tok
        BY <1>0, <2>1, <2>2, <3>1, <3>2, <3>3 DEF IInv, VerifiedBeforeIsLate
      <3>4. CASE x /= tok
        BY <2>1, <3>1, <3>4 DEF IInv, SignedOutUnlessOverlapping, Live
      <3> QED  BY <3>3, <3>4
    <2> QED  BY <2>3, <2>4, <2>5, <2>6 DEF SessionInv
  <1> QED  BY <1>2, <1>3 DEF Open

(* Every step of a login.                                                  *)
LEMMA LoginKeepsSessions ==
  ASSUME IInv, NEW t \in Logins, LoginStep(t)
  PROVE  SessionInv'
PROOF
  <1>0. /\ login \in [Logins -> LoginRecord]
        /\ IdleLogin.step = "idle"
    BY DEF IInv, TypeOK, LoginRecord, IdleLogin
  <1>i. ASSUME EndLogin(t)
        PROVE  \A x \in Logins : login'[x].step \in {"clear", "open"} => login'[x] = login[x]
    BY <1>0, <1>i DEF EndLogin
  <1>1. ASSUME NEW n \in Names, StartLogin(t, n) PROVE SessionInv'
    <2>1. \A x \in Logins : login'[x].step \in {"clear", "open"} => login'[x] = login[x]
      BY <1>0, <1>1 DEF StartLogin, LoginRecord, IdleLogin
    <2> QED  BY <1>1, <2>1, NoSessionOpened DEF StartLogin
  <1>2. CASE FindUser(t)
    <2>1. \A x \in Logins : login'[x].step \in {"clear", "open"} =>
            login'[x] = login[x] \/ active[login'[x].name]
      BY <1>0, <1>2, <1>i DEF FindUser, Goto, LoginRecord
    <2> QED  BY <1>2, <2>1, NoSessionOpened DEF FindUser
  <1>3. CASE RegisterFailure(t) \/ Lock(t) \/ HangUp(t)
    <2>1. \A x \in Logins : login'[x].step \in {"clear", "open"} => login'[x] = login[x]
      BY <1>0, <1>3, <1>i DEF RegisterFailure, Lock, HangUp, CountInRedis, Goto, LoginRecord
    <2> QED  BY <1>3, <2>1, NoSessionOpened DEF RegisterFailure, Lock, HangUp
  <1>4. CASE ClearFailures(t)
    <2>1. \A x \in Logins : login'[x].step \in {"clear", "open"} =>
            /\ login[x].step \in {"clear", "open"}
            /\ login'[x].name = login[x].name
            /\ login'[x].late = login[x].late
      BY <1>0, <1>4 DEF ClearFailures, Goto, LoginRecord
    <2> QED  BY <1>4, <2>1, NoSessionOpened DEF ClearFailures
  <1> QED  BY <1>1, <1>2, <1>3, <1>4, SessionOpened DEF LoginStep

(* Every step of a handler.                                                *)
LEMMA HandlerKeepsSessions ==
  ASSUME IInv, NEW h \in Handlers, HandlerStep(h)
  PROVE  SessionInv'
PROOF
  <1>h. handler \in [Handlers -> HandlerRecord] /\ login \in [Logins -> LoginRecord]
    BY DEF IInv, TypeOK, HandlerRecord, LoginRecord
  <1>i. ASSUME Rest(h)
        PROVE  /\ handler'[h] = Resting
               /\ \A x \in Handlers \ {h} : handler'[x] = handler[x]
    BY <1>h, <1>i DEF Rest
  <1>m. ASSUME NEW u, MarkLate(u)
        PROVE  \A t \in Logins :
                 /\ login'[t].step = login[t].step
                 /\ login'[t].name = login[t].name
                 /\ login[t].late => login'[t].late
                 /\ login[t].name = u /\ login[t].step \in {"clear", "open"} => login'[t].late
    BY <1>h, <1>m DEF MarkLate, LoginRecord
  <1>c. ASSUME NEW gone, Close(gone)
        PROVE  \A tok \in Tokens : sessions'[tok] \in Users =>
                 tok \notin gone /\ sessions'[tok] = sessions[tok] /\ overlap'[tok] = overlap[tok]
    BY <1>c, NobodyAssumption DEF Close
  <1>1. ASSUME NEW u \in Users, DisableUser(h, u) \/ ResetPassword(h, u)
        PROVE  SessionInv'
    <2>1. /\ UNCHANGED <<backend, sessions, index, overlap, login, missed>>
          /\ handler[h].step = "idle"
          /\ handler'[h].step = "drop" /\ handler'[h].user = u
          /\ \A x \in Handlers \ {h} : handler'[x] = handler[x]
          /\ \A v \in Users \ {u} : active'[v] = active[v]
      BY <1>1, <1>h DEF DisableUser, ResetPassword, StartInvalidation, sessionVars, IInv, TypeOK
    <2>2. IndexFindsSessions' /\ FoundCoversSessions'
      BY <2>1 DEF IInv, IndexFindsSessions, FoundCoversSessions, Redis
    <2>3. VerifiedBeforeIsLate' /\ SignedOutUnlessOverlapping'
      <3>1. ASSUME NEW v \in Users, LookedUp(v)'
            PROVE  v /= u /\ LookedUp(v)
        BY <2>1, <3>1, NobodyAssumption DEF LookedUp, IInv, Roles
      <3>2. VerifiedBeforeIsLate'
        BY <2>1, <3>1 DEF IInv, VerifiedBeforeIsLate
      <3>3. ASSUME NEW v \in Users, ~Invalidating(v)'
            PROVE  v /= u /\ ~Invalidating(v)
        BY <2>1, <3>3, NobodyAssumption DEF Invalidating, IInv, Roles
      <3>4. SignedOutUnlessOverlapping'
        BY <2>1, <3>3 DEF IInv, SignedOutUnlessOverlapping, Live
      <3> QED  BY <3>2, <3>4
    <2> QED  BY <2>2, <2>3 DEF SessionInv

  <1>2. CASE DropSessions(h)
    <2> DEFINE u == handler[h].user
    <2>1. /\ u \in Users /\ handler[h].step = "drop"
          /\ UNCHANGED <<backend, active, index>> /\ missed' = missed \ {u}
          /\ \A tok \in Tokens : sessions'[tok] \in Users =>
               /\ sessions'[tok] /= u
               /\ sessions'[tok] = sessions[tok] /\ overlap'[tok] = overlap[tok]
      BY <1>2, <1>c DEF DropSessions, Live, IInv, Roles
    <2>2. IndexFindsSessions' /\ FoundCoversSessions'
      BY <1>2, <1>i, <2>1 DEF DropSessions, IInv, Roles, IndexFindsSessions, FoundCoversSessions,
                              Redis, Resting
    <2>3. VerifiedBeforeIsLate'
      <3>1. ASSUME NEW v \in Users \ {u}, LookedUp(v)' PROVE LookedUp(v)
        BY <1>2, <1>i, <2>1, <3>1 DEF DropSessions, LookedUp
      <3> QED  BY <1>2, <1>m, <2>1, <3>1 DEF DropSessions, IInv, VerifiedBeforeIsLate
    <2>4. SignedOutUnlessOverlapping'
      <3>1. ASSUME NEW v \in Users \ {u}, ~Invalidating(v)' PROVE ~Invalidating(v)
        BY <1>2, <1>i, <2>1, <3>1 DEF DropSessions, Invalidating
      <3> QED  BY <2>1, <3>1 DEF IInv, SignedOutUnlessOverlapping, Live
    <2> QED  BY <2>2, <2>3, <2>4 DEF SessionInv
  <1>3. CASE ReadIndex(h)
    <2> DEFINE u == handler[h].user
    <2>1. /\ u \in Users /\ handler[h].step = "drop" /\ Redis
          /\ UNCHANGED <<backend, active, sessions, index, overlap>> /\ missed' = missed \ {u}
          /\ handler'[h].step = "delete" /\ handler'[h].user = u /\ handler'[h].found = index[u]
          /\ \A x \in Handlers \ {h} : handler'[x] = handler[x]
      BY <1>3, <1>h DEF ReadIndex, IInv, Roles, HandlerRecord, sessionVars
    <2>2. IndexFindsSessions' /\ FoundCoversSessions'
      BY <2>1 DEF IInv, IndexFindsSessions, FoundCoversSessions, Redis
    <2>3. VerifiedBeforeIsLate'
      <3>1. ASSUME NEW v \in Users \ {u}, LookedUp(v)' PROVE LookedUp(v)
        BY <2>1, <3>1 DEF LookedUp
      <3> QED  BY <1>3, <1>m, <2>1, <3>1 DEF ReadIndex, IInv, VerifiedBeforeIsLate
    <2>4. SignedOutUnlessOverlapping'
      <3>1. ASSUME NEW v \in Users, ~Invalidating(v)' PROVE v /= u /\ ~Invalidating(v)
        BY <2>1, <3>1 DEF Invalidating
      <3> QED  BY <2>1, <3>1 DEF IInv, SignedOutUnlessOverlapping, Live
    <2> QED  BY <2>2, <2>3, <2>4 DEF SessionInv
  <1>4. CASE DeleteFound(h)
    <2> DEFINE u == handler[h].user
    <2>1. /\ u \in Users /\ handler[h].step = "delete"
          /\ UNCHANGED <<backend, active, missed, login>>
          /\ \A v \in Users \ {u} : index'[v] = index[v]
          /\ \A tok \in Tokens : sessions'[tok] \in Users =>
               /\ tok \notin handler[h].found
               /\ sessions'[tok] = sessions[tok] /\ overlap'[tok] = overlap[tok]
      BY <1>4, <1>c DEF DeleteFound, IInv, TypeOK, Roles
    <2>2. \A tok \in Tokens : sessions'[tok] = u => overlap'[tok] = "crossed"
      BY <2>1 DEF IInv, FoundCoversSessions
    <2>3. IndexFindsSessions'
      BY <2>1, <2>2 DEF IInv, IndexFindsSessions, Redis
    <2>4. FoundCoversSessions' /\ VerifiedBeforeIsLate'
      <3>1. \A x \in Handlers : handler'[x].step /= "idle" => x /= h /\ handler'[x] = handler[x]
        BY <1>4, <1>i DEF DeleteFound, Resting
      <3>2. FoundCoversSessions'
        BY <2>1, <3>1 DEF IInv, Roles, FoundCoversSessions
      <3>3. ASSUME NEW v \in Users, LookedUp(v)' PROVE LookedUp(v)
        BY <1>4, <1>i, <2>1, <3>3 DEF DeleteFound, LookedUp
      <3> QED  BY <2>1, <3>2, <3>3 DEF IInv, VerifiedBeforeIsLate
    <2>5. SignedOutUnlessOverlapping'
      <3>1. ASSUME NEW v \in Users \ {u}, ~Invalidating(v)' PROVE ~Invalidating(v)
        BY <1>4, <1>i, <2>1, <3>1 DEF DeleteFound, Invalidating
      <3> QED  BY <2>1, <2>2, <3>1 DEF IInv, SignedOutUnlessOverlapping, Live
    <2> QED  BY <2>3, <2>4, <2>5 DEF SessionInv
  <1>5. CASE GiveUp(h)
    <2> DEFINE u == handler[h].user
    <2>1. /\ UNCHANGED <<backend, active, index, login>> /\ missed' = missed \cup {u}
          /\ \A tok \in Tokens : sessions'[tok] \in Users =>
               sessions'[tok] = sessions[tok] /\ overlap'[tok] = overlap[tok]
      BY <1>5, <1>c DEF GiveUp
    <2>2. IndexFindsSessions'
      BY <2>1 DEF IInv, IndexFindsSessions, Redis
    <2>3. FoundCoversSessions'
      <3>1. \A x \in Handlers : handler'[x].step /= "idle" => x /= h /\ handler'[x] = handler[x]
        BY <1>5, <1>i DEF GiveUp, Resting
      <3> QED  BY <2>1, <3>1 DEF IInv, Roles, FoundCoversSessions
    <2>4. VerifiedBeforeIsLate'
      <3>1. ASSUME NEW v \in Users, LookedUp(v)' PROVE LookedUp(v)
        BY <1>5, <1>i, <2>1, <3>1 DEF GiveUp, LookedUp
      <3> QED  BY <2>1, <3>1 DEF IInv, VerifiedBeforeIsLate
    <2>5. SignedOutUnlessOverlapping'
      <3>1. ASSUME NEW v \in Users, ~Invalidating(v)', v \notin missed' PROVE ~Invalidating(v)
        BY <1>5, <1>i, <2>1, <3>1 DEF GiveUp, Invalidating
      <3> QED  BY <2>1, <3>1 DEF IInv, SignedOutUnlessOverlapping, Live
    <2> QED  BY <2>2, <2>3, <2>4, <2>5 DEF SessionInv
  <1> QED  BY <1>1, <1>2, <1>3, <1>4, <1>5 DEF HandlerStep

(* What ends by itself.                                                    *)
LEMMA EndingKeepsSessions ==
  ASSUME IInv, Ending
  PROVE  SessionInv'
PROOF
  <1>1. ASSUME NEW tok \in Tokens, Logout(tok) PROVE SessionInv'
    <2>1. \A u \in Users : \A x \in index[u] :
            x \in index'[u] \/ x \in {tok} \/ sessions[x] /= u
      BY <1>1 DEF Logout, IInv, TypeOK
    <2> QED  BY <1>1, <2>1, SessionsEnd DEF Logout
  <1>2. ASSUME NEW tok \in Tokens, Expire(tok) PROVE SessionInv'
    BY <1>2, SessionsEnd DEF Expire
  <1>3. ASSUME NEW u \in Users, ExpireIndex(u) PROVE SessionInv'
    <2>1. Close({})
      BY <1>3 DEF ExpireIndex, Close, IInv, TypeOK
    <2>2. \A v \in Users : \A x \in index[v] :
            x \in index'[v] \/ x \in {} \/ sessions[x] /= v
      BY <1>3 DEF ExpireIndex, Live, IInv, TypeOK
    <2> QED  BY <1>3, <2>1, <2>2, SessionsEnd DEF ExpireIndex
  <1>4. ASSUME NEW u \in Users, EnableUser(u) PROVE SessionInv'
    <2>1. /\ UNCHANGED <<backend, sessions, index, overlap, login, handler, missed>>
          /\ \A v \in Users : ~active'[v] => ~active[v]
      BY <1>4 DEF EnableUser, sessionVars, IInv, TypeOK
    <2>2. IndexFindsSessions' /\ FoundCoversSessions'
      BY <2>1 DEF IInv, IndexFindsSessions, FoundCoversSessions, Redis
    <2>3. VerifiedBeforeIsLate' /\ SignedOutUnlessOverlapping'
      BY <2>1 DEF IInv, VerifiedBeforeIsLate, LookedUp, SignedOutUnlessOverlapping, Live,
                  Invalidating
    <2> QED  BY <2>2, <2>3 DEF SessionInv
  <1>5. ASSUME NEW n \in Names, EndWindow(n) PROVE SessionInv'
    BY <1>5, NoSessionOpened DEF EndWindow
  <1>6. CASE Restart
    <2>1. /\ UNCHANGED <<backend, active, index>>
          /\ \A t \in Logins : login'[t].step = "idle"
          /\ \A h \in Handlers : handler'[h].step = "idle" /\ handler'[h].user = Nobody
          /\ \A u \in Users : u \notin missed' => u \notin missed /\ ~Invalidating(u)
      BY <1>6 DEF Restart, IdleLogin, Resting, Invalidating
    <2>2. \A tok \in Tokens : sessions'[tok] \in Users =>
            sessions'[tok] = sessions[tok] /\ overlap'[tok] = overlap[tok]
      BY <1>6, NobodyAssumption DEF Restart, Memory, Close
    <2>3. IndexFindsSessions' /\ FoundCoversSessions' /\ VerifiedBeforeIsLate'
      BY <2>1, <2>2 DEF IInv, IndexFindsSessions, FoundCoversSessions, VerifiedBeforeIsLate, Redis
    <2>4. SignedOutUnlessOverlapping'
      BY <2>1, <2>2 DEF IInv, SignedOutUnlessOverlapping, Live
    <2> QED  BY <2>3, <2>4 DEF SessionInv
  <1> QED  BY <1>1, <1>2, <1>3, <1>4, <1>5, <1>6 DEF Ending

-----------------------------------------------------------------------------
(* The lockout: how many failures a name can still collect.                *)

(* The logins for a name that is_locked let through and whose failure is   *)
(* still to be counted, and those that have a lock to write.               *)
PastCheck(n) == {t \in Logins : login[t].name = n /\ login[t].step \in {"find", "fail"}}
AtLock(n) == {t \in Logins : login[t].name = n /\ login[t].step = "lock"}

(* The strengthening of LockoutBoundsFailures: a login past its check      *)
(* counts as if it had failed; while a name is not locked its failures are *)
(* all in the counter, and whatever the counter has above the threshold is *)
(* owed to a login about to lock or to a command that failed.              *)
BoundFor(n) ==
  /\ failures[n] + Cardinality(PastCheck(n)) <= Threshold + Cardinality(Logins) - 1 + events
  /\ n \notin locked =>
       /\ failures[n] <= fails[n]
       /\ failures[n] <= Threshold - 1 + Cardinality(AtLock(n)) + events

CountsBounded == \A n \in Names : BoundFor(n)

(* Whoever is past its check finds room beside those about to lock.       *)
LEMMA RoomBelow ==
  ASSUME NEW counted \in Int, NEW past \in Int, NEW owed \in Int, NEW all \in Int,
         NEW limit \in Int, NEW f \in Int,
         counted <= limit - 1 + owed + f, past + owed <= all
  PROVE  counted + past <= limit + all - 1 + f
PROOF OBVIOUS

(* Sizes of sets of logins.                                                *)
LEMMA SetsOfLogins ==
  ASSUME NEW A, A \subseteq Logins
  PROVE  /\ Cardinality(A) \in Nat
         /\ Cardinality(A) <= Cardinality(Logins)
         /\ A = {} => Cardinality(A) = 0
         /\ \A t : t \notin A => Cardinality(A \cup {t}) = Cardinality(A) + 1
         /\ \A B : B \subseteq A => Cardinality(B) <= Cardinality(A)
         /\ \A B : B \subseteq Logins /\ A \cap B = {}
              => Cardinality(A) + Cardinality(B) <= Cardinality(Logins)
PROOF
  <1>1. IsFiniteSet(Logins) /\ IsFiniteSet(A)
    BY LoginAssumption, FS_Subset
  <1>2. Cardinality(A) \in Nat /\ Cardinality(A) <= Cardinality(Logins)
    BY <1>1, FS_Subset, FS_CardinalityType
  <1>3. A = {} => Cardinality(A) = 0
    BY FS_EmptySet
  <1>4. ASSUME NEW t, t \notin A PROVE Cardinality(A \cup {t}) = Cardinality(A) + 1
    BY <1>1, <1>4, FS_AddElement
  <1>5. ASSUME NEW B, B \subseteq A PROVE Cardinality(B) <= Cardinality(A)
    BY <1>1, <1>5, FS_Subset
  <1>6. ASSUME NEW B, B \subseteq Logins, A \cap B = {}
        PROVE  Cardinality(A) + Cardinality(B) <= Cardinality(Logins)
    <2>1. IsFiniteSet(B) /\ Cardinality(B) \in Nat
      BY <1>1, <1>6, FS_Subset, FS_CardinalityType
    <2>2. Cardinality(A \cup B) = Cardinality(A) + Cardinality(B) - Cardinality(A \cap B)
      BY <1>1, <2>1, FS_Union
    <2>3. Cardinality(A \cap B) = 0
      BY <1>6, FS_EmptySet
    <2>4. Cardinality(A \cup B) <= Cardinality(Logins)
      BY <1>1, <1>6, FS_Subset
    <2> QED  BY <1>2, <2>1, <2>2, <2>3, <2>4
  <1> QED  BY <1>2, <1>3, <1>4, <1>5, <1>6

(* What one login's step does to the two counts of a name.                 *)
Member(t, A) == IF t \in A THEN 1 ELSE 0

LEMMA OneLoginMoves ==
  ASSUME NEW t \in Logins, \A x \in Logins \ {t} : login'[x] = login[x],
         NEW n
  PROVE  /\ Cardinality(PastCheck(n)') = Cardinality(PastCheck(n))
                 + Member(t, PastCheck(n)') - Member(t, PastCheck(n))
         /\ Cardinality(AtLock(n)') = Cardinality(AtLock(n))
                 + Member(t, AtLock(n)') - Member(t, AtLock(n))
PROOF
  <1>1. ASSUME NEW A, NEW B, A \subseteq Logins, B \subseteq Logins, A \ {t} = B \ {t}
        PROVE  Cardinality(B) = Cardinality(A) + Member(t, B) - Member(t, A)
    <2> DEFINE C == A \ {t}
    <2>0. C \subseteq Logins /\ t \notin C
      BY <1>1
    <2>1. Cardinality(C) \in Nat /\ Cardinality(C \cup {t}) = Cardinality(C) + 1
      BY <2>0, SetsOfLogins
    <2>2. A = (IF t \in A THEN C \cup {t} ELSE C) /\ B = (IF t \in B THEN C \cup {t} ELSE C)
      BY <1>1
    <2> HIDE DEF C
    <2>3. Cardinality(A) = Cardinality(C) + Member(t, A)
      BY <2>1, <2>2 DEF Member
    <2>4. Cardinality(B) = Cardinality(C) + Member(t, B)
      BY <2>1, <2>2 DEF Member
    <2>5. Member(t, A) \in Nat /\ Member(t, B) \in Nat
      BY DEF Member
    <2> QED  BY <2>1, <2>3, <2>4, <2>5
  <1>2. PastCheck(n)' \ {t} = PastCheck(n) \ {t} /\ AtLock(n)' \ {t} = AtLock(n) \ {t}
    BY DEF PastCheck, AtLock
  <1>3. /\ PastCheck(n) \subseteq Logins /\ PastCheck(n)' \subseteq Logins
        /\ AtLock(n) \subseteq Logins /\ AtLock(n)' \subseteq Logins
    BY DEF PastCheck, AtLock
  <1>4. Cardinality(PastCheck(n)') = Cardinality(PastCheck(n))
                 + Member(t, PastCheck(n)') - Member(t, PastCheck(n))
    BY <1>1, <1>2, <1>3
  <1>5. Cardinality(AtLock(n)') = Cardinality(AtLock(n))
                 + Member(t, AtLock(n)') - Member(t, AtLock(n))
    BY <1>1, <1>2, <1>3
  <1> QED  BY <1>4, <1>5

(* The numbers of one name, before and after a step.                       *)
Numbers(n) ==
  /\ failures[n] \in Nat /\ fails[n] \in Nat /\ events \in Nat
  /\ Cardinality(PastCheck(n)) \in Nat /\ Cardinality(AtLock(n)) \in Nat
  /\ Cardinality(PastCheck(n)) + Cardinality(AtLock(n)) <= Cardinality(Logins)

LEMMA TypedNumbers ==
  ASSUME TypeOK, NEW n \in Names
  PROVE  Numbers(n)
PROOF
  <1>1. failures[n] \in Nat /\ fails[n] \in Nat /\ events \in Nat
    BY LimitAssumption DEF TypeOK
  <1>2. PastCheck(n) \subseteq Logins /\ AtLock(n) \subseteq Logins
        /\ PastCheck(n) \cap AtLock(n) = {}
    BY DEF PastCheck, AtLock
  <1> QED  BY <1>1, <1>2, SetsOfLogins DEF Numbers

(* Every step of a login keeps the bound of every name.                    *)
LEMMA LoginKeepsCounts ==
  ASSUME TypeOK, Roles, TypeOK', NEW n \in Names, BoundFor(n),
         NEW t \in Logins, LoginStep(t)
  PROVE  BoundFor(n)'
PROOF
  <1> DEFINE m == login[t].name
             pending == Cardinality(PastCheck(n))
             locking == Cardinality(AtLock(n))
             logins == Cardinality(Logins)
  <1>n. Numbers(n) /\ Numbers(n)' /\ logins \in Nat /\ Threshold \in Nat \ {0}
    <2>1. Numbers(n) /\ logins \in Nat
      BY TypedNumbers, SetsOfLogins
    <2>2. Numbers(n)'
      <3>1. failures'[n] \in Nat /\ fails'[n] \in Nat /\ events' \in Nat
        BY LimitAssumption DEF TypeOK
      <3>2. /\ PastCheck(n)' \subseteq Logins /\ AtLock(n)' \subseteq Logins
            /\ PastCheck(n)' \cap AtLock(n)' = {}
        BY DEF PastCheck, AtLock
      <3> QED  BY <3>1, <3>2, SetsOfLogins DEF Numbers
    <2> QED  BY <2>1, <2>2, LimitAssumption
  <1>r. login[t] \in LoginRecord /\ login \in [Logins -> LoginRecord]
    BY DEF TypeOK, LoginRecord
  <1>o. ASSUME \A x \in Logins \ {t} : login'[x] = login[x]
        PROVE  /\ pending' = pending + Member(t, PastCheck(n)') - Member(t, PastCheck(n))
               /\ locking' = locking + Member(t, AtLock(n)') - Member(t, AtLock(n))
    BY <1>o, OneLoginMoves
  <1>b. /\ t \in PastCheck(n) <=> m = n /\ login[t].step \in {"find", "fail"}
        /\ t \in AtLock(n) <=> m = n /\ login[t].step = "lock"
        /\ t \in PastCheck(n)' <=> login'[t].name = n /\ login'[t].step \in {"find", "fail"}
        /\ t \in AtLock(n)' <=> login'[t].name = n /\ login'[t].step = "lock"
    BY DEF PastCheck, AtLock
  <1>g. ASSUME NEW next, Goto(t, next)
        PROVE  /\ \A x \in Logins \ {t} : login'[x] = login[x]
               /\ login'[t].name = m /\ login'[t].step = next
    BY <1>g, <1>r DEF Goto, LoginRecord
  <1>e. ASSUME EndLogin(t)
        PROVE  /\ \A x \in Logins \ {t} : login'[x] = login[x]
               /\ login'[t].step = "idle"
    BY <1>e, <1>r DEF EndLogin, IdleLogin
  <1>v. Event => events' = events + 1
    BY DEF Event
  <1>z. NoEvent => events' = events
    BY DEF NoEvent
  <1>u. UNCHANGED limiterVars
          => failures'[n] = failures[n] /\ fails'[n] = fails[n] /\ locked' = locked
    BY DEF limiterVars
  <1> HIDE DEF pending, locking, logins, m
  <1>B. /\ failures[n] + pending <= Threshold + logins - 1 + events
        /\ n \notin locked => failures[n] <= fails[n]
        /\ n \notin locked => failures[n] <= Threshold - 1 + locking + events
    BY DEF BoundFor, pending, locking, logins
  <1>C. /\ failures'[n] + pending' <= Threshold + logins - 1 + events'
        /\ n \notin locked' => failures'[n] <= fails'[n]
        /\ n \notin locked' => failures'[n] <= Threshold - 1 + locking' + events'
        => BoundFor(n)'
    BY DEF BoundFor, pending, locking, logins
  <1>N. /\ failures[n] \in Nat /\ fails[n] \in Nat /\ events \in Nat
        /\ failures'[n] \in Nat /\ fails'[n] \in Nat /\ events' \in Nat
        /\ pending \in Nat /\ locking \in Nat /\ pending' \in Nat /\ locking' \in Nat
        /\ logins \in Nat /\ Threshold \in Nat \ {0}
        /\ pending + locking <= logins /\ pending' + locking' <= logins
    BY <1>n DEF Numbers, pending, locking, logins
  <1>1. ASSUME NEW k \in Names, StartLogin(t, k) PROVE BoundFor(n)'
    <2>1. /\ \A x \in Logins \ {t} : login'[x] = login[x]
          /\ login[t].step = "idle" /\ login'[t].step = "find" /\ login'[t].name = k
      BY <1>1, <1>r DEF StartLogin, IdleLogin
    <2>2. pending' <= pending + 1 /\ locking' = locking
          /\ (k /= n => pending' = pending)
      BY <2>1, <1>o, <1>b, <1>N DEF Member
    <2>3. UNCHANGED limiterVars /\ (events' = events \/ events' = events + 1)
          /\ (k \in locked => events' = events + 1)
      BY <1>1, <1>v, <1>z DEF StartLogin
    <2>4. CASE k = n /\ n \in locked
      BY <2>2, <2>3, <2>4, <1>u, <1>B, <1>C, <1>N
    <2>5. CASE n \notin locked
      <3>1. failures[n] <= fails[n] /\ failures[n] <= Threshold - 1 + locking + events
        BY <2>5, <1>B
      <3>0. failures'[n] = failures[n] /\ fails'[n] = fails[n] /\ locking' = locking
        BY <2>2, <2>3, <1>u
      <3>e. events <= events'
        BY <2>3, <1>N
      <3>l. pending' + locking <= logins
        BY <3>0, <1>N
      <3>2. /\ failures'[n] = failures[n] /\ fails'[n] = fails[n] /\ locking' = locking
            /\ events <= events' /\ pending' + locking <= logins
        BY <3>0, <3>e, <3>l
      <3>3. failures'[n] + pending' <= Threshold + logins - 1 + events'
        <4>1. failures'[n] <= Threshold - 1 + locking + events'
          BY ONLY <3>1, <3>2, <1>N
        <4>2. /\ failures'[n] \in Int /\ pending' \in Int /\ locking \in Int /\ logins \in Int
              /\ Threshold \in Int /\ events \in Int /\ events' \in Int
          BY ONLY <1>N
        <4> QED
          BY ONLY <4>1, <4>2, <3>2, RoomBelow
      <3>4. failures'[n] <= fails'[n] /\ failures'[n] <= Threshold - 1 + locking' + events'
        BY ONLY <3>1, <3>2, <1>N
      <3> QED  BY <3>3, <3>4, <1>C
    <2>6. CASE k /= n
      BY <2>2, <2>3, <2>6, <1>u, <1>B, <1>C, <1>N
    <2> QED  BY <2>4, <2>5, <2>6
  <1>2. CASE FindUser(t)
    <2>1. /\ \A x \in Logins \ {t} : login'[x] = login[x]
          /\ login[t].step = "find"
          /\ login'[t].step \in {"clear", "fail", "idle"}
          /\ login'[t].step = "fail" => login'[t].name = m
      BY <1>2, <1>g, <1>e DEF FindUser
    <2>2. pending' <= pending /\ locking' = locking
      BY <2>1, <1>o, <1>b, <1>N DEF Member
    <2>3. UNCHANGED limiterVars /\ events' = events
      BY <1>2 DEF FindUser
    <2> QED  BY <2>2, <2>3, <1>u, <1>B, <1>C, <1>N
  <1>3. CASE RegisterFailure(t)
    <2>0. login[t].step = "fail" /\ m \in Names
      BY <1>3 DEF RegisterFailure, Roles, m
    <2>1. CASE CountInMemory(m) /\ EndLogin(t) /\ NoEvent
      <3>1. locking' = locking /\ pending' = (IF m = n THEN pending - 1 ELSE pending)
        BY <2>0, <2>1, <1>e, <1>o, <1>b, <1>N DEF Member
      <3>2. \/ UNCHANGED <<fails, locked, failures>>
            \/ /\ failures' = [failures EXCEPT ![m] = @ + 1]
               /\ \/ locked' = locked \cup {m} /\ fails' = [fails EXCEPT ![m] = 0]
                  \/ /\ ~ReachesThreshold(m)
                     /\ fails' = [fails EXCEPT ![m] = @ + 1] /\ UNCHANGED locked
        BY <2>1 DEF CountInMemory
      <3>3. failures \in [Names -> Nat] /\ fails \in [Names -> Nat]
        BY DEF TypeOK
      <3>4. CASE m = n
        <4>1. CASE UNCHANGED <<fails, locked, failures>>
          BY <4>1, <3>1, <3>4, <2>1, <1>z, <1>B, <1>C, <1>N
        <4>2. CASE failures'[n] = failures[n] + 1 /\ n \in locked'
          BY <4>2, <3>1, <3>4, <2>1, <1>z, <1>B, <1>C, <1>N
        <4>3. CASE /\ failures'[n] = failures[n] + 1 /\ fails'[n] = fails[n] + 1
                   /\ locked' = locked /\ fails[n] + 1 < Threshold
          BY <4>3, <3>1, <3>4, <2>1, <1>z, <1>B, <1>C, <1>N
        <4>4. ~ReachesThreshold(m) => fails[n] + 1 < Threshold
          BY <3>4, <1>N DEF ReachesThreshold
        <4> QED  BY <3>2, <3>3, <3>4, <4>1, <4>2, <4>3, <4>4
      <3>5. CASE m /= n
        <4>1. /\ failures'[n] = failures[n] /\ fails'[n] = fails[n]
              /\ n \notin locked' => n \notin locked
          BY <3>2, <3>3, <3>5
        <4> QED  BY <4>1, <3>1, <3>5, <2>1, <1>z, <1>B, <1>C, <1>N
      <3> QED  BY <3>4, <3>5
    <2>2. CASE CountInRedis(t, m) /\ NoEvent
      <3>1. /\ \A x \in Logins \ {t} : login'[x] = login[x]
            /\ \/ /\ login'[t].step = "lock" /\ login'[t].name = m
               \/ /\ login'[t].step = "idle" /\ ~ReachesThreshold(m)
        BY <2>2, <1>g, <1>e DEF CountInRedis
      <3>2. /\ failures' = [failures EXCEPT ![m] = @ + 1]
            /\ fails' = [fails EXCEPT ![m] = @ + 1] /\ locked' = locked
            /\ failures \in [Names -> Nat] /\ fails \in [Names -> Nat]
        BY <2>2 DEF CountInRedis, TypeOK
      <3>3. CASE m = n
        <4>1. failures'[n] = failures[n] + 1 /\ fails'[n] = fails[n] + 1
          BY <3>2, <3>3
        <4>2. pending' = pending - 1
          BY <2>0, <3>1, <3>3, <1>o, <1>b, <1>N DEF Member
        <4>3. \/ locking' = locking + 1
              \/ locking' = locking /\ fails[n] + 1 < Threshold
          BY <2>0, <3>1, <3>3, <1>o, <1>b, <1>N DEF Member, ReachesThreshold
        <4> QED  BY <4>1, <4>2, <4>3, <3>2, <2>2, <1>z, <1>B, <1>C, <1>N
      <3>4. CASE m /= n
        <4>1. failures'[n] = failures[n] /\ fails'[n] = fails[n]
          BY <3>2, <3>4
        <4>2. pending' = pending /\ locking' = locking
          BY <2>0, <3>1, <3>4, <1>o, <1>b, <1>N DEF Member
        <4> QED  BY <4>1, <4>2, <3>2, <2>2, <1>z, <1>B, <1>C, <1>N
      <3> QED  BY <3>3, <3>4
    <2>3. CASE Event /\ EndLogin(t) /\ UNCHANGED limiterVars
      <3>1. pending' <= pending /\ locking' = locking
        BY <2>0, <2>3, <1>e, <1>o, <1>b, <1>N DEF Member
      <3> QED  BY <3>1, <2>3, <1>u, <1>v, <1>B, <1>C, <1>N
    <2> QED  BY <1>3, <2>1, <2>2, <2>3 DEF RegisterFailure, m
  <1>4. CASE Lock(t)
    <2>0. login[t].step = "lock" /\ m \in Names /\ EndLogin(t)
      BY <1>4 DEF Lock, Roles, m
    <2>1. pending' = pending /\ locking' = (IF m = n THEN locking - 1 ELSE locking)
      BY <2>0, <1>e, <1>o, <1>b, <1>N DEF Member
    <2>2. CASE LockInRedis(m) /\ NoEvent
      <3>1. /\ failures'[n] = failures[n] /\ (m /= n => fails'[n] = fails[n])
            /\ n \notin locked' => n \notin locked /\ m /= n
        BY <2>0, <2>2 DEF LockInRedis, TypeOK
      <3> QED  BY <3>1, <2>1, <2>2, <1>z, <1>B, <1>C, <1>N
    <2>3. CASE Event /\ UNCHANGED limiterVars
      BY <2>1, <2>3, <1>u, <1>v, <1>B, <1>C, <1>N
    <2> QED  BY <1>4, <2>2, <2>3 DEF Lock, m
  <1>5. CASE ClearFailures(t)
    <2>0. login[t].step = "clear" /\ m \in Names /\ Goto(t, "open")
      BY <1>5 DEF ClearFailures, Roles, m
    <2>1. pending' = pending /\ locking' = locking
      BY <2>0, <1>g, <1>o, <1>b, <1>N DEF Member
    <2>2. CASE Forget(m) /\ NoEvent
      <3>1. CASE m = n
        <4>1. failures'[n] = 0 /\ fails'[n] = 0
          BY <2>0, <2>2, <3>1 DEF Forget, TypeOK
        <4> QED  BY <4>1, <2>1, <2>2, <1>z, <1>B, <1>C, <1>N
      <3>2. CASE m /= n
        <4>1. /\ failures'[n] = failures[n] /\ fails'[n] = fails[n]
              /\ n \notin locked' => n \notin locked
          BY <2>0, <2>2, <3>2 DEF Forget, TypeOK
        <4> QED  BY <4>1, <2>1, <2>2, <1>z, <1>B, <1>C, <1>N
      <3> QED  BY <3>1, <3>2
    <2>3. CASE Event /\ UNCHANGED limiterVars
      BY <2>1, <2>3, <1>u, <1>v, <1>B, <1>C, <1>N
    <2> QED  BY <1>5, <2>2, <2>3 DEF ClearFailures, m
  <1>6. CASE Open(t)
    <2>1. login[t].step = "open" /\ EndLogin(t) /\ UNCHANGED limiterVars
          /\ (events' = events \/ events' = events + 1)
      BY <1>6, <1>v, <1>z DEF Open
    <2>2. pending' = pending /\ locking' = locking
      BY <2>1, <1>e, <1>o, <1>b, <1>N DEF Member
    <2> QED  BY <2>1, <2>2, <1>u, <1>B, <1>C, <1>N
  <1>7. CASE HangUp(t)
    <2>1. Event /\ EndLogin(t) /\ UNCHANGED limiterVars
      BY <1>7 DEF HangUp
    <2>2. pending' <= pending /\ locking' >= locking - 1
      BY <2>1, <1>e, <1>o, <1>b, <1>N DEF Member
    <2> QED  BY <2>1, <2>2, <1>u, <1>v, <1>B, <1>C, <1>N
  <1> QED  BY <1>1, <1>2, <1>3, <1>4, <1>5, <1>6, <1>7 DEF LoginStep

(* A step that moves no login and counts nothing keeps the bound.          *)
LEMMA CountsUntouched ==
  ASSUME TypeOK, NEW n \in Names, BoundFor(n), UNCHANGED limiterVars,
         events' = events \/ events' = events + 1,
         \A x \in Logins : login'[x].name = login[x].name /\ login'[x].step = login[x].step
  PROVE  BoundFor(n)'
PROOF
  <1>1. PastCheck(n)' = PastCheck(n) /\ AtLock(n)' = AtLock(n)
    BY DEF PastCheck, AtLock
  <1>2. Cardinality(PastCheck(n)') = Cardinality(PastCheck(n))
        /\ Cardinality(AtLock(n)') = Cardinality(AtLock(n))
    BY <1>1
  <1>3. failures'[n] = failures[n] /\ fails'[n] = fails[n] /\ locked' = locked
    BY DEF limiterVars
  <1>4. Numbers(n) /\ Cardinality(Logins) \in Nat /\ Threshold \in Nat
    BY TypedNumbers, SetsOfLogins, LimitAssumption
  <1> QED  BY <1>2, <1>3, <1>4 DEF BoundFor, Numbers

LEMMA HandlerKeepsCounts ==
  ASSUME TypeOK, NEW n \in Names, BoundFor(n), NEW h \in Handlers, HandlerStep(h)
  PROVE  BoundFor(n)'
PROOF
  <1>1. UNCHANGED limiterVars
    BY DEF HandlerStep, DisableUser, ResetPassword, StartInvalidation, DropSessions,
           ReadIndex, DeleteFound, GiveUp
  <1>2. events' = events \/ events' = events + 1
    BY DEF HandlerStep, DisableUser, ResetPassword, StartInvalidation, DropSessions,
           ReadIndex, DeleteFound, GiveUp, Event
  <1>3. UNCHANGED login \/ \E u \in Users \cup {Nobody} : MarkLate(u)
    <2>1. handler[h].user \in Users \cup {Nobody}
      BY DEF TypeOK
    <2> QED
      BY <2>1 DEF HandlerStep, DisableUser, ResetPassword, StartInvalidation, DropSessions,
                  ReadIndex, DeleteFound, GiveUp
  <1>4. ASSUME NEW u, MarkLate(u), NEW x \in Logins
        PROVE  login'[x].name = login[x].name /\ login'[x].step = login[x].step
    <2>1. login[x] \in LoginRecord
      BY DEF TypeOK, LoginRecord
    <2> QED  BY <1>4, <2>1 DEF MarkLate, LoginRecord
  <1>5. \A x \in Logins : login'[x].name = login[x].name /\ login'[x].step = login[x].step
    BY <1>3, <1>4
  <1> QED  BY <1>1, <1>2, <1>5, CountsUntouched

(* The end of a window starts a name over; a restart ends every login, and *)
(* starts over what had reached the threshold.                             *)
LEMMA EndingKeepsCounts ==
  ASSUME TypeOK, NEW n \in Names, BoundFor(n), Ending
  PROVE  BoundFor(n)'
PROOF
  <1>n. Numbers(n) /\ Cardinality(Logins) \in Nat /\ Threshold \in Nat \ {0}
    BY TypedNumbers, SetsOfLogins, LimitAssumption
  <1>t. fails \in [Names -> Nat] /\ failures \in [Names -> Nat]
    BY DEF TypeOK
  <1>1. CASE (\E tok \in Tokens : Logout(tok) \/ Expire(tok))
               \/ (\E u \in Users : EnableUser(u) \/ ExpireIndex(u))
    <2>1. UNCHANGED <<limiterVars, login>> /\ (events' = events \/ events' = events + 1)
      BY <1>1 DEF Logout, Expire, EnableUser, ExpireIndex, Event, NoEvent
    <2> QED  BY <2>1, CountsUntouched
  <1>2. ASSUME NEW k \in Names, EndWindow(k) PROVE BoundFor(n)'
    <2>1. PastCheck(n)' = PastCheck(n) /\ AtLock(n)' = AtLock(n) /\ events' = events
      BY <1>2 DEF EndWindow, PastCheck, AtLock
    <2>2. Cardinality(PastCheck(n)') = Cardinality(PastCheck(n))
          /\ Cardinality(AtLock(n)') = Cardinality(AtLock(n))
      BY <2>1
    <2>3. CASE k = n
      <3>1. failures'[n] = 0 /\ (fails'[n] = fails[n] \/ fails'[n] = 0)
        BY <1>2, <1>t, <2>3 DEF EndWindow
      <3>2. Cardinality(PastCheck(n)) <= Cardinality(Logins)
        BY <1>n DEF Numbers
      <3> QED  BY <3>1, <3>2, <2>1, <2>2, <1>n DEF BoundFor, Numbers
    <2>4. CASE k /= n
      <3>1. /\ failures'[n] = failures[n] /\ fails'[n] = fails[n]
            /\ n \notin locked' => n \notin locked
        BY <1>2, <1>t, <2>4 DEF EndWindow
      <3> QED  BY <3>1, <2>1, <2>2, <1>n DEF BoundFor, Numbers
    <2> QED  BY <2>3, <2>4
  <1>3. CASE Restart
    <2>1. PastCheck(n)' = {} /\ AtLock(n)' = {} /\ events' = events + 1
      BY <1>3 DEF Restart, PastCheck, AtLock, IdleLogin, Event
    <2>2. Cardinality(PastCheck(n)') = 0 /\ Cardinality(AtLock(n)') = 0
      BY <2>1, FS_EmptySet
    <2>3. CASE Memory
      <3>1. failures'[n] = 0 /\ fails'[n] = 0
        BY <1>3, <2>3 DEF Restart
      <3> QED  BY <3>1, <2>1, <2>2, <1>n DEF BoundFor, Numbers
    <2>4. CASE ~Memory
      <3>1. /\ failures'[n] = (IF fails[n] >= Threshold THEN 0 ELSE failures[n])
            /\ fails'[n] = fails[n] /\ locked' = locked
        BY <1>3, <2>4 DEF Restart
      <3> QED  BY <3>1, <2>1, <2>2, <1>n DEF BoundFor, Numbers
    <2> QED  BY <2>3, <2>4
  <1> QED  BY <1>1, <1>2, <1>3 DEF Ending

-----------------------------------------------------------------------------
(* The inductive invariant holds in every reachable state.                 *)
LEMMA StepKeepsIInv == IInv /\ [Next]_vars => IInv'
PROOF
  <1> SUFFICES ASSUME IInv, [Next]_vars PROVE IInv'
    OBVIOUS
  <1>1. CASE \E t \in Logins : LoginStep(t)
    <2> PICK t \in Logins : LoginStep(t)
      BY <1>1
    <2> QED  BY LoginTyped, LoginKeepsSessions DEF IInv, SessionInv
  <1>2. CASE \E h \in Handlers : HandlerStep(h)
    <2> PICK h \in Handlers : HandlerStep(h)
      BY <1>2
    <2> QED  BY HandlerTyped, HandlerKeepsSessions DEF IInv, SessionInv
  <1>3. CASE Ending
    BY <1>3, EndingTyped, EndingKeepsSessions DEF IInv, SessionInv
  <1>4. CASE UNCHANGED vars
    <2>1. TypeOK' /\ Roles'
      BY <1>4 DEF IInv, TypeOK, Roles, Redis, vars, sessionVars, limiterVars
    <2>2. SessionInv'
      BY <1>4, NoSessionOpened DEF vars
    <2> QED  BY <2>1, <2>2 DEF IInv, SessionInv
  <1> QED  BY <1>1, <1>2, <1>3, <1>4 DEF Next, Ending

LEMMA InductiveInvariant == Spec => []IInv
PROOF BY InitIInv, StepKeepsIInv, PTL DEF Spec

(* Every reachable state has its type, and the limiter keeps its cap, for  *)
(* every number of users, names, concurrent tasks and every limit.         *)
THEOREM TypeCorrect == Spec => []TypeOK
PROOF BY InductiveInvariant, PTL DEF IInv

(* session.rs:213: the index finds every session in Redis, but those whose *)
(* entry an invalidation in progress has deleted unread.                   *)
THEOREM IndexIsComplete == Spec => []IndexFindsSessions
PROOF BY InductiveInvariant, PTL DEF IInv

(* A completed disable leaves only sessions of logins that overlapped an   *)
(* invalidation, in either store.                                          *)
THEOREM DisableSignsOut == Spec => []SignedOutUnlessOverlapping
PROOF BY InductiveInvariant, PTL DEF IInv

-----------------------------------------------------------------------------
(* The lockout, on top of the types and roles.                             *)
LEMMA InitCounts == Init => CountsBounded
PROOF
  <1> SUFFICES ASSUME Init, NEW n \in Names PROVE BoundFor(n)
    BY DEF CountsBounded
  <1>1. PastCheck(n) = {} /\ AtLock(n) = {}
    BY DEF Init, IdleLogin, PastCheck, AtLock
  <1>2. Cardinality(PastCheck(n)) = 0 /\ Cardinality(AtLock(n)) = 0
    BY <1>1, FS_EmptySet
  <1>3. failures[n] = 0 /\ fails[n] = 0 /\ events = 0
    BY DEF Init
  <1>4. Cardinality(Logins) \in Nat /\ Threshold \in Nat \ {0}
    BY SetsOfLogins, LimitAssumption
  <1> QED  BY <1>2, <1>3, <1>4 DEF BoundFor

LEMMA StepKeepsCounts == IInv /\ IInv' /\ CountsBounded /\ [Next]_vars => CountsBounded'
PROOF
  <1> SUFFICES ASSUME IInv, IInv', CountsBounded, [Next]_vars, NEW n \in Names
               PROVE  BoundFor(n)'
    BY DEF CountsBounded
  <1>0. TypeOK /\ TypeOK' /\ Roles /\ BoundFor(n)
    BY DEF IInv, CountsBounded
  <1>1. ASSUME NEW t \in Logins, LoginStep(t) PROVE BoundFor(n)'
    BY <1>0, <1>1, LoginKeepsCounts
  <1>2. ASSUME NEW h \in Handlers, HandlerStep(h) PROVE BoundFor(n)'
    BY <1>0, <1>2, HandlerKeepsCounts
  <1>3. CASE Ending
    BY <1>0, <1>3, EndingKeepsCounts
  <1>4. CASE UNCHANGED vars
    BY <1>0, <1>4, CountsUntouched DEF vars
  <1> QED  BY <1>1, <1>2, <1>3, <1>4 DEF Next, Ending

LEMMA CountsGiveBound == TypeOK /\ CountsBounded => LockoutBoundsFailures
PROOF
  <1> SUFFICES ASSUME TypeOK, NEW n \in Names, BoundFor(n)
               PROVE  failures[n] <= Threshold + Cardinality(Logins) - 1 + events
    BY DEF CountsBounded, LockoutBoundsFailures
  <1>1. Numbers(n) /\ Cardinality(Logins) \in Nat /\ Threshold \in Nat
    BY TypedNumbers, SetsOfLogins, LimitAssumption
  <1> QED  BY <1>1 DEF BoundFor, Numbers

(* session.rs:130-205, 331-400: LOCKOUT_THRESHOLD failures lock a name, in *)
(* either store, whatever logins run at once; beyond the threshold only those     *)
(* already past is_locked are counted, and one for each failed command.    *)
THEOREM LockoutHolds == Spec => []LockoutBoundsFailures
PROOF
  <1>1. Spec => []CountsBounded
    BY InductiveInvariant, InitCounts, StepKeepsCounts, PTL DEF Spec
  <1>2. IInv => TypeOK
    BY DEF IInv
  <1> QED  BY <1>1, <1>2, InductiveInvariant, CountsGiveBound, PTL
=============================================================================
