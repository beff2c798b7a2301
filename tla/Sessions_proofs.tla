-------------------------- MODULE Sessions_proofs --------------------------
(***************************************************************************)
(* Proofs about Sessions, for every set of sessions, accounts and requests *)
(* and all lifetimes of keys and tokens.                                   *)
(***************************************************************************)
EXTENDS Sessions, TLAPS

-----------------------------------------------------------------------------
(* Types *)

\* What the stage of a request says of the request, and what a session that was
\* never stored has not got.
RequestShape ==
  \A r \in Req :
    /\ pc[r] = "idle" => op[r] = "none"
    /\ pc[r] \in {"select", "store", "sign"} => op[r] = "login" /\ user[r] \in User
    /\ pc[r] \in {"get", "load", "serve"} => op[r] \in {"use", "refresh"}
    /\ pc[r] = "extend" => op[r] = "use"
    /\ pc[r] = "delete" => op[r] = "logout"
    /\ pc[r] \in {"sign", "get", "extend", "load", "serve", "delete"} =>
         sid[r] \in Session /\ born[sid[r]] # 0

SessionShape ==
  \A s \in Session :
    /\ born[s] = 0 => deadline[s] = 0 /\ access[s] = 0 /\ refresh[s] = 0
    /\ born[s] # 0 => account[s] \in User

TypeInv == TypeOK /\ RequestShape /\ SessionShape

LEMMA InitType == Init => TypeInv
BY TimesAssumption DEF Init, TypeInv, TypeOK, StoreType, RequestType,
   RequestShape, SessionShape, Stage, Op, NoReply

\* A request that ends, in a step that unbears no session.
LEMMA AnswerType ==
  ASSUME TypeInv, NEW r \in Req, NEW code \in Nat, Answer(r, code),
         \A s \in Session : born[s] # 0 => born'[s] # 0
  PROVE  RequestType' /\ RequestShape'
<1>1. RequestType'
  BY TimesAssumption DEF Answer, TypeInv, TypeOK, RequestType, Stage, Op
<1>2. \A q \in Req :
        IF q = r THEN pc'[q] = "idle" /\ op'[q] = "none"
                 ELSE /\ pc'[q] = pc[q] /\ op'[q] = op[q]
                      /\ sid'[q] = sid[q] /\ user'[q] = user[q]
  BY DEF Answer, TypeInv, TypeOK, RequestType
<1>3. RequestShape'
  BY <1>2 DEF RequestShape, TypeInv
<1> QED
  BY <1>1, <1>3

\* A request that moves on, in a step that unbears no session.
LEMMA GotoType ==
  ASSUME TypeInv, NEW r \in Req, NEW stage \in Stage, Goto(r, stage),
         \A s \in Session : born[s] # 0 => born'[s] # 0,
         \/ stage = "store" /\ pc[r] = "select"
         \/ stage = "extend" /\ pc[r] = "get" /\ op[r] = "use"
         \/ stage \in {"load", "serve"} /\ pc[r] \in {"get", "extend", "load"}
  PROVE  RequestType' /\ RequestShape'
<1>1. RequestType'
  BY DEF Goto, TypeInv, TypeOK, RequestType, Stage, Op, NoReply
<1>2. \A q \in Req : /\ op'[q] = op[q] /\ sid'[q] = sid[q] /\ user'[q] = user[q]
                     /\ pc'[q] = IF q = r THEN stage ELSE pc[q]
  BY DEF Goto, TypeInv, TypeOK, RequestType
<1>3. RequestShape'
  BY <1>2 DEF RequestShape, TypeInv
<1> QED
  BY <1>1, <1>3

\* A request that begins.
LEMMA StartType ==
  ASSUME TypeInv, NEW r \in Req, NEW what \in Op, NEW s \in Session \cup {NoSession},
         NEW u \in User \cup {NoUser}, NEW stage \in Stage,
         Start(r, what, s, u, stage), fit' \in [Req -> BOOLEAN],
         \/ stage = "select" /\ what = "login" /\ u \in User
         \/ stage = "get" /\ what \in {"use", "refresh"} /\ s \in Session /\ born[s] # 0
         \/ stage = "delete" /\ what = "logout" /\ s \in Session /\ born[s] # 0
  PROVE  TypeInv'
<1>0. now \in 0..MaxTime
  BY DEF TypeInv, TypeOK, StoreType
<1>1. RequestType'
  BY <1>0 DEF Start, TypeInv, TypeOK, RequestType, Op, NoReply
<1>2. \A q \in Req : IF q = r THEN /\ op'[q] = what /\ sid'[q] = s /\ user'[q] = u
                                   /\ pc'[q] = stage
                              ELSE /\ op'[q] = op[q] /\ sid'[q] = sid[q]
                                   /\ user'[q] = user[q] /\ pc'[q] = pc[q]
  BY DEF Start, TypeInv, TypeOK, RequestType
<1>3. UNCHANGED <<now, redis, tokens, accounts>>
  BY DEF Start
<1>4. StoreType' /\ SessionShape'
  BY <1>3 DEF redis, tokens, accounts, TypeInv, TypeOK, StoreType, SessionShape
<1>5. RequestShape'
  BY <1>2, <1>3 DEF RequestShape, TypeInv, redis
<1> QED
  BY <1>1, <1>4, <1>5 DEF TypeInv, TypeOK

LEMMA RefuseType ==
  ASSUME TypeInv, NEW r \in Req, NEW code \in Nat, Refuse(r, code)
  PROVE  TypeInv'
<1>1. UNCHANGED <<now, redis, tokens, accounts>> /\ Answer(r, code)
  BY DEF Refuse
<1>2. StoreType' /\ SessionShape'
  BY <1>1 DEF redis, tokens, accounts, TypeInv, TypeOK, StoreType, SessionShape
<1>3. RequestType' /\ RequestShape'
  BY <1>1, AnswerType DEF redis
<1> QED
  BY <1>2, <1>3 DEF TypeInv, TypeOK

\* A token that has not expired was signed, and its session stored before.
LEMMA SignedSessions ==
  ASSUME TypeInv, NEW s \in Session, Valid(access[s]) \/ Valid(refresh[s]) \/ Live(s)
  PROVE  born[s] # 0
BY TimesAssumption DEF TypeInv, TypeOK, StoreType, SessionShape, Valid, Live

LEMMA StoreStepType ==
  ASSUME TypeInv, NEW r \in Req, StoreSession(r)
  PROVE  TypeInv'
<1> USE DEF TypeInv, TypeOK
<1> PICK s \in Session :
      /\ born[s] = 0
      /\ deadline' = [deadline EXCEPT ![s] = now + Access]
      /\ account' = [account EXCEPT ![s] = user[r]]
      /\ born' = [born EXCEPT ![s] = now]
      /\ sid' = [sid EXCEPT ![r] = s]
  BY DEF StoreSession
<1>1. user[r] \in User /\ op[r] = "login" /\ now # 0
  BY TimesAssumption DEF StoreSession, At, RequestShape, StoreType
<1>2. StoreType'
  BY <1>1, TimesAssumption DEF StoreSession, StoreType, tokens, accounts
<1>3. RequestType'
  BY DEF StoreSession, RequestType, Stage, NoReply, Op
<1>4. SessionShape'
  BY <1>1 DEF StoreSession, SessionShape, StoreType, tokens
<1>5. \A q \in Req : born'[s] # 0 /\ (q # r => pc'[q] = pc[q] /\ sid'[q] = sid[q])
  BY <1>1 DEF StoreSession, RequestType, StoreType
<1>6. RequestShape'
  BY <1>1, <1>5 DEF StoreSession, RequestShape, RequestType, StoreType
<1> QED
  BY <1>2, <1>3, <1>4, <1>6

LEMMA IssueTokensType ==
  ASSUME TypeInv, NEW r \in Req, IssueTokens(r)
  PROVE  TypeInv'
<1>1. sid[r] \in Session /\ born[sid[r]] # 0
  BY DEF TypeInv, RequestShape, IssueTokens, At
<1>2. StoreType'
  BY <1>1, TimesAssumption
     DEF IssueTokens, TypeInv, TypeOK, StoreType, redis, accounts
<1>3. SessionShape'
  BY <1>1 DEF IssueTokens, TypeInv, TypeOK, StoreType, SessionShape, redis
<1>4. RequestType' /\ RequestShape'
  BY AnswerType DEF IssueTokens, redis
<1> QED
  BY <1>2, <1>3, <1>4 DEF TypeInv, TypeOK

LEMMA IssueAccessType ==
  ASSUME TypeInv, NEW r \in Req, IssueAccess(r)
  PROVE  TypeInv'
<1>1. sid[r] \in Session /\ born[sid[r]] # 0
  BY DEF TypeInv, RequestShape, IssueAccess, At
<1>2. StoreType'
  BY <1>1, TimesAssumption
     DEF IssueAccess, TypeInv, TypeOK, StoreType, redis, accounts
<1>3. SessionShape'
  BY <1>1 DEF IssueAccess, TypeInv, TypeOK, StoreType, SessionShape, redis
<1>4. RequestType' /\ RequestShape'
  BY AnswerType DEF IssueAccess, redis
<1> QED
  BY <1>2, <1>3, <1>4 DEF TypeInv, TypeOK

LEMMA DeleteSessionType ==
  ASSUME TypeInv, NEW r \in Req, DeleteSession(r)
  PROVE  TypeInv'
<1>1. sid[r] \in Session /\ born[sid[r]] # 0
  BY DEF TypeInv, RequestShape, DeleteSession, At
<1>2. StoreType'
  BY <1>1 DEF DeleteSession, TypeInv, TypeOK, StoreType, tokens, accounts
<1>3. SessionShape'
  BY <1>1 DEF DeleteSession, TypeInv, TypeOK, StoreType, SessionShape, tokens
<1>4. RequestType' /\ RequestShape'
  BY AnswerType DEF DeleteSession
<1> QED
  BY <1>2, <1>3, <1>4 DEF TypeInv, TypeOK

LEMMA ExtendSessionType ==
  ASSUME TypeInv, NEW r \in Req, ExtendSession(r)
  PROVE  TypeInv'
<1>1. sid[r] \in Session /\ born[sid[r]] # 0
  BY DEF TypeInv, RequestShape, ExtendSession, At
<1>2. Extended(sid[r]) \in Nat
  BY <1>1, TimesAssumption DEF TypeInv, TypeOK, StoreType, Extended
<1>3. StoreType'
  BY <1>1, <1>2 DEF ExtendSession, TypeInv, TypeOK, StoreType, tokens, accounts
<1>4. SessionShape'
  BY <1>1, <1>2 DEF ExtendSession, TypeInv, TypeOK, StoreType, SessionShape, tokens
<1>5. RequestType' /\ RequestShape'
  BY GotoType DEF ExtendSession, At, Stage
<1> QED
  BY <1>3, <1>4, <1>5 DEF TypeInv, TypeOK

\* A request that reads the store, or the account, and goes on.
LEMMA MoveType ==
  ASSUME TypeInv, NEW r \in Req, NEW stage \in Stage, Goto(r, stage),
         UNCHANGED <<now, redis, tokens, accounts>>,
         \/ stage = "store" /\ pc[r] = "select"
         \/ stage = "extend" /\ pc[r] = "get" /\ op[r] = "use"
         \/ stage \in {"load", "serve"} /\ pc[r] \in {"get", "extend", "load"}
  PROVE  TypeInv'
<1>1. StoreType' /\ SessionShape'
  BY DEF redis, tokens, accounts, TypeInv, TypeOK, StoreType, SessionShape
<1>2. RequestType' /\ RequestShape'
  BY GotoType DEF redis
<1> QED
  BY <1>1, <1>2 DEF TypeInv, TypeOK

LEMMA ReadType ==
  ASSUME TypeInv, NEW r \in Req,
         LoginSelect(r) \/ GetSession(r) \/ LoadAccount(r) \/ Respond(r)
  PROVE  TypeInv'
<1>1. CASE LoginSelect(r)
  BY <1>1, RefuseType, MoveType DEF LoginSelect, At, Stage
<1>2. CASE GetSession(r)
  <2>1. CASE Live(sid[r]) /\ op[r] = "use"
    BY <1>2, <2>1, MoveType DEF GetSession, At, Stage
  <2>2. CASE Live(sid[r]) /\ op[r] # "use"
    BY <1>2, <2>2, MoveType DEF GetSession, At, Stage
  <2>3. CASE ~Live(sid[r])
    BY <1>2, <2>3, RefuseType DEF GetSession
  <2> QED
    BY <2>1, <2>2, <2>3
<1>3. CASE LoadAccount(r)
  BY <1>3, RefuseType, MoveType DEF LoadAccount, At, Stage
<1>4. CASE Respond(r)
  BY <1>4, RefuseType DEF Respond
<1> QED
  BY <1>1, <1>2, <1>3, <1>4

LEMMA BeginType ==
  ASSUME TypeInv, NEW r \in Req, Begin(r)
  PROVE  TypeInv'
<1>0. fit \in [Req -> BOOLEAN]
  BY DEF TypeInv, TypeOK, RequestType
<1>1. ASSUME NEW u \in User, BeginLogin(r, u) PROVE TypeInv'
  BY <1>0, <1>1, StartType DEF BeginLogin, Op, Stage
<1>2. ASSUME NEW s \in Session, BeginUse(r, s) PROVE TypeInv'
  BY <1>0, <1>2, StartType, SignedSessions DEF BeginUse, Op, Stage, Live
<1>3. ASSUME NEW s \in Session, BeginLogout(r, s) PROVE TypeInv'
  BY <1>0, <1>3, StartType, SignedSessions DEF BeginLogout, Op, Stage, Live
<1>4. ASSUME NEW h \in Session, NEW s \in Session, BeginRefresh(r, h, s) PROVE TypeInv'
  BY <1>0, <1>4, StartType, SignedSessions DEF BeginRefresh, Op, Stage, Live
<1> QED
  BY <1>1, <1>2, <1>3, <1>4 DEF Begin

\* The steps of nobody's request.
LEMMA WorldType ==
  ASSUME TypeInv,
         \/ \E h, s \in Session : RefuseToken(h, s)
         \/ \E u \in User, to \in {"active", "blocked", "deleted"} : Change(u, to)
         \/ RedisRestart \/ Tick
  PROVE  TypeInv'
<1> USE DEF TypeInv, TypeOK
<1>1. ASSUME NEW h \in Session, NEW s \in Session, RefuseToken(h, s)
      PROVE  TypeInv'
  <2>1. StoreType' /\ SessionShape' /\ RequestShape'
    BY <1>1 DEF RefuseToken, redis, tokens, accounts, requests, StoreType,
       SessionShape, RequestShape
  <2>2. RequestType'
    BY <1>1 DEF RefuseToken, requests, RequestType, Op
  <2> QED
    BY <2>1, <2>2
<1>2. ASSUME NEW u \in User, NEW to \in {"active", "blocked", "deleted"}, Change(u, to)
      PROVE  TypeInv'
  <2>1. StoreType' /\ SessionShape' /\ RequestShape'
    BY <1>2 DEF Change, redis, tokens, requests, StoreType, SessionShape, RequestShape
  <2>2. RequestType'
    BY <1>2 DEF Change, requests, RequestType, Op, NoReply
  <2> QED
    BY <2>1, <2>2
<1>3. CASE RedisRestart
  <2>1. StoreType' /\ SessionShape' /\ RequestShape'
    BY <1>3 DEF RedisRestart, tokens, accounts, requests, StoreType, SessionShape,
       RequestShape
  <2>2. RequestType'
    BY <1>3 DEF RedisRestart, requests, RequestType, Op, NoReply
  <2> QED
    BY <2>1, <2>2
<1>4. CASE Tick
  <2>1. StoreType' /\ SessionShape' /\ RequestShape'
    BY <1>4, TimesAssumption DEF Tick, redis, tokens, accounts, requests, StoreType,
       SessionShape, RequestShape
  <2>2. RequestType'
    BY <1>4 DEF Tick, requests, RequestType, Op, NoReply
  <2> QED
    BY <2>1, <2>2
<1> QED
  BY <1>1, <1>2, <1>3, <1>4

LEMMA NextType ==
  ASSUME TypeInv, [Next]_vars
  PROVE  TypeInv'
<1>1. ASSUME NEW r \in Req, Begin(r) \/ Running(r) \/ Abort(r) PROVE TypeInv'
  <2>1. CASE Begin(r)
    BY <2>1, BeginType
  <2>2. CASE Running(r)
    BY <2>2, ReadType, StoreStepType, IssueTokensType, ExtendSessionType,
       IssueAccessType, DeleteSessionType DEF Running
  <2>3. CASE Abort(r)
    BY <2>3, RefuseType DEF Abort
  <2> QED
    BY <1>1, <2>1, <2>2, <2>3
<1>2. CASE UNCHANGED vars
  BY <1>2 DEF vars, TypeInv, TypeOK, StoreType, RequestType, RequestShape, SessionShape
<1> QED
  BY <1>1, <1>2, WorldType DEF Next

\* TypeInv is an invariant: every variable of a reachable state has its type,
\* and every request the session or the account its stage needs.
THEOREM Typed == Spec => []TypeInv
<1>1. Init => TypeInv
  BY InitType
<1>2. TypeInv /\ [Next]_vars => TypeInv'
  BY NextType
<1> QED
  BY <1>1, <1>2, PTL DEF Spec

\* Every variable of Sessions has its type, whatever its constants.
THEOREM TypesHold == Spec => []TypeOK
<1>1. TypeInv => TypeOK
  BY DEF TypeInv
<1> QED
  BY <1>1, Typed, PTL

-----------------------------------------------------------------------------
(* Steps *)

\* What a step of a request that only reads does to it: it ends, or moves on
\* after it has found its session live or its account active.
Reads(r) ==
  LoginSelect(r) \/ GetSession(r) \/ LoadAccount(r) \/ Respond(r) \/ Abort(r)

Kept(r) ==
  /\ op'[r] = op[r]
  /\ sid'[r] = sid[r]
  /\ user'[r] = user[r]
  /\ begun'[r] = begun[r]
  /\ fit'[r] = fit[r]

LEMMA ReadStep ==
  ASSUME TypeInv, NEW r \in Req, Reads(r)
  PROVE  /\ UNCHANGED <<now, redis, tokens, accounts>>
         /\ \/ pc'[r] = "idle"
            \/ /\ Kept(r)
               /\ \/ /\ pc[r] = "select" /\ pc'[r] = "store"
                     /\ standing[user[r]] = "active"
                  \/ /\ pc[r] = "get" /\ Live(sid[r])
                     /\ pc'[r] = IF op[r] = "use" THEN "extend" ELSE "load"
                  \/ /\ pc[r] = "load" /\ pc'[r] = "serve"
                     /\ standing[account[sid[r]]] = "active"
<1> USE DEF TypeInv, TypeOK, RequestType
<1>1. ASSUME NEW code, Refuse(r, code)
      PROVE  UNCHANGED <<now, redis, tokens, accounts>> /\ pc'[r] = "idle"
  BY <1>1 DEF Refuse, Answer
<1>2. ASSUME NEW stage, Goto(r, stage)
      PROVE  pc'[r] = stage /\ Kept(r)
  BY <1>2 DEF Goto, Kept
<1>3. CASE LoginSelect(r)
  BY <1>1, <1>2, <1>3 DEF LoginSelect, At
<1>4. CASE GetSession(r)
  BY <1>1, <1>2, <1>4 DEF GetSession, At
<1>5. CASE LoadAccount(r)
  BY <1>1, <1>2, <1>5 DEF LoadAccount, At
<1>6. CASE Respond(r) \/ Abort(r)
  BY <1>1, <1>6 DEF Respond, Abort
<1> QED
  BY <1>3, <1>4, <1>5, <1>6 DEF Reads

\* The steps of a request, those that only read taken together.
LEMMA RequestSteps ==
  ASSUME NEW r \in Req, Begin(r) \/ Running(r) \/ Abort(r)
  PROVE  \/ Begin(r) \/ Reads(r) \/ StoreSession(r) \/ IssueTokens(r)
         \/ ExtendSession(r) \/ IssueAccess(r) \/ DeleteSession(r)
BY DEF Running, Reads

\* A request's step leaves the other requests where they are.
LEMMA OthersKept ==
  ASSUME TypeInv, NEW r \in Req, Begin(r) \/ Running(r) \/ Abort(r),
         NEW q \in Req, q # r
  PROVE  pc'[q] = pc[q] /\ Kept(q)
<1> USE DEF TypeInv, TypeOK, RequestType, Kept
<1>1. ASSUME NEW code, Answer(r, code) PROVE pc'[q] = pc[q] /\ Kept(q)
  BY <1>1 DEF Answer
<1>2. ASSUME NEW stage, Goto(r, stage) PROVE pc'[q] = pc[q] /\ Kept(q)
  BY <1>2 DEF Goto
<1>3. ASSUME NEW what, NEW s, NEW u, NEW stage, NEW b,
             Start(r, what, s, u, stage), fit' = [fit EXCEPT ![r] = b]
      PROVE  pc'[q] = pc[q] /\ Kept(q)
  BY <1>3 DEF Start
<1>4. CASE Begin(r)
  BY <1>3, <1>4 DEF Begin, BeginLogin, BeginUse, BeginLogout, BeginRefresh
<1>5. CASE Reads(r)
  BY <1>1, <1>2, <1>5
     DEF Reads, LoginSelect, GetSession, LoadAccount, Respond, Abort, Refuse
<1>6. CASE StoreSession(r)
  BY <1>6 DEF StoreSession
<1>7. CASE IssueTokens(r) \/ IssueAccess(r) \/ DeleteSession(r)
  BY <1>1, <1>7 DEF IssueTokens, IssueAccess, DeleteSession
<1>8. CASE ExtendSession(r)
  BY <1>2, <1>8 DEF ExtendSession
<1> QED
  BY <1>4, <1>5, <1>6, <1>7, <1>8, RequestSteps

\* A request begins with what its token says.
LEMMA BeginStep ==
  ASSUME TypeInv, NEW r \in Req, Begin(r)
  PROVE  /\ UNCHANGED <<now, redis, tokens, accounts>>
         /\ begun'[r] = now
         /\ \/ pc'[r] = "select" /\ op'[r] = "login"
            \/ pc'[r] = "delete" /\ op'[r] = "logout"
            \/ /\ pc'[r] = "get"
               /\ sid'[r] \in Session /\ born[sid'[r]] # 0
               /\ fit'[r] = Live(sid'[r])
               /\ \/ op'[r] = "use" /\ now < access[sid'[r]]
                  \/ op'[r] = "refresh" /\ now < refresh[sid'[r]]
<1> USE DEF TypeInv, TypeOK, RequestType
<1>1. ASSUME NEW what, NEW s, NEW u, NEW stage, NEW b,
             Start(r, what, s, u, stage), fit' = [fit EXCEPT ![r] = b]
      PROVE  /\ UNCHANGED <<now, redis, tokens, accounts>>
             /\ begun'[r] = now /\ pc'[r] = stage /\ op'[r] = what /\ sid'[r] = s
             /\ fit'[r] = b
  BY <1>1 DEF Start
<1>2. ASSUME NEW u \in User, BeginLogin(r, u)
      PROVE  /\ UNCHANGED <<now, redis, tokens, accounts>>
             /\ begun'[r] = now /\ pc'[r] = "select" /\ op'[r] = "login"
  BY <1>1, <1>2 DEF BeginLogin
<1>3. ASSUME NEW s \in Session, BeginLogout(r, s)
      PROVE  /\ UNCHANGED <<now, redis, tokens, accounts>>
             /\ begun'[r] = now /\ pc'[r] = "delete" /\ op'[r] = "logout"
  BY <1>1, <1>3 DEF BeginLogout
<1>4. ASSUME NEW s \in Session, BeginUse(r, s)
      PROVE  /\ UNCHANGED <<now, redis, tokens, accounts>>
             /\ begun'[r] = now /\ pc'[r] = "get" /\ op'[r] = "use" /\ sid'[r] = s
             /\ born[s] # 0 /\ fit'[r] = Live(s) /\ now < access[s]
  BY <1>1, <1>4, SignedSessions DEF BeginUse, Valid
<1>5. ASSUME NEW h \in Session, NEW s \in Session, BeginRefresh(r, h, s)
      PROVE  /\ UNCHANGED <<now, redis, tokens, accounts>>
             /\ begun'[r] = now /\ pc'[r] = "get" /\ op'[r] = "refresh" /\ sid'[r] = s
             /\ born[s] # 0 /\ fit'[r] = Live(s) /\ now < refresh[s]
  BY <1>1, <1>5, SignedSessions DEF BeginRefresh, Valid
<1> QED
  BY <1>2, <1>3, <1>4, <1>5 DEF Begin

-----------------------------------------------------------------------------
(* Sessions that have ended *)

\* An EXPIRE makes a session live exactly if it was.
LEMMA ExtendedLive ==
  ASSUME TypeInv, NEW s \in Session
  PROVE  now < Extended(s) <=> Live(s)
BY TimesAssumption DEF TypeInv, TypeOK, StoreType, Extended, Live

\* No step of anybody revives a session that was stored and has ended.
LEMMA NoRevival ==
  ASSUME TypeInv, [Next]_vars, NEW s \in Session, born[s] # 0, Live(s)'
  PROVE  Live(s)
<1> USE DEF TypeInv, TypeOK, StoreType, Live
<1>1. ASSUME UNCHANGED <<now, deadline>> PROVE Live(s)
  BY <1>1
<1>2. ASSUME NEW r \in Req, Begin(r) \/ Running(r) \/ Abort(r) PROVE Live(s)
  <2>1. CASE Begin(r)
    BY <2>1, BeginStep DEF redis
  <2>2. CASE Reads(r)
    BY <2>2, ReadStep DEF redis
  <2>3. CASE StoreSession(r)
    BY <2>3 DEF StoreSession
  <2>4. CASE IssueTokens(r) \/ IssueAccess(r)
    BY <2>4 DEF IssueTokens, IssueAccess, redis
  <2>5. CASE ExtendSession(r)
    <3>1. sid[r] \in Session
      BY <2>5 DEF ExtendSession, At, RequestShape
    <3> QED
      BY <2>5, <3>1, ExtendedLive DEF ExtendSession
  <2>6. CASE DeleteSession(r)
    BY <2>6 DEF DeleteSession
  <2> QED
    BY <1>2, <2>1, <2>2, <2>3, <2>4, <2>5, <2>6, RequestSteps
<1>3. ASSUME NEW h \in Session, NEW t \in Session, RefuseToken(h, t) PROVE Live(s)
  BY <1>3 DEF RefuseToken, redis
<1>4. ASSUME NEW u \in User, NEW to, Change(u, to) PROVE Live(s)
  BY <1>4 DEF Change, redis
<1>5. CASE RedisRestart
  BY <1>5 DEF RedisRestart
<1>6. CASE Tick
  BY <1>6 DEF Tick, redis
<1>7. CASE UNCHANGED vars
  BY <1>7 DEF vars
<1> QED
  BY <1>2, <1>3, <1>4, <1>5, <1>6, <1>7 DEF Next

\* What a session is, once it is stored, stays: its owner and its birth.
LEMMA StoredKept ==
  ASSUME TypeInv, [Next]_vars, NEW s \in Session, born[s] # 0
  PROVE  born'[s] = born[s] /\ account'[s] = account[s]
<1> USE DEF TypeInv, TypeOK, StoreType
<1>1. ASSUME NEW r \in Req, Begin(r) \/ Running(r) \/ Abort(r)
      PROVE  born'[s] = born[s] /\ account'[s] = account[s]
  <2>1. CASE Begin(r)
    BY <2>1, BeginStep DEF redis
  <2>2. CASE Reads(r)
    BY <2>2, ReadStep DEF redis
  <2>3. CASE StoreSession(r)
    BY <2>3 DEF StoreSession
  <2>4. CASE IssueTokens(r) \/ IssueAccess(r)
    BY <2>4 DEF IssueTokens, IssueAccess, redis
  <2>5. CASE ExtendSession(r) \/ DeleteSession(r)
    BY <2>5 DEF ExtendSession, DeleteSession
  <2> QED
    BY <1>1, <2>1, <2>2, <2>3, <2>4, <2>5, RequestSteps
<1>2. CASE \E h, t \in Session : RefuseToken(h, t)
  BY <1>2 DEF RefuseToken, redis
<1>3. CASE \E u \in User, to \in {"active", "blocked", "deleted"} : Change(u, to)
  BY <1>3 DEF Change, redis
<1>4. CASE RedisRestart \/ Tick \/ UNCHANGED vars
  BY <1>4 DEF RedisRestart, Tick, redis, vars
<1> QED
  BY <1>1, <1>2, <1>3, <1>4 DEF Next

\* The steps of nobody's request leave all requests where they are.
World ==
  \/ \E h, s \in Session : RefuseToken(h, s)
  \/ \E u \in User, to \in {"active", "blocked", "deleted"} : Change(u, to)
  \/ RedisRestart
  \/ Tick
  \/ UNCHANGED vars

LEMMA WorldStep == World => UNCHANGED requests /\ UNCHANGED tokens
BY DEF World, RefuseToken, Change, RedisRestart, Tick, vars, requests, tokens

LEMMA Steps ==
  ASSUME [Next]_vars
  PROVE  World \/ \E r \in Req : Begin(r) \/ Running(r) \/ Abort(r)
BY DEF Next, World

\* The strengthening of LateRequestsRefused: before get_session has looked, the
\* session may be live only if it was when the request was sent.
LateInv ==
  \A r \in Req :
    \/ pc[r] \in {"extend", "load", "serve"} /\ fit[r]
    \/ pc[r] = "get" /\ (Live(sid[r]) => fit[r])
    \/ pc[r] \notin {"get", "extend", "load", "serve"}

LEMMA NextLate ==
  ASSUME TypeInv, LateInv, [Next]_vars
  PROVE  LateInv'
<1> SUFFICES ASSUME NEW q \in Req
             PROVE  \/ pc'[q] \in {"extend", "load", "serve"} /\ fit'[q]
                    \/ pc'[q] = "get" /\ (now' < deadline'[sid'[q]] => fit'[q])
                    \/ pc'[q] \notin {"get", "extend", "load", "serve"}
  BY DEF LateInv, Live
<1>1. ASSUME pc'[q] = pc[q], Kept(q)
      PROVE  \/ pc'[q] \in {"extend", "load", "serve"} /\ fit'[q]
             \/ pc'[q] = "get" /\ (now' < deadline'[sid'[q]] => fit'[q])
             \/ pc'[q] \notin {"get", "extend", "load", "serve"}
  <2>1. CASE pc[q] = "get"
    <3>1. PICK s \in Session : s = sid[q] /\ born[s] # 0
      BY <2>1 DEF TypeInv, RequestShape
    <3>2. now' < deadline'[s] => Live(s)
      BY <3>1, NoRevival DEF Live
    <3> QED
      BY <1>1, <2>1, <3>1, <3>2 DEF Kept, LateInv
  <2> QED
    BY <1>1, <2>1 DEF Kept, LateInv
<1>2. CASE World
  BY <1>1, <1>2, WorldStep DEF requests, Kept
<1>3. ASSUME NEW r \in Req, Begin(r) \/ Running(r) \/ Abort(r), r # q
      PROVE  pc'[q] = pc[q] /\ Kept(q)
  BY <1>3, OthersKept
<1>4. CASE Begin(q)
  BY <1>4, BeginStep DEF Live, redis
<1>5. CASE Reads(q)
  BY <1>5, ReadStep DEF LateInv, Kept, TypeInv, RequestShape
<1>6. CASE StoreSession(q)
  BY <1>6 DEF StoreSession, TypeInv, TypeOK, RequestType
<1>7. CASE IssueTokens(q) \/ IssueAccess(q) \/ DeleteSession(q)
  BY <1>7 DEF IssueTokens, IssueAccess, DeleteSession, Answer, TypeInv, TypeOK, RequestType
<1>8. CASE ExtendSession(q)
  BY <1>8 DEF ExtendSession, At, Goto, LateInv, TypeInv, TypeOK, RequestType
<1> QED
  BY <1>1, <1>2, <1>3, <1>4, <1>5, <1>6, <1>7, <1>8, Steps, RequestSteps

\* A request is served only if its session was live when it was sent: nothing
\* that logs out, expires, extends or loses sessions meanwhile changes that.
THEOREM LateRefused == Spec => []LateRequestsRefused
<1>1. Init => LateInv
  BY DEF Init, LateInv
<1>2. TypeInv /\ LateInv /\ [Next]_vars => LateInv'
  BY NextLate
<1>3. LateInv => LateRequestsRefused
  BY DEF LateInv, LateRequestsRefused
<1> QED
  BY <1>1, <1>2, <1>3, Typed, PTL DEF Spec
-----------------------------------------------------------------------------
(* Time *)

\* No request runs longer than Latency.
RunInv ==
  \A r \in Req : pc[r] # "idle" => begun[r] <= now /\ now <= begun[r] + Latency

\* How late a token of a session can be signed and an EXPIRE reach its key, as
\* far as the login that stored it determines that.
LifeSession(s) ==
  born[s] # 0 =>
    /\ born[s] <= now
    /\ refresh[s] <= born[s] + Refresh + Latency
    /\ access[s] <= born[s] + Refresh + Access + 2 * Latency - 1
    /\ deadline[s] <= born[s] + MaxLife

LifeRequest(r) ==
  /\ pc[r] = "sign" => begun[r] <= born[sid[r]]
  /\ pc[r] \in {"get", "load", "serve"} /\ op[r] = "refresh" =>
       begun[r] < born[sid[r]] + Refresh + Latency
  /\ pc[r] \in {"get", "extend"} /\ op[r] = "use" =>
       begun[r] < born[sid[r]] + Refresh + Access + 2 * Latency - 1

LifeInv == RunInv /\ (\A s \in Session : LifeSession(s))
                  /\ (\A r \in Req : LifeRequest(r))

\* The same as far as the end of its account's active time determines it.
Barred(u) == standing[u] # "active"

BarredSession(s) ==
  /\ access[s] <= now + Access
  /\ deadline[s] <= now + Access
  /\ born[s] # 0 /\ Barred(account[s]) =>
       /\ access[s] <= barredAt[account[s]] + Access + Latency
       /\ deadline[s] <= barredAt[account[s]] + 2 * Access + 2 * Latency - 1

BarredRequest(r) ==
  /\ pc[r] \in {"store", "sign"} /\ Barred(user[r]) => begun[r] <= barredAt[user[r]]
  /\ pc[r] = "sign" => account[sid[r]] = user[r]
  /\ pc[r] = "serve" /\ op[r] = "refresh" /\ Barred(account[sid[r]]) =>
       begun[r] <= barredAt[account[sid[r]]]
  /\ pc[r] \in {"get", "extend"} /\ op[r] = "use" /\ Barred(account[sid[r]]) =>
       begun[r] < barredAt[account[sid[r]]] + Access + Latency

BarredInv == RunInv /\ (\A s \in Session : BarredSession(s))
                    /\ (\A r \in Req : BarredRequest(r))

\* Steps of nobody's request only let time pass and keys disappear.
LEMMA WorldTime ==
  ASSUME TypeInv, World, NEW s \in Session
  PROVE  /\ now' \in Nat /\ now <= now'
         /\ deadline'[s] \in {0, deadline[s]}
         /\ access'[s] = access[s] /\ refresh'[s] = refresh[s]
         /\ born'[s] = born[s] /\ account'[s] = account[s]
<1> USE DEF TypeInv, TypeOK, StoreType, redis, tokens
<1>1. CASE \E h, t \in Session : RefuseToken(h, t)
  BY <1>1 DEF RefuseToken
<1>2. CASE \E u \in User, to \in {"active", "blocked", "deleted"} : Change(u, to)
  BY <1>2 DEF Change
<1>3. CASE RedisRestart
  BY <1>3 DEF RedisRestart
<1>4. CASE Tick
  BY <1>4 DEF Tick
<1>5. CASE UNCHANGED vars
  BY <1>5 DEF vars
<1> QED
  BY <1>1, <1>2, <1>3, <1>4, <1>5 DEF World

LEMMA NextRun ==
  ASSUME TypeInv, RunInv, [Next]_vars
  PROVE  RunInv'
<1> SUFFICES ASSUME NEW q \in Req, pc'[q] # "idle"
             PROVE  begun'[q] <= now' /\ now' <= begun'[q] + Latency
  BY DEF RunInv
<1> USE TimesAssumption DEF TypeInv, TypeOK, StoreType, RequestType
<1>1. ASSUME pc[q] # "idle", begun'[q] = begun[q], now' = now
      PROVE  begun'[q] <= now' /\ now' <= begun'[q] + Latency
  BY <1>1 DEF RunInv
<1>2. CASE Tick
  BY <1>2 DEF Tick, requests, RunInv
<1>3. CASE World /\ ~Tick
  BY <1>1, <1>3 DEF World, RefuseToken, Change, RedisRestart, requests, vars
<1>4. ASSUME NEW r \in Req, Begin(r) \/ Running(r) \/ Abort(r)
      PROVE  begun'[q] <= now' /\ now' <= begun'[q] + Latency
  <2>1. now' = now
    BY <1>4, BeginStep, ReadStep, RequestSteps
       DEF StoreSession, IssueTokens, ExtendSession, IssueAccess, DeleteSession
  <2>2. CASE r # q
    BY <1>1, <1>4, <2>1, <2>2, OthersKept DEF Kept
  <2>3. CASE r = q /\ Begin(q)
    BY <2>1, <2>3, BeginStep
  <2>4. CASE r = q /\ ~Begin(q)
    <3>1. pc[q] # "idle"
      BY <1>4, <2>4 DEF Running, LoginSelect, StoreSession, IssueTokens, GetSession,
         ExtendSession, LoadAccount, Respond, IssueAccess, DeleteSession, Abort, At
    <3>2. CASE Reads(q)
      BY <1>1, <2>1, <3>1, <3>2, ReadStep DEF Kept
    <3>3. CASE StoreSession(q) \/ ExtendSession(q)
      BY <1>1, <2>1, <3>1, <3>3 DEF StoreSession, ExtendSession, Goto
    <3>4. CASE IssueTokens(q) \/ IssueAccess(q) \/ DeleteSession(q)
      BY <3>4 DEF IssueTokens, IssueAccess, DeleteSession, Answer
    <3> QED
      BY <1>4, <2>4, <3>2, <3>3, <3>4, RequestSteps
  <2> QED
    BY <2>2, <2>3, <2>4
<1> QED
  BY <1>2, <1>3, <1>4, Steps

-----------------------------------------------------------------------------
(* The absolute lifetime of a session *)

LEMMA NextLifeSession ==
  ASSUME TypeInv, LifeInv, [Next]_vars, NEW s \in Session
  PROVE  LifeSession(s)'
<1> USE TimesAssumption DEF TypeInv, TypeOK, StoreType, RequestType
<1>0. LifeSession(s) /\ now \in Nat
  BY DEF LifeInv
<1>1. CASE World
  BY <1>0, <1>1, WorldTime DEF LifeSession, MaxLife
<1>2. ASSUME NEW r \in Req, Begin(r) \/ Running(r) \/ Abort(r)
      PROVE  LifeSession(s)'
  <2>0. LifeRequest(r)
    BY DEF LifeInv
  <2>1. ASSUME now' = now, UNCHANGED <<redis, tokens>> PROVE LifeSession(s)'
    BY <1>0, <2>1 DEF LifeSession, redis, tokens
  <2>2. CASE Begin(r) \/ Reads(r)
    BY <2>1, <2>2, BeginStep, ReadStep
  <2>3. CASE StoreSession(r)
    <3>1. PICK t \in Session :
            /\ born[t] = 0
            /\ deadline' = [deadline EXCEPT ![t] = now + Access]
            /\ born' = [born EXCEPT ![t] = now]
      BY <2>3 DEF StoreSession
    <3>2. now' = now /\ UNCHANGED tokens
      BY <2>3 DEF StoreSession
    <3>3. CASE s = t
      BY <3>1, <3>2, <3>3 DEF LifeSession, tokens, MaxLife, SessionShape
    <3>4. CASE s # t
      BY <1>0, <3>1, <3>2, <3>4 DEF LifeSession, tokens
    <3> QED
      BY <3>3, <3>4
  <2>4. CASE IssueTokens(r)
    <3>1. /\ now' = now /\ UNCHANGED redis
          /\ access' = [access EXCEPT ![sid[r]] = now + Access]
          /\ refresh' = [refresh EXCEPT ![sid[r]] = now + Refresh]
          /\ pc[r] = "sign" /\ sid[r] \in Session
      BY <2>4 DEF IssueTokens, At, RequestShape
    <3>2. now <= born[sid[r]] + Latency
      BY <2>0, <3>1 DEF LifeRequest, LifeInv, RunInv
    <3>3. CASE s = sid[r]
      BY <1>0, <3>1, <3>2, <3>3 DEF LifeSession, redis
    <3>4. CASE s # sid[r]
      BY <1>0, <3>1, <3>4 DEF LifeSession, redis
    <3> QED
      BY <3>3, <3>4
  <2>5. CASE ExtendSession(r)
    <3>1. /\ now' = now /\ UNCHANGED <<tokens, born>>
          /\ deadline' = [deadline EXCEPT ![sid[r]] = Extended(sid[r])]
          /\ pc[r] = "extend" /\ op[r] = "use" /\ sid[r] \in Session
      BY <2>5 DEF ExtendSession, At, RequestShape
    <3>2. now < born[sid[r]] + Refresh + Access + 3 * Latency - 1
      BY <2>0, <3>1 DEF LifeRequest, LifeInv, RunInv
    <3>3. CASE s = sid[r]
      BY <1>0, <3>1, <3>2, <3>3 DEF LifeSession, tokens, Extended, MaxLife
    <3>4. CASE s # sid[r]
      BY <1>0, <3>1, <3>4 DEF LifeSession, tokens
    <3> QED
      BY <3>3, <3>4
  <2>6. CASE IssueAccess(r)
    <3>1. /\ now' = now /\ UNCHANGED <<redis, refresh>>
          /\ access' = [access EXCEPT ![sid[r]] = now + Access]
          /\ pc[r] = "serve" /\ op[r] = "refresh" /\ sid[r] \in Session
      BY <2>6 DEF IssueAccess, At, RequestShape
    <3>2. now < born[sid[r]] + Refresh + 2 * Latency
      BY <2>0, <3>1 DEF LifeRequest, LifeInv, RunInv
    <3>3. CASE s = sid[r]
      BY <1>0, <3>1, <3>2, <3>3 DEF LifeSession, redis
    <3>4. CASE s # sid[r]
      BY <1>0, <3>1, <3>4 DEF LifeSession, redis
    <3> QED
      BY <3>3, <3>4
  <2>7. CASE DeleteSession(r)
    <3>1. now' = now /\ UNCHANGED <<tokens, born>> /\ deadline'[s] \in {0, deadline[s]}
      BY <2>7 DEF DeleteSession
    <3> QED
      BY <1>0, <3>1 DEF LifeSession, tokens, MaxLife
  <2> QED
    BY <1>2, <2>2, <2>3, <2>4, <2>5, <2>6, <2>7, RequestSteps
<1> QED
  BY <1>1, <1>2, Steps

LEMMA NextLifeRequest ==
  ASSUME TypeInv, LifeInv, [Next]_vars, NEW q \in Req
  PROVE  LifeRequest(q)'
<1> USE TimesAssumption DEF TypeInv, TypeOK, StoreType, RequestType
<1>0. LifeRequest(q) /\ now \in Nat
  BY DEF LifeInv
<1>1. ASSUME pc'[q] = pc[q], Kept(q) PROVE LifeRequest(q)'
  <2>1. CASE pc[q] \in {"sign", "get", "extend", "load", "serve"}
    <3>1. sid[q] \in Session /\ born[sid[q]] # 0
      BY <2>1 DEF RequestShape
    <3>2. born'[sid[q]] = born[sid[q]]
      BY <3>1, StoredKept
    <3> QED
      BY <1>0, <1>1, <3>2 DEF LifeRequest, Kept
  <2> QED
    BY <1>1, <2>1 DEF LifeRequest
<1>2. CASE World
  BY <1>1, <1>2, WorldStep DEF requests, Kept
<1>3. ASSUME NEW r \in Req, Begin(r) \/ Running(r) \/ Abort(r), r # q
      PROVE  LifeRequest(q)'
  BY <1>1, <1>3, OthersKept
<1>4. CASE Begin(q)
  <2>1. \A s \in Session : LifeSession(s)
    BY DEF LifeInv
  <2> QED
    BY <1>4, <2>1, BeginStep DEF LifeRequest, LifeSession, redis
<1>5. CASE Reads(q)
  BY <1>0, <1>5, ReadStep DEF LifeRequest, Kept, redis
<1>6. CASE StoreSession(q)
  <2>1. begun[q] <= now /\ pc'[q] = "sign" /\ begun'[q] = begun[q]
    BY <1>6 DEF StoreSession, At, LifeInv, RunInv
  <2>2. born'[sid'[q]] = now
    BY <1>6 DEF StoreSession
  <2> QED
    BY <2>1, <2>2 DEF LifeRequest
<1>7. CASE IssueTokens(q) \/ IssueAccess(q) \/ DeleteSession(q)
  BY <1>7 DEF IssueTokens, IssueAccess, DeleteSession, Answer, LifeRequest
<1>8. CASE ExtendSession(q)
  BY <1>8 DEF ExtendSession, Goto, LifeRequest, At, RequestShape
<1> QED
  BY <1>2, <1>3, <1>4, <1>5, <1>6, <1>7, <1>8, Steps, RequestSteps

\* However long a client goes on using and refreshing its session, and whatever
\* fails, the session is dead MaxLife after the login that stored it.
THEOREM Lifetimes == Spec => []AbsoluteLifetime
<1>1. Init => LifeInv
  BY DEF Init, LifeInv, RunInv, LifeSession, LifeRequest
<1>2. TypeInv /\ LifeInv /\ [Next]_vars => LifeInv'
  BY NextRun, NextLifeSession, NextLifeRequest DEF LifeInv
<1>3. TypeInv /\ LifeInv => AbsoluteLifetime
  BY TimesAssumption DEF TypeInv, TypeOK, StoreType, LifeInv, LifeSession,
     AbsoluteLifetime, Live, MaxLife
<1> QED
  BY <1>1, <1>2, <1>3, Typed, PTL DEF Spec
-----------------------------------------------------------------------------
(* The sessions of blocked and deleted accounts *)

\* A step changes nobody's standing, or is the commit of a block, an unblock or
\* a deletion.
LEMMA StandingKept ==
  ASSUME TypeInv, [Next]_vars,
         ~\E u \in User, to \in {"active", "blocked", "deleted"} : Change(u, to)
  PROVE  UNCHANGED accounts
<1>1. CASE World
  BY <1>1 DEF World, RefuseToken, RedisRestart, Tick, vars, accounts
<1>2. ASSUME NEW r \in Req, Begin(r) \/ Running(r) \/ Abort(r)
      PROVE  UNCHANGED accounts
  BY <1>2, BeginStep, ReadStep, RequestSteps
     DEF StoreSession, IssueTokens, ExtendSession, IssueAccess, DeleteSession, accounts
<1> QED
  BY <1>1, <1>2, Steps

\* After a Change an account that is barred was so before, at the same time, or
\* is barred from now on.
LEMMA ChangeStep ==
  ASSUME TypeInv, NEW u \in User, NEW to \in {"active", "blocked", "deleted"},
         Change(u, to), NEW v \in User, standing'[v] # "active"
  PROVE  \/ standing[v] # "active" /\ barredAt'[v] = barredAt[v]
         \/ barredAt'[v] = now
BY DEF Change, TypeInv, TypeOK, StoreType

LEMMA NextBarredSession ==
  ASSUME TypeInv, BarredInv, [Next]_vars, NEW s \in Session
  PROVE  BarredSession(s)'
<1> USE TimesAssumption DEF TypeInv, TypeOK, StoreType, RequestType, Barred
<1>0. BarredSession(s) /\ now \in Nat
  BY DEF BarredInv
<1>1. ASSUME NEW u \in User, NEW to \in {"active", "blocked", "deleted"}, Change(u, to)
      PROVE  BarredSession(s)'
  <2>1. now' = now /\ UNCHANGED <<redis, tokens>>
    BY <1>1 DEF Change
  <2>2. CASE born[s] # 0
    <3>1. account[s] \in User
      BY <2>2 DEF SessionShape
    <3> QED
      BY <1>0, <1>1, <2>1, <3>1, ChangeStep DEF BarredSession, redis, tokens
  <2>3. CASE born[s] = 0
    BY <1>0, <2>1, <2>3 DEF BarredSession, redis, tokens
  <2> QED
    BY <2>2, <2>3
<1>2. CASE World /\ UNCHANGED accounts
  <2>1. born[s] # 0 => account[s] \in User
    BY DEF SessionShape
  <2> QED
    BY <1>0, <1>2, <2>1, WorldTime DEF BarredSession, accounts
<1>3. ASSUME NEW r \in Req, Begin(r) \/ Running(r) \/ Abort(r), UNCHANGED accounts
      PROVE  BarredSession(s)'
  <2>0. BarredRequest(r) /\ standing' = standing /\ barredAt' = barredAt
    BY <1>3 DEF BarredInv, accounts
  <2>1. ASSUME now' = now, UNCHANGED <<redis, tokens>> PROVE BarredSession(s)'
    BY <1>0, <2>0, <2>1 DEF BarredSession, redis, tokens
  <2>2. CASE Begin(r) \/ Reads(r)
    BY <2>1, <2>2, BeginStep, ReadStep
  <2>3. CASE StoreSession(r)
    <3>1. PICK t \in Session :
            /\ born[t] = 0
            /\ deadline' = [deadline EXCEPT ![t] = now + Access]
            /\ account' = [account EXCEPT ![t] = user[r]]
            /\ born' = [born EXCEPT ![t] = now]
      BY <2>3 DEF StoreSession
    <3>2. now' = now /\ UNCHANGED tokens /\ pc[r] = "store"
      BY <2>3 DEF StoreSession, At
    <3>3. CASE s = t
      <4>1. access[s] = 0 /\ account'[s] = user[r]
        BY <3>1, <3>3 DEF SessionShape
      <4>2. Barred(user[r]) => now <= barredAt[user[r]] + Latency
        BY <2>0, <3>2 DEF BarredRequest, BarredInv, RunInv, RequestShape
      <4>3. user[r] \in User
        BY <3>2 DEF RequestShape
      <4> QED
        BY <2>0, <3>1, <3>2, <3>3, <4>1, <4>2, <4>3 DEF BarredSession, tokens
    <3>4. CASE s # t
      BY <1>0, <2>0, <3>1, <3>2, <3>4 DEF BarredSession, tokens
    <3> QED
      BY <3>3, <3>4
  <2>4. CASE IssueTokens(r) \/ IssueAccess(r)
    <3>1. /\ now' = now /\ UNCHANGED redis
          /\ access' = [access EXCEPT ![sid[r]] = now + Access]
          /\ pc[r] = "sign" \/ (pc[r] = "serve" /\ op[r] = "refresh")
          /\ sid[r] \in Session /\ born[sid[r]] # 0 /\ account[sid[r]] \in User
      BY <2>4 DEF IssueTokens, IssueAccess, At, RequestShape, SessionShape
    <3>2. Barred(account[sid[r]]) => now <= barredAt[account[sid[r]]] + Latency
      BY <2>0, <3>1 DEF BarredRequest, BarredInv, RunInv
    <3>3. CASE s = sid[r]
      BY <1>0, <2>0, <3>1, <3>2, <3>3 DEF BarredSession, redis
    <3>4. CASE s # sid[r]
      BY <1>0, <2>0, <3>1, <3>4 DEF BarredSession, redis
    <3> QED
      BY <3>3, <3>4
  <2>5. CASE ExtendSession(r)
    <3>1. /\ now' = now /\ UNCHANGED <<tokens, born, account>>
          /\ deadline' = [deadline EXCEPT ![sid[r]] = Extended(sid[r])]
          /\ pc[r] = "extend" /\ op[r] = "use" /\ sid[r] \in Session
          /\ born[sid[r]] # 0 /\ account[sid[r]] \in User
      BY <2>5 DEF ExtendSession, At, RequestShape, SessionShape
    <3>2. Barred(account[sid[r]]) =>
            now < barredAt[account[sid[r]]] + Access + 2 * Latency
      BY <2>0, <3>1 DEF BarredRequest, BarredInv, RunInv
    <3>3. CASE s = sid[r]
      BY <1>0, <2>0, <3>1, <3>2, <3>3 DEF BarredSession, tokens, Extended
    <3>4. CASE s # sid[r]
      BY <1>0, <2>0, <3>1, <3>4 DEF BarredSession, tokens
    <3> QED
      BY <3>3, <3>4
  <2>6. CASE DeleteSession(r)
    <3>1. now' = now /\ UNCHANGED <<tokens, born, account>>
          /\ deadline'[s] \in {0, deadline[s]}
      BY <2>6 DEF DeleteSession
    <3>2. born[s] # 0 => account[s] \in User
      BY DEF SessionShape
    <3> QED
      BY <1>0, <2>0, <3>1, <3>2 DEF BarredSession, tokens
  <2> QED
    BY <1>3, <2>2, <2>3, <2>4, <2>5, <2>6, RequestSteps
<1> QED
  BY <1>1, <1>2, <1>3, Steps, StandingKept

LEMMA NextBarredRequest ==
  ASSUME TypeInv, BarredInv, [Next]_vars, NEW q \in Req
  PROVE  BarredRequest(q)'
<1> USE TimesAssumption DEF TypeInv, TypeOK, StoreType, RequestType, Barred
<1>0. BarredRequest(q) /\ now \in Nat
  BY DEF BarredInv
<1>1. ASSUME pc'[q] = pc[q], Kept(q) PROVE BarredRequest(q)'
  <2>1. CASE pc[q] \in {"sign", "get", "extend", "serve"}
    <3>1. /\ sid[q] \in Session /\ born[sid[q]] # 0 /\ account[sid[q]] \in User
          /\ pc[q] = "sign" => user[q] \in User
      BY <2>1 DEF RequestShape, SessionShape
    <3>2. account'[sid[q]] = account[sid[q]]
      BY <3>1, StoredKept
    <3>3. CASE UNCHANGED accounts
      BY <1>0, <1>1, <3>2, <3>3 DEF BarredRequest, Kept, accounts
    <3>4. ASSUME NEW u \in User, NEW to \in {"active", "blocked", "deleted"},
                 Change(u, to)
          PROVE  BarredRequest(q)'
      <4>1. begun[q] <= now
        BY <2>1 DEF BarredInv, RunInv
      <4>2. /\ account[sid[q]] \in User /\ standing'[account[sid[q]]] # "active" =>
                 \/ /\ standing[account[sid[q]]] # "active"
                    /\ barredAt'[account[sid[q]]] = barredAt[account[sid[q]]]
                 \/ barredAt'[account[sid[q]]] = now
            /\ user[q] \in User /\ standing'[user[q]] # "active" =>
                 \/ standing[user[q]] # "active" /\ barredAt'[user[q]] = barredAt[user[q]]
                 \/ barredAt'[user[q]] = now
        BY <3>4, ChangeStep
      <4>3. CASE pc[q] = "sign"
        BY <1>0, <1>1, <3>1, <3>2, <4>1, <4>2, <4>3 DEF BarredRequest, Kept
      <4>4. CASE pc[q] = "serve"
        BY <1>0, <1>1, <3>1, <3>2, <4>1, <4>2, <4>4 DEF BarredRequest, Kept
      <4>5. CASE pc[q] \in {"get", "extend"}
        BY <1>0, <1>1, <3>1, <3>2, <4>1, <4>2, <4>5 DEF BarredRequest, Kept
      <4> QED
        BY <2>1, <4>3, <4>4, <4>5
    <3> QED
      BY <3>3, <3>4, StandingKept
  <2>2. CASE pc[q] = "store"
    <3>1. user[q] \in User
      BY <2>2 DEF RequestShape
    <3>3. CASE UNCHANGED accounts
      BY <1>0, <1>1, <2>2, <3>3 DEF BarredRequest, Kept, accounts
    <3>4. ASSUME NEW u \in User, NEW to \in {"active", "blocked", "deleted"},
                 Change(u, to)
          PROVE  BarredRequest(q)'
      <4>1. begun[q] <= now
        BY <2>2 DEF BarredInv, RunInv
      <4> QED
        BY <1>0, <1>1, <2>2, <3>1, <3>4, <4>1, ChangeStep DEF BarredRequest, Kept
    <3> QED
      BY <3>3, <3>4, StandingKept
  <2> QED
    BY <1>1, <2>1, <2>2 DEF BarredRequest
<1>2. CASE World
  BY <1>1, <1>2, WorldStep DEF requests, Kept
<1>3. ASSUME NEW r \in Req, Begin(r) \/ Running(r) \/ Abort(r), r # q
      PROVE  BarredRequest(q)'
  BY <1>1, <1>3, OthersKept
<1>4. CASE Begin(q)
  <2>1. \A s \in Session : BarredSession(s)
    BY DEF BarredInv
  <2>2. /\ born' = born /\ account' = account /\ begun'[q] = now
        /\ standing' = standing /\ barredAt' = barredAt
    BY <1>4, BeginStep DEF redis, accounts
  <2>3. CASE pc'[q] = "get" /\ op'[q] = "use"
    <3>1. PICK s \in Session : s = sid'[q] /\ born[s] # 0 /\ now < access[s]
      BY <1>4, <2>3, BeginStep
    <3>2. account[s] \in User /\ BarredSession(s)
      BY <2>1, <3>1 DEF SessionShape
    <3>3. Barred(account[s]) => now < barredAt[account[s]] + Access + Latency
      BY <3>1, <3>2 DEF BarredSession
    <3> QED
      BY <2>2, <2>3, <3>1, <3>3 DEF BarredRequest
  <2>4. CASE ~(pc'[q] = "get" /\ op'[q] = "use")
    BY <1>4, <2>4, BeginStep DEF BarredRequest
  <2> QED
    BY <2>3, <2>4
<1>5. CASE Reads(q)
  <2>1. pc[q] = "load" => begun[q] <= now
    BY DEF BarredInv, RunInv
  <2> QED
    BY <1>0, <1>5, ReadStep DEF BarredRequest, Kept, redis, accounts
<1>6. CASE StoreSession(q)
  <2>1. /\ pc[q] = "store" /\ pc'[q] = "sign" /\ begun'[q] = begun[q]
        /\ user'[q] = user[q] /\ standing' = standing /\ barredAt' = barredAt
    BY <1>6 DEF StoreSession, At, accounts
  <2>2. account'[sid'[q]] = user[q]
    BY <1>6 DEF StoreSession
  <2> QED
    BY <1>0, <2>1, <2>2 DEF BarredRequest
<1>7. CASE IssueTokens(q) \/ IssueAccess(q) \/ DeleteSession(q)
  BY <1>7 DEF IssueTokens, IssueAccess, DeleteSession, Answer, BarredRequest
<1>8. CASE ExtendSession(q)
  BY <1>8 DEF ExtendSession, Goto, BarredRequest, At
<1> QED
  BY <1>2, <1>3, <1>4, <1>5, <1>6, <1>7, <1>8, Steps, RequestSteps

\* The sessions of an account that is blocked or deleted die out, though its
\* refused requests still extend them.
THEOREM BarredDie == Spec => []BarredSessionDies
<1>1. Init => BarredInv
  BY TimesAssumption DEF Init, BarredInv, RunInv, BarredSession, BarredRequest, Barred
<1>2. TypeInv /\ BarredInv /\ [Next]_vars => BarredInv'
  BY NextRun, NextBarredSession, NextBarredRequest DEF BarredInv
<1>3. TypeInv /\ BarredInv => BarredSessionDies
  <2> SUFFICES ASSUME TypeInv, BarredInv, NEW s \in Session, born[s] # 0,
                      standing[account[s]] # "active", Live(s)
               PROVE  now < barredAt[account[s]] + 2 * Access + 2 * Latency - 1
    BY DEF BarredSessionDies
  <2>1. account[s] \in User
    BY DEF TypeInv, SessionShape
  <2>2. BarredSession(s)
    BY DEF BarredInv
  <2> QED
    BY <2>1, <2>2, TimesAssumption
       DEF TypeInv, TypeOK, StoreType, BarredSession, Barred, Live
<1> QED
  BY <1>1, <1>2, <1>3, Typed, PTL DEF Spec
-----------------------------------------------------------------------------
(* The contract *)

LEMMA InitContract == Init => Contract!Init
BY TimesAssumption DEF Init, Contract!Init, Phase, Asked, Fit, Served, Presents

\* The contract sees no change of a step in which sessions stay as live as they
\* were and requests stay where they are.
LEMMA PhaseKept ==
  ASSUME UNCHANGED born, \A s \in Session : born[s] # 0 => (Live(s)' <=> Live(s))
  PROVE  Phase' = Phase
BY DEF Phase

LEMMA ReadsKept ==
  ASSUME UNCHANGED <<now, redis>>
  PROVE  Phase' = Phase
BY PhaseKept DEF redis, Live

\* What the contract sees of a step of request r.
LEMMA RequestView ==
  ASSUME TypeInv, NEW r \in Req, Begin(r) \/ Running(r) \/ Abort(r)
  PROVE  /\ Asked' = [Asked EXCEPT ![r] = Asked'[r]]
         /\ Fit' = [Fit EXCEPT ![r] = Fit'[r]]
         /\ Served' = IF pc'[r] = "serve" THEN Served \cup {r} ELSE Served \ {r}
<1>1. \A q \in Req \ {r} : pc'[q] = pc[q] /\ Kept(q)
  BY OthersKept
<1>2. Asked' = [Asked EXCEPT ![r] = Asked'[r]]
  BY <1>1 DEF Asked, Presents, Kept
<1>3. Fit' = [Fit EXCEPT ![r] = Fit'[r]]
  BY <1>1 DEF Fit, Presents, Kept
<1>4. Served' = IF pc'[r] = "serve" THEN Served \cup {r} ELSE Served \ {r}
  BY <1>1 DEF Served
<1> QED
  BY <1>2, <1>3, <1>4

\* ... of one that ends it: the answer, if it presents a session.
LEMMA EndContract ==
  ASSUME TypeInv, NEW r \in Req, Running(r) \/ Abort(r), pc[r] # "idle",
         pc'[r] = "idle", op'[r] = "none", Phase' = Phase
  PROVE  [Contract!Next]_(Contract!contract)
<1>1. /\ Asked[r] = IF Presents(r) THEN sid[r] ELSE NoSession
      /\ Fit[r] = (Presents(r) /\ fit[r])
      /\ Asked'[r] = NoSession /\ Fit'[r] = FALSE
  BY DEF Asked, Fit, Presents
<1>2. Served' = Served \ {r}
  BY RequestView
<1>3. CASE Presents(r)
  <2>1. Asked[r] # NoSession
    BY <1>1, <1>3, SessionsAssumption DEF Presents, TypeInv, TypeOK, RequestType, Stage, RequestShape
  <2>2. Contract!Answer(r)
    BY <1>1, <1>2, <2>1, RequestView DEF Contract!Answer
  <2> QED
    BY <2>2 DEF Contract!Next
<1>4. CASE ~Presents(r)
  <2>1. Asked' = Asked /\ Fit' = Fit
    BY <1>1, <1>4, RequestView DEF Asked, Fit
  <2>2. r \notin Served
    BY <1>4 DEF Served, Presents, TypeInv, RequestShape
  <2> QED
    BY <1>2, <2>1, <2>2 DEF Contract!contract
<1> QED
  BY <1>3, <1>4

\* ... of one that moves it on and does not serve it.
LEMMA MoveContract ==
  ASSUME TypeInv, NEW r \in Req, Begin(r) \/ Running(r) \/ Abort(r),
         Presents(r) => sid'[r] = sid[r] /\ fit'[r] = fit[r],
         Presents(r)' <=> Presents(r), pc[r] # "serve", pc'[r] # "serve"
  PROVE  UNCHANGED <<Asked, Fit, Served>>
<1>1. Asked'[r] = Asked[r] /\ Fit'[r] = Fit[r]
  BY DEF Asked, Fit
<1>2. Asked' = Asked /\ Fit' = Fit
  BY <1>1, RequestView DEF Asked, Fit
<1>3. Served' = Served
  BY RequestView DEF Served
<1> QED
  BY <1>2, <1>3

LEMMA BeginContract ==
  ASSUME TypeInv, NEW r \in Req, Begin(r)
  PROVE  [Contract!Next]_(Contract!contract)
<1>1. Phase' = Phase
  BY BeginStep, ReadsKept
<1>2. pc[r] = "idle" /\ op[r] = "none"
  BY DEF Begin, BeginLogin, BeginUse, BeginLogout, BeginRefresh, Start, TypeInv,
     RequestShape
<1>3. CASE pc'[r] \in {"select", "delete"}
  <2>1. op'[r] \in {"login", "logout"}
    BY <1>3, BeginStep
  <2> QED
    BY <1>1, <1>2, <1>3, <2>1, MoveContract DEF Presents, Contract!contract
<1>4. CASE pc'[r] = "get"
  <2>1. PICK s \in Session :
          /\ s = sid'[r] /\ born[s] # 0 /\ fit'[r] = Live(s)
          /\ op'[r] \in {"use", "refresh"}
    BY <1>4, BeginStep
  <2>2. Asked[r] = NoSession /\ r \notin Served
    BY <1>2 DEF Asked, Presents, Served
  <2>3. Asked'[r] = s /\ Fit'[r] = Live(s)
    <3>1. Presents(r)'
      BY <2>1 DEF Presents
    <3>2. fit'[r] \in BOOLEAN
      BY BeginType DEF TypeInv, TypeOK, RequestType
    <3>3. Fit'[r] = (Presents(r)' /\ fit'[r])
      BY DEF Fit
    <3> QED
      BY <2>1, <3>1, <3>2, <3>3 DEF Asked
  <2>4. Phase[s] # "unborn" /\ (Phase[s] = "live" <=> Live(s))
    BY <2>1 DEF Phase
  <2>5. Served' = Served
    BY <1>4, <2>2, RequestView
  <2>6. Contract!Ask(r, s)
    BY <1>1, <2>2, <2>3, <2>4, <2>5, RequestView DEF Contract!Ask, Live
  <2> QED
    BY <2>6 DEF Contract!Next
<1> QED
  BY <1>3, <1>4, BeginStep

LEMMA ReadsContract ==
  ASSUME TypeInv, LateInv, NEW r \in Req, Reads(r)
  PROVE  [Contract!Next]_(Contract!contract)
<1>1. Phase' = Phase
  BY ReadStep, ReadsKept
<1>2. Running(r) \/ Abort(r)
  BY DEF Reads, Running
<1>3. CASE pc'[r] = "idle"
  <2>1. pc[r] # "idle" /\ op'[r] = "none"
    BY <1>3 DEF Reads, LoginSelect, GetSession, LoadAccount, Respond, Abort, At, Refuse,
       Answer, Goto, TypeInv, TypeOK, RequestType
  <2> QED
    BY <1>1, <1>2, <1>3, <2>1, EndContract
<1>4. CASE pc'[r] = "serve"
  <2>1. pc[r] = "load" /\ Kept(r)
    BY <1>4, ReadStep
  <2>2. Presents(r) /\ fit[r] /\ sid[r] \in Session
    BY <2>1 DEF TypeInv, RequestShape, LateInv, Presents
  <2>3. Asked[r] # NoSession /\ Fit[r] /\ Asked'[r] = Asked[r] /\ Fit'[r] = Fit[r]
    BY <2>1, <2>2, SessionsAssumption DEF Asked, Fit, Presents, Kept
  <2>4. Asked' = Asked /\ Fit' = Fit /\ Served' = Served \cup {r}
    BY <1>2, <1>4, <2>3, RequestView DEF Asked, Fit
  <2>5. Contract!Serve(r)
    BY <1>1, <2>3, <2>4 DEF Contract!Serve
  <2> QED
    BY <2>5 DEF Contract!Next
<1>5. CASE pc'[r] \notin {"idle", "serve"}
  <2>1. Kept(r) /\ pc[r] # "serve"
    BY <1>5, ReadStep
  <2> QED
    BY <1>1, <1>2, <1>5, <2>1, MoveContract DEF Kept, Presents, Contract!contract
<1> QED
  BY <1>3, <1>4, <1>5

\* Live sessions S end, and requests stay where they are.
LEMMA CloseContract ==
  ASSUME UNCHANGED born, UNCHANGED <<Asked, Fit, Served>>,
         \A s \in Session : born[s] # 0 /\ Live(s)' => Live(s)
  PROVE  [Contract!Next]_(Contract!contract)
<1> DEFINE S == {s \in Session : born[s] # 0 /\ Live(s) /\ ~Live(s)'}
<1>1. CASE S = {}
  <2>1. Phase' = Phase
    BY <1>1, PhaseKept
  <2> QED
    BY <2>1 DEF Contract!contract
<1>2. CASE S # {}
  <2>1. \A s \in S : Phase[s] = "live"
    BY DEF Phase
  <2>2. Phase' = [s \in Session |-> IF s \in S THEN "over" ELSE Phase[s]]
    BY DEF Phase
  <2>3. Contract!Close(S)
    BY <1>2, <2>1, <2>2 DEF Contract!Close
  <2> QED
    BY <2>3 DEF Contract!Next
<1> QED
  BY <1>1, <1>2

LEMMA StoreContract ==
  ASSUME TypeInv, NEW r \in Req, StoreSession(r)
  PROVE  [Contract!Next]_(Contract!contract)
<1> USE TimesAssumption DEF TypeInv, TypeOK, StoreType
<1>1. PICK s \in Session :
        /\ born[s] = 0
        /\ deadline' = [deadline EXCEPT ![s] = now + Access]
        /\ born' = [born EXCEPT ![s] = now]
  BY DEF StoreSession
<1>2. op'[r] = op[r] /\ op[r] = "login" /\ pc[r] = "store" /\ pc'[r] = "sign" /\ now' = now
  BY DEF StoreSession, At, RequestType
<1>3. UNCHANGED <<Asked, Fit, Served>>
  BY <1>2, MoveContract DEF Running, Presents
<1>4. Phase[s] = "unborn" /\ Phase' = [Phase EXCEPT ![s] = "live"]
  <2>1. born'[s] # 0 /\ Live(s)'
    BY <1>1, <1>2 DEF Live
  <2>2. \A t \in Session \ {s} : born'[t] = born[t] /\ (Live(t)' <=> Live(t))
    BY <1>1, <1>2 DEF Live
  <2> QED
    BY <1>1, <2>1, <2>2 DEF Phase
<1>5. Contract!Open(s)
  BY <1>3, <1>4 DEF Contract!Open
<1> QED
  BY <1>5 DEF Contract!Next

LEMMA IssueContract ==
  ASSUME TypeInv, NEW r \in Req, IssueTokens(r) \/ IssueAccess(r)
  PROVE  [Contract!Next]_(Contract!contract)
<1>1. /\ UNCHANGED <<now, redis>>
      /\ pc[r] # "idle" /\ pc'[r] = "idle" /\ op'[r] = "none"
  BY DEF IssueTokens, IssueAccess, At, Answer, TypeInv, TypeOK, RequestType, redis
<1> QED
  BY <1>1, ReadsKept, EndContract DEF Running

LEMMA ExtendContract ==
  ASSUME TypeInv, NEW r \in Req, ExtendSession(r)
  PROVE  [Contract!Next]_(Contract!contract)
<1>1. /\ now' = now /\ born' = born
      /\ deadline' = [deadline EXCEPT ![sid[r]] = Extended(sid[r])]
      /\ sid[r] \in Session /\ pc[r] = "extend" /\ pc'[r] = "load" /\ Kept(r)
  BY DEF ExtendSession, At, Goto, Kept, TypeInv, TypeOK, RequestType, RequestShape
<1>2. Phase' = Phase
  BY <1>1, ExtendedLive, PhaseKept DEF Live, TypeInv, TypeOK, StoreType
<1>3. UNCHANGED <<Asked, Fit, Served>>
  BY <1>1, MoveContract DEF Running, Kept, Presents
<1> QED
  BY <1>2, <1>3 DEF Contract!contract

LEMMA DeleteContract ==
  ASSUME TypeInv, NEW r \in Req, DeleteSession(r)
  PROVE  [Contract!Next]_(Contract!contract)
<1>1. /\ now' = now /\ born' = born
      /\ \A s \in Session : deadline'[s] \in {0, deadline[s]}
      /\ pc[r] = "delete" /\ op[r] = "logout" /\ pc'[r] = "idle" /\ op'[r] = "none"
  BY DEF DeleteSession, At, Answer, TypeInv, TypeOK, RequestType, StoreType
<1>2. UNCHANGED <<Asked, Fit, Served>>
  BY <1>1, MoveContract DEF Running, Presents
<1>3. \A s \in Session : Live(s)' => Live(s)
  BY <1>1 DEF Live, TypeInv, TypeOK, StoreType
<1> QED
  BY <1>1, <1>2, <1>3, CloseContract

LEMMA WorldContract ==
  ASSUME TypeInv, World
  PROVE  [Contract!Next]_(Contract!contract)
<1>1. UNCHANGED <<Asked, Fit, Served>>
  BY WorldStep DEF requests, Asked, Fit, Served, Presents
<1>2. UNCHANGED born
  BY DEF World, RefuseToken, Change, RedisRestart, Tick, vars, redis
<1>3. \A s \in Session : Live(s)' => Live(s)
  BY WorldTime DEF Live, TypeInv, TypeOK, StoreType
<1> QED
  BY <1>1, <1>2, <1>3, CloseContract

LEMMA NextContract ==
  ASSUME TypeInv, LateInv, [Next]_vars
  PROVE  [Contract!Next]_(Contract!contract)
BY Steps, RequestSteps, BeginContract, ReadsContract, StoreContract, IssueContract,
   ExtendContract, DeleteContract, WorldContract

\* Tokens, keys and clocks implement the contract of a session: it is opened
\* once, ends for good, and serves only requests sent while it was live.
THEOREM Implements == Spec => ImplementsContract
<1>1. Init => TypeInv /\ LateInv
  BY InitType DEF Init, LateInv
<1>2. TypeInv /\ LateInv /\ [Next]_vars => (TypeInv /\ LateInv)'
  BY NextType, NextLate
<1>3. TypeInv /\ LateInv /\ [Next]_vars => [Contract!Next]_(Contract!contract)
  BY NextContract
<1> QED
  BY <1>1, <1>2, <1>3, InitContract, PTL DEF Spec, ImplementsContract, Contract!Spec
=============================================================================
