----------------------------- MODULE AdminList -----------------------------
(***************************************************************************)
(* The listings of accounts, and the cache in front of one of them.        *)
(*                                                                         *)
(* list_users_admin is decorated with aiocache's @cached, which without an *)
(* alias keeps its entries in the memory of the process, whatever main.py  *)
(* configures as the default cache.  A block commits and then scans Redis  *)
(* for keys to delete, where this decorator never puts any: what a listing *)
(* shows is bounded by the time to live of the entries alone.  The steps   *)
(* of a request are its reads of the row of its caller, of the cache and   *)
(* of the table, and its store into the cache.                             *)
(***************************************************************************)
EXTENDS Integers

CONSTANTS
  Proc,         \* processes that serve requests, each with a cache of its own
  Req,          \* requests in flight
  User,         \* accounts, those still to be registered included
  Admins,       \* accounts whose role is Role.ADMIN
  NullBalance,  \* admins whose balance is NULL
  Calls,        \* the operations clients call in this instance
  Filters,      \* the values of the filter is_blocked they ask with
  TTL,          \* ttl=60 of @cached
  Latency       \* no request runs longer than this

ASSUME AdminsAssumption ==
  /\ Admins \subseteq User
  /\ NullBalance \subseteq Admins

ASSUME TimesAssumption ==
  /\ TTL \in Nat \ {0}
  /\ Latency \in Nat \ {0}

VARIABLES
  row,    \* of each account: whether it is there, and its is_blocked
  cache,  \* the entries of each process by key, with the time each has left
  req,    \* what each request is, where it stands and how long it has run
  age     \* history: for how long the row has not changed, up to Horizon

vars == <<row, cache, req, age>>

-----------------------------------------------------------------------------
(* Rows, lists and requests *)

Row == [is : {"absent", "live", "deleted"}, blocked : BOOLEAN]

\* The value of the filter is_blocked: None, True or False.
Filter == {"any", "blocked", "free"}

\* GET /admin/users, GET /users/ and GET /admin/users/deleted.
Listings == {"admin", "public", "everyone"}

\* What a listing shows of each account: its state, or that it is not in it.
List == [User -> {"hidden", "free", "blocked"}]
NoList == [u \in User |-> "hidden"]

Shown(w) == IF w.blocked THEN "blocked" ELSE "free"

\* The WHERE clauses of get_users and get_admin_user_list.
Selects(op, filter, w) ==
  /\ w.is = "live" \/ (op = "everyone" /\ w.is = "deleted")
  /\ filter \in {"any", Shown(w)}

\* How the account should appear in a listing made now.
View(op, filter, u) ==
  IF Selects(op, filter, row[u]) THEN Shown(row[u]) ELSE "hidden"

Listing == [op : Listings, proc : Proc, caller : User, filter : Filter,
            at : {"auth", "look", "select", "store", "answer"}, ran : 0..Latency,
            list : List]
Blocking == [op : {"block"}, proc : Proc, target : User, flag : BOOLEAN,
             loaded : BOOLEAN, at : {"commit", "scan", "answer"},
             ran : 0..Latency]
Idle == [op |-> "none"]
Request == Listing \cup Blocking \cup {Idle}

\* From this age on, every listing must show the row as it is.
Horizon == TTL + 2 * Latency

Entry == [list : List, left : 1..TTL]
Empty == [list |-> NoList, left |-> 0]

\* Mutant of Key: "if v" instead of "if v is not None", which drops False.
KeyOfTruthy(filter) == IF filter = "free" THEN "any" ELSE filter

\* build_admin_list_key: the parameters that are given, and nobody's identity.
Key(filter) == filter

\* Mutant of Cached: the decorator is put on every listing.
CachedAll(op) == TRUE

Cached(op) == op = "admin"

\* Mutant of Expiry: the entries live twice as long as they should.
LongExpiry == 2 * TTL

Expiry == TTL

-----------------------------------------------------------------------------
Init ==
  /\ row \in [User -> Row]
  /\ \A u \in User :
       row[u].is = "absent" => ~row[u].blocked /\ u \notin Admins
  /\ cache = [p \in Proc |-> [f \in Filter |-> Empty]]
  /\ req = [r \in Req |-> Idle]
  /\ age = [u \in User |-> 0]

Goto(r, stage) == req' = [req EXCEPT ![r].at = stage]

End(r) == req' = [req EXCEPT ![r] = Idle]

\* A client asks for a listing; /admin/users/deleted takes no filter.  As no
\* handler writes role, those whom get_current_admin turns away are not followed.
BeginListing(r, op, p, u, f) ==
  /\ req[r] = Idle
  /\ op \in Calls
  /\ row[u].is # "absent"
  /\ op # "public" => u \in Admins
  /\ IF op = "everyone" THEN f = "any" ELSE f \in Filters
  /\ req' = [req EXCEPT ![r] =
              [op |-> op, proc |-> p, caller |-> u, filter |-> f, at |-> "auth",
               ran |-> 0, list |-> NoList]]
  /\ UNCHANGED <<row, cache, age>>

\* An admin has been admitted to block another account, and the row of its
\* target loaded: Accounts has the details.
BeginBlock(r, p, u, flag) ==
  /\ req[r] = Idle
  /\ "block" \in Calls
  /\ row[u].is = "live"
  /\ \E a \in Admins \ {u} : row[a] = [is |-> "live", blocked |-> FALSE]
  /\ req' = [req EXCEPT ![r] =
              [op |-> "block", proc |-> p, target |-> u, flag |-> flag,
               loaded |-> row[u].blocked, at |-> "commit", ran |-> 0]]
  /\ UNCHANGED <<row, cache, age>>

\* get_current_user_obj admits the caller, and leaves its row in the identity
\* map of the AsyncSession.
Admit(r) ==
  /\ req[r].op \in Listings /\ req[r].at = "auth"
  /\ row[req[r].caller] = [is |-> "live", blocked |-> FALSE]
  /\ Goto(r, IF Cached(req[r].op) THEN "look" ELSE "select")
  /\ UNCHANGED <<row, cache, age>>

\* The entry of the request's question in its own process.
Entered(r) == cache[req[r].proc][Key(req[r].filter)]

\* Mutant of Hit: a hit renews the time to live of the entry.
HitRenews(r) ==
  /\ req[r].op \in Listings /\ req[r].at = "look"
  /\ Entered(r) # Empty
  /\ req' = [req EXCEPT ![r].at = "answer", ![r].list = Entered(r).list]
  /\ cache' = [cache EXCEPT ![req[r].proc][Key(req[r].filter)].left = Expiry]
  /\ UNCHANGED <<row, age>>

Hit(r) ==
  /\ req[r].op \in Listings /\ req[r].at = "look"
  /\ Entered(r) # Empty
  /\ req' = [req EXCEPT ![r].at = "answer", ![r].list = Entered(r).list]
  /\ UNCHANGED <<row, cache, age>>

Miss(r) ==
  /\ req[r].op \in Listings /\ req[r].at = "look"
  /\ Entered(r) = Empty
  /\ Goto(r, "select")
  /\ UNCHANGED <<row, cache, age>>

\* The SELECT.  If the caller is among its rows, the object in the identity map
\* is returned for it: as it was admitted, not blocked.
Select(r) ==
  /\ req[r].op \in Listings /\ req[r].at = "select"
  /\ LET q == req[r]
         list == [u \in User |->
                   IF u = q.caller /\ View(q.op, q.filter, u) # "hidden"
                   THEN "free" ELSE View(q.op, q.filter, u)]
     IN  req' = [req EXCEPT
                  ![r].at = IF Cached(q.op) THEN "store" ELSE "answer",
                  ![r].list = list]
  /\ UNCHANGED <<row, cache, age>>

\* The entry is stored whatever happened since the SELECT, over a later one too.
Store(r) ==
  /\ req[r].op \in Listings /\ req[r].at = "store"
  /\ cache' = [cache EXCEPT ![req[r].proc][Key(req[r].filter)] =
                [list |-> req[r].list, left |-> Expiry]]
  /\ Goto(r, "answer")
  /\ UNCHANGED <<row, age>>

\* UserBase.balance is an int: one NULL fails the whole public listing (500).
Serializable(r) ==
  req[r].op = "public" => \A u \in NullBalance : req[r].list[u] = "hidden"

Respond(r) ==
  /\ req[r] # Idle /\ req[r].at = "answer"
  /\ Serializable(r)
  /\ End(r)
  /\ UNCHANGED <<row, cache, age>>

-----------------------------------------------------------------------------
(* Changes of the table *)

Change(u, w) ==
  /\ row' = [row EXCEPT ![u] = w]
  /\ age' = [age EXCEPT ![u] = 0]

\* is_blocked is in the UPDATE if it differs from what was loaded.
Written(q) ==
  IF q.flag # q.loaded THEN [row[q.target] EXCEPT !.blocked = q.flag]
                       ELSE row[q.target]

BlockCommit(r) ==
  /\ req[r].op = "block" /\ req[r].at = "commit"
  /\ Change(req[r].target, Written(req[r]))
  /\ Goto(r, "scan")
  /\ UNCHANGED cache

\* invalidate_admin_cache finds nothing to delete in Redis, or fails, which
\* update_block_status logs and forgets.
Scan(r) ==
  /\ req[r].op = "block" /\ req[r].at = "scan"
  /\ Goto(r, "answer")
  /\ UNCHANGED <<row, cache, age>>

\* register_user and soft_delete_user, in any process, invalidate nothing.
Register(u) ==
  /\ "register" \in Calls
  /\ row[u].is = "absent"
  /\ u \notin Admins
  /\ Change(u, [is |-> "live", blocked |-> FALSE])
  /\ UNCHANGED <<cache, req>>

SoftDelete(u) ==
  /\ "delete" \in Calls
  /\ row[u].is = "live"
  /\ Change(u, [row[u] EXCEPT !.is = "deleted"])
  /\ UNCHANGED <<cache, req>>

-----------------------------------------------------------------------------
(* Failures and time *)

\* A refusal, a failure of a store, or a client that went away.
Abort(r) ==
  /\ req[r] # Idle
  /\ End(r)
  /\ UNCHANGED <<row, cache, age>>

\* The process dies with its cache and its requests, and starts again.
Restart(p) ==
  /\ cache' = [cache EXCEPT ![p] = [f \in Filter |-> Empty]]
  /\ req' = [r \in Req |-> IF req[r] # Idle /\ req[r].proc = p THEN Idle ELSE req[r]]
  /\ UNCHANGED <<row, age>>

\* Time passes; call_later deletes the entries whose time to live is over.
Tick ==
  /\ \A r \in Req : req[r] # Idle => req[r].ran < Latency
  /\ req' = [r \in Req |->
              IF req[r] = Idle THEN Idle ELSE [req[r] EXCEPT !.ran = @ + 1]]
  /\ cache' = [p \in Proc |-> [f \in Filter |->
                IF cache[p][f].left > 1
                THEN [cache[p][f] EXCEPT !.left = @ - 1] ELSE Empty]]
  /\ age' = [u \in User |-> IF age[u] < Horizon THEN age[u] + 1 ELSE Horizon]
  /\ UNCHANGED row

Running(r) ==
  \/ Admit(r) \/ Hit(r) \/ Miss(r) \/ Select(r) \/ Store(r)
  \/ BlockCommit(r) \/ Scan(r) \/ Respond(r)

Begin(r) ==
  \E p \in Proc, u \in User :
    \/ \E op \in Listings, f \in Filter : BeginListing(r, op, p, u, f)
    \/ \E flag \in BOOLEAN : BeginBlock(r, p, u, flag)

Next ==
  \/ \E r \in Req : Begin(r) \/ Running(r) \/ Abort(r)
  \/ \E u \in User : Register(u) \/ SoftDelete(u)
  \/ \E p \in Proc : Restart(p)
  \/ Tick

Spec == Init /\ [][Next]_vars

-----------------------------------------------------------------------------
(* What should hold *)

\* Every variable has its type, and no entry outlives its time.
TypeOK ==
  /\ row \in [User -> Row]
  /\ cache \in [Proc -> [Filter -> Entry \cup {Empty}]]
  /\ req \in [Req -> Request]
  /\ age \in [User -> 0..Horizon]

\* r is about to answer a listing of this kind.
Answers(r, op) == req[r].op = op /\ req[r].at = "answer"

\* It shows the account as a listing made now would.
Current(r, u) == req[r].list[u] = View(req[r].op, req[r].filter, u)

\* list_users_admin: although nothing ever removes an entry but its 60 seconds,
\* and a slow request may store what it read long before, a change of an account
\* is in every listing answered TTL and twice the latency after it.
ListsCatchUp ==
  \A r \in Req, u \in User :
    Answers(r, "admin") /\ age[u] = Horizon => Current(r, u)

\* build_admin_list_key: a listing with a filter is never answered with the
\* entry of another one.  An admin blocked since it was admitted to make the
\* entry is in it as it was, not blocked, whatever the filter.
ListsMeetFilter ==
  \A r \in Req, u \in User :
    Answers(r, "admin") /\ req[r].filter # "any" =>
      \/ req[r].list[u] \in {"hidden", req[r].filter}
      \/ u \in Admins /\ req[r].list[u] = "free"

\* get_users and get_deleted_users: a listing without a cache shows every change
\* made before the request began, its caller's own row included.
UncachedListsCurrent ==
  \A r \in Req, u \in User :
    /\ Answers(r, "public") \/ Answers(r, "everyone")
    /\ age[u] > req[r].ran
    => Current(r, u)

-----------------------------------------------------------------------------
(* What the repository says and the code does not do: it has a run in which    *)
(* TLC finds the counterexample.                                               *)

\* utils/redis_client.py:86 "This ensures that when a user is blocked or
\* registered, the admin list is refreshed": once a block has invalidated the
\* cache and is about to be answered, no entry shows the account as it was.
RefreshedOnBlock ==
  \A r \in Req : Answers(r, "block") =>
    \A p \in Proc, f \in Filter :
      \/ cache[p][Key(f)] = Empty
      \/ cache[p][Key(f)].list[req[r].target] = View("admin", f, req[r].target)

=============================================================================
