-------------------------- MODULE AdminList_proofs --------------------------
(***************************************************************************)
(* Proofs about AdminList, for every set of processes, requests and        *)
(* accounts, and every time to live and latency.                           *)
(***************************************************************************)
EXTENDS AdminList, TLAPS

-----------------------------------------------------------------------------
(* The invariant *)

\* How long before now what q shows may have been read.
Lag(q) ==
  IF q.op = "admin" /\ q.at = "answer" THEN q.ran + Latency + TTL - 1 ELSE q.ran

\* Only the cached listing looks into the cache or stores.
Caches(q) == q.at \in {"look", "store"} => q.op = "admin"

\* A listing past "auth": its caller was admitted since it began, not blocked.
CallerFresh(q) ==
  q.at # "auth" /\ age[q.caller] > q.ran =>
    row[q.caller] = [is |-> "live", blocked |-> FALSE]

\* A listing that has its list: it shows the rows that have not changed since.
ListFresh(q) ==
  q.at \in {"store", "answer"} =>
    \A u \in User : age[u] > Lag(q) => q.list[u] = View(q.op, q.filter, u)

\* An entry was read at most Latency before it was stored.
EntryFresh(f, e) ==
  \A u \in User :
    e # Empty /\ age[u] > Latency + TTL - e.left => e.list[u] = View("admin", f, u)

\* What a listing with the filter f may show.
Meets(f, list) ==
  f # "any" => \A u \in User : \/ list[u] \in {"hidden", f}
                               \/ u \in Admins /\ list[u] = "free"

CachesInv == \A r \in Req : req[r].op \in Listings => Caches(req[r])
CallerInv == \A r \in Req : req[r].op \in Listings => CallerFresh(req[r])
ListInv == \A r \in Req : req[r].op \in Listings => ListFresh(req[r])
EntryInv == \A p \in Proc, f \in Filter : EntryFresh(f, cache[p][f])

FilterInv ==
  /\ \A r \in Req : req[r].op = "admin" =>
       req[r].caller \in Admins /\ Meets(req[r].filter, req[r].list)
  /\ \A p \in Proc, f \in Filter : Meets(f, cache[p][f].list)

Inv == TypeOK /\ CachesInv /\ CallerInv /\ ListInv /\ EntryInv /\ FilterInv

-----------------------------------------------------------------------------
(* Requests as records *)

\* What a request becomes in each kind of step.
LEMMA Fields ==
  ASSUME NEW q \in Listing
  PROVE  /\ q.op \in Listings /\ q.proc \in Proc /\ q.caller \in User
         /\ q.filter \in Filter /\ q.ran \in 0..Latency /\ q.list \in List
         /\ q.at \in {"auth", "look", "select", "store", "answer"}
         /\ q # Idle /\ q.op # "block"
BY DEF Listing, Idle, Listings

\* A listing that moves on, or that grows older.
LEMMA Moved ==
  ASSUME NEW q \in Listing, NEW t,
         NEW s \in {"auth", "look", "select", "store", "answer"},
         t = [q EXCEPT !.at = s]
  PROVE  /\ t \in Listing /\ t.op = q.op /\ t.proc = q.proc
         /\ t.caller = q.caller /\ t.filter = q.filter /\ t.ran = q.ran
         /\ t.list = q.list /\ t.at = s
BY DEF Listing

LEMMA Aged ==
  ASSUME NEW q \in Listing, NEW t, q.ran < Latency, t = [q EXCEPT !.ran = @ + 1]
  PROVE  /\ t \in Listing /\ t.op = q.op /\ t.proc = q.proc
         /\ t.caller = q.caller /\ t.filter = q.filter /\ t.ran = q.ran + 1
         /\ t.list = q.list /\ t.at = q.at
<1>1. q.ran + 1 \in 0..Latency
  BY TimesAssumption DEF Listing
<1> QED
  BY <1>1 DEF Listing

LEMMA BlockFields ==
  ASSUME NEW q \in Blocking
  PROVE  /\ q.op = "block" /\ q.proc \in Proc /\ q.target \in User
         /\ q.flag \in BOOLEAN /\ q.ran \in 0..Latency /\ q # Idle
         /\ q.op \notin Listings
BY DEF Blocking, Idle, Listings

LEMMA BlockMoved ==
  ASSUME NEW q \in Blocking, NEW t, NEW s \in {"commit", "scan", "answer"},
         t = [q EXCEPT !.at = s]
  PROVE  t \in Blocking
BY DEF Blocking

LEMMA BlockAged ==
  ASSUME NEW q \in Blocking, NEW t, q.ran < Latency, t = [q EXCEPT !.ran = @ + 1]
  PROVE  t \in Blocking
<1>1. q.ran + 1 \in 0..Latency
  BY TimesAssumption DEF Blocking
<1> QED
  BY <1>1 DEF Blocking

LEMMA Kinds ==
  ASSUME TypeOK, NEW r \in Req
  PROVE  /\ req[r].op \in Listings => req[r] \in Listing
         /\ req[r].op = "block" => req[r] \in Blocking
         /\ req[r] \in Listing \/ req[r] \in Blocking \/ req[r] = Idle
<1>1. req[r] \in Listing \cup Blocking \cup {Idle}
  BY DEF TypeOK, Request
<1>2. Idle.op = "none"
  BY DEF Idle
<1> QED
  BY <1>1, <1>2, Fields, BlockFields DEF Listings

LEMMA NoListType == NoList \in List /\ \A f \in Filter : Meets(f, NoList)
BY DEF NoList, List, Meets

LEMMA IdleFacts == Idle.op \notin Listings /\ Idle.op # "admin" /\ Idle \in Request
BY DEF Idle, Listings, Request

-----------------------------------------------------------------------------
LEMMA InitInv == Init => Inv
<1> SUFFICES ASSUME Init PROVE Inv
  OBVIOUS
<1>1. TypeOK
  BY TimesAssumption, NoListType, IdleFacts
  DEF Init, TypeOK, Horizon, Entry, Empty
<1>2. \A r \in Req : req[r] = Idle
  BY DEF Init
<1>3. CachesInv /\ CallerInv /\ ListInv
  BY <1>2, IdleFacts DEF CachesInv, CallerInv, ListInv
<1>4. \A p \in Proc, f \in Filter : cache[p][f] = Empty
  BY DEF Init
<1>5. EntryInv
  BY <1>4 DEF EntryInv, EntryFresh
<1>6. FilterInv
  BY <1>2, <1>4, IdleFacts, NoListType DEF FilterInv, Empty
<1> QED
  BY <1>1, <1>3, <1>5, <1>6 DEF Inv

\* One request becomes q while the rows stay as they are.
LEMMA OneRequest ==
  ASSUME Inv, NEW r \in Req, NEW q \in Request, req' = [req EXCEPT ![r] = q],
         UNCHANGED <<row, age>>,
         q.op \in Listings => Caches(q) /\ CallerFresh(q) /\ ListFresh(q),
         q.op = "admin" => q.caller \in Admins /\ Meets(q.filter, q.list)
  PROVE  /\ req' \in [Req -> Request]
         /\ CachesInv' /\ CallerInv' /\ ListInv'
         /\ \A p \in Req : req'[p].op = "admin" =>
              req'[p].caller \in Admins /\ Meets(req'[p].filter, req'[p].list)
<1>1. \A p \in Req : req'[p] = IF p = r THEN q ELSE req[p]
  BY DEF Inv, TypeOK
<1>2. req' \in [Req -> Request]
  BY DEF Inv, TypeOK
<1>3. ASSUME NEW p \in Req, req'[p].op \in Listings
      PROVE  Caches(req'[p]) /\ CallerFresh(req'[p]) /\ ListFresh(req'[p])
  BY <1>1, <1>3 DEF Inv, CachesInv, CallerInv, ListInv
<1>7. CachesInv'
  BY <1>3 DEF CachesInv, Caches
<1>4. CallerInv'
  BY <1>3 DEF CallerInv, CallerFresh
<1>5. ListInv'
  BY <1>3 DEF ListInv, ListFresh, Lag, View
<1>6. \A p \in Req : req'[p].op = "admin" =>
         req'[p].caller \in Admins /\ Meets(req'[p].filter, req'[p].list)
  BY <1>1 DEF Inv, FilterInv
<1> QED
  BY <1>2, <1>4, <1>5, <1>6, <1>7

\* ... and the cache stays as it is, too.
LEMMA OneRequestOnly ==
  ASSUME Inv, NEW r \in Req, NEW q \in Request, req' = [req EXCEPT ![r] = q],
         UNCHANGED <<row, cache, age>>,
         q.op \in Listings => Caches(q) /\ CallerFresh(q) /\ ListFresh(q),
         q.op = "admin" => q.caller \in Admins /\ Meets(q.filter, q.list)
  PROVE  Inv'
<1>1. TypeOK'
  BY OneRequest DEF Inv, TypeOK
<1>2. EntryInv'
  BY DEF Inv, EntryInv, EntryFresh, View
<1>3. FilterInv'
  BY OneRequest DEF Inv, FilterInv
<1> QED
  BY OneRequest, <1>1, <1>2, <1>3 DEF Inv

-----------------------------------------------------------------------------
(* The steps of a request *)

LEMMA BeginListingInv ==
  ASSUME Inv, NEW r \in Req, NEW op \in Listings, NEW p \in Proc, NEW u \in User,
         NEW f \in Filter, BeginListing(r, op, p, u, f)
  PROVE  Inv'
<1> DEFINE q == [op |-> op, proc |-> p, caller |-> u, filter |-> f, at |-> "auth",
                 ran |-> 0, list |-> NoList]
<1>1. q \in Request
  BY NoListType, TimesAssumption DEF Request, Listing
<1>2. Caches(q) /\ CallerFresh(q) /\ ListFresh(q)
  BY DEF Caches, CallerFresh, ListFresh
<1>3. q.op = "admin" => q.caller \in Admins /\ Meets(q.filter, q.list)
  BY NoListType DEF BeginListing
<1> HIDE DEF q
<1> QED
  BY <1>1, <1>2, <1>3, OneRequestOnly DEF BeginListing, q

LEMMA BeginBlockInv ==
  ASSUME Inv, NEW r \in Req, NEW p \in Proc, NEW u \in User, NEW flag \in BOOLEAN,
         BeginBlock(r, p, u, flag)
  PROVE  Inv'
<1> DEFINE q == [op |-> "block", proc |-> p, target |-> u, flag |-> flag,
                 loaded |-> row[u].blocked, at |-> "commit", ran |-> 0]
<1>0. row[u].blocked \in BOOLEAN
  BY DEF Inv, TypeOK, Row
<1>1. q \in Request
  BY <1>0, TimesAssumption DEF Request, Blocking
<1>2. q.op \notin Listings /\ q.op # "admin"
  BY DEF Listings
<1> HIDE DEF q
<1> QED
  BY <1>1, <1>2, OneRequestOnly DEF BeginBlock, q

LEMMA AdmitInv ==
  ASSUME Inv, NEW r \in Req, Admit(r)
  PROVE  Inv'
<1> DEFINE s == IF Cached(req[r].op) THEN "look" ELSE "select"
           q == [req[r] EXCEPT !.at = s]
<1>1. req[r] \in Listing
  BY Kinds DEF Inv, Admit
<1>a. s \in {"auth", "look", "select", "store", "answer"}
  OBVIOUS
<1>2. /\ q \in Listing /\ q.op = req[r].op /\ q.caller = req[r].caller
      /\ q.filter = req[r].filter /\ q.ran = req[r].ran /\ q.list = req[r].list
      /\ q.at = s
  BY <1>1, <1>a, Moved
<1>3. Caches(q) /\ CallerFresh(q) /\ ListFresh(q)
  BY <1>2 DEF Caches, Cached, CallerFresh, ListFresh, Admit
<1>4. q.op = "admin" => q.caller \in Admins /\ Meets(q.filter, q.list)
  BY <1>2 DEF Inv, FilterInv
<1>5. req' = [req EXCEPT ![r] = q]
  BY DEF Admit, Goto
<1>6. UNCHANGED <<row, cache, age>>
  BY DEF Admit
<1> HIDE DEF q, s
<1> QED
  BY <1>2, <1>3, <1>4, <1>5, <1>6, OneRequestOnly DEF Request

LEMMA HitInv ==
  ASSUME Inv, NEW r \in Req, Hit(r)
  PROVE  Inv'
<1> DEFINE e == Entered(r)
           q == [req[r] EXCEPT !.at = "answer", !.list = e.list]
<1>1. req[r] \in Listing /\ req[r].at = "look" /\ req[r].op = "admin"
  BY Kinds DEF Inv, Hit, CachesInv, Caches
<1>2. /\ e \in Entry
      /\ EntryFresh(req[r].filter, e) /\ Meets(req[r].filter, e.list)
  BY <1>1, Fields DEF Entered, Key, Inv, TypeOK, EntryInv, FilterInv, Hit
<1>3. e.list \in List /\ e.left \in 1..TTL /\ e # Empty
  BY <1>2 DEF Entry, Empty
<1>4. /\ q \in Listing /\ q.op = "admin" /\ q.caller = req[r].caller
      /\ q.filter = req[r].filter /\ q.ran = req[r].ran /\ q.list = e.list
      /\ q.at = "answer"
  BY <1>1, <1>3 DEF Listing
<1>5. req' = [req EXCEPT ![r] = q] /\ UNCHANGED <<row, cache, age>>
  BY DEF Hit
<1>6. req[r].ran \in 0..Latency /\ age \in [User -> 0..Horizon]
  BY <1>1, Fields DEF Inv, TypeOK
<1>7. CallerFresh(q) /\ Caches(q)
  BY <1>1, <1>4 DEF CallerFresh, Caches, Inv, CallerInv, Listings
<1> HIDE DEF e, q
<1>8. ListFresh(q)
  BY <1>2, <1>3, <1>4, <1>6, TimesAssumption
  DEF ListFresh, EntryFresh, Lag, Horizon
<1>9. q.caller \in Admins /\ Meets(q.filter, q.list)
  BY <1>1, <1>2, <1>4 DEF Inv, FilterInv
<1> QED
  BY <1>4, <1>5, <1>7, <1>8, <1>9, OneRequestOnly DEF Request

LEMMA MissInv ==
  ASSUME Inv, NEW r \in Req, Miss(r)
  PROVE  Inv'
<1> DEFINE q == [req[r] EXCEPT !.at = "select"]
<1>1. req[r] \in Listing /\ req[r].at = "look" /\ req[r].op = "admin"
  BY Kinds DEF Inv, Miss, CachesInv, Caches
<1>2. /\ q \in Listing /\ q.op = "admin" /\ q.caller = req[r].caller
      /\ q.filter = req[r].filter /\ q.ran = req[r].ran /\ q.list = req[r].list
      /\ q.at = "select"
  BY <1>1, Moved
<1>3. req' = [req EXCEPT ![r] = q] /\ UNCHANGED <<row, cache, age>>
  BY DEF Miss, Goto
<1>4. Caches(q) /\ CallerFresh(q) /\ ListFresh(q)
  BY <1>1, <1>2 DEF Caches, CallerFresh, ListFresh, Inv, CallerInv, Listings
<1>5. q.caller \in Admins /\ Meets(q.filter, q.list)
  BY <1>1, <1>2 DEF Inv, FilterInv
<1> HIDE DEF q
<1> QED
  BY <1>2, <1>3, <1>4, <1>5, OneRequestOnly DEF Request

\* A list made of the table, and of the caller's row as it was admitted.
LEMMA SelectInv ==
  ASSUME Inv, NEW r \in Req, Select(r)
  PROVE  Inv'
<1> DEFINE o == req[r]
           list == [u \in User |->
                     IF u = o.caller /\ View(o.op, o.filter, u) # "hidden"
                     THEN "free" ELSE View(o.op, o.filter, u)]
           s == IF Cached(o.op) THEN "store" ELSE "answer"
           q == [o EXCEPT !.at = s, !.list = list]
<1>1. o \in Listing /\ o.at = "select" /\ o.op \in Listings
  BY Kinds DEF Inv, Select
<1>2. /\ o.caller \in User /\ o.filter \in Filter /\ o.ran \in 0..Latency
  BY <1>1, Fields
<1>3. \A u \in User : View(o.op, o.filter, u) \in {"hidden", "free", "blocked"}
  BY DEF View, Shown
<1>4. list \in List /\ s \in {"auth", "look", "select", "store", "answer"}
  BY <1>3 DEF List
<1>5. req' = [req EXCEPT ![r] = q] /\ UNCHANGED <<row, cache, age>>
  BY DEF Select
<1>6. /\ q \in Listing /\ q.op = o.op /\ q.caller = o.caller
      /\ q.filter = o.filter /\ q.ran = o.ran /\ q.list = list /\ q.at = s
  BY <1>1, <1>4 DEF Listing
<1>7. \A u \in User : list[u] = IF u = o.caller /\ View(o.op, o.filter, u) # "hidden"
                                THEN "free" ELSE View(o.op, o.filter, u)
  OBVIOUS
<1>8. CallerFresh(o)
  BY <1>1 DEF Inv, CallerInv
<1>9. Lag(q) = o.ran
  BY <1>6 DEF Lag, Cached
<1> HIDE DEF o, list, s, q
<1>10. CallerFresh(q)
  BY <1>1, <1>6, <1>8 DEF CallerFresh
<1>11. Caches(q)
  BY <1>6 DEF Caches, s, Cached
<1>12. ListFresh(q)
  <2> SUFFICES ASSUME NEW u \in User, age[u] > o.ran
               PROVE  list[u] = View(q.op, q.filter, u)
    BY <1>9, <1>6 DEF ListFresh
  <2>1. CASE u # o.caller
    BY <2>1, <1>6, <1>7
  <2>2. CASE u = o.caller
    <3>1. Shown(row[u]) = "free"
      BY <2>2, <1>1, <1>8 DEF CallerFresh, Shown
    <3> QED
      BY <2>2, <3>1, <1>6, <1>7 DEF View
  <2> QED
    BY <2>1, <2>2
<1>13. ASSUME q.op = "admin" PROVE q.caller \in Admins /\ Meets(q.filter, q.list)
  <2>1. q.caller \in Admins
    BY <1>6, <1>13 DEF Inv, FilterInv, o
  <2>2. \A u \in User : o.filter # "any" => View(o.op, o.filter, u) \in {"hidden", o.filter}
    BY DEF View, Selects
  <2>3. Meets(q.filter, q.list)
    BY <2>1, <2>2, <1>6, <1>7 DEF Meets
  <2> QED
    BY <2>1, <2>3
<1> QED
  BY <1>5, <1>6, <1>10, <1>11, <1>12, <1>13, OneRequestOnly DEF Request

LEMMA StoreInv ==
  ASSUME Inv, NEW r \in Req, Store(r)
  PROVE  Inv'
<1> DEFINE o == req[r]
           e == [list |-> o.list, left |-> TTL]
           q == [o EXCEPT !.at = "answer"]
<1>1. o \in Listing /\ o.at = "store" /\ o.op = "admin"
  BY Kinds DEF Inv, Store, CachesInv, Caches
<1>2. /\ o.proc \in Proc /\ o.filter \in Filter /\ o.ran \in 0..Latency
      /\ o.list \in List
  BY <1>1, Fields
<1>3. /\ q \in Listing /\ q.op = "admin" /\ q.caller = o.caller
      /\ q.filter = o.filter /\ q.ran = o.ran /\ q.list = o.list
      /\ q.at = "answer"
  BY <1>1, Moved
<1>4. /\ req' = [req EXCEPT ![r] = q] /\ UNCHANGED <<row, age>>
      /\ cache' = [cache EXCEPT ![o.proc][o.filter] = e]
  BY DEF Store, Goto, Key, Expiry
<1>5. CallerFresh(o) /\ ListFresh(o) /\ o.caller \in Admins /\ Meets(o.filter, o.list)
  BY <1>1 DEF Inv, CallerInv, ListInv, FilterInv, Listings
<1>6. e \in Entry /\ e.list = o.list /\ e.left = TTL
  BY <1>2, TimesAssumption DEF Entry
<1>7. \A p \in Proc, f \in Filter :
        cache'[p][f] = IF p = o.proc /\ f = o.filter THEN e ELSE cache[p][f]
  BY <1>2, <1>4 DEF Inv, TypeOK
<1>8. cache' \in [Proc -> [Filter -> Entry \cup {Empty}]]
  BY <1>2, <1>4, <1>6 DEF Inv, TypeOK
<1>9. age \in [User -> 0..Horizon]
  BY DEF Inv, TypeOK
<1> HIDE DEF o, e, q
<1>10. Caches(q) /\ CallerFresh(q) /\ ListFresh(q)
  BY <1>1, <1>2, <1>3, <1>5, <1>9, TimesAssumption
  DEF Caches, CallerFresh, ListFresh, Lag, Horizon
<1>11. \A u \in User : age[u] > Latency => o.list[u] = View("admin", o.filter, u)
  BY <1>1, <1>2, <1>5, <1>9, TimesAssumption DEF ListFresh, Lag, Horizon
<1>12. /\ req' \in [Req -> Request]
       /\ CachesInv' /\ CallerInv' /\ ListInv'
       /\ \A p \in Req : req'[p].op = "admin" =>
            req'[p].caller \in Admins /\ Meets(req'[p].filter, req'[p].list)
  BY <1>3, <1>4, <1>5, <1>10, OneRequest DEF Request
<1>13. TypeOK'
  BY <1>4, <1>8, <1>12 DEF Inv, TypeOK
<1>14. ASSUME NEW p \in Proc, NEW f \in Filter, NEW u \in User,
              cache'[p][f] # Empty, age[u] > Latency + TTL - cache'[p][f].left
       PROVE  cache'[p][f].list[u] = View("admin", f, u)
  <2>1. CASE p = o.proc /\ f = o.filter
    BY <2>1, <1>6, <1>7, <1>9, <1>11, <1>14, TimesAssumption DEF Horizon
  <2>2. CASE ~(p = o.proc /\ f = o.filter)
    BY <2>2, <1>7, <1>14 DEF Inv, EntryInv, EntryFresh
  <2> QED
    BY <2>1, <2>2
<1>15. EntryInv'
  BY <1>4, <1>14 DEF EntryInv, EntryFresh, View
<1>16. \A p \in Proc, f \in Filter : Meets(f, cache'[p][f].list)
  BY <1>5, <1>6, <1>7 DEF Inv, FilterInv
<1> QED
  BY <1>12, <1>13, <1>15, <1>16 DEF Inv, FilterInv

\* A request that is over.
LEMMA EndInv ==
  ASSUME Inv, NEW r \in Req, End(r), UNCHANGED <<row, cache, age>>
  PROVE  Inv'
BY IdleFacts, OneRequestOnly DEF End

LEMMA ScanInv ==
  ASSUME Inv, NEW r \in Req, Scan(r)
  PROVE  Inv'
<1> DEFINE q == [req[r] EXCEPT !.at = "answer"]
<1>1. q \in Blocking
  BY Kinds, BlockMoved DEF Inv, Scan
<1>2. q.op \notin Listings /\ q.op # "admin"
  BY <1>1, BlockFields DEF Listings
<1>3. req' = [req EXCEPT ![r] = q] /\ UNCHANGED <<row, cache, age>>
  BY DEF Scan, Goto
<1> HIDE DEF q
<1> QED
  BY <1>1, <1>2, <1>3, OneRequestOnly DEF Request

-----------------------------------------------------------------------------
(* The other steps *)

\* One row changes: nothing is said any more of what lists show of it.
LEMMA ChangeInv ==
  ASSUME Inv, NEW u \in User, NEW w \in Row, Change(u, w), UNCHANGED cache,
         req' \in [Req -> Request],
         \A r \in Req : req'[r] = req[r] \/ req'[r] \in Blocking
  PROVE  Inv'
<1>1. /\ \A v \in User : v # u => row'[v] = row[v] /\ age'[v] = age[v]
      /\ age'[u] = 0
  BY DEF Inv, TypeOK, Change
<1>2. TypeOK'
  BY TimesAssumption DEF Inv, TypeOK, Change, Horizon
<1>3. ASSUME NEW r \in Req, req'[r].op \in Listings
      PROVE  req'[r] = req[r] /\ req[r] \in Listing
  BY <1>3, Kinds, BlockFields DEF Inv
<1>4. CachesInv'
  BY <1>3 DEF Inv, CachesInv, Caches
<1>5. CallerInv'
  <2> SUFFICES ASSUME NEW r \in Req, req'[r].op \in Listings, req[r].at # "auth",
                      age'[req[r].caller] > req[r].ran
               PROVE  row'[req[r].caller] = [is |-> "live", blocked |-> FALSE]
    BY <1>3 DEF CallerInv, CallerFresh
  <2>1. req[r].caller \in User /\ req[r].ran \in 0..Latency /\ req'[r] = req[r]
    BY <1>3, Fields
  <2>2. req[r].caller # u
    BY <1>1, <2>1, TimesAssumption
  <2> QED
    BY <1>1, <2>1, <2>2 DEF Inv, CallerInv, CallerFresh
<1>6. ListInv'
  <2> SUFFICES ASSUME NEW r \in Req, req'[r].op \in Listings, NEW v \in User,
                      req[r].at \in {"store", "answer"}, age'[v] > Lag(req[r])
               PROVE  req[r].list[v] = View(req[r].op, req[r].filter, v)'
    BY <1>3 DEF ListInv, ListFresh, Lag, View
  <2>1. req[r].ran \in 0..Latency /\ req'[r] = req[r]
    BY <1>3, Fields
  <2>2. Lag(req[r]) >= 0
    BY <2>1, TimesAssumption DEF Lag
  <2>3. v # u
    BY <1>1, <2>1, <2>2, TimesAssumption DEF Lag
  <2> QED
    BY <1>1, <2>1, <2>3 DEF Inv, ListInv, ListFresh, View
<1>7. EntryInv'
  <2> SUFFICES ASSUME NEW p \in Proc, NEW f \in Filter, NEW v \in User,
                      cache[p][f] # Empty, age'[v] > Latency + TTL - cache[p][f].left
               PROVE  cache[p][f].list[v] = View("admin", f, v)'
    BY DEF EntryInv, EntryFresh
  <2>1. cache[p][f].left \in 0..TTL
    BY TimesAssumption DEF Inv, TypeOK, Entry, Empty
  <2>2. v # u
    BY <1>1, <2>1, TimesAssumption
  <2> QED
    BY <1>1, <2>2 DEF Inv, EntryInv, EntryFresh, View
<1>8. FilterInv'
  BY <1>3 DEF Inv, FilterInv, Listings
<1> QED
  BY <1>2, <1>4, <1>5, <1>6, <1>7, <1>8 DEF Inv

LEMMA BlockCommitInv ==
  ASSUME Inv, NEW r \in Req, BlockCommit(r)
  PROVE  Inv'
<1> DEFINE q == [req[r] EXCEPT !.at = "scan"]
           u == req[r].target
           w == Written(req[r])
<1>1. req[r] \in Blocking
  BY Kinds DEF Inv, BlockCommit
<1>2. q \in Blocking
  BY <1>1, BlockMoved
<1>3. u \in User /\ w \in Row
  BY <1>1, BlockFields DEF Inv, TypeOK, Row, Written
<1>4. req' = [req EXCEPT ![r] = q] /\ Change(u, w) /\ UNCHANGED cache
  BY DEF BlockCommit, Goto
<1> HIDE DEF q, u, w
<1>5. /\ req' \in [Req -> Request]
      /\ \A p \in Req : req'[p] = req[p] \/ req'[p] \in Blocking
  BY <1>2, <1>4 DEF Inv, TypeOK, Request
<1> QED
  BY <1>3, <1>4, <1>5, ChangeInv

LEMMA RegisterInv ==
  ASSUME Inv, NEW u \in User, Register(u)
  PROVE  Inv'
<1>1. [is |-> "live", blocked |-> FALSE] \in Row
  BY DEF Row
<1> QED
  BY <1>1, ChangeInv DEF Register, Inv, TypeOK

LEMMA SoftDeleteInv ==
  ASSUME Inv, NEW u \in User, SoftDelete(u)
  PROVE  Inv'
<1>1. [row[u] EXCEPT !.is = "deleted"] \in Row
  BY DEF Row, Inv, TypeOK
<1> QED
  BY <1>1, ChangeInv DEF SoftDelete, Inv, TypeOK

\* Requests end and entries go: what is left is as it was.
LEMMA RestartInv ==
  ASSUME Inv, NEW p \in Proc, Restart(p)
  PROVE  Inv'
<1>1. \A r \in Req : req'[r] \in {Idle, req[r]}
  BY DEF Restart
<1>2. \A s \in Proc, f \in Filter : cache'[s][f] \in {Empty, cache[s][f]}
  BY DEF Restart, Inv, TypeOK
<1>3. \A f \in Filter : Meets(f, Empty.list)
  BY NoListType DEF Empty
<1>4. TypeOK'
  BY <1>3, IdleFacts DEF Restart, Inv, TypeOK
<1>5. CachesInv' /\ CallerInv' /\ ListInv'
  BY <1>1, IdleFacts
  DEF Restart, Inv, CachesInv, Caches, CallerInv, CallerFresh, ListInv, ListFresh,
      Lag, View
<1>6. EntryInv'
  BY <1>2 DEF Restart, Inv, EntryInv, EntryFresh, View
<1>7. FilterInv'
  BY <1>1, <1>2, <1>3, IdleFacts DEF Inv, FilterInv
<1> QED
  BY <1>4, <1>5, <1>6, <1>7 DEF Inv

\* Everything grows older by one.
LEMMA TickInv ==
  ASSUME Inv, Tick
  PROVE  Inv'
<1>1. row' = row /\ age \in [User -> 0..Horizon]
  BY DEF Tick, Inv, TypeOK
<1>2. \A u \in User :
        age'[u] = IF age[u] < Horizon THEN age[u] + 1 ELSE Horizon
  BY DEF Tick
<1>3. ASSUME NEW r \in Req, req[r] \in Listing
      PROVE  /\ req'[r] \in Listing /\ req'[r].op = req[r].op
             /\ req'[r].caller = req[r].caller /\ req'[r].filter = req[r].filter
             /\ req'[r].ran = req[r].ran + 1 /\ req'[r].list = req[r].list
             /\ req'[r].at = req[r].at
  <2>1. req[r] # Idle /\ req[r].ran < Latency
    BY <1>3, Fields DEF Tick
  <2>2. req'[r] = [req[r] EXCEPT !.ran = @ + 1]
    BY <2>1 DEF Tick
  <2> QED
    BY <1>3, <2>1, <2>2, Aged
<1>4. ASSUME NEW r \in Req, req[r] \in Blocking
      PROVE  req'[r] \in Blocking
  <2>1. req[r] # Idle /\ req[r].ran < Latency
    BY <1>4, BlockFields DEF Tick
  <2>2. req'[r] = [req[r] EXCEPT !.ran = @ + 1]
    BY <2>1 DEF Tick
  <2> QED
    BY <1>4, <2>1, <2>2, BlockAged
<1>5. \A r \in Req : req[r] = Idle => req'[r] = Idle
  BY DEF Tick
<1>6. \A r \in Req : req'[r] \in Request
  BY <1>3, <1>4, <1>5, Kinds DEF Inv, Request
<1>7. ASSUME NEW r \in Req, req'[r].op \in Listings
      PROVE  req[r] \in Listing /\ req[r].op \in Listings
  BY <1>3, <1>4, <1>5, <1>7, Kinds, Fields, BlockFields, IdleFacts DEF Inv
<1>8. ASSUME NEW p \in Proc, NEW f \in Filter
      PROVE  \/ cache'[p][f] = Empty
             \/ /\ cache'[p][f].list = cache[p][f].list
                /\ cache'[p][f].left = cache[p][f].left - 1
                /\ cache'[p][f] \in Entry /\ cache[p][f] \in Entry
  <2>1. \/ cache[p][f] \in Entry /\ cache[p][f].left \in 1..TTL
        \/ cache[p][f] = Empty /\ cache[p][f].left = 0
    BY DEF Inv, TypeOK, Entry, Empty
  <2>2. cache'[p][f] = IF cache[p][f].left > 1
                       THEN [cache[p][f] EXCEPT !.left = @ - 1] ELSE Empty
    BY DEF Tick
  <2>3. cache[p][f].left > 1 => cache[p][f].left - 1 \in 1..TTL /\ cache[p][f] \in Entry
    BY <2>1, TimesAssumption
  <2> QED
    BY <2>1, <2>2, <2>3 DEF Entry
<1>9. \A f \in Filter : Meets(f, Empty.list)
  BY NoListType DEF Empty
<1>10. TypeOK'
  <2>1. req' \in [Req -> Request]
    BY <1>6 DEF Tick
  <2>2. cache' \in [Proc -> [Filter -> Entry \cup {Empty}]]
    BY <1>8 DEF Tick
  <2>3. age' \in [User -> 0..Horizon]
    BY <1>1, TimesAssumption DEF Tick, Horizon
  <2> QED
    BY <2>1, <2>2, <2>3, <1>1 DEF Inv, TypeOK
<1>11. CachesInv'
  BY <1>3, <1>7 DEF Inv, CachesInv, Caches
<1>12. CallerInv'
  <2> SUFFICES ASSUME NEW r \in Req, req'[r].op \in Listings, req[r].at # "auth",
                      age'[req[r].caller] > req[r].ran + 1
               PROVE  row[req[r].caller] = [is |-> "live", blocked |-> FALSE]
    BY <1>1, <1>3, <1>7 DEF CallerInv, CallerFresh
  <2>1. /\ req[r].caller \in User /\ req[r].ran \in 0..Latency
        /\ req[r].op \in Listings
    BY <1>7, Fields
  <2>2. age[req[r].caller] > req[r].ran
    BY <1>1, <1>2, <2>1, TimesAssumption DEF Horizon
  <2> QED
    BY <2>1, <2>2 DEF Inv, CallerInv, CallerFresh
<1>13. ListInv'
  <2> SUFFICES ASSUME NEW r \in Req, req'[r].op \in Listings, NEW u \in User,
                      req[r].at \in {"store", "answer"}, age'[u] > Lag(req[r]) + 1
               PROVE  req[r].list[u] = View(req[r].op, req[r].filter, u)
    <3>1. ASSUME NEW r \in Req, req'[r].op \in Listings
          PROVE  Lag(req'[r]) = Lag(req[r]) + 1
      BY <1>3, <1>7, <3>1, Fields, TimesAssumption DEF Lag
    <3> QED
      BY <1>1, <1>3, <1>7, <3>1 DEF ListInv, ListFresh, Lag, View
  <2>1. req[r].ran \in 0..Latency /\ req[r].op \in Listings
    BY <1>7, Fields
  <2>2. req'[r].ran \in 0..Latency /\ req'[r].ran = req[r].ran + 1
    BY <1>3, <1>7, Fields
  <2>3. age[u] > Lag(req[r])
    BY <1>1, <1>2, <2>1, <2>2, TimesAssumption DEF Horizon, Lag
  <2> QED
    BY <2>1, <2>3 DEF Inv, ListInv, ListFresh
<1>14. EntryInv'
  <2> SUFFICES ASSUME NEW p \in Proc, NEW f \in Filter, NEW u \in User,
                      cache'[p][f] # Empty,
                      age'[u] > Latency + TTL - cache'[p][f].left
               PROVE  cache'[p][f].list[u] = View("admin", f, u)
    BY <1>1 DEF EntryInv, EntryFresh, View
  <2>1. /\ cache'[p][f].list = cache[p][f].list
        /\ cache'[p][f].left = cache[p][f].left - 1
        /\ cache'[p][f] \in Entry /\ cache[p][f] \in Entry
    BY <1>8
  <2>2. /\ cache[p][f].left \in 1..TTL /\ cache'[p][f].left \in 1..TTL
        /\ cache[p][f] # Empty
    BY <2>1 DEF Entry, Empty
  <2>3. age[u] > Latency + TTL - cache[p][f].left
    BY <1>1, <1>2, <2>1, <2>2, TimesAssumption DEF Horizon
  <2> QED
    BY <2>1, <2>2, <2>3 DEF Inv, EntryInv, EntryFresh
<1>15. FilterInv'
  <2>1. \A p \in Proc, f \in Filter : Meets(f, cache'[p][f].list)
    BY <1>8, <1>9 DEF Inv, FilterInv
  <2>2. \A r \in Req : req'[r].op = "admin" =>
          req'[r].caller \in Admins /\ Meets(req'[r].filter, req'[r].list)
    BY <1>3, <1>7 DEF Inv, FilterInv, Listings
  <2> QED
    BY <2>1, <2>2 DEF FilterInv
<1> QED
  BY <1>10, <1>11, <1>12, <1>13, <1>14, <1>15 DEF Inv

LEMMA NextInv == Inv /\ [Next]_vars => Inv'
<1> SUFFICES ASSUME Inv, [Next]_vars PROVE Inv'
  OBVIOUS
<1>1. CASE UNCHANGED vars
  BY <1>1 DEF vars, Inv, TypeOK, CachesInv, CallerInv, ListInv, EntryInv, FilterInv,
     CallerFresh, ListFresh, Lag, EntryFresh, View
<1>2. ASSUME NEW r \in Req, Begin(r) PROVE Inv'
  <2>1. \A p \in Proc, u \in User :
          /\ \A op \in Listings, f \in Filter : BeginListing(r, op, p, u, f) => Inv'
          /\ \A flag \in BOOLEAN : BeginBlock(r, p, u, flag) => Inv'
    BY BeginListingInv, BeginBlockInv
  <2> QED
    BY <1>2, <2>1 DEF Begin
<1>3. ASSUME NEW r \in Req, Running(r) PROVE Inv'
  <2>1. CASE Respond(r)
    BY <2>1, EndInv DEF Respond
  <2> QED
    BY <1>3, <2>1, AdmitInv, HitInv, MissInv, SelectInv, StoreInv, BlockCommitInv,
       ScanInv DEF Running
<1>4. ASSUME NEW r \in Req, Abort(r) PROVE Inv'
  BY <1>4, EndInv DEF Abort
<1>5. ASSUME NEW u \in User, Register(u) \/ SoftDelete(u) PROVE Inv'
  BY <1>5, RegisterInv, SoftDeleteInv
<1>6. ASSUME NEW p \in Proc, Restart(p) PROVE Inv'
  BY <1>6, RestartInv
<1>7. CASE Tick
  BY <1>7, TickInv
<1> QED
  BY <1>1, <1>2, <1>3, <1>4, <1>5, <1>6, <1>7 DEF Next

LEMMA Invariance == Spec => []Inv
<1>1. Init => Inv
  BY InitInv
<1>2. Inv /\ [Next]_vars => Inv'
  BY NextInv
<1> QED
  BY <1>1, <1>2, PTL DEF Spec

-----------------------------------------------------------------------------
(* What follows *)

\* Every variable has its type, for any processes, requests and accounts.
THEOREM TypesHold == Spec => []TypeOK
<1>1. Inv => TypeOK
  BY DEF Inv
<1> QED
  BY <1>1, Invariance, PTL

\* A listing of list_users_admin is at most TTL and twice the latency behind the
\* table, however fills, hits, blocks, failures and restarts interleave.
THEOREM CatchUp == Spec => []ListsCatchUp
<1>1. Inv => ListsCatchUp
  <2> SUFFICES ASSUME Inv, NEW r \in Req, NEW u \in User, Answers(r, "admin"),
                      age[u] = Horizon
               PROVE  Current(r, u)
    BY DEF ListsCatchUp
  <2>1. req[r].op \in Listings /\ req[r].op = "admin" /\ req[r].at = "answer"
    BY DEF Answers, Listings
  <2>2. req[r].ran \in 0..Latency
    BY <2>1, Kinds, Fields DEF Inv
  <2>3. age[u] > Lag(req[r])
    BY <2>1, <2>2, TimesAssumption DEF Lag, Horizon
  <2> QED
    BY <2>1, <2>3 DEF Inv, ListInv, ListFresh, Current
<1> QED
  BY <1>1, Invariance, PTL

\* Entries of different filters are never mixed up.
THEOREM FiltersMet == Spec => []ListsMeetFilter
<1>1. Inv => ListsMeetFilter
  BY DEF Inv, FilterInv, Meets, ListsMeetFilter, Answers
<1> QED
  BY <1>1, Invariance, PTL

\* The listings without a cache are as old as their request at most.
THEOREM UncachedCurrent == Spec => []UncachedListsCurrent
<1>1. Inv => UncachedListsCurrent
  BY DEF Inv, ListInv, ListFresh, Lag, UncachedListsCurrent, Answers, Listings, Current
<1> QED
  BY <1>1, Invariance, PTL
=============================================================================
