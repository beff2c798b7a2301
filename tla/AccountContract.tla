-------------------------- MODULE AccountContract --------------------------
(***************************************************************************)
(* What an account promises to its owner, whatever rows, locks and copies  *)
(* of rows there are behind it: every operation takes effect at once, on   *)
(* the account as it then is, and only if the account then allows it.      *)
(* The promise ends for an account that two requests have open together.   *)
(***************************************************************************)
EXTENDS Integers

CONSTANTS UserId, Password, NameColumn, Bonus

VARIABLE account

Absent == [standing |-> "absent"]
Shared == [standing |-> "shared"]

Init ==
  \E seeded \in SUBSET UserId, pw \in [UserId -> Password],
     names \in [UserId -> SUBSET NameColumn] :
    account = [u \in UserId |->
                IF u \in seeded
                THEN [standing |-> "active", balance |-> 0, pw |-> pw[u],
                      names |-> names[u]]
                ELSE Absent]

Becomes(u, a) == account' = [account EXCEPT ![u] = a]

Register(u) ==
  /\ account[u] = Absent
  /\ \E p \in Password :
       Becomes(u, [standing |-> "active", balance |-> 0, pw |-> p, names |-> {}])

LogIn(u) ==
  /\ account[u].standing = "active"
  /\ Becomes(u, [account[u] EXCEPT !.balance = @ + Bonus])

\* Money is paid to whoever has told both names, from what is there.
Withdraw(u) ==
  /\ account[u].standing = "active"
  /\ account[u].names = NameColumn
  /\ \E n \in 1..account[u].balance :
       Becomes(u, [account[u] EXCEPT !.balance = @ - n])

ChangePassword(u) ==
  /\ account[u].standing = "active"
  /\ \E p \in Password : Becomes(u, [account[u] EXCEPT !.pw = p])

\* Names are given, and replaced, but never taken back.
GiveNames(u) ==
  /\ account[u].standing = "active"
  /\ \E names \in SUBSET NameColumn :
       Becomes(u, [account[u] EXCEPT !.names = @ \cup names])

\* An admin blocks or unblocks the account.
SetBlocked(u) ==
  /\ account[u].standing \in {"active", "blocked"}
  /\ \E s \in {"active", "blocked"} : Becomes(u, [account[u] EXCEPT !.standing = s])

\* Final: a deleted account allows nothing.
Delete(u) ==
  /\ account[u].standing = "active"
  /\ Becomes(u, [account[u] EXCEPT !.standing = "deleted"])

Share(u) == account[u] # Absent /\ Becomes(u, Shared)

Next ==
  \E u \in UserId :
    \/ Register(u) \/ LogIn(u) \/ Withdraw(u) \/ ChangePassword(u)
    \/ GiveNames(u) \/ SetBlocked(u) \/ Delete(u) \/ Share(u)

Spec == Init /\ [][Next]_account
=============================================================================
