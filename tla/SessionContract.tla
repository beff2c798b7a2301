-------------------------- MODULE SessionContract --------------------------
(***************************************************************************)
(* What a session promises to the client that holds its tokens, whatever   *)
(* Redis, the tokens and the clock do: it is opened once, it ends for      *)
(* good, and a request that was sent after it ended is never served.       *)
(***************************************************************************)
CONSTANTS Session, Req, NoSession

VARIABLES
  phase,   \* unborn, live or over, by session
  asked,   \* the session a request presents, while it runs
  fit,     \* whether that session was live when the request was sent
  served   \* the requests that passed every check

contract == <<phase, asked, fit, served>>

Init ==
  /\ phase = [s \in Session |-> "unborn"]
  /\ asked = [r \in Req |-> NoSession]
  /\ fit = [r \in Req |-> FALSE]
  /\ served = {}

Open(s) ==
  /\ phase[s] = "unborn"
  /\ phase' = [phase EXCEPT ![s] = "live"]
  /\ UNCHANGED <<asked, fit, served>>

\* Sessions end: by a logout, by their time to live, with the store.
Close(S) ==
  /\ S # {}
  /\ \A s \in S : phase[s] = "live"
  /\ phase' = [s \in Session |-> IF s \in S THEN "over" ELSE phase[s]]
  /\ UNCHANGED <<asked, fit, served>>

Ask(r, s) ==
  /\ asked[r] = NoSession
  /\ phase[s] # "unborn"
  /\ asked' = [asked EXCEPT ![r] = s]
  /\ fit' = [fit EXCEPT ![r] = phase[s] = "live"]
  /\ UNCHANGED <<phase, served>>

Serve(r) ==
  /\ asked[r] # NoSession
  /\ fit[r]
  /\ served' = served \cup {r}
  /\ UNCHANGED <<phase, asked, fit>>

\* The client has its answer, a refusal or a failure if r was not served.
Answer(r) ==
  /\ asked[r] # NoSession
  /\ asked' = [asked EXCEPT ![r] = NoSession]
  /\ fit' = [fit EXCEPT ![r] = FALSE]
  /\ served' = served \ {r}
  /\ UNCHANGED phase

Next ==
  \/ \E s \in Session : Open(s)
  \/ \E S \in SUBSET Session : Close(S)
  \/ \E r \in Req : Serve(r) \/ Answer(r) \/ \E s \in Session : Ask(r, s)

Spec == Init /\ [][Next]_contract
=============================================================================
