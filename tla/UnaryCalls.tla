------------------------------ MODULE UnaryCalls ------------------------------
(***************************************************************************)
(* What Client::request promises to its callers, whichever client          *)
(* implements it: a call is made once and ends at most once; it succeeds   *)
(* only with an answer the peer gave to this very call, after the call was *)
(* made; every other end is an error. The asynchronous and the synchronous *)
(* client are both shown to implement this specification.                  *)
(***************************************************************************)
CONSTANT Calls

VARIABLES call,      \* what the caller of each call knows of it
          produced   \* calls the peer has answered

callVars == <<call, produced>>

CallState == {"idle", "pending", "ok", "failed"}

CallInit == call = [c \in Calls |-> "idle"] /\ produced = {}

(* request() is called ...                                                   *)
Invoke(c) ==
  /\ call[c] = "idle"
  /\ call' = [call EXCEPT ![c] = "pending"]
  /\ UNCHANGED produced

(* ... the peer answers it ...                                               *)
Produce(c) ==
  /\ call[c] # "idle"
  /\ produced' = produced \cup {c}
  /\ UNCHANGED call

(* ... and the answer is returned, ...                                       *)
Succeed(c) ==
  /\ call[c] = "pending" /\ c \in produced
  /\ call' = [call EXCEPT ![c] = "ok"]
  /\ UNCHANGED produced

(* ... or an error: refused locally, no connection, timeout, bad answer.     *)
Fail(c) ==
  /\ call[c] \in {"idle", "pending"}
  /\ call' = [call EXCEPT ![c] = "failed"]
  /\ UNCHANGED produced

CallNext == \E c \in Calls : Invoke(c) \/ Produce(c) \/ Succeed(c) \/ Fail(c)

(* No call is served with the answer of another, none is answered before it  *)
(* was made, and what a caller has been told never changes.                  *)
CallSpec == CallInit /\ [][CallNext]_callVars
=============================================================================
