---------------------------- MODULE ShutdownPromise ----------------------------
(***************************************************************************)
(* What the shutdown notifier promises to the servers and connections that *)
(* use it: each call takes effect at one moment. A shutdown, once asked    *)
(* for, is never taken back; wait_shutdown() returns only after it; and    *)
(* wait_all_exit() returns Ok only at a moment at which no handle exists.  *)
(* Shutdown, with its atomics and notifications, implements this.          *)
(***************************************************************************)
CONSTANTS Handle, First, Caller

VARIABLES requested,   \* has shutdown() been called?
          waiter,      \* what each Waiter handle is doing
          caller       \* what each task that shares the Notifier is doing

promiseVars == <<requested, waiter, caller>>

Existing == {h \in Handle : waiter[h] \in {"idle", "waiting", "returned"}}

PromiseInit ==
  /\ requested = FALSE
  /\ waiter = [h \in Handle |-> IF h = First THEN "idle" ELSE "none"]
  /\ caller = [c \in Caller |-> "idle"]

WaiterMoves(h, from, to) ==
  /\ waiter[h] \in from
  /\ waiter' = [waiter EXCEPT ![h] = to]
  /\ UNCHANGED <<requested, caller>>

CallerMoves(c, from, to) ==
  /\ caller[c] \in from
  /\ caller' = [caller EXCEPT ![c] = to]
  /\ UNCHANGED waiter

(* A handle is made once, waits any number of times, and is dropped once.    *)
Make(h) == WaiterMoves(h, {"none"}, "idle")
Wait(h) == WaiterMoves(h, {"idle", "returned"}, "waiting")
Return(h) == requested /\ WaiterMoves(h, {"waiting"}, "returned")
Cancel(h) == WaiterMoves(h, {"waiting"}, "idle")
Release(h) == WaiterMoves(h, {"idle", "returned"}, "gone")

Ready == {"idle", "ok", "elapsed"}
Request(c) == CallerMoves(c, Ready, "idle") /\ requested' = TRUE
Join(c) == CallerMoves(c, Ready, "waiting") /\ UNCHANGED requested
Joined(c) == Existing = {} /\ CallerMoves(c, {"waiting"}, "ok") /\ UNCHANGED requested
GiveUp(c) == CallerMoves(c, {"waiting"}, "elapsed") /\ UNCHANGED requested

PromiseNext ==
  \/ \E h \in Handle : Make(h) \/ Wait(h) \/ Return(h) \/ Cancel(h) \/ Release(h)
  \/ \E c \in Caller : Request(c) \/ Join(c) \/ Joined(c) \/ GiveUp(c)

PromiseSpec == PromiseInit /\ [][PromiseNext]_promiseVars
=============================================================================
