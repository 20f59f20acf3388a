------------------------------- MODULE Shutdown -------------------------------
(***************************************************************************)
(* The cooperative shutdown primitive of asynchronous/shutdown.rs: one     *)
(* Notifier and its counted Waiter handles, built on an AtomicBool, an     *)
(* AtomicUsize and two tokio Notify objects.                               *)
(*                                                                         *)
(* Every atomic access of the code is one step, so that the gaps between   *)
(* "load the flag" and "create the Notified future", and between           *)
(* "decrement the counter" and "notify", are visible to other tasks.       *)
(***************************************************************************)
EXTENDS Naturals, FiniteSets

CONSTANTS Handle,      \* the Waiter handles that may ever be created
          First,       \* the handle returned with the Notifier
          Caller,      \* tasks that share the Notifier (through an Arc)
          WaitTime     \* TRUE when the pair was made by with_timeout

ASSUME HandleAssumption == IsFiniteSet(Handle) /\ First \in Handle
ASSUME CallerAssumption == IsFiniteSet(Caller) /\ Handle \cap Caller = {}
ASSUME WaitTimeAssumption == WaitTime \in BOOLEAN

VARIABLES
  shutdown,    \* Shared.shutdown
  waiters,     \* Shared.waiters
  wpc,         \* control point of each Waiter handle
  cpc,         \* control point of each task that uses the Notifier
  notified,    \* handles and callers whose Notified future has been completed
  notifier     \* is the Notifier still alive?

notifierVars == <<shutdown, waiters, wpc, cpc, notified, notifier>>

(* A handle is "none" before it is created and "gone" after its drop. While  *)
(* it lives it is idle, or inside wait_shutdown: about to test the loop      *)
(* condition, about to create the Notified future, with that future created  *)
(* but the flag not yet re-read, or awaiting it. "exit" is the middle of     *)
(* drop: the counter was decremented to zero and notify_exit has not been    *)
(* called yet.                                                               *)
HandlePC == {"none", "idle", "check", "create", "armed", "await", "returned", "exit", "gone"}

(* "notify" is the middle of shutdown(); the others are wait_all_exit().     *)
CallerPC == {"idle", "notify", "check", "create", "armed", "await", "ok", "elapsed"}

Live == {h \in Handle : wpc[h] \in {"idle", "check", "create", "armed", "await", "returned"}}

NotifierTypeOK ==
  /\ shutdown \in BOOLEAN
  /\ waiters \in Nat
  /\ wpc \in [Handle -> HandlePC]
  /\ cpc \in [Caller -> CallerPC]
  /\ notified \in [Handle \cup Caller -> BOOLEAN]
  /\ notifier \in BOOLEAN

NotifierInit ==
  /\ shutdown = FALSE
  /\ waiters = 1
  /\ wpc = [h \in Handle |-> IF h = First THEN "idle" ELSE "none"]
  /\ cpc = [c \in Caller |-> "idle"]
  /\ notified = [x \in Handle \cup Caller |-> FALSE]
  /\ notifier = TRUE

-----------------------------------------------------------------------------
(* tokio Notify (external). notify_waiters completes every Notified future   *)
(* that exists at that moment, awaited or not, and stores no permit for      *)
(* futures created later.                                                    *)
NotifyWaiters(S) == notified' = [x \in DOMAIN notified |-> notified[x] \/ x \in S]

ShutdownFutures == {h \in Handle : wpc[h] \in {"armed", "await"}}
ExitFutures == {c \in Caller : cpc[c] \in {"armed", "await"}}

-----------------------------------------------------------------------------
(* Mutant: a clone shares the state without being counted.                   *)
FromSharedUncounted(g) ==
  /\ wpc[g] = "none"
  /\ wpc' = [wpc EXCEPT ![g] = "idle"]
  /\ UNCHANGED <<shutdown, waiters, cpc, notified, notifier>>

(* Waiter::from_shared, reached from Clone::clone on a live handle and from  *)
(* Notifier::subscribe.                                                      *)
FromShared(g) ==
  /\ wpc[g] = "none"
  /\ waiters' = waiters + 1
  /\ wpc' = [wpc EXCEPT ![g] = "idle"]
  /\ UNCHANGED <<shutdown, cpc, notified, notifier>>

Clone(h, g) == h \in Live /\ FromShared(g)

Subscribe(g) == notifier /\ FromShared(g)

(* wait_shutdown is called; the loop condition is evaluated next.            *)
WaitShutdown(h) ==
  /\ wpc[h] \in {"idle", "returned"}
  /\ wpc' = [wpc EXCEPT ![h] = "check"]
  /\ UNCHANGED <<shutdown, waiters, cpc, notified, notifier>>

(* while !is_shutdown(): return, or go on to create the Notified future.     *)
CheckShutdown(h) ==
  /\ wpc[h] = "check"
  /\ wpc' = [wpc EXCEPT ![h] = IF shutdown THEN "returned" ELSE "create"]
  /\ UNCHANGED <<shutdown, waiters, cpc, notified, notifier>>

(* notify_shutdown.notified(): notifications count from here on.             *)
NotifiedShutdown(h) ==
  /\ wpc[h] = "create"
  /\ wpc' = [wpc EXCEPT ![h] = "armed"]
  /\ notified' = [notified EXCEPT ![h] = FALSE]
  /\ UNCHANGED <<shutdown, waiters, cpc, notifier>>

(* Mutant: the flag is not read again once the future exists.                *)
RecheckShutdownMissing(h) ==
  /\ wpc[h] = "armed"
  /\ wpc' = [wpc EXCEPT ![h] = "await"]
  /\ UNCHANGED <<shutdown, waiters, cpc, notified, notifier>>

(* The re-check after the future exists: return, or await the future.        *)
RecheckShutdown(h) ==
  /\ wpc[h] = "armed"
  /\ wpc' = [wpc EXCEPT ![h] = IF shutdown THEN "returned" ELSE "await"]
  /\ UNCHANGED <<shutdown, waiters, cpc, notified, notifier>>

(* The awaited future completed: back to the loop condition.                 *)
WakeShutdown(h) ==
  /\ wpc[h] = "await"
  /\ notified[h]
  /\ wpc' = [wpc EXCEPT ![h] = "check"]
  /\ UNCHANGED <<shutdown, waiters, cpc, notified, notifier>>

(* The suspended wait_shutdown future is dropped, as the losing branch of a   *)
(* select! is.                                                               *)
CancelWait(h) ==
  /\ wpc[h] = "await"
  /\ wpc' = [wpc EXCEPT ![h] = "idle"]
  /\ UNCHANGED <<shutdown, waiters, cpc, notified, notifier>>

(* Mutant: drop compares the value fetch_sub returned with zero.             *)
DropWaiterOffByOne(h) ==
  /\ wpc[h] \in {"idle", "returned"}
  /\ waiters' = waiters - 1
  /\ wpc' = [wpc EXCEPT ![h] = IF waiters = 0 THEN "exit" ELSE "gone"]
  /\ UNCHANGED <<shutdown, cpc, notified, notifier>>

(* Waiter::drop, first half: fetch_sub. Only the handle that takes the       *)
(* counter from one to zero goes on to notify.                               *)
DropWaiter(h) ==
  /\ wpc[h] \in {"idle", "returned"}
  /\ waiters' = waiters - 1
  /\ wpc' = [wpc EXCEPT ![h] = IF waiters = 1 THEN "exit" ELSE "gone"]
  /\ UNCHANGED <<shutdown, cpc, notified, notifier>>

(* Waiter::drop, second half: notify_exit.notify_waiters().                  *)
NotifyExit(h) ==
  /\ wpc[h] = "exit"
  /\ wpc' = [wpc EXCEPT ![h] = "gone"]
  /\ NotifyWaiters(ExitFutures)
  /\ UNCHANGED <<shutdown, waiters, cpc, notifier>>

-----------------------------------------------------------------------------
(* Notifier::shutdown, first half: swap(true). A second call ends here.      *)
SwapShutdown(c) ==
  /\ notifier
  /\ cpc[c] \in {"idle", "ok", "elapsed"}
  /\ shutdown' = TRUE
  /\ cpc' = [cpc EXCEPT ![c] = IF shutdown THEN "idle" ELSE "notify"]
  /\ UNCHANGED <<waiters, wpc, notified, notifier>>

(* Mutant: notify_one() in place of notify_waiters().                        *)
NotifyShutdownOne(c) ==
  /\ cpc[c] = "notify"
  /\ cpc' = [cpc EXCEPT ![c] = "idle"]
  /\ IF ShutdownFutures = {}
     THEN UNCHANGED notified
     ELSE \E h \in ShutdownFutures : NotifyWaiters({h})
  /\ UNCHANGED <<shutdown, waiters, wpc, notifier>>

(* Notifier::shutdown, second half: notify_shutdown.notify_waiters().        *)
NotifyShutdown(c) ==
  /\ cpc[c] = "notify"
  /\ cpc' = [cpc EXCEPT ![c] = "idle"]
  /\ NotifyWaiters(ShutdownFutures)
  /\ UNCHANGED <<shutdown, waiters, wpc, notifier>>

(* Notifier::drop, by the last task that holds the Arc: it calls shutdown(). *)
DropNotifier(c) ==
  /\ notifier
  /\ \A d \in Caller : cpc[d] \in {"idle", "ok", "elapsed"}
  /\ notifier' = FALSE
  /\ shutdown' = TRUE
  /\ cpc' = [cpc EXCEPT ![c] = IF shutdown THEN "idle" ELSE "notify"]
  /\ UNCHANGED <<waiters, wpc, notified>>

(* wait_all_exit is called.                                                  *)
WaitAllExit(c) ==
  /\ notifier
  /\ cpc[c] \in {"idle", "ok", "elapsed"}
  /\ cpc' = [cpc EXCEPT ![c] = "check"]
  /\ UNCHANGED <<shutdown, waiters, wpc, notified, notifier>>

(* while waiters() > 0: return, or go on to create the Notified future.      *)
CheckExit(c) ==
  /\ cpc[c] = "check"
  /\ cpc' = [cpc EXCEPT ![c] = IF waiters > 0 THEN "create" ELSE "ok"]
  /\ UNCHANGED <<shutdown, waiters, wpc, notified, notifier>>

(* notify_exit.notified(): notifications count from here on.                 *)
NotifiedExit(c) ==
  /\ cpc[c] = "create"
  /\ cpc' = [cpc EXCEPT ![c] = "armed"]
  /\ notified' = [notified EXCEPT ![c] = FALSE]
  /\ UNCHANGED <<shutdown, waiters, wpc, notifier>>

(* The re-check of the counter after the future exists.                      *)
RecheckExit(c) ==
  /\ cpc[c] = "armed"
  /\ cpc' = [cpc EXCEPT ![c] = IF waiters = 0 THEN "ok" ELSE "await"]
  /\ UNCHANGED <<shutdown, waiters, wpc, notified, notifier>>

(* Mutant: one notification ends the wait, without testing the counter again.*)
WakeExitNoLoop(c) ==
  /\ cpc[c] = "await"
  /\ notified[c]
  /\ cpc' = [cpc EXCEPT ![c] = "ok"]
  /\ UNCHANGED <<shutdown, waiters, wpc, notified, notifier>>

(* The awaited future completed: subscribe may have added waiters meanwhile,  *)
(* so the loop condition is evaluated again.                                 *)
WakeExit(c) ==
  /\ cpc[c] = "await"
  /\ notified[c]
  /\ cpc' = [cpc EXCEPT ![c] = "check"]
  /\ UNCHANGED <<shutdown, waiters, wpc, notified, notifier>>

(* timeout(tm, self.wait()) drops the suspended wait and returns Elapsed.     *)
Elapse(c) ==
  /\ WaitTime
  /\ cpc[c] = "await"
  /\ cpc' = [cpc EXCEPT ![c] = "elapsed"]
  /\ UNCHANGED <<shutdown, waiters, wpc, notified, notifier>>

-----------------------------------------------------------------------------
HandleStep(h) ==
  \/ CheckShutdown(h) \/ NotifiedShutdown(h) \/ RecheckShutdown(h)
  \/ WakeShutdown(h) \/ NotifyExit(h)

CallerStep(c) ==
  \/ NotifyShutdown(c) \/ CheckExit(c) \/ NotifiedExit(c)
  \/ RecheckExit(c) \/ WakeExit(c)

NotifierNext ==
  \/ \E h, g \in Handle : Clone(h, g)
  \/ \E h \in Handle : \/ Subscribe(h) \/ WaitShutdown(h) \/ HandleStep(h)
                       \/ CancelWait(h) \/ DropWaiter(h)
  \/ \E c \in Caller : \/ SwapShutdown(c) \/ DropNotifier(c) \/ WaitAllExit(c)
                       \/ Elapse(c) \/ CallerStep(c)

NotifierSpec == NotifierInit /\ [][NotifierNext]_notifierVars

(* Tokio polls a runnable task again: a task inside one of the functions     *)
(* keeps taking its steps. Nobody is obliged to call them.                   *)
FairNotifierSpec ==
  /\ NotifierSpec
  /\ \A h \in Handle : WF_notifierVars(HandleStep(h))
  /\ \A c \in Caller : WF_notifierVars(CallerStep(c))

-----------------------------------------------------------------------------
(* The counter is the number of live handles: it neither misses a clone or a *)
(* subscription nor underflows (shutdown.rs:115-133, 156-159).               *)
Accounting == waiters = Cardinality(Live)

(* No lost shutdown: a handle that awaits an unfinished Notified future has  *)
(* either not been shut down or the task that swapped the flag still owes    *)
(* the notify_waiters() that will wake it (shutdown.rs:105-113, 144-149).    *)
NoLostShutdown ==
  \A h \in Handle :
    (wpc[h] = "await" /\ ~notified[h] /\ shutdown)
      => \E c \in Caller : cpc[c] = "notify"

(* No lost exit: a wait_all_exit() that awaits an unfinished future has live *)
(* waiters to wait for, or the handle that brought the counter to zero still *)
(* owes its notify_waiters() (shutdown.rs:127-133, 177-187).                 *)
NoLostExit ==
  \A c \in Caller :
    (cpc[c] = "await" /\ ~notified[c] /\ waiters = 0)
      => \E h \in Handle : wpc[h] = "exit"

(* No wake-up is lost in either direction, for shutdown and for exit.        *)
NoLostWakeup == NoLostShutdown /\ NoLostExit

(* wait_all_exit() returns Ok only in a state without live waiters, however  *)
(* often handles were created and dropped while it waited.                   *)
OkMeansAllExited ==
  [][\A c \in Caller :
       cpc[c] # "ok" /\ cpc'[c] = "ok" => Live = {}]_notifierVars

(* What the users of the notifier see of a control point: a handle that is   *)
(* off the count is gone, a caller at its notification still asks.           *)
Waiting == {"check", "create", "armed", "await"}
Seen(at) == CASE at \in Waiting -> "waiting"
              [] at = "exit" -> "gone"
              [] at = "notify" -> "idle"
              [] OTHER -> at
WaiterView == [h \in Handle |-> Seen(wpc[h])]
CallerView == [c \in Caller |-> Seen(cpc[c])]
Promise == INSTANCE ShutdownPromise WITH requested <- shutdown, waiter <- WaiterView,
                                         caller <- CallerView

(* The notifier keeps ShutdownPromise: seen from its users every call takes  *)
(* effect at one moment, although its code loads, waits and loads again: no  *)
(* wait_shutdown() returns before the shutdown, no wait_all_exit() returns   *)
(* Ok while a handle exists (shutdown.rs:105-133, 144-187).                  *)
PromiseKept == Promise!PromiseSpec

(* Once shutdown was requested, every wait_shutdown() call ends.             *)
ShutdownReachesAll ==
  \A h \in Handle :
    (shutdown /\ wpc[h] \in {"check", "create", "armed", "await"})
      ~> wpc[h] \notin {"check", "create", "armed", "await"}

(* If from some point on there is no live waiter, wait_all_exit() ends.      *)
ExitIsNoticed ==
  <>[](waiters = 0) =>
    \A c \in Caller :
      cpc[c] \in {"check", "create", "armed", "await"}
        ~> cpc[c] \notin {"check", "create", "armed", "await"}
=============================================================================
