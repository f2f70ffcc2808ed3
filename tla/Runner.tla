------------------------------- MODULE Runner -------------------------------
(***************************************************************************)
(* internal/async/runner.go: the gate every background operation of the    *)
(* service passes.  A Runner lets one primary operation run at a time,     *)
(* counts all the goroutines it is asked to track in a WaitGroup and joins *)
(* them in Close().                                                        *)
(*                                                                         *)
(* A member of Procs is one thread of control that uses the Runner: the    *)
(* caller of TryStart, which keeps its name in the goroutine Go() hands    *)
(* the slot to, a goroutine of GoChild or TryGoBackground.  A member of    *)
(* Closers is one call of Close().  The calls that fail because the Runner *)
(* is closed change nothing and are not actions.                           *)
(***************************************************************************)
EXTENDS Integers, FiniteSets

CONSTANTS Procs,      \* threads of control that use the Runner
          Closers     \* calls of Close()

ASSUME ProcsFinite == IsFiniteSet(Procs)

VARIABLES closed,     \* r.closed; r.done is closed in the same critical section
          running,    \* r.running
          wg,         \* the counter of r.wg
          pc,         \* where each thread of control is
          ctx,        \* the context Context() gave to a primary operation
          watching,   \* threads whose Context() watcher goroutine is alive
          cpc         \* where each call of Close() is

vars == <<closed, running, wg, pc, ctx, watching, cpc>>

PC  == {"idle", "reserved", "refused", "primary", "cleared", "child", "background"}
CPC == {"idle", "waiting", "blocked", "returned"}

TypeOK == /\ closed \in BOOLEAN
          /\ running \in BOOLEAN
          /\ wg \in Nat
          /\ pc \in [Procs -> PC]
          /\ ctx \in [Procs -> {"none", "live", "ended"}]
          /\ watching \subseteq Procs
          /\ cpc \in [Closers -> CPC]

Init == /\ closed = FALSE
        /\ running = FALSE
        /\ wg = 0
        /\ pc = [p \in Procs |-> "idle"]
        /\ ctx = [p \in Procs |-> "none"]
        /\ watching = {}
        /\ cpc = [k \in Closers |-> "idle"]

-----------------------------------------------------------------------------
(* The WaitGroup.  Done that takes the counter to zero wakes every blocked  *)
(* Wait at once, and Wait returns at once when the counter is zero.         *)

WgAdd == /\ wg' = wg + 1
         /\ UNCHANGED cpc

WgDone == /\ wg' = wg - 1
          /\ cpc' = [k \in Closers |->
                        IF wg = 1 /\ cpc[k] = "blocked" THEN "returned" ELSE cpc[k]]

(* A bug to catch: a reservation that does not look at closed. *)
ReserveUnchecked == WgAdd

(* Under closeMu: the closed check and the reservation are one step. *)
TryReserve == /\ ~closed
              /\ WgAdd

Goto(p, label) == pc' = [pc EXCEPT ![p] = label]

(* A name is free for a new thread once the watcher it left is gone. *)
Free(p) == pc[p] = "idle" /\ p \notin watching

-----------------------------------------------------------------------------
(* TryStart: reserve, then compare-and-swap the running flag; a lost swap   *)
(* gives the reservation back in a step of its own.                         *)

TryStart(p) == /\ Free(p)
               /\ TryReserve
               /\ Goto(p, "reserved")
               /\ UNCHANGED <<closed, running, ctx, watching>>

(* A bug to catch: the loser of the swap calls Done(), which clears the     *)
(* flag of the winner.                                                      *)
LoserCallsDone(p) == /\ pc[p] = "reserved"
                     /\ \/ ~running /\ Goto(p, "primary") /\ running' = TRUE
                        \/ running /\ Goto(p, "refused") /\ running' = FALSE
                     /\ UNCHANGED <<closed, wg, ctx, watching, cpc>>

CompareAndSwap(p) == /\ pc[p] = "reserved"
                     /\ \/ ~running /\ Goto(p, "primary")
                        \/ running /\ Goto(p, "refused")
                     /\ running' = TRUE
                     /\ UNCHANGED <<closed, wg, ctx, watching, cpc>>

(* wg.Done(): after a lost swap, after running.Store(false), or at the end  *)
(* of a child or background goroutine.                                      *)
Leave(p) == /\ pc[p] \in {"refused", "cleared", "child", "background"}
            /\ WgDone
            /\ Goto(p, "idle")
            /\ ctx' = [ctx EXCEPT ![p] = IF p \in watching THEN @ ELSE "none"]
            /\ UNCHANGED <<closed, running, watching>>

(* The body of the primary operation ends: its deferred cancel() ends the   *)
(* context, then Go() or Done() clears the flag before wg.Done().           *)
Finish(p) == /\ pc[p] = "primary"
             /\ running' = FALSE
             /\ ctx' = [ctx EXCEPT ![p] = IF @ = "live" THEN "ended" ELSE @]
             /\ Goto(p, "cleared")
             /\ UNCHANGED <<closed, wg, watching, cpc>>

(* Context(): called once by a primary body, it starts the watcher with     *)
(* wg.Go, which does not look at closed.                                    *)
Context(p) == /\ pc[p] = "primary" /\ ctx[p] = "none"
              /\ ctx' = [ctx EXCEPT ![p] = "live"]
              /\ watching' = watching \cup {p}
              /\ WgAdd
              /\ UNCHANGED <<closed, running, pc>>

Timeout(p) == /\ ctx[p] = "live"
              /\ ctx' = [ctx EXCEPT ![p] = "ended"]
              /\ UNCHANGED <<closed, running, wg, pc, watching, cpc>>

(* A bug to catch: a watcher that does not select on r.done. *)
WatcherBlind(p) == FALSE

(* The watcher's select: <-r.done cancels the context. *)
WatcherCancel(p) == /\ p \in watching /\ closed /\ ctx[p] = "live"
                    /\ ctx' = [ctx EXCEPT ![p] = "ended"]
                    /\ UNCHANGED <<closed, running, wg, pc, watching, cpc>>

WatcherExit(p) == /\ p \in watching /\ ctx[p] = "ended"
                  /\ watching' = watching \ {p}
                  /\ ctx' = [ctx EXCEPT ![p] = IF pc[p] = "idle" THEN "none" ELSE @]
                  /\ WgDone
                  /\ UNCHANGED <<closed, running, pc>>

(* GoChild: wg.Go from inside a primary body, without a look at closed. *)
GoChild(p, c) == /\ pc[p] = "primary"
                 /\ Free(c)
                 /\ WgAdd
                 /\ Goto(c, "child")
                 /\ UNCHANGED <<closed, running, ctx, watching>>

TryGoBackground(p) == /\ Free(p)
                      /\ TryReserve
                      /\ Goto(p, "background")
                      /\ UNCHANGED <<closed, running, ctx, watching>>

-----------------------------------------------------------------------------
(* Close(): the body of closeOnce, then wg.Wait().  A second caller does    *)
(* not run the body again, which leaves closed as it is.                    *)

(* A bug to catch: a second Close() returns at once. *)
CloseReturnsAtOnce(k) == /\ cpc[k] = "idle"
                         /\ closed' = TRUE
                         /\ cpc' = [cpc EXCEPT ![k] = IF closed THEN "returned" ELSE "waiting"]
                         /\ UNCHANGED <<running, wg, pc, ctx, watching>>

CloseOnce(k) == /\ cpc[k] = "idle"
                /\ closed' = TRUE
                /\ cpc' = [cpc EXCEPT ![k] = "waiting"]
                /\ UNCHANGED <<running, wg, pc, ctx, watching>>

Wait(k) == /\ cpc[k] = "waiting"
           /\ cpc' = [cpc EXCEPT ![k] = IF wg = 0 THEN "returned" ELSE "blocked"]
           /\ UNCHANGED <<closed, running, wg, pc, ctx, watching>>

Next == \/ \E p \in Procs : \/ TryStart(p) \/ CompareAndSwap(p) \/ Leave(p)
                            \/ Finish(p) \/ Context(p) \/ Timeout(p)
                            \/ WatcherCancel(p) \/ WatcherExit(p)
                            \/ TryGoBackground(p)
        \/ \E p, c \in Procs : GoChild(p, c)
        \/ \E k \in Closers : CloseOnce(k) \/ Wait(k)

Spec == Init /\ [][Next]_vars

(* Goroutines are scheduled, so straight-line steps are weakly fair.  A     *)
(* primary body with a context is only known to end once its context has    *)
(* ended; nothing forces the timeout to come first.                         *)
Fairness == /\ \A p \in Procs :
                 /\ WF_vars(CompareAndSwap(p))
                 /\ WF_vars(Leave(p))
                 /\ WF_vars(ctx[p] # "live" /\ Finish(p))
                 /\ WF_vars(WatcherCancel(p))
                 /\ WF_vars(WatcherExit(p))
            /\ \A k \in Closers : WF_vars(Wait(k))

FairSpec == Spec /\ Fairness

-----------------------------------------------------------------------------
(* Threads that hold a reservation of the WaitGroup. *)
Slots == {p \in Procs : pc[p] # "idle"}

Primary == {p \in Procs : pc[p] = "primary"}

(* The WaitGroup counts exactly the live reservations and watchers: no path *)
(* through TryStart, Go, Done, GoChild, Context or TryGoBackground releases *)
(* a slot twice or forgets one.                                             *)
WgCounts == wg = Cardinality(Slots) + Cardinality(watching)

(* One primary operation at a time, and IsRunning() is true exactly while   *)
(* there is one, although the flag and the WaitGroup change in separate     *)
(* steps and losers of the swap come and go.                                *)
SingleFlight == /\ \A p, q \in Primary : p = q
                /\ running <=> Primary # {}

(* The shutdown guarantee of the Runner comment: once any Close() returned, *)
(* no primary, child or background goroutine and no watcher is alive.       *)
CloseJoins == (\E k \in Closers : cpc[k] = "returned") =>
                 closed /\ Slots = {} /\ watching = {}

(* The rule of sync.WaitGroup: an Add that starts from zero never comes     *)
(* after Close() began, so it never races with Wait.  GoChild and Context   *)
(* add without looking at closed and rely on their parent's slot.           *)
NoAddFromZeroAfterClose == [][closed /\ wg = 0 => wg' = 0]_vars

(* Close() returns: shutdown reaches every primary body through its context *)
(* watcher, and the last wg.Done() wakes every waiting Close().             *)
CloseReturns == \A k \in Closers : cpc[k] = "waiting" ~> cpc[k] = "returned"

-----------------------------------------------------------------------------
(* What the Runner promises, without flag, counter or lock. *)
Gate == INSTANCE ShutdownGate WITH
          Workers <- Procs,
          phase   <- IF \E k \in Closers : cpc[k] = "returned" THEN "closed"
                     ELSE IF closed THEN "closing" ELSE "open",
          tracked <- Slots,
          primary <- Primary

(* The Runner implements the gate: admission stops when Close() begins,     *)
(* exclusion holds, and Close() returns only over an empty set of work.     *)
ImplementsGate == Gate!Spec
=============================================================================
