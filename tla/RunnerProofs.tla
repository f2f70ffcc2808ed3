---------------------------- MODULE RunnerProofs ----------------------------
(***************************************************************************)
(* Proofs about Runner for every finite set of threads and every set of    *)
(* Close() calls.  The inductive invariant joins the type invariant (wg    *)
(* stays a natural only because it counts the slots) with the counting,    *)
(* the exclusion and the phase of each Close().                            *)
(***************************************************************************)
EXTENDS Runner, FiniteSetTheorems, TLAPS

(* Where a Close() call can be once it has begun. *)
CloserPhase == \A k \in Closers :
                 /\ cpc[k] # "idle" => closed
                 /\ cpc[k] = "blocked" => wg > 0
                 /\ cpc[k] = "returned" => wg = 0

(* A live watcher has a context, and only threads that left have none. *)
WatchersHaveCtx == \A p \in Procs : p \in watching => ctx[p] # "none"

IInv == TypeOK /\ WgCounts /\ SingleFlight /\ CloserPhase /\ WatchersHaveCtx

-----------------------------------------------------------------------------
(* Slots and watchers are finite, so they can be counted. *)
LEMMA FiniteWork ==
  ASSUME TypeOK
  PROVE  /\ IsFiniteSet(Slots) /\ Cardinality(Slots) \in Nat
         /\ IsFiniteSet(watching) /\ Cardinality(watching) \in Nat
<1>1. Slots \in SUBSET Procs /\ watching \in SUBSET Procs
  BY DEF Slots, TypeOK
<1>2. IsFiniteSet(Slots) /\ IsFiniteSet(watching)
  BY <1>1, ProcsFinite, FS_Subset
<1>3. QED
  BY <1>2, FS_CardinalityType

(* With the counter at zero there is no slot and no watcher: this is what   *)
(* wg.Wait() relies on.                                                     *)
LEMMA ZeroMeansEmpty ==
  ASSUME TypeOK, WgCounts, wg = 0
  PROVE  Slots = {} /\ watching = {}
<1>1. Cardinality(Slots) = 0 /\ Cardinality(watching) = 0
  BY FiniteWork, Z3 DEF WgCounts
<1>2. QED
  BY <1>1, FiniteWork, FS_EmptySet

(* A thread that leaves "idle" adds one slot. *)
LEMMA SlotTaken ==
  ASSUME TypeOK, NEW p \in Procs, pc[p] = "idle",
         NEW l \in PC \ {"idle"}, pc' = [pc EXCEPT ![p] = l]
  PROVE  Cardinality(Slots') = Cardinality(Slots) + 1
<1>1. p \notin Slots /\ Slots' = Slots \cup {p}
  BY DEF Slots, TypeOK
<1>2. QED
  BY <1>1, FiniteWork, FS_AddElement

(* A thread that moves between two busy labels keeps the slots. *)
LEMMA SlotKept ==
  ASSUME TypeOK, NEW p \in Procs, pc[p] # "idle",
         NEW l \in PC \ {"idle"}, pc' = [pc EXCEPT ![p] = l]
  PROVE  Slots' = Slots
BY DEF Slots, TypeOK

(* A thread that returns to "idle" removes one slot. *)
LEMMA SlotReleased ==
  ASSUME TypeOK, NEW p \in Procs, pc[p] # "idle", pc' = [pc EXCEPT ![p] = "idle"]
  PROVE  /\ Slots' = Slots \ {p}
         /\ Cardinality(Slots') = Cardinality(Slots) - 1
         /\ Cardinality(Slots) > 0
<1>1. p \in Slots /\ Slots' = Slots \ {p}
  BY DEF Slots, TypeOK
<1>2. Cardinality(Slots') = Cardinality(Slots) - 1
  BY <1>1, FiniteWork, FS_RemoveElement
<1>3. Cardinality(Slots) # 0
  BY <1>1, FiniteWork, FS_EmptySet
<1>4. QED
  BY <1>1, <1>2, <1>3, FiniteWork

(* A watcher that starts or exits changes their number by one. *)
LEMMA WatcherCount ==
  ASSUME TypeOK, NEW p \in Procs
  PROVE  /\ p \notin watching =>
              Cardinality(watching \cup {p}) = Cardinality(watching) + 1
         /\ p \in watching =>
              /\ Cardinality(watching \ {p}) = Cardinality(watching) - 1
              /\ Cardinality(watching) > 0
<1>1. IsFiniteSet(watching) /\ Cardinality(watching) \in Nat
  BY FiniteWork
<1>2. CASE p \in watching
  <2>1. Cardinality(watching \ {p}) = Cardinality(watching) - 1
    BY <1>1, <1>2, FS_RemoveElement
  <2>2. Cardinality(watching) # 0
    BY <1>1, <1>2, FS_EmptySet
  <2>3. QED
    BY <1>1, <1>2, <2>1, <2>2
<1>3. CASE p \notin watching
  BY <1>1, <1>3, FS_AddElement
<1>4. QED
  BY <1>2, <1>3

-----------------------------------------------------------------------------
(* Nothing runs and nobody waits when the Runner is new. *)
LEMMA InitIInv == Init => IInv
<1> SUFFICES ASSUME Init PROVE IInv
  OBVIOUS
<1>1. Slots = {} /\ Primary = {} /\ watching = {}
  BY DEF Init, Slots, Primary
<1>2. WgCounts
  BY <1>1, FS_EmptySet DEF Init, WgCounts
<1>3. QED
  BY <1>1, <1>2 DEF Init, IInv, TypeOK, PC, CPC, SingleFlight, CloserPhase, WatchersHaveCtx

(* TryReserve and its two callers. *)
LEMMA ReserveIInv ==
  ASSUME IInv, NEW p \in Procs, TryStart(p) \/ TryGoBackground(p)
  PROVE  IInv'
<1> USE DEF IInv
<1>1. PICK l \in {"reserved", "background"} : pc' = [pc EXCEPT ![p] = l]
  BY DEF TryStart, TryGoBackground, Goto
<1>2. /\ ~closed /\ pc[p] = "idle" /\ wg' = wg + 1
      /\ UNCHANGED <<closed, running, ctx, watching, cpc>>
  BY DEF TryStart, TryGoBackground, TryReserve, WgAdd, Free
<1>3. TypeOK'
  BY <1>1, <1>2 DEF TypeOK, PC
<1>4. WgCounts'
  <2>1. Cardinality(Slots') = Cardinality(Slots) + 1
    BY <1>1, <1>2, SlotTaken DEF PC
  <2>2. QED
    BY <1>2, <2>1, FiniteWork DEF WgCounts, TypeOK
<1>5. SingleFlight'
  BY <1>1, <1>2 DEF SingleFlight, Primary, TypeOK
<1>6. CloserPhase' /\ WatchersHaveCtx'
  BY <1>2 DEF CloserPhase, WatchersHaveCtx, TypeOK
<1>7. QED
  BY <1>3, <1>4, <1>5, <1>6

(* The swap admits a primary only over a clear flag. *)
LEMMA SwapIInv ==
  ASSUME IInv, NEW p \in Procs, CompareAndSwap(p)
  PROVE  IInv'
<1> USE DEF IInv
<1>1. /\ pc[p] = "reserved" /\ running' = TRUE
      /\ UNCHANGED <<closed, wg, ctx, watching, cpc>>
      /\ \/ ~running /\ pc' = [pc EXCEPT ![p] = "primary"]
         \/ running /\ pc' = [pc EXCEPT ![p] = "refused"]
  BY DEF CompareAndSwap, Goto
<1>2. TypeOK'
  BY <1>1 DEF TypeOK, PC
<1>3. WgCounts'
  <2>1. Slots' = Slots
    BY <1>1, SlotKept DEF PC
  <2>2. QED
    BY <1>1, <2>1 DEF WgCounts
<1>4. SingleFlight'
  <2>1. CASE ~running /\ pc' = [pc EXCEPT ![p] = "primary"]
    <3>1. Primary' = {p}
      BY <2>1 DEF SingleFlight, Primary, TypeOK
    <3>2. QED
      BY <1>1, <3>1 DEF SingleFlight
  <2>2. CASE running /\ pc' = [pc EXCEPT ![p] = "refused"]
    <3>1. Primary' = Primary
      BY <1>1, <2>2 DEF Primary, TypeOK
    <3>2. QED
      BY <1>1, <2>2, <3>1 DEF SingleFlight
  <2>3. QED
    BY <1>1, <2>1, <2>2
<1>5. CloserPhase' /\ WatchersHaveCtx'
  BY <1>1 DEF CloserPhase, WatchersHaveCtx
<1>6. QED
  BY <1>2, <1>3, <1>4, <1>5

(* What wg.Done() does to the Close() calls, whoever calls it. *)
LEMMA WgDoneClosers ==
  ASSUME TypeOK, CloserPhase, wg > 0, WgDone, closed' = closed
  PROVE  /\ wg' \in Nat /\ cpc' \in [Closers -> CPC]
         /\ CloserPhase'
BY DEF TypeOK, CloserPhase, WgDone, CPC

(* A thread gives its slot back. *)
LEMMA LeaveIInv ==
  ASSUME IInv, NEW p \in Procs, Leave(p)
  PROVE  IInv'
<1> USE DEF IInv
<1>1. /\ pc[p] \in {"refused", "cleared", "child", "background"}
      /\ pc' = [pc EXCEPT ![p] = "idle"]
      /\ ctx' = [ctx EXCEPT ![p] = IF p \in watching THEN @ ELSE "none"]
      /\ WgDone /\ wg' = wg - 1
      /\ UNCHANGED <<closed, running, watching>>
  BY DEF Leave, Goto, WgDone
<1>2. Cardinality(Slots') = Cardinality(Slots) - 1 /\ Cardinality(Slots) > 0
  BY <1>1, SlotReleased
<1>3. WgCounts' /\ wg > 0
  BY <1>1, <1>2, FiniteWork DEF WgCounts
<1>4. wg' \in Nat /\ cpc' \in [Closers -> CPC] /\ CloserPhase'
  BY <1>1, <1>3, WgDoneClosers
<1>5. TypeOK'
  BY <1>1, <1>4 DEF TypeOK, PC
<1>6. SingleFlight'
  BY <1>1 DEF SingleFlight, Primary, TypeOK
<1>7. WatchersHaveCtx'
  BY <1>1 DEF WatchersHaveCtx, TypeOK
<1>8. QED
  BY <1>3, <1>4, <1>5, <1>6, <1>7

(* The flag is cleared by the only primary operation there is. *)
LEMMA FinishIInv ==
  ASSUME IInv, NEW p \in Procs, Finish(p)
  PROVE  IInv'
<1> USE DEF IInv
<1>1. /\ pc[p] = "primary" /\ running' = FALSE
      /\ pc' = [pc EXCEPT ![p] = "cleared"]
      /\ ctx' = [ctx EXCEPT ![p] = IF @ = "live" THEN "ended" ELSE @]
      /\ UNCHANGED <<closed, wg, watching, cpc>>
  BY DEF Finish, Goto
<1>2. TypeOK'
  BY <1>1 DEF TypeOK, PC
<1>3. WgCounts'
  <2>1. Slots' = Slots
    BY <1>1, SlotKept DEF PC
  <2>2. QED
    BY <1>1, <2>1 DEF WgCounts
<1>4. SingleFlight'
  <2>1. Primary' = {}
    BY <1>1 DEF SingleFlight, Primary, TypeOK
  <2>2. QED
    BY <1>1, <2>1 DEF SingleFlight
<1>5. CloserPhase' /\ WatchersHaveCtx'
  BY <1>1 DEF CloserPhase, WatchersHaveCtx, TypeOK
<1>6. QED
  BY <1>2, <1>3, <1>4, <1>5

(* wg.Go for the context watcher: the primary's slot keeps wg above zero. *)
LEMMA ContextIInv ==
  ASSUME IInv, NEW p \in Procs, Context(p)
  PROVE  IInv'
<1> USE DEF IInv
<1>1. /\ pc[p] = "primary" /\ ctx[p] = "none" /\ wg' = wg + 1
      /\ ctx' = [ctx EXCEPT ![p] = "live"]
      /\ watching' = watching \cup {p}
      /\ UNCHANGED <<closed, running, pc, cpc>>
  BY DEF Context, WgAdd
<1>2. TypeOK'
  BY <1>1 DEF TypeOK
<1>3. WgCounts'
  <2>1. Cardinality(watching') = Cardinality(watching) + 1
    BY <1>1, WatcherCount DEF WatchersHaveCtx
  <2>2. Slots' = Slots
    BY <1>1 DEF Slots
  <2>3. QED
    BY <1>1, <2>1, <2>2, FiniteWork DEF WgCounts
<1>4. wg > 0
  <2>1. p \in Slots
    BY <1>1 DEF Slots
  <2>2. QED
    BY <2>1, ZeroMeansEmpty DEF TypeOK
<1>5. SingleFlight' /\ CloserPhase' /\ WatchersHaveCtx'
  BY <1>1, <1>4 DEF SingleFlight, Primary, CloserPhase, WatchersHaveCtx, TypeOK
<1>6. QED
  BY <1>2, <1>3, <1>5

(* The context of a run ends early. *)
LEMMA CtxEndsIInv ==
  ASSUME IInv, NEW p \in Procs, Timeout(p) \/ WatcherCancel(p)
  PROVE  IInv'
<1> USE DEF IInv
<1>1. /\ ctx' = [ctx EXCEPT ![p] = "ended"]
      /\ UNCHANGED <<closed, running, wg, pc, watching, cpc>>
  BY DEF Timeout, WatcherCancel
<1>2. Slots' = Slots /\ Primary' = Primary
  BY <1>1 DEF Slots, Primary
<1>3. QED
  BY <1>1, <1>2 DEF TypeOK, WgCounts, SingleFlight, CloserPhase, WatchersHaveCtx

(* The watcher gives its slot back. *)
LEMMA WatcherExitIInv ==
  ASSUME IInv, NEW p \in Procs, WatcherExit(p)
  PROVE  IInv'
<1> USE DEF IInv
<1>1. /\ p \in watching /\ watching' = watching \ {p}
      /\ ctx' = [ctx EXCEPT ![p] = IF pc[p] = "idle" THEN "none" ELSE @]
      /\ WgDone /\ wg' = wg - 1
      /\ UNCHANGED <<closed, running, pc>>
  BY DEF WatcherExit, WgDone
<1>2. Cardinality(watching') = Cardinality(watching) - 1 /\ Cardinality(watching) > 0
  BY <1>1, WatcherCount
<1>3. Slots' = Slots /\ Primary' = Primary
  BY <1>1 DEF Slots, Primary
<1>4. WgCounts' /\ wg > 0
  BY <1>1, <1>2, <1>3, FiniteWork DEF WgCounts
<1>5. wg' \in Nat /\ cpc' \in [Closers -> CPC] /\ CloserPhase'
  BY <1>1, <1>4, WgDoneClosers
<1>6. TypeOK'
  BY <1>1, <1>5 DEF TypeOK
<1>7. SingleFlight' /\ WatchersHaveCtx'
  BY <1>1, <1>3 DEF SingleFlight, WatchersHaveCtx, TypeOK
<1>8. QED
  BY <1>4, <1>5, <1>6, <1>7

(* wg.Go for a child: again the parent's slot keeps wg above zero. *)
LEMMA GoChildIInv ==
  ASSUME IInv, NEW p \in Procs, NEW c \in Procs, GoChild(p, c)
  PROVE  IInv'
<1> USE DEF IInv
<1>1. /\ pc[p] = "primary" /\ pc[c] = "idle" /\ wg' = wg + 1
      /\ pc' = [pc EXCEPT ![c] = "child"]
      /\ UNCHANGED <<closed, running, ctx, watching, cpc>>
  BY DEF GoChild, WgAdd, Free, Goto
<1>2. TypeOK'
  BY <1>1 DEF TypeOK, PC
<1>3. WgCounts'
  <2>1. Cardinality(Slots') = Cardinality(Slots) + 1
    BY <1>1, SlotTaken DEF PC
  <2>2. QED
    BY <1>1, <2>1, FiniteWork DEF WgCounts
<1>4. wg > 0
  <2>1. p \in Slots
    BY <1>1 DEF Slots
  <2>2. QED
    BY <2>1, ZeroMeansEmpty DEF TypeOK
<1>5. SingleFlight'
  BY <1>1 DEF SingleFlight, Primary, TypeOK
<1>6. CloserPhase' /\ WatchersHaveCtx'
  BY <1>1, <1>4 DEF CloserPhase, WatchersHaveCtx, TypeOK
<1>7. QED
  BY <1>2, <1>3, <1>5, <1>6

(* Close() itself. *)
LEMMA CloseIInv ==
  ASSUME IInv, NEW k \in Closers, CloseOnce(k) \/ Wait(k)
  PROVE  IInv'
<1> USE DEF IInv
<1>1. /\ UNCHANGED <<running, wg, pc, ctx, watching>>
      /\ closed' \in BOOLEAN /\ closed => closed'
  BY DEF CloseOnce, Wait, TypeOK
<1>2. Slots' = Slots /\ Primary' = Primary
  BY <1>1 DEF Slots, Primary
<1>3. TypeOK'
  BY <1>1 DEF CloseOnce, Wait, TypeOK, CPC
<1>4. CloserPhase'
  BY <1>1 DEF CloseOnce, Wait, CloserPhase, TypeOK
<1>5. WgCounts' /\ SingleFlight' /\ WatchersHaveCtx'
  BY <1>1, <1>2 DEF WgCounts, SingleFlight, WatchersHaveCtx
<1>6. QED
  BY <1>3, <1>4, <1>5

LEMMA NextIInv == IInv /\ [Next]_vars => IInv'
<1> SUFFICES ASSUME IInv, [Next]_vars PROVE IInv'
  OBVIOUS
<1>1. ASSUME NEW p \in Procs, TryStart(p) \/ TryGoBackground(p) PROVE IInv'
  BY <1>1, ReserveIInv
<1>2. ASSUME NEW p \in Procs, CompareAndSwap(p) PROVE IInv'
  BY <1>2, SwapIInv
<1>3. ASSUME NEW p \in Procs, Leave(p) PROVE IInv'
  BY <1>3, LeaveIInv
<1>4. ASSUME NEW p \in Procs, Finish(p) PROVE IInv'
  BY <1>4, FinishIInv
<1>5. ASSUME NEW p \in Procs, Context(p) PROVE IInv'
  BY <1>5, ContextIInv
<1>6. ASSUME NEW p \in Procs, Timeout(p) \/ WatcherCancel(p) PROVE IInv'
  BY <1>6, CtxEndsIInv
<1>7. ASSUME NEW p \in Procs, WatcherExit(p) PROVE IInv'
  BY <1>7, WatcherExitIInv
<1>8. ASSUME NEW p \in Procs, NEW c \in Procs, GoChild(p, c) PROVE IInv'
  BY <1>8, GoChildIInv
<1>9. ASSUME NEW k \in Closers, CloseOnce(k) \/ Wait(k) PROVE IInv'
  BY <1>9, CloseIInv
<1>10. CASE UNCHANGED vars
  <2>1. Slots' = Slots /\ Primary' = Primary
    BY <1>10 DEF vars, Slots, Primary
  <2>2. QED
    BY <1>10, <2>1 DEF vars, IInv, TypeOK, WgCounts, SingleFlight, CloserPhase, WatchersHaveCtx
<1>11. QED
  BY <1>1, <1>2, <1>3, <1>4, <1>5, <1>6, <1>7, <1>8, <1>9, <1>10 DEF Next

-----------------------------------------------------------------------------
(* The strengthened invariant holds of every behaviour of the Runner. *)
THEOREM InductiveInvariant == Spec => []IInv
<1>1. Init => IInv
  BY InitIInv
<1>2. IInv /\ [Next]_vars => IInv'
  BY NextIInv
<1>3. QED
  BY <1>1, <1>2, PTL DEF Spec

(* Every variable of the Runner keeps its type; in particular the WaitGroup *)
(* counter never goes negative, which would make Go panic.                  *)
THEOREM TypeCorrect == Spec => []TypeOK
<1>1. IInv => TypeOK
  BY DEF IInv
<1>2. QED
  BY <1>1, InductiveInvariant, PTL

(* The counter of the WaitGroup is the number of live slots and watchers. *)
THEOREM CountingCorrect == Spec => []WgCounts
<1>1. IInv => WgCounts
  BY DEF IInv
<1>2. QED
  BY <1>1, InductiveInvariant, PTL

(* TryStart admits one primary operation at a time and IsRunning() is exact. *)
THEOREM MutualExclusion == Spec => []SingleFlight
<1>1. IInv => SingleFlight
  BY DEF IInv
<1>2. QED
  BY <1>1, InductiveInvariant, PTL

(* No tracked goroutine outlives the first Close() that returns. *)
THEOREM ShutdownGuarantee == Spec => []CloseJoins
<1>1. IInv => CloseJoins
  <2> SUFFICES ASSUME IInv, NEW k \in Closers, cpc[k] = "returned"
               PROVE  closed /\ Slots = {} /\ watching = {}
    BY DEF CloseJoins
  <2>1. closed /\ wg = 0
    BY DEF IInv, CloserPhase
  <2>2. QED
    BY <2>1, ZeroMeansEmpty DEF IInv
<1>2. QED
  BY <1>1, InductiveInvariant, PTL

(* After Close() began the counter never leaves zero: the adds that ignore  *)
(* closed (GoChild, Context) happen under a slot that keeps it positive.    *)
THEOREM WaitGroupRule == Spec => NoAddFromZeroAfterClose
<1>1. IInv /\ [Next]_vars => [closed /\ wg = 0 => wg' = 0]_vars
  <2> SUFFICES ASSUME IInv, Next, closed, wg = 0 PROVE wg' = 0
    OBVIOUS
  <2>1. \A p \in Procs : pc[p] = "idle" /\ p \notin watching
    BY ZeroMeansEmpty DEF IInv, Slots
  <2>2. ASSUME NEW p \in Procs,
               TryStart(p) \/ CompareAndSwap(p) \/ Leave(p) \/ Finish(p) \/ Context(p)
                 \/ Timeout(p) \/ WatcherCancel(p) \/ WatcherExit(p) \/ TryGoBackground(p)
        PROVE  wg' = 0
    BY <2>1, <2>2 DEF TryStart, TryReserve, CompareAndSwap, Leave, Finish, Context, Timeout,
                      WatcherCancel, WatcherExit, TryGoBackground
  <2>3. ASSUME NEW p \in Procs, NEW c \in Procs, GoChild(p, c) PROVE wg' = 0
    BY <2>1, <2>3 DEF GoChild
  <2>4. ASSUME NEW k \in Closers, CloseOnce(k) \/ Wait(k) PROVE wg' = 0
    BY <2>4 DEF CloseOnce, Wait
  <2>5. QED
    BY <2>2, <2>3, <2>4 DEF Next
<1>2. QED
  BY <1>1, InductiveInvariant, PTL DEF Spec, NoAddFromZeroAfterClose

-----------------------------------------------------------------------------
(* Refinement.  AnyReturned is the condition under which the gate is closed. *)
AnyReturned == \E k \in Closers : cpc[k] = "returned"

PhaseOf == IF AnyReturned THEN "closed" ELSE IF closed THEN "closing" ELSE "open"

(* Steps that move no Close() call and leave closed alone keep the phase. *)
LEMMA PhaseKept ==
  ASSUME UNCHANGED <<closed, cpc>>
  PROVE  PhaseOf' = PhaseOf
BY DEF PhaseOf, AnyReturned

(* wg.Done() keeps the phase, or completes a shutdown because it gave back  *)
(* the last reservation.                                                    *)
LEMMA PhaseAfterDone ==
  ASSUME IInv, IInv', WgDone, wg > 0, closed' = closed
  PROVE  \/ PhaseOf' = PhaseOf
         \/ PhaseOf = "closing" /\ PhaseOf' = "closed" /\ Slots' = {}
<1>1. ~AnyReturned
  BY DEF IInv, CloserPhase, AnyReturned
<1>2. CASE ~AnyReturned'
  BY <1>1, <1>2 DEF PhaseOf
<1>3. CASE AnyReturned'
  <2>1. wg' = 0 /\ closed'
    BY <1>3 DEF IInv, CloserPhase, AnyReturned
  <2>2. Slots' = {}
    <3>1. TypeOK' /\ WgCounts'
      BY DEF IInv
    <3>2. (TypeOK /\ WgCounts /\ wg = 0 => Slots = {})'
      BY ZeroMeansEmpty, PTL
    <3>3. QED
      BY <2>1, <3>1, <3>2
  <2>3. QED
    BY <1>1, <1>3, <2>1, <2>2 DEF PhaseOf
<1>4. QED
  BY <1>2, <1>3

(* Every step of the Runner is a step of the gate or leaves it unchanged. *)
LEMMA StepRefines ==
  ASSUME IInv, IInv', [Next]_vars
  PROVE  [Gate!Next]_(Gate!vars)
<1> USE DEF PhaseOf, AnyReturned
<1>1. ASSUME NEW p \in Procs, TryStart(p) \/ TryGoBackground(p)
      PROVE  Gate!Admit(p)
  <2>1. PICK l \in {"reserved", "background"} : pc' = [pc EXCEPT ![p] = l]
    BY <1>1 DEF TryStart, TryGoBackground, Goto
  <2>2. ~closed /\ pc[p] = "idle" /\ UNCHANGED <<closed, cpc>>
    BY <1>1 DEF TryStart, TryGoBackground, TryReserve, WgAdd, Free
  <2>3. PhaseOf = "open" /\ PhaseOf' = PhaseOf
    BY <2>2, PhaseKept DEF IInv, CloserPhase
  <2>4. Slots' = Slots \cup {p} /\ p \notin Slots /\ Primary' = Primary
    BY <2>1, <2>2 DEF IInv, TypeOK, Slots, Primary
  <2>5. QED
    BY <2>3, <2>4 DEF Gate!Admit
<1>2. ASSUME NEW p \in Procs, CompareAndSwap(p)
      PROVE  Gate!Enter(p) \/ UNCHANGED Gate!vars
  <2>1. pc[p] = "reserved" /\ UNCHANGED <<closed, cpc>>
    BY <1>2 DEF CompareAndSwap
  <2>2. PhaseOf' = PhaseOf
    BY <2>1, PhaseKept
  <2>3. CASE ~running /\ pc' = [pc EXCEPT ![p] = "primary"]
    <3>1. Primary = {} /\ Primary' = {p} /\ Slots' = Slots /\ p \in Slots
      BY <2>1, <2>3 DEF IInv, TypeOK, SingleFlight, Slots, Primary
    <3>2. QED
      BY <2>2, <3>1 DEF Gate!Enter
  <2>4. CASE running /\ pc' = [pc EXCEPT ![p] = "refused"]
    <3>1. Primary' = Primary /\ Slots' = Slots
      BY <2>1, <2>4 DEF IInv, TypeOK, Slots, Primary
    <3>2. QED
      BY <2>2, <3>1 DEF Gate!vars
  <2>5. QED
    BY <1>2, <2>3, <2>4 DEF CompareAndSwap, Goto
<1>3. ASSUME NEW p \in Procs, Leave(p)
      PROVE  Gate!Leave(p)
  <2>1. /\ pc[p] \in {"refused", "cleared", "child", "background"}
        /\ pc' = [pc EXCEPT ![p] = "idle"] /\ WgDone /\ closed' = closed
    BY <1>3 DEF Leave, Goto
  <2>2. p \in Slots /\ p \notin Primary /\ Slots' = Slots \ {p} /\ Primary' = Primary
    BY <2>1 DEF IInv, TypeOK, Slots, Primary
  <2>3. wg > 0
    BY <2>2, ZeroMeansEmpty DEF IInv, TypeOK
  <2>4. \/ PhaseOf' = PhaseOf
        \/ PhaseOf = "closing" /\ PhaseOf' = "closed" /\ Slots' = {}
    BY <2>1, <2>3, PhaseAfterDone
  <2>5. QED
    BY <2>2, <2>4 DEF Gate!Leave
<1>4. ASSUME NEW p \in Procs, Finish(p)
      PROVE  Gate!Exit(p)
  <2>1. pc[p] = "primary" /\ pc' = [pc EXCEPT ![p] = "cleared"] /\ UNCHANGED <<closed, cpc>>
    BY <1>4 DEF Finish, Goto
  <2>2. PhaseOf' = PhaseOf
    BY <2>1, PhaseKept
  <2>3. p \in Primary /\ Primary' = {} /\ Slots' = Slots
    BY <2>1 DEF IInv, TypeOK, SingleFlight, Slots, Primary
  <2>4. QED
    BY <2>2, <2>3 DEF Gate!Exit
<1>5. ASSUME NEW p \in Procs, Context(p) \/ Timeout(p) \/ WatcherCancel(p)
      PROVE  UNCHANGED Gate!vars
  BY <1>5 DEF Context, WgAdd, Timeout, WatcherCancel, Gate!vars, Slots, Primary
<1>6. ASSUME NEW p \in Procs, WatcherExit(p)
      PROVE  Gate!Close \/ UNCHANGED Gate!vars
  <2>1. p \in watching /\ pc' = pc /\ WgDone /\ closed' = closed
    BY <1>6 DEF WatcherExit
  <2>2. Slots' = Slots /\ Primary' = Primary
    BY <2>1 DEF Slots, Primary
  <2>3. wg > 0
    BY <2>1, ZeroMeansEmpty DEF IInv, TypeOK
  <2>4. \/ PhaseOf' = PhaseOf
        \/ PhaseOf = "closing" /\ PhaseOf' = "closed" /\ Slots' = {}
    BY <2>1, <2>3, PhaseAfterDone
  <2>5. QED
    BY <2>2, <2>4 DEF Gate!Close, Gate!vars
<1>7. ASSUME NEW p \in Procs, NEW c \in Procs, GoChild(p, c)
      PROVE  Gate!Spawn(c)
  <2>1. /\ pc[p] = "primary" /\ pc[c] = "idle"
        /\ pc' = [pc EXCEPT ![c] = "child"] /\ UNCHANGED <<closed, cpc>>
    BY <1>7 DEF GoChild, WgAdd, Free, Goto
  <2>2. PhaseOf' = PhaseOf
    BY <2>1, PhaseKept
  <2>3. p \in Primary /\ c \notin Slots /\ Slots' = Slots \cup {c} /\ Primary' = Primary
    BY <2>1 DEF IInv, TypeOK, Slots, Primary
  <2>4. QED
    BY <2>2, <2>3 DEF Gate!Spawn
<1>8. ASSUME NEW k \in Closers, CloseOnce(k)
      PROVE  Gate!BeginClose \/ UNCHANGED Gate!vars
  <2>1. /\ closed' = TRUE /\ cpc[k] = "idle" /\ cpc' = [cpc EXCEPT ![k] = "waiting"]
        /\ Slots' = Slots /\ Primary' = Primary
    BY <1>8 DEF CloseOnce, Slots, Primary
  <2>2. AnyReturned' <=> AnyReturned
    BY <2>1 DEF IInv, TypeOK
  <2>3. QED
    BY <2>1, <2>2 DEF Gate!BeginClose, Gate!vars, IInv, TypeOK, CloserPhase
<1>9. ASSUME NEW k \in Closers, Wait(k)
      PROVE  Gate!Close \/ UNCHANGED Gate!vars
  <2>1. /\ cpc[k] = "waiting" /\ closed /\ closed' = closed
        /\ cpc' = [cpc EXCEPT ![k] = IF wg = 0 THEN "returned" ELSE "blocked"]
        /\ Slots' = Slots /\ Primary' = Primary
    BY <1>9 DEF Wait, Slots, Primary, IInv, CloserPhase
  <2>2. CASE wg = 0
    <3>1. Slots = {} /\ AnyReturned'
      BY <2>1, <2>2, ZeroMeansEmpty DEF IInv, TypeOK
    <3>2. QED
      BY <2>1, <3>1 DEF Gate!Close, Gate!vars
  <2>3. CASE wg # 0
    <3>1. AnyReturned' <=> AnyReturned
      BY <2>1, <2>3 DEF IInv, TypeOK
    <3>2. QED
      BY <2>1, <3>1 DEF Gate!vars
  <2>4. QED
    BY <2>2, <2>3
<1>10. CASE UNCHANGED vars
  BY <1>10 DEF vars, Gate!vars, Slots, Primary
<1>11. QED
  BY <1>1, <1>2, <1>3, <1>4, <1>5, <1>6, <1>7, <1>8, <1>9, <1>10 DEF Next, Gate!Next

(* The Runner implements the abstract gate for any number of threads and    *)
(* Close() calls.                                                           *)
THEOREM Refinement == Spec => ImplementsGate
<1>1. Init => Gate!Init
  BY DEF Init, Gate!Init, Slots, Primary
<1>2. IInv /\ IInv' /\ [Next]_vars => [Gate!Next]_(Gate!vars)
  BY StepRefines
<1>3. QED
  BY <1>1, <1>2, InductiveInvariant, PTL DEF Spec, ImplementsGate, Gate!Spec
=============================================================================
