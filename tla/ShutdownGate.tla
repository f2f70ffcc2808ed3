---------------------------- MODULE ShutdownGate ----------------------------
(***************************************************************************)
(* The abstract promise of internal/async/runner.go (the comment on Runner *)
(* and on Close): tracked work is admitted until shutdown begins, at most  *)
(* one worker is the primary operation, a primary may spawn further        *)
(* workers, and shutdown completes only when nobody is left, for good.     *)
(***************************************************************************)
CONSTANT Workers

VARIABLES phase,      \* "open", "closing" or "closed"
          tracked,    \* workers admitted and not yet gone
          primary     \* the workers that are the primary operation

vars == <<phase, tracked, primary>>

Init == phase = "open" /\ tracked = {} /\ primary = {}

Admit(w) == /\ phase = "open" /\ w \notin tracked
            /\ tracked' = tracked \cup {w}
            /\ UNCHANGED <<phase, primary>>

Enter(w) == /\ w \in tracked /\ primary = {}
            /\ primary' = {w}
            /\ UNCHANGED <<phase, tracked>>

Spawn(w) == /\ primary # {} /\ w \notin tracked
            /\ tracked' = tracked \cup {w}
            /\ UNCHANGED <<phase, primary>>

Exit(w) == /\ w \in primary
           /\ primary' = {}
           /\ UNCHANGED <<phase, tracked>>

(* The last worker to leave may complete a shutdown that waits for it. *)
Leave(w) == /\ w \in tracked \ primary
            /\ tracked' = tracked \ {w}
            /\ \/ phase' = phase
               \/ phase = "closing" /\ tracked' = {} /\ phase' = "closed"
            /\ UNCHANGED primary

BeginClose == /\ phase = "open" /\ phase' = "closing"
              /\ UNCHANGED <<tracked, primary>>

Close == /\ phase = "closing" /\ tracked = {}
         /\ phase' = "closed"
         /\ UNCHANGED <<tracked, primary>>

Next == \/ \E w \in Workers : Admit(w) \/ Enter(w) \/ Spawn(w) \/ Exit(w) \/ Leave(w)
        \/ BeginClose
        \/ Close

Spec == Init /\ [][Next]_vars
=============================================================================
