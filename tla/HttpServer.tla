----------------------------- MODULE HttpServer ------------------------------
(***************************************************************************)
(* What the handlers of internal/api share: the requests, how long each    *)
(* has been handled, the status code its handler wrote, and the write      *)
(* timeout of the server, after which an answer no longer reaches its      *)
(* client.  Durations are counted in units of the write timeout.           *)
(***************************************************************************)
EXTENDS Integers, FiniteSets

CONSTANTS Requests,      \* each is made at most once
          WriteTimeout   \* write_timeout_seconds

ASSUME ServerAssumption == IsFiniteSet(Requests) /\ WriteTimeout \in Nat \ {0}

VARIABLES took, code

serverVars == <<took, code>>

Unanswered == 0

ServerInit == /\ took = [r \in Requests |-> 0]
              /\ code = [r \in Requests |-> Unanswered]

(* respondJSON, respondClientError, respondServiceError. *)
Respond(r, status) == code' = [code EXCEPT ![r] = status]

(* What the client gets to see. *)
Told(r) == IF took[r] >= WriteTimeout THEN Unanswered ELSE code[r]
=============================================================================
