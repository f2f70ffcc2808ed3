---------------------------- MODULE AlertPairing ----------------------------
(***************************************************************************)
(* What the file monitor promises the reader of its mails: for each path,  *)
(* alerts and recoveries alternate and an alert comes first.  A restart    *)
(* forgets what was mailed.                                                *)
(***************************************************************************)
EXTENDS Naturals

CONSTANT Paths

VARIABLE mail       \* the mails about each path since the process began

vars == mail

NoMail == [p \in Paths |-> [alerts |-> 0, recoveries |-> 0]]

Init == mail = NoMail

InAlert(p) == mail[p].alerts > mail[p].recoveries

Alert(S) == /\ S # {} /\ \A p \in S : ~InAlert(p)
            /\ mail' = [p \in Paths |-> IF p \in S THEN [mail[p] EXCEPT !.alerts = @ + 1]
                                        ELSE mail[p]]

Recover(S) == /\ S # {} /\ \A p \in S : InAlert(p)
              /\ mail' = [p \in Paths |-> IF p \in S THEN [mail[p] EXCEPT !.recoveries = @ + 1]
                                          ELSE mail[p]]

Restart == mail' = NoMail

Next == \/ \E S \in SUBSET Paths : Alert(S) \/ Recover(S)
        \/ Restart

Spec == Init /\ [][Next]_vars
=============================================================================
