-------------------------- MODULE CommandLifecycle --------------------------
(***************************************************************************)
(* What the command ledger promises, without leases, versions, queues or   *)
(* clocks.  A command is submitted once; while it is pending nothing has   *)
(* been sent; once sent it stays sent until evidence settles it (or proves *)
(* that it was never sent); it is bound to at most one Run, no other       *)
(* command is bound to that Run, and closing it is final.                  *)
(***************************************************************************)
CONSTANTS Commands, Runs, NoRun

VARIABLES phase,    \* phase[c]
          bound     \* bound[c]: the Run of the command, or NoRun

vars == <<phase, bound>>

Init == /\ phase = [c \in Commands |-> "absent"]
        /\ bound = [c \in Commands |-> NoRun]

Move(c, p, r) == /\ phase' = [phase EXCEPT ![c] = p]
                 /\ bound' = [bound EXCEPT ![c] = r]

Free(c, r) == \A d \in Commands \ {c} : bound[d] # r

Submit(c) == phase[c] = "absent" /\ Move(c, "pending", NoRun)

Send(c) == phase[c] = "pending" /\ Move(c, "sent", NoRun)

\* The dispatch is known not to have reached Hermes.
Retract(c) == phase[c] = "sent" /\ Move(c, "pending", NoRun)

Bind(c, r) == phase[c] = "sent" /\ Free(c, r) /\ Move(c, "bound", r)

\* Cancelled before it was sent, or refused.
Abandon(c) == phase[c] \in {"pending", "sent"} /\ Move(c, "closed", NoRun)

Close(c, r) == /\ \/ phase[c] = "bound" /\ bound[c] = r
                  \/ phase[c] = "sent"
               /\ Free(c, r)
               /\ Move(c, "closed", r)

Next == \E c \in Commands :
          \/ Submit(c) \/ Send(c) \/ Retract(c) \/ Abandon(c)
          \/ \E r \in Runs : Bind(c, r) \/ Close(c, r)

Spec == Init /\ [][Next]_vars

=============================================================================
