-------------------------- MODULE PriorityChannel --------------------------
(***************************************************************************)
(* What the TX scheduler promises its callers: frames are accepted at any  *)
(* time and handed to the radio one by one, always the most urgent pending *)
(* frame, the oldest one first among equals, and never held back while     *)
(* something is pending.                                                   *)
(***************************************************************************)
EXTENDS Naturals, Sequences

CONSTANTS Priorities, MaxFrames

VARIABLES
    pending,  \* frames accepted and not yet handed over
    out       \* frames handed over, in order

vars == <<pending, out>>

Frames == [id : 1 .. MaxFrames, prio : Priorities, after : Nat]

Init == pending = {} /\ out = <<>>

Precedes(f, g) == f.prio < g.prio \/ (f.prio = g.prio /\ f.id < g.id)

Known == {f.id : f \in pending} \cup {out[i].id : i \in DOMAIN out}

\* Ids number the frames in the order of acceptance.
Submit ==
    \E n \in 1 .. MaxFrames, p \in Priorities :
        /\ \A m \in 1 .. MaxFrames : m < n <=> m \in Known
        /\ pending' = pending \cup {[id |-> n, prio |-> p, after |-> Len(out)]}
        /\ UNCHANGED out

Transmit ==
    \E f \in pending :
        /\ \A g \in pending \ {f} : Precedes(f, g)
        /\ pending' = pending \ {f}
        /\ out' = Append(out, f)

Next == Submit \/ Transmit

Spec == Init /\ [][Next]_vars /\ WF_vars(Transmit)
============================================================================
