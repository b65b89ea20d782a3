------------------------- MODULE NvmeCommandService -------------------------
(***************************************************************************)
(* What a queue pair promises its caller, without rings, phase tags or     *)
(* doorbells: two FIFO channels to a controller that executes the commands *)
(* it has begun in any order.  Every submitted command begins, finishes    *)
(* and is delivered exactly once, under the cid it was submitted with.     *)
(***************************************************************************)
EXTENDS Sequences

CONSTANTS Cids, Ops

VARIABLES
    idle,       \* cids nobody holds
    owned,      \* cids the caller holds
    submitted,  \* commands the controller has not begun
    executing,  \* commands begun and not finished
    completed   \* completions the caller has not seen

vars == <<idle, owned, submitted, executing, completed>>

Commands == [cid : Cids, op : Ops]

Init ==
    /\ idle = Cids
    /\ owned = {}
    /\ submitted = <<>>
    /\ executing = {}
    /\ completed = <<>>

Allocate(c) ==
    /\ c \in idle
    /\ idle' = idle \ {c}
    /\ owned' = owned \cup {c}
    /\ UNCHANGED <<submitted, executing, completed>>

Release(c) ==
    /\ c \in owned
    /\ owned' = owned \ {c}
    /\ idle' = idle \cup {c}
    /\ UNCHANGED <<submitted, executing, completed>>

Submit(c, o) ==
    /\ c \in owned
    /\ owned' = owned \ {c}
    /\ submitted' = Append(submitted, [cid |-> c, op |-> o])
    /\ UNCHANGED <<idle, executing, completed>>

Begin ==
    /\ submitted # <<>>
    /\ executing' = executing \cup {Head(submitted)}
    /\ submitted' = Tail(submitted)
    /\ UNCHANGED <<idle, owned, completed>>

Finish(x) ==
    /\ x \in executing
    /\ executing' = executing \ {x}
    /\ completed' = Append(completed, x)
    /\ UNCHANGED <<idle, owned, submitted>>

Deliver ==
    /\ completed # <<>>
    /\ owned' = owned \cup {Head(completed).cid}
    /\ completed' = Tail(completed)
    /\ UNCHANGED <<idle, submitted, executing>>

Next ==
    \/ \E c \in Cids : Allocate(c) \/ Release(c)
    \/ \E c \in Cids, o \in Ops : Submit(c, o)
    \/ Begin
    \/ \E x \in executing : Finish(x)
    \/ Deliver

Fairness ==
    /\ WF_vars(Begin)
    /\ WF_vars(Deliver)
    /\ \A x \in Commands : WF_vars(Finish(x))

Spec == Init /\ [][Next]_vars /\ Fairness
=============================================================================
