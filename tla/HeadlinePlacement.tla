-------------------------- MODULE HeadlinePlacement --------------------------
(***************************************************************************)
(* What a refresh promises about headlines (news_cluster_store.py,         *)
(* refresh_clusters), without handlers, locks, sessions or restarts.  A    *)
(* cluster row only gains headlines.  A batch of headlines that have no    *)
(* place gets one, as a whole and for good, in rows they are already in.   *)
(* A batch is then listed in the registry as a whole, or not at all, and   *)
(* before the next batch is placed.                                        *)
(***************************************************************************)
EXTENDS Naturals

CONSTANTS
    Record,     \* headlines
    Row         \* cluster rows, numbered from 1

VARIABLES
    members,    \* the headlines of each row
    placed,     \* the row a headline is assigned to (0: none)
    listed,     \* the row the registry names for it (0: none)
    batch       \* placed, and neither listed nor given up

vars == <<members, placed, listed, batch>>

Nowhere == [x \in Record |-> 0]

Init ==
    /\ members = [c \in Row |-> {}]
    /\ placed = Nowhere
    /\ listed = Nowhere
    /\ batch = {}

Gather(c, taken) ==
    /\ members' = [members EXCEPT ![c] = @ \cup taken]
    /\ UNCHANGED <<placed, listed, batch>>

\* batch' is where placed' differs.
Place ==
    /\ batch = {} /\ batch' # {} /\ batch' \subseteq Record
    /\ placed' = [x \in Record |-> IF x \in batch' THEN placed'[x] ELSE placed[x]]
    /\ \A x \in batch' : placed[x] = 0 /\ placed'[x] \in Row /\ x \in members[placed'[x]]
    /\ UNCHANGED <<members, listed>>

List ==
    /\ listed' = [x \in Record |-> IF x \in batch THEN placed[x] ELSE listed[x]]
    /\ batch' = {}
    /\ UNCHANGED <<members, placed>>

GiveUp ==
    /\ batch' = {}
    /\ UNCHANGED <<members, placed, listed>>

Next ==
    \/ \E c \in Row, taken \in SUBSET Record : Gather(c, taken)
    \/ Place
    \/ List
    \/ GiveUp

Spec == Init /\ [][Next]_vars
=============================================================================
