---------------------------- MODULE ReplayContract ----------------------------
(***************************************************************************)
(* What a client of the replay guard may rely on.  The effect of an        *)
(* operation takes place once before it is promised; a promise (a success  *)
(* answer) is made only of an operation whose effect took place; and the   *)
(* effect may take place again only for an operation that was exposed.     *)
(***************************************************************************)
EXTENDS Naturals

CONSTANT Ops

VARIABLES
    effects,        \* how often the effect of each operation took place
    promised,       \* operations some client was told have succeeded
    exposed         \* operations that may take effect again

vars == <<effects, promised, exposed>>

Init ==
    /\ effects = [o \in Ops |-> 0]
    /\ promised = {}
    /\ exposed = {}

TakeEffect(o) ==
    /\ effects[o] = 0 \/ o \in exposed
    /\ effects' = [effects EXCEPT ![o] = @ + 1]
    /\ UNCHANGED <<promised, exposed>>

Promise(o) ==
    /\ effects[o] > 0
    /\ promised' = promised \cup {o}
    /\ UNCHANGED <<effects, exposed>>

Expose(o) ==
    /\ exposed' = exposed \cup {o}
    /\ UNCHANGED <<effects, promised>>

Next == \E o \in Ops : TakeEffect(o) \/ Promise(o) \/ Expose(o)

Spec == Init /\ [][Next]_vars
=============================================================================
