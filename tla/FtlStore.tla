------------------------------ MODULE FtlStore ------------------------------
(***************************************************************************)
(* What the FTL promises its callers (ftl.h, ftl_ioctl and the save and    *)
(* load functions): a durable map from logical addresses to words.         *)
(*                                                                         *)
(* A save takes effect at one instant between its request and its return,  *)
(* for every later load and for every later boot.  One that power cuts     *)
(* short has taken effect already or never does.  Nothing but a save or a  *)
(* clear changes what is stored; garbage collection is invisible.          *)
(***************************************************************************)
CONSTANTS Addr, Value, None,
          MayFail        \* may a save return an error?

VARIABLES store,         \* the stored word of each address, or None
          pend,          \* the request that has not returned yet
          up             \* is the FTL mounted?

vars == <<store, pend, up>>

Idle == [kind |-> "none"]

Init == store = [a \in Addr |-> None] /\ pend = Idle /\ up = FALSE

PowerUp == ~up /\ up' = TRUE /\ UNCHANGED <<store, pend>>

PowerLoss == up /\ up' = FALSE /\ pend' = Idle /\ UNCHANGED store

Save(a, v) ==
    /\ up /\ pend = Idle
    /\ pend' = [kind |-> "save", addr |-> a, val |-> v]
    /\ UNCHANGED <<store, up>>

Commit ==
    /\ pend.kind = "save"
    /\ pend' = Idle
    /\ store' = [store EXCEPT ![pend.addr] = pend.val]
    /\ UNCHANGED up

Fail == MayFail /\ pend.kind = "save" /\ pend' = Idle /\ UNCHANGED <<store, up>>

Clear ==
    /\ up /\ pend = Idle
    /\ pend' = [kind |-> "clear"]
    /\ UNCHANGED <<store, up>>

\* While a clear runs nothing is promised of the contents...
Scramble ==
    /\ pend.kind = "clear"
    /\ UNCHANGED <<pend, up>>
    /\ store' \in [Addr -> Value \cup {None}]

\* ...and when it returns there are none.
Cleared ==
    /\ pend.kind = "clear"
    /\ pend' = Idle
    /\ store' = [a \in Addr |-> None]
    /\ UNCHANGED up

Next ==
    \/ PowerUp \/ PowerLoss
    \/ \E a \in Addr, v \in Value : Save(a, v)
    \/ Commit \/ Fail \/ Clear \/ Scramble \/ Cleared

Spec == Init /\ [][Next]_vars
=============================================================================
