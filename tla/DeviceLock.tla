---------------------------- MODULE DeviceLock ----------------------------
(***************************************************************************)
(* device_lock.c: one mutex for each shared device (flash, crypto engine,  *)
(* ...), created by the first task that locks it.  The bit of mutex_init   *)
(* is tested twice, the second time in a critical section.                 *)
(***************************************************************************)
CONSTANTS Task, Device, None

DeviceLockAssumption == Device # {} /\ None \notin Task

VARIABLES
    mutex_init,    \* the devices whose bit is set
    device_mutex,  \* the mutex of each device, named after who created it
    owner,         \* who holds each mutex ever created
    step,          \* where each task stands in lock or unlock
    wants          \* and the device it locks

vars == <<mutex_init, device_mutex, owner, step, wants>>

Init ==
    /\ mutex_init = {}
    /\ device_mutex = [d \in Device |-> None]
    /\ owner = [t \in Task |-> [d \in Device |-> None]]
    /\ step = [t \in Task |-> "out"]
    /\ wants \in [Task -> {CHOOSE d \in Device : TRUE}]

\* device_mutex_lock: if the bit is clear, go on to the critical section.
Enter(t) ==
    /\ step[t] = "out"
    /\ \E d \in Device :
          /\ wants' = [wants EXCEPT ![t] = d]
          /\ step' = [step EXCEPT ![t] = IF d \in mutex_init THEN "get" ELSE "critical"]
    /\ UNCHANGED <<mutex_init, device_mutex, owner>>

\* Mutant of MustCreate: the bit is not tested again in the critical section.
MustCreateAlways(d) == TRUE

MustCreate(d) == d \notin mutex_init

\* The critical section of device_mutex_init: interrupts are off.
CreateOnce(t) ==
    /\ step[t] = "critical"
    /\ IF MustCreate(wants[t])
       THEN /\ device_mutex' = [device_mutex EXCEPT ![wants[t]] = t]
            /\ mutex_init' = mutex_init \cup {wants[t]}
       ELSE UNCHANGED <<device_mutex, mutex_init>>
    /\ step' = [step EXCEPT ![t] = "get"]
    /\ UNCHANGED <<owner, wants>>

Holder(d) == owner[device_mutex[d]][d]

\* rtw_mutex_get_timeout, tried again after each timeout
Get(t) ==
    /\ step[t] = "get" /\ Holder(wants[t]) = None
    /\ owner' = [owner EXCEPT ![device_mutex[wants[t]]][wants[t]] = t]
    /\ step' = [step EXCEPT ![t] = "in"]
    /\ UNCHANGED <<mutex_init, device_mutex, wants>>

\* device_mutex_unlock.  The bit is set by then, so that its call of
\* device_mutex_init does nothing.
Put(t) ==
    /\ step[t] = "in"
    /\ owner' = [owner EXCEPT ![device_mutex[wants[t]]][wants[t]] = None]
    /\ step' = [step EXCEPT ![t] = "out"]
    /\ UNCHANGED <<mutex_init, device_mutex, wants>>

Next == \E t \in Task : Enter(t) \/ CreateOnce(t) \/ Get(t) \/ Put(t)

Spec == Init /\ [][Next]_vars
-----------------------------------------------------------------------------
TypeOK ==
    /\ mutex_init \in SUBSET Device
    /\ device_mutex \in [Device -> Task \cup {None}]
    /\ owner \in [Task -> [Device -> Task \cup {None}]]
    /\ step \in [Task -> {"out", "critical", "get", "in"}]
    /\ wants \in [Task -> Device]

\* Whatever the order of the first calls, a device has one mutex for ever: two
\* tasks are never past device_mutex_lock of the same device.
OneHolder ==
    \A t, u \in Task :
        step[t] = "in" /\ step[u] = "in" /\ wants[t] = wants[u] => t = u
=============================================================================
