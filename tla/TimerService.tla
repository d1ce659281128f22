--------------------------- MODULE TimerService ---------------------------
(***************************************************************************)
(* timer_service.c: the timers of the Wi-Fi driver over the software       *)
(* timers of FreeRTOS.  timer_table finds the timer that a handle belongs  *)
(* to when it expires.  Each timer is used by one task; the daemon of      *)
(* FreeRTOS, of the highest priority, runs the functions of the timers and *)
(* executes the commands that the tasks queue.                             *)
(***************************************************************************)
EXTENDS Sequences

CONSTANTS
    Timer,
    Handle,
    NoHandle    \* NULL

TimerAssumption == NoHandle \notin Handle

VARIABLES
    timer_hdl,
    timer_table,   \* the timers that have an entry
    existing,      \* the handles FreeRTOS has allocated and not freed
    armed,         \* those that will expire
    commands,      \* the queue of the daemon
    at,            \* where the task of each timer stands
    arming,        \* is it in mod_timer, rather than init_timer?
    quiet,         \* the timers cancelled, or deleted, since they were last set
    called         \* the timer whose function has just run, as a set

timers == <<timer_hdl, timer_table>>
kernel == <<existing, armed, commands>>
tasks == <<at, arming, quiet>>
timerVars == <<timers, kernel, tasks, called>>

Init ==
    /\ timer_hdl = [t \in Timer |-> NoHandle] /\ timer_table = {}
    /\ existing = {} /\ armed = {} /\ commands = <<>>
    /\ at = [t \in Timer |-> "out"] /\ arming = [t \in Timer |-> FALSE]
    /\ quiet = {} /\ called = {}

\* A task moves when the daemon has nothing left to do.
Moves(t, from, to) ==
    /\ commands = <<>>
    /\ at[t] = from /\ at' = [at EXCEPT ![t] = to]
    /\ called' = {}

Send(command, t) == commands' = <<[command |-> command, handle |-> timer_hdl[t]]>>

\* The entries that a search for handle h finds
Entries(h) == {t \in timer_table : timer_hdl[t] = h}

\* Where init_timer and mod_timer go on with a timer that is ready
Ready(t) == IF arming[t] THEN "period" ELSE "out"
-----------------------------------------------------------------------------
(* init_timer and mod_timer *)

\* rtw_timerCreate: a handle may be one that was freed before.
Create(t) ==
    /\ timer_hdl[t] = NoHandle
    /\ Moves(t, "out", "alloc")
    /\ \E h \in Handle \ existing :
          /\ timer_hdl' = [timer_hdl EXCEPT ![t] = h]
          /\ existing' = existing \cup {h}
    /\ \E mod \in BOOLEAN :
          /\ arming' = [arming EXCEPT ![t] = mod]
          /\ quiet' = IF mod THEN quiet \ {t} ELSE quiet
    /\ UNCHANGED <<timer_table, armed, commands>>

\* Without memory for the entry the handle is given up.
NoMemory(t) ==
    /\ Moves(t, "alloc", "deleted")
    /\ Send("delete", t)
    /\ UNCHANGED <<timers, existing, armed, arming, quiet>>

Insert(t) ==
    /\ Moves(t, "alloc", Ready(t))
    /\ timer_table' = timer_table \cup {t}
    /\ UNCHANGED <<timer_hdl, kernel, arming, quiet>>

\* rtw_timerIsTimerActive
Test(t) ==
    /\ timer_hdl[t] # NoHandle
    /\ \E mod \in BOOLEAN :
          /\ arming' = [arming EXCEPT ![t] = mod]
          /\ quiet' = IF mod THEN quiet \ {t} ELSE quiet
          /\ Moves(t, "out", IF timer_hdl[t] \in armed THEN "stop"
                             ELSE IF mod THEN "period" ELSE "out")
    /\ UNCHANGED <<timers, kernel>>

Stop(t) ==
    /\ Moves(t, "stop", Ready(t))
    /\ Send("stop", t)
    /\ UNCHANGED <<timers, existing, armed, arming, quiet>>

\* rtw_timerChangePeriod starts the timer.
ChangePeriod(t) ==
    /\ Moves(t, "period", "out")
    /\ Send("start", t)
    /\ UNCHANGED <<timers, existing, armed, arming, quiet>>
-----------------------------------------------------------------------------
(* cancel_timer_ex and del_timer_sync *)

Cancel(t) ==
    /\ timer_hdl[t] # NoHandle /\ Entries(timer_hdl[t]) # {}
    /\ Moves(t, "out", "cancel")
    /\ UNCHANGED <<timers, kernel, arming, quiet>>

CancelStop(t) ==
    /\ Moves(t, "cancel", "cancelled")
    /\ Send("stop", t)
    /\ UNCHANGED <<timers, existing, armed, arming, quiet>>

Cancelled(t) ==
    /\ Moves(t, "cancelled", "out")
    /\ quiet' = quiet \cup {t}
    /\ UNCHANGED <<timers, kernel, arming>>

\* Mutant of Removed: the entry stays in the list.
RemovedNone(u) == {}

Removed(u) == {u}

\* The entry goes first ...
Delete(t) ==
    /\ timer_hdl[t] # NoHandle
    /\ Moves(t, "out", "delete")
    /\ \E u \in Entries(timer_hdl[t]) : timer_table' = timer_table \ Removed(u)
    /\ UNCHANGED <<timer_hdl, kernel, arming, quiet>>

\* ... then the handle ...
DeleteHandle(t) ==
    /\ Moves(t, "delete", "deleted")
    /\ Send("delete", t)
    /\ UNCHANGED <<timers, existing, armed, arming, quiet>>

\* Mutant of NewHandle: the handle is not set to NULL.
NewHandleKept(t) == timer_hdl[t]

NewHandle(t) == NoHandle

\* ... which the timer forgets.
Deleted(t) ==
    /\ Moves(t, "deleted", "out")
    /\ timer_hdl' = [timer_hdl EXCEPT ![t] = NewHandle(t)]
    /\ quiet' = quiet \cup {t}
    /\ UNCHANGED <<timer_table, kernel, arming>>
-----------------------------------------------------------------------------
(* The daemon *)

Execute ==
    /\ commands # <<>>
    /\ LET h == Head(commands).handle
           command == Head(commands).command
       IN  /\ armed' = IF command = "start" THEN armed \cup {h} ELSE armed \ {h}
           /\ existing' = IF command = "delete" THEN existing \ {h} ELSE existing
    /\ commands' = Tail(commands)
    /\ called' = {}
    /\ UNCHANGED <<timers, tasks>>

\* Mutant of Found: any entry will do.
FoundAny(h) == timer_table

\* timer_wrapper: what the handle's function is found by
Found(h) == Entries(h)

\* A timer expires while the daemon waits for commands.  Its function, which must
\* not block, may set the timer again: it is not active any more.
Expire(h) ==
    /\ commands = <<>> /\ h \in armed
    /\ armed' = armed \ {h}
    /\ \/ /\ Found(h) = {}
          /\ called' = {} /\ UNCHANGED <<commands, quiet>>
       \/ \E t \in Found(h) :
             /\ called' = {t}
             /\ \/ UNCHANGED <<commands, quiet>>
                \/ /\ Send("start", t)
                   /\ quiet' = quiet \ {t}
    /\ UNCHANGED <<timers, existing, at, arming>>

Next ==
    \/ \E t \in Timer :
          \/ Create(t) \/ NoMemory(t) \/ Insert(t) \/ Test(t) \/ Stop(t)
          \/ ChangePeriod(t) \/ Cancel(t) \/ CancelStop(t) \/ Cancelled(t)
          \/ Delete(t) \/ DeleteHandle(t) \/ Deleted(t)
    \/ Execute
    \/ \E h \in Handle : Expire(h)

Spec == Init /\ [][Next]_timerVars
-----------------------------------------------------------------------------
TypeOK ==
    /\ timer_hdl \in [Timer -> Handle \cup {NoHandle}]
    /\ timer_table \subseteq Timer /\ quiet \subseteq Timer /\ called \subseteq Timer
    /\ existing \subseteq Handle /\ armed \subseteq existing
    /\ at \in [Timer -> {"out", "alloc", "stop", "period", "cancel", "cancelled",
                         "delete", "deleted"}]
    /\ arming \in [Timer -> BOOLEAN]

\* No command, and no task about to send one, names a handle that was freed.
NoDeadHandle ==
    /\ \A i \in DOMAIN commands : commands[i].handle \in existing
    /\ \A t \in Timer :
          at[t] \in {"stop", "period", "cancel", "delete"} => timer_hdl[t] \in existing

\* A timer that was cancelled or deleted does not call its function until it is set
\* again, by its task or by itself.
QuietIsQuiet == called \cap quiet = {}

\* The entry that a handle leads to is that of its timer, although a handle freed
\* by one task may already be another timer's while the first still names it.
OneEntry ==
    \A t, u \in timer_table : timer_hdl[t] = timer_hdl[u] => t = u
=============================================================================
