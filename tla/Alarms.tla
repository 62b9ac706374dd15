------------------------------- MODULE Alarms -------------------------------
(***************************************************************************)
(* Alarms of the HAL (HAL/src: alt_alarm_start.c, alt_tick.c; HAL/inc:     *)
(* alt_alarm.h, alt_llist.h), for a system with a system clock.  A program *)
(* starts and stops alarms with interrupts disabled; a tick goes through   *)
(* the list alarm by alarm, and callbacks start and stop alarms too.       *)
(***************************************************************************)
EXTENDS Integers

CONSTANTS
    ALARMS,             \* alarm structures
    TICK_BITS,          \* width of the tick counter (32)
    MAX_PERIOD,         \* ticks asked for
    MAX_ALARM_TICKS     \* bound: ticks

ASSUME AlarmAssumption ==
    /\ TICK_BITS \in Nat /\ 2 ^ TICK_BITS \in Nat
    /\ MAX_PERIOD \in 1 .. 2 ^ TICK_BITS - 2 /\ MAX_ALARM_TICKS \in Nat
    /\ "list" \notin ALARMS

VARIABLES
    nticks,             \* _alt_nticks
    links,              \* alt_llist: next and previous, of the list head too
    time, rollover,     \* of an alarm
    visit,              \* in alt_tick: the alarm; or "list"
    due,                \* history: ticks until an alarm is due, without width
    ticks               \* history: ticks since reset

alarmVars == <<nticks, links, time, rollover, visit, due, ticks>>

Wrap(n) == n % 2 ^ TICK_BITS

\* alt_llist: an entry that is not in a list points to itself
Insert(entry) ==
    LET first == links["list"].next
        in == [links EXCEPT ![entry] = [next |-> first, previous |-> "list"]]
    IN  [[in EXCEPT ![first].previous = entry] EXCEPT !["list"].next = entry]

Remove(l, entry) ==
    LET n == l[entry].next
        p == l[entry].previous
    IN  [[[l EXCEPT ![n].previous = p] EXCEPT ![p].next = n]
            EXCEPT ![entry] = [next |-> entry, previous |-> entry]]

Listed(a) == links[a].next # a

AlarmInit ==
    /\ nticks \in {0, 2 ^ TICK_BITS - 2}
    /\ links = [e \in ALARMS \cup {"list"} |-> [next |-> e, previous |-> e]]
    /\ time = [a \in ALARMS |-> 0] /\ rollover = [a \in ALARMS |-> FALSE]
    /\ visit = "list"
    /\ due = [a \in ALARMS |-> 0] /\ ticks = 0

-----------------------------------------------------------------------------

\* Fault: the flag stays as it was.
TimeRolls_Not(a, at) == rollover[a]

TimeRolls(a, at) == at < nticks

\* alt_alarm_start, of an alarm that is not in the list
Start(a, n) ==
    /\ visit = "list" /\ ~Listed(a)
    /\ LET at == Wrap(n + nticks + 1)
       IN  /\ time' = [time EXCEPT ![a] = at]
           /\ rollover' = [rollover EXCEPT ![a] = TimeRolls(a, at)]
    /\ links' = Insert(a) /\ due' = [due EXCEPT ![a] = n + 1]
    /\ UNCHANGED <<nticks, visit, ticks>>

\* alt_alarm_stop
Stop(a) ==
    /\ visit = "list" /\ links' = Remove(links, a)
    /\ UNCHANGED <<nticks, time, rollover, visit, due, ticks>>

\* alt_tick: the counter, then the list from its first alarm
Tick ==
    /\ visit = "list" /\ ticks < MAX_ALARM_TICKS /\ ticks' = ticks + 1
    /\ nticks' = Wrap(nticks + 1)
    /\ visit' = links["list"].next
    /\ due' = [a \in ALARMS |-> IF Listed(a) THEN due[a] - 1 ELSE due[a]]
    /\ UNCHANGED <<links, time, rollover>>

\* Once the counter has rolled over the flag is cleared.
Rolls(a) == rollover[a] /\ nticks # 0

Expired(a) == time[a] <= nticks /\ ~Rolls(a)

\* what a callback does with the list: nothing, or an alarm is stopped, which may
\* be its own.  It must not be the one that is next: alt_tick has its address
\* already, and would follow its link to itself for ever (alt_tick.c 102, 140).
Callbacks(a) == {links} \cup {Remove(links, b) : b \in ALARMS \ {links[a].next}}

\* A visit to an alarm: the one after it is taken before the callback runs.
\* A callback that returns 0 unregisters its alarm.
Quiet(a) ==
    /\ visit = a /\ ~Expired(a)
    /\ visit' = links[a].next /\ rollover' = [rollover EXCEPT ![a] = Rolls(a)]
    /\ UNCHANGED <<nticks, links, time, due, ticks>>

Fire(a, next_callback) ==
    /\ visit = a /\ Expired(a) /\ visit' = links[a].next
    /\ \E l \in Callbacks(a) :
          IF next_callback = 0
          THEN /\ links' = Remove(l, a) /\ rollover' = [rollover EXCEPT ![a] = FALSE]
               /\ UNCHANGED <<time, due>>
          ELSE LET at == Wrap(time[a] + next_callback)
               IN  /\ links' = l /\ time' = [time EXCEPT ![a] = at]
                   /\ rollover' = [rollover EXCEPT ![a] = TimeRolls(a, at)]
                   /\ due' = [due EXCEPT ![a] = @ + next_callback]
    /\ UNCHANGED <<nticks, ticks>>

\* A callback may start an alarm that is not in the list.
FireAndStart(a, b, n) ==
    /\ visit = a /\ Expired(a) /\ visit' = links[a].next /\ ~Listed(b)
    /\ LET at == Wrap(n + nticks + 1)
       IN  /\ time' = [time EXCEPT ![b] = at]
           /\ rollover' = [[rollover EXCEPT ![a] = FALSE] EXCEPT ![b] = TimeRolls(b, at)]
           /\ due' = [due EXCEPT ![b] = n + 1]
           /\ links' = Remove(Insert(b), a)
    /\ UNCHANGED <<nticks, ticks>>

AlarmNext ==
    \/ Tick
    \/ \E a \in ALARMS :
          \/ Stop(a) \/ Quiet(a)
          \/ \E n \in 0 .. MAX_PERIOD : Start(a, n) \/ Fire(a, n)
          \/ \E b \in ALARMS, n \in 0 .. MAX_PERIOD : FireAndStart(a, b, n)

\* The system clock's interrupt handler runs to its end.
TickSteps ==
    \E a \in ALARMS : \/ Quiet(a)
                      \/ \E n \in 0 .. MAX_PERIOD :
                            Fire(a, n) \/ \E b \in ALARMS : FireAndStart(a, b, n)

AlarmSpec == AlarmInit /\ [][AlarmNext]_alarmVars /\ WF_alarmVars(TickSteps)

-----------------------------------------------------------------------------

\* An alarm expires at the tick it is due and at no other, although the counter
\* and the alarm times roll over; a tick misses none of those that are listed,
\* although callbacks start and stop alarms in the middle of it
\* (alt_alarm_start.c lines 77-96, alt_tick.c lines 104-142).
AlarmsOnTime ==
    /\ visit # "list" => (Expired(visit) <=> due[visit] = 0)
    /\ visit = "list" => \A a \in ALARMS : Listed(a) => due[a] > 0
=============================================================================
