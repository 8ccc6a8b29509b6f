----------------------------- MODULE DataLimit ------------------------------
(***************************************************************************)
(* mdcollectd counts the mobile data each SIM uses, and limit_guard takes  *)
(* the connection down when the data of the period reaches the limit.      *)
(* They share a database in /tmp with a backup in flash; sim_switch        *)
(* restarts both after a change of SIM, and the web interface restarts     *)
(* limit_guard after a change of its configuration.                        *)
(*                                                                         *)
(* Time is counted in days.  The day's row in the table "days" has the     *)
(* time of its noon, which a window that starts at midnight may include or *)
(* not.  The period is the month or the week, Cycle days long; the period  *)
(* "day" works in the same way on hours and is left out, like the warning  *)
(* by SMS.                                                                 *)
(***************************************************************************)
EXTENDS Integers, FiniteSets, FiniteSetsExt

CONSTANTS
    Sims,
    Ifaces,         \* 3g-ppp, wwan0, eth2: how a SIM may be connected
    Cycle,          \* days of a month or a week
    StartDay,       \* conn_start_day (from 0), conn_start_weekday
    Length,         \* 2628000 or 604800 seconds, in half days
    Limits,         \* what conn_limit may be set to
    MaxDay, MaxTraffic, MaxEvents     \* bounds on the environment

ASSUME LimitAssumption ==
    /\ IsFiniteSet(Ifaces)
    /\ Cycle \in Nat \ {0} /\ StartDay \in 0 .. Cycle - 1 /\ Length \in Nat
    /\ Limits \subseteq Nat \ {0} /\ Limits # {}
    /\ {MaxDay, MaxTraffic, MaxEvents} \subseteq Nat

VARIABLES
    today,      \* the day
    real,       \* real[s][d]: data SIM s used on day d (what happened)
    gpio,       \* the SIM in use
    iface,      \* system.module.iface, the interface it is connected over
    up,         \* that interface exists and is up; no other mobile one is
    over,       \* network.ppp: enabled '0', overlimit '1'
    counter,    \* rx_bytes and tx_bytes of the interface
    limit,      \* data_limit: conn_limit of each SIM
    db,         \* the database in /tmp
    backup,     \* mdcollectd.db_new.gz
    col,        \* mdcollectd
    guard,      \* limit_guard
    owed,       \* sim_switch has still to restart the services
    events      \* reboots, reconnections, changes of SIM and of limit so far

vars == <<today, real, gpio, iface, up, over, counter, limit, db, backup, col,
          guard, owed, events>>

Days == 0 .. MaxDay
NoRow == -1

\* The tables "days", with a row for each SIM, interface and day, and "guard"
\* (its last row for each SIM; limit_guard takes a missing row for zeros), and
\* the sums of today's samples in the table "current", which are taken over all
\* interfaces.
NoDb == [on |-> FALSE,
         days |-> [s \in Sims |-> [i \in Ifaces |-> [d \in Days |-> NoRow]]],
         row |-> [s \in Sims |-> [time |-> 0, lmt |-> 0]],
         today |-> 0, cur |-> [s \in Sims |-> 0]]

\* mdcollectd reads the name of the interface when it starts.
FreshCol(i) == [iface |-> i, prev |-> -1, day |-> -1, saving |-> FALSE]

\* limit_guard reads the limit of the SIM in use when it starts.
FreshGuard(l) == [lim |-> l, first |-> TRUE, legalized |-> FALSE]

\* The data of a table over the days D, counted unit by unit; a missing row
\* has none.
Total(table, D) == Cardinality(UNION {{d} \X (1 .. table[d]) : d \in D})

Database ==
    [on : BOOLEAN, days : [Sims -> [Ifaces -> [Days -> Nat \cup {NoRow}]]],
     row : [Sims -> [time : Nat, lmt : Nat]], today : Days, cur : [Sims -> Nat]]

LimitTypeOK ==
    /\ today \in Days
    /\ real \in [Sims -> [Days -> Nat]]
    /\ gpio \in Sims /\ iface \in Ifaces
    /\ up \in BOOLEAN /\ over \in BOOLEAN /\ owed \in BOOLEAN
    /\ counter \in Nat
    /\ limit \in [Sims -> Limits]
    /\ db \in Database /\ backup \in Database
    /\ col \in [iface : Ifaces, prev : Nat \cup {-1}, day : Days \cup {-1},
                saving : BOOLEAN]
    /\ guard \in [lim : Limits, first : BOOLEAN, legalized : BOOLEAN]
    /\ events \in 0 .. MaxEvents

Init ==
    /\ today = 0 /\ real = [s \in Sims |-> [d \in Days |-> 0]]
    /\ gpio \in Sims /\ iface \in Ifaces
    /\ up = TRUE /\ over = FALSE /\ counter = 0
    /\ limit \in [Sims -> Limits]
    /\ db = NoDb /\ backup = NoDb /\ col = FreshCol(iface)
    /\ guard = FreshGuard(limit[gpio])
    /\ owed = FALSE /\ events = 0

-----------------------------------------------------------------------------
(* The environment.                                                        *)

Event == events < MaxEvents /\ events' = events + 1

Midnight ==
    /\ today < MaxDay
    /\ today' = today + 1
    /\ UNCHANGED <<real, gpio, iface, up, over, counter, limit, db, backup, col,
                   guard, owed, events>>

Used(s, D) == Total(real[s], D)

TrafficLeft == MapThenSumSet(LAMBDA s : Used(s, Days), Sims) < MaxTraffic

Traffic ==
    /\ up /\ TrafficLeft
    /\ counter' = counter + 1
    /\ real' = [real EXCEPT ![gpio][today] = @ + 1]
    /\ UNCHANGED <<today, gpio, iface, up, over, limit, db, backup, col, guard,
                   owed, events>>

\* The connection is made anew, and its counters with it, over another
\* interface where sim_conf_switch.sh has copied a new ifname of the SIM; it
\* restarts neither program.
Reconnect ==
    /\ Event
    /\ up /\ iface' \in Ifaces /\ (counter > 0 \/ iface' # iface)
    /\ counter' = 0
    /\ UNCHANGED <<today, real, gpio, up, over, limit, db, backup, col, guard,
                   owed>>

\* sim_switch changes the SIM, copies the name of its interface and starts the
\* modem; whether the connection comes up with network.ppp disabled is not for
\* these programs to say.
SwitchSim ==
    /\ Event
    /\ gpio' \in Sims \ {gpio} /\ iface' \in Ifaces
    /\ up' \in BOOLEAN /\ counter' = 0
    /\ owed' = TRUE
    /\ UNCHANGED <<today, real, over, limit, db, backup, col, guard>>

\* ... and restarts mdcollectd and limit_guard.  The old mdcollectd's stop
\* saves the database, also when it was in the middle of saving it itself.
Services ==
    /\ owed
    /\ owed' = FALSE
    /\ col' = FreshCol(iface) /\ backup' = IF db.on THEN db ELSE backup
    /\ guard' = FreshGuard(limit[gpio])
    /\ UNCHANGED <<today, real, gpio, iface, up, over, counter, limit, db, events>>

\* The web interface saves a limit and restarts limit_guard.
SetLimit(s, l) ==
    /\ Event
    /\ limit[s] # l
    /\ limit' = [limit EXCEPT ![s] = l]
    /\ guard' = FreshGuard(limit'[gpio])
    /\ UNCHANGED <<today, real, gpio, iface, up, over, counter, db, backup, col,
                   owed>>

\* The router reboots: /tmp is lost and the backup restored.
Reboot ==
    /\ Event
    /\ up' \in BOOLEAN /\ counter' = 0
    /\ db' = backup
    /\ col' = FreshCol(iface)
    /\ guard' = FreshGuard(limit[gpio])
    /\ owed' = FALSE
    /\ UNCHANGED <<today, real, gpio, iface, over, limit, backup>>

-----------------------------------------------------------------------------
(* mdcollectd.                                                             *)

\* Mutant: the first reading counts as well.
SampledFromFirst(c, prev) == IF prev = -1 \/ c < prev THEN c ELSE c - prev

\* Mutant: a reset of the counters goes unnoticed.
SampledUnchecked(c, prev) == IF prev = -1 THEN 0 ELSE c - prev

\* The data since the last reading; counters that have gone down were reset.
Sampled(c, prev) ==
    IF prev = -1 THEN 0 ELSE IF c < prev THEN c ELSE c - prev

\* One pass of the loop.  The row of the day under the interface gets the sum
\* of the samples of the day so far, over any interface, before the new one is
\* taken: on a new day, or in a fresh process, it is inserted, later it is
\* updated, if it is there.  Then the database is saved; between the two
\* renames of saveDB there is no backup to restore.
Collect ==
    /\ up /\ col.iface = iface /\ ~col.saving
    /\ LET s == gpio
           cur == IF db.today = today THEN db.cur ELSE [t \in Sims |-> 0]
           old == db.days[s][iface][today]
           new == IF (today # col.day) = (old = NoRow) THEN cur[s] ELSE old
           save == col.prev # -1 \/ (today # col.day /\ old = NoRow /\ col.day # -1)
       IN  /\ db' = [db EXCEPT !.on = TRUE, !.days[s][iface][today] = new,
                               !.today = today,
                               !.cur = [cur EXCEPT ![s] =
                                           @ + Sampled(counter, col.prev)]]
           /\ col' = [iface |-> iface, prev |-> counter, day |-> today,
                      saving |-> save]
           /\ backup' = IF save THEN NoDb ELSE backup
    /\ UNCHANGED <<today, real, gpio, iface, up, over, counter, limit, guard, owed,
                   events>>

\* A pass that does not find the interface reads its name again, and goes on
\* with the last reading of the other one.
FindIface ==
    /\ col.iface # iface /\ ~col.saving
    /\ col' = [col EXCEPT !.iface = iface]
    /\ UNCHANGED <<today, real, gpio, iface, up, over, counter, limit, db, backup,
                   guard, owed, events>>

SaveDone ==
    /\ col.saving
    /\ col' = [col EXCEPT !.saving = FALSE]
    /\ backup' = db
    /\ UNCHANGED <<today, real, gpio, iface, up, over, counter, limit, db, guard,
                   owed, events>>

-----------------------------------------------------------------------------
(* limit_guard.                                                            *)

\* The rows of a SIM, whatever their interface.
Summed(s, D) ==
    Cardinality(UNION {{i} \X {d} \X (1 .. db.days[s][i][d]) : i \in Ifaces, d \in D})

\* time_interval: the start of the period in the month, or week, of today.
WindowStart == (today - (today % Cycle)) + StartDay

\* get_data: the rows of the days in the period, of all interfaces.
Counted(s) ==
    Summed(s, {d \in Days : /\ d >= WindowStart
                            /\ 2 * d + 1 <= 2 * WindowStart + Length})

\* Mutant: the limit has to be exceeded.
ReachedLater(l, n) == l < n

Reached(l, n) == l <= n

\* Mutant: a connection that has been taken down counts as made legal.
CutStaysLegal(g) == g

\* down_connection has to be undone when its time comes.
CutIsIllegal(g) == [g EXCEPT !.legalized = FALSE]

\* One pass: unless the connection was cut in this period for the limit as it
\* is now, count, and cut or make it legal again; a fresh process cuts again.
\* Without a database or a row in "days" nothing happens.  A cut is dated at
\* the end of its day: only one before the period is before its start.
GuardPass ==
    /\ db.on /\ \E s \in Sims, i \in Ifaces, d \in Days : db.days[s][i][d] # NoRow
    /\ LET row == db.row[gpio]
           n == Counted(gpio)
           count == row.time <= WindowStart \/ guard.lim > row.lmt
       IN  \/ /\ count /\ Reached(guard.lim, n)
              /\ guard' = CutIsIllegal(guard)
              /\ up' = FALSE /\ over' = (over \/ up)
              /\ db' = IF up THEN [db EXCEPT !.row[gpio] = [time |-> today + 1, lmt |-> n]]
                       ELSE db
              /\ UNCHANGED counter
           \/ /\ count /\ ~Reached(guard.lim, n) /\ ~guard.legalized
              /\ guard' = [guard EXCEPT !.legalized = TRUE]
              /\ up' = TRUE /\ over' = FALSE
              /\ counter' = IF up THEN counter ELSE 0
              /\ UNCHANGED db
           \/ /\ ~count /\ guard.first
              /\ guard' = [guard EXCEPT !.first = FALSE]
              /\ up' = FALSE /\ over' = (over \/ up)
              /\ UNCHANGED <<db, counter>>
    /\ UNCHANGED <<today, real, gpio, iface, limit, backup, col, owed, events>>

Next ==
    \/ Midnight \/ Traffic \/ Reconnect \/ SwitchSim \/ Services \/ Reboot
    \/ \E s \in Sims, l \in Limits : SetLimit(s, l)
    \/ Collect \/ FindIface \/ SaveDone \/ GuardPass

Spec == Init /\ [][Next]_vars

-----------------------------------------------------------------------------
(* Properties.                                                             *)

\* One row for each day, the one under interface f[d].
Rows(D, s, f) == [d \in Days |-> D.days[s][f[d]][d]]

\* What is recorded of a SIM up to any day, whichever interface's row is taken
\* for each day, never exceeds what the SIM used up to that day: no counter
\* reset, restart, restored backup or change of interface or SIM makes
\* mdcollectd count data twice or for the wrong SIM.  It does not say so of the
\* sum over the interfaces that limit_guard's get_data takes: a mdcollectd that
\* is restarted after a change of interface gives the whole of the day to a
\* second row, and that sum then has the day twice.
NeverOvercounts ==
    \A s \in Sims, f \in [Days -> Ifaces], d \in Days :
        Total(Rows(db, s, f), 0 .. d) <= Used(s, 0 .. d)

\* The period that today belongs to began here.
PeriodStart ==
    IF StartDay > today % Cycle THEN WindowStart - Cycle ELSE WindowStart

Usage(s) == Summed(s, {d \in Days : d >= PeriodStart})

\* No pass of limit_guard that finds the limit of the current period reached
\* leaves mobile data on, also right after a reboot, a change of SIM or a
\* change of the limit.  Between a change of SIM and the restart limit_guard
\* goes by the other SIM's limit and is not held to this.
LimitEnforced ==
    [][~owed /\ up' /\ Usage(gpio) >= guard.lim => ~GuardPass]_vars

\* limit_guard never takes a connection it has cut for one it has made legal:
\* then no pass would give it back when the next period begins, and it would
\* stay cut until somebody restarts the program.
GivenBack == over /\ ~owed => ~guard.legalized

====
