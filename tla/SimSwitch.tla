----------------------------- MODULE SimSwitch ------------------------------
(***************************************************************************)
(* sim_switch: the Lua program that moves a router between its two SIM     *)
(* cards.  Several copies of it run at once: the daemon ("start"), the     *)
(* ones a configuration reload spawns ("restart"), the ones the init       *)
(* script's stop spawns ("stop") and the ones the web interface and        *)
(* sim_idle_protection run ("change", "config").  They meet in a lock      *)
(* file, a pid file, the SIM line of the GPIO and the modem; restart and   *)
(* stop kill the process named by the pid file with SIGKILL.               *)
(*                                                                         *)
(* sim_conf_switch.sh copies the parameters of a SIM to the network        *)
(* configuration: it reads the GPIO first and commits last, a shell of its *)
(* own that outlives the Lua process which ran it.                         *)
(*                                                                         *)
(* A process is an element of Proc, used once; a smaller number is an      *)
(* older process.  One step is the work between two points at which        *)
(* another process can tell the difference.                                *)
(***************************************************************************)
EXTENDS Naturals, Sequences, FiniteSets

CONSTANTS
    MaxProc,        \* bound: processes launched
    Default,        \* simcard.simcard.default
    Rules,          \* the rules of the loop, in the order it tries them
    On,             \* On[s]: the rules configured for SIM s
    Limit,          \* Limit[r]: value of retry at which rule r switches
    Forgotten,      \* the rules whose retry is cleared after a switch
    TimeoutOn,      \* the SIMs with switchtimeout
    Initial, Subsequent,    \* passes on the other SIM before going back
    SubMax,         \* initial_sub stops growing here (120 minutes)
    Settle,         \* passes on the default SIM that reset initial_sub (20)
    MaxWait         \* rounds of waiting for the lock (20)

Sims == {"sim1", "sim2"}

Rule == {Rules[i] : i \in DOMAIN Rules}

Proc == 1 .. MaxProc

ASSUME SimAssumption ==
    /\ MaxProc \in Nat \ {0}
    /\ Default \in Sims
    /\ Rules \in Seq(STRING)
    /\ \A i, j \in DOMAIN Rules : Rules[i] = Rules[j] => i = j
    /\ On \in [Sims -> SUBSET Rule]
    /\ Limit \in [Rule -> Nat]
    /\ Forgotten \subseteq Rule
    /\ TimeoutOn \subseteq Sims
    /\ {Initial, Subsequent, SubMax, Settle, MaxWait} \subseteq Nat

VARIABLES
    proc,       \* the processes: where each is, and its switch_sim locals
    loop,       \* the locals of start()'s loop
    gpio,       \* the SIM selected by the GPIO line
    modem,      \* the modem is running
    lock,       \* /var/lock/sim_switch.lock: its contents, or "none"
    pidfile,    \* /var/run/sim_switch.pid, 0: no file
    enabled,    \* sim_switch.sim_switch.enabled
    netconf,    \* the SIM whose parameters were committed to the network
    guard,      \* the SIM whose limits limit_guard has loaded
    mixed       \* history: copies of parameters overlapped with each other or
                \* with a switch, or a web switch ended after its copy

vars == <<proc, loop, gpio, modem, lock, pidfile, enabled, netconf, guard,
          mixed>>

\* switch_sim, from the lock to the restart of the services.
SwitchPC == {"lk_check", "lk_take", "sw_down", "sw_gpio", "sw_conf",
             "sw_commit", "sw_up", "ul_check", "ul_remove", "ul_reload",
             "services"}

PC == SwitchPC \cup {"unused", "done", "killed", "rl_mark", "wc_commit",
                     "cf_conf", "cf_commit", "stop", "start", "st_check",
                     "st_pid", "loop", "pass_end"}

\* Processes that "pgrep -f lua.*sim_switch" finds.
Lua == {p \in Proc : proc[p].pc \notin {"unused", "done", "killed", "rl_mark",
                                        "wc_commit"}}

Other(s) == IF s = "sim1" THEN "sim2" ELSE "sim1"

Least(S) == CHOOSE x \in S : \A y \in S : x <= y

Process ==
    [pc : PC, at : PC, cmd : {"start", "stop", "restart", "change", "config"},
     en : BOOLEAN, status : Sims \cup {"none", "default"}, ign : BOOLEAN,
     seen : Sims \cup {"none", "0", "1"}, conf : Sims \cup {"none"},
     n : 0 .. MaxWait + 1,
     ret : {"pass_end", "loop", "stop_end", "done", "st_check"}]

Loop == [retry : [Rule -> Nat], executed : BOOLEAN, time : Nat, sub : Nat,
         loops : 0 .. Settle + 1]

TypeOK ==
    /\ proc \in [Proc -> Process]
    /\ loop \in [Proc -> Loop]
    /\ gpio \in Sims /\ netconf \in Sims /\ guard \in Sims
    /\ modem \in BOOLEAN /\ enabled \in BOOLEAN /\ mixed \in BOOLEAN
    /\ lock \in {"none", "0", "1"}
    /\ pidfile \in Proc \cup {0}

\* A process that has been launched, with the configuration it reads.
Launched(pc, cmd, en, status, ign) ==
    [pc |-> pc, at |-> pc, cmd |-> cmd, en |-> en, status |-> status,
     ign |-> ign, seen |-> "none", conf |-> "none", n |-> 0, ret |-> "done"]

Unborn == Launched("unused", "start", FALSE, "none", FALSE)

\* The locals of start()'s loop when it begins.
FreshLoop == [retry |-> [r \in Rule |-> 1], executed |-> FALSE, time |-> 0,
              sub |-> Initial, loops |-> 0]

\* The router boots: init.d starts the daemon.
Init ==
    /\ enabled \in BOOLEAN
    /\ gpio \in Sims /\ netconf = gpio /\ guard = gpio
    /\ modem = TRUE /\ lock = "none" /\ pidfile = 0 /\ mixed = FALSE
    /\ proc = [p \in Proc |->
                  IF p = 1 THEN Launched("start", "start", enabled, "none", FALSE)
                  ELSE Unborn]
    /\ loop = [p \in Proc |-> FreshLoop]

\* A process that ends takes its locals with it; a killed one is remembered
\* with the place and the call it was in.
Moved(q, pc) ==
    IF pc = "done" THEN [Unborn EXCEPT !.pc = "done"] ELSE [q EXCEPT !.pc = pc]

Killed(q) == [Unborn EXCEPT !.pc = "killed", !.at = q.pc, !.ign = q.ign,
                            !.ret = q.ret, !.conf = q.conf]

\* Where a process is, or was when it was killed.
Was(q) == IF q.pc = "killed" THEN q.at ELSE q.pc

Goto(p, pc) == proc' = [proc EXCEPT ![p] = Moved(@, pc)]

\* Call of switch_sim(status, _, ign) that returns to ret.
Switch(p, status, ret) ==
    proc' = [proc EXCEPT ![p].pc = "lk_check", ![p].status = status,
                         ![p].ign = FALSE, ![p].n = 0, ![p].ret = ret]

-----------------------------------------------------------------------------
(* What launches a process.                                                *)

Unused == {p \in Proc : proc[p].pc = "unused"}

Next1 == Least(Unused)

\* reload_service of the init script: leave a mark in the lock file when there
\* is one, else run "sim_switch restart" in the background.
Reloading(en) ==
    Launched(IF lock = "none" THEN "stop" ELSE "rl_mark", "restart", en,
             "none", FALSE)

\* The configuration is saved: the web interface reloads sim_switch.
Reconfigure(en) ==
    /\ Unused # {}
    /\ enabled' = en
    /\ proc' = [proc EXCEPT ![Next1] = Reloading(en)]
    /\ UNCHANGED <<loop, gpio, modem, lock, pidfile, netconf, guard, mixed>>

\* stop_service: no look at the lock.
StopService ==
    /\ Unused # {}
    /\ proc' = [proc EXCEPT
                   ![Next1] = Launched("stop", "stop", enabled, "none", FALSE)]
    /\ UNCHANGED <<loop, gpio, modem, lock, pidfile, enabled, netconf, guard,
                   mixed>>

\* "sim_switch change <status>": the idle protection test page and script; and
\* "sim_switch check_sms" of smscollect, which names no SIM.
Change(status) ==
    /\ Unused # {}
    /\ proc' = [proc EXCEPT
                   ![Next1] = Launched("lk_check", "change", FALSE, status,
                                       FALSE)]
    /\ UNCHANGED <<loop, gpio, modem, lock, pidfile, enabled, netconf, guard,
                   mixed>>

\* "sim_switch config" of the status page: set_config() on its own.
ConfigCommand ==
    /\ Unused # {}
    /\ proc' = [proc EXCEPT
                   ![Next1] = Launched("cf_conf", "config", FALSE, "none",
                                       FALSE)]
    /\ UNCHANGED <<loop, gpio, modem, lock, pidfile, enabled, netconf, guard,
                   mixed>>

\* "sim_conf_switch.sh default", of the web interface and of the boot, reads
\* the SIM in use: it will copy the parameters of the default SIM, and switch
\* to it when it is not the one in use.
WebSwitch ==
    /\ Unused # {}
    /\ proc' = [proc EXCEPT
                   ![Next1] = Launched("wc_commit", "change", FALSE,
                                       IF gpio = Default THEN "none"
                                       ELSE Default, TRUE)]
    /\ UNCHANGED <<loop, gpio, modem, lock, pidfile, enabled, netconf, guard,
                   mixed>>

MarkLock(p) ==
    /\ proc[p].pc = "rl_mark"
    /\ lock' = "1"
    /\ Goto(p, "done")
    /\ UNCHANGED <<loop, gpio, modem, pidfile, enabled, netconf, guard, mixed>>

-----------------------------------------------------------------------------
(* sim_conf_switch.sh, which set_config() runs.                            *)

\* A script between reading the GPIO and the commit, and whose parameters it
\* copies.
Copying(q) == Was(q) \in {"sw_commit", "cf_commit", "wc_commit"}

Source(q) == IF q.pc = "wc_commit" THEN Default ELSE q.conf

\* A web switch between the commit and the GPIO.
Between(q) == q.ign /\ q.pc \in {"lk_check", "lk_take", "sw_down", "sw_gpio"}

\* The commit of s by process p meets another script that has set options of
\* the other SIM, or takes the place of what a web switch has committed.
Clash(p, s) ==
    \E q \in Proc \ {p} : \/ Copying(proc[q]) /\ Source(proc[q]) # s
                          \/ Between(proc[q]) /\ s # Default

\* The script goes on where it was, with the Lua process or without it.
Resumed(q, pc) == IF q.pc = "killed" THEN [q EXCEPT !.at = pc] ELSE Moved(q, pc)

\* Without an argument it takes the SIM in use ...
ConfRead(p) ==
    /\ Was(proc[p]) \in {"sw_conf", "cf_conf"} /\ ~proc[p].ign
    /\ proc' = [proc EXCEPT
                   ![p] = Resumed([@ EXCEPT !.conf = gpio],
                                  IF Was(@) = "sw_conf" THEN "sw_commit"
                                  ELSE "cf_commit")]
    /\ UNCHANGED <<loop, gpio, modem, lock, pidfile, enabled, netconf, guard,
                   mixed>>

\* ... and commits its parameters.
ConfCommit(p) ==
    /\ Was(proc[p]) \in {"sw_commit", "cf_commit"}
    /\ netconf' = proc[p].conf
    /\ mixed' = (mixed \/ Clash(p, proc[p].conf))
    /\ proc' = [proc EXCEPT
                   ![p] = Resumed([@ EXCEPT !.conf = "none"],
                                  IF Was(@) = "sw_commit" THEN "sw_up"
                                  ELSE "done")]
    /\ UNCHANGED <<loop, gpio, modem, lock, pidfile, enabled, guard>>

\* The web interface's script commits the default SIM's.  When another SIM was
\* in use it runs "sim_switch change <sim> 1 1", but only if it finds a modem.
WebCommit(p) ==
    /\ proc[p].pc = "wc_commit"
    /\ netconf' = Default
    /\ \E found \in BOOLEAN :
          /\ found => modem /\ proc[p].status # "none"
          /\ Goto(p, IF found THEN "lk_check" ELSE "done")
          /\ mixed' = (mixed \/ Clash(p, Default) \/ (~found /\ gpio # Default))
    /\ UNCHANGED <<loop, gpio, modem, lock, pidfile, enabled, guard>>

-----------------------------------------------------------------------------
(* stop() and the beginning of start().                                    *)

\* What a process does when the call it has made is over.
Back(q) ==
    CASE q.ret = "stop_end" -> IF q.cmd = "restart" THEN "start" ELSE "done"
      [] OTHER -> q.ret

\* Kill the process of the pid file (which may be this one), and return to the
\* default SIM when the program has been disabled.
Stop(p) ==
    /\ proc[p].pc = "stop"
    /\ LET q == pidfile
           me == [proc[p] EXCEPT !.ret = "stop_end", !.status = Default]
           next == IF q # 0 /\ ~me.en /\ gpio # Default
                   THEN "lk_check" ELSE Back(me)
       IN  /\ proc' = [r \in Proc |->
                          IF r = q /\ r \in Lua
                          THEN Killed(proc[r])
                          ELSE IF r = p THEN Moved(me, next)
                          ELSE proc[r]]
           /\ loop' = [r \in Proc |-> IF r = q THEN FreshLoop ELSE loop[r]]
           /\ pidfile' = IF q = p THEN q ELSE 0
    /\ UNCHANGED <<gpio, modem, lock, enabled, netconf, guard, mixed>>

\* A disabled program ends at once; an enabled one first removes the lock.
Start(p) ==
    /\ proc[p].pc = "start"
    /\ proc' = [proc EXCEPT
                   ![p] = Moved([@ EXCEPT !.ret = "st_check", !.cmd = "start",
                                       !.en = FALSE, !.status = "none"],
                                IF proc[p].en THEN "ul_check" ELSE "done")]
    /\ UNCHANGED <<loop, gpio, modem, lock, pidfile, enabled, netconf, guard,
                   mixed>>

CheckPid(p) ==
    /\ proc[p].pc = "st_check"
    /\ Goto(p, IF pidfile # 0 THEN "done" ELSE "st_pid")
    /\ UNCHANGED <<loop, gpio, modem, lock, pidfile, enabled, netconf, guard,
                   mixed>>

\* The pid file gets the oldest process that pgrep finds.
WritePid(p) ==
    /\ proc[p].pc = "st_pid"
    /\ pidfile' = Least(Lua)
    /\ Goto(p, "loop")
    /\ UNCHANGED <<loop, gpio, modem, lock, enabled, netconf, guard, mixed>>

-----------------------------------------------------------------------------
(* The loop of start().                                                    *)

\* The rules that see a reason to leave the SIM in use are bad.  They are tried
\* in order; the first with enough failures behind it switches, and the ones
\* after it are not looked at in this pass.
Pass(p, bad) ==
    /\ proc[p].pc = "loop"
    /\ LET old == [r \in Rule |->
                      IF loop[p].executed /\ r \in Forgotten THEN 0
                      ELSE loop[p].retry[r]]
           Fires == {i \in DOMAIN Rules : /\ Rules[i] \in On[gpio] \cap bad
                                          /\ old[Rules[i]] >= Limit[Rules[i]]}
           Tried == {Rules[i] : i \in {j \in DOMAIN Rules :
                                          \A f \in Fires : j <= f}}
           new == [r \in Rule |->
                      IF r \notin Tried \cap On[gpio] THEN old[r]
                      ELSE IF r \in bad /\ old[r] < Limit[r] THEN old[r] + 1
                      ELSE 0]
       IN  /\ loop' = [loop EXCEPT ![p].retry = new,
                                   ![p].executed = Fires # {}]
           /\ IF Fires # {} THEN Switch(p, "none", "pass_end")
              ELSE Goto(p, "pass_end")
    /\ UNCHANGED <<gpio, modem, lock, pidfile, enabled, netconf, guard, mixed>>

\* Mutant: the time is reset by every pass without a switch.
TimeAwaySwapped(l) == IF l.executed THEN l.time + 1 ELSE 0

\* The time on the other SIM without a switch.
TimeAway(l) == IF l.executed THEN 0 ELSE l.time + 1

\* The end of a pass: on the other SIM the timeout runs, and when it is over
\* the default SIM gets another try.
PassEnd(p) ==
    /\ proc[p].pc = "pass_end"
    /\ LET l == loop[p]
           loops == IF gpio = Default /\ l.loops <= Settle THEN l.loops + 1
                    ELSE l.loops
           away == gpio \in TimeoutOn /\ gpio # Default
           sub == IF loops > Settle THEN Initial ELSE l.sub
           time == TimeAway(l)
       IN  IF away /\ time >= sub
           THEN /\ loop' = [loop EXCEPT
                       ![p].time = 0, ![p].loops = 0,
                       ![p].sub = IF sub < SubMax THEN sub + Subsequent ELSE sub]
                /\ Switch(p, Default, "loop")
           ELSE /\ loop' = [loop EXCEPT
                       ![p].loops = loops,
                       ![p].sub = IF away THEN sub ELSE l.sub,
                       ![p].time = IF away THEN time ELSE l.time]
                /\ Goto(p, "loop")
    /\ UNCHANGED <<gpio, modem, lock, pidfile, enabled, netconf, guard, mixed>>

-----------------------------------------------------------------------------
(* switch_sim().                                                           *)

\* lockUnlock("lock"): wait while there is a lock file; after MaxWait rounds it
\* is removed, whoever holds it.
LockCheck(p) ==
    /\ proc[p].pc = "lk_check"
    /\ IF lock = "none"
       THEN Goto(p, "lk_take") /\ UNCHANGED lock
       ELSE /\ proc' = [proc EXCEPT ![p].n = IF @ > MaxWait THEN @ ELSE @ + 1]
            /\ lock' = IF proc[p].n >= MaxWait THEN "none" ELSE lock
    /\ UNCHANGED <<loop, gpio, modem, pidfile, enabled, netconf, guard, mixed>>

LockTake(p) ==
    /\ proc[p].pc = "lk_take"
    /\ lock' = "0"
    /\ proc' = [proc EXCEPT ![p].pc = "sw_down", ![p].n = 0]
    /\ UNCHANGED <<loop, gpio, modem, pidfile, enabled, netconf, guard, mixed>>

\* Look which SIM is in use, take the interface down and stop the modem.
SwitchDown(p) ==
    /\ proc[p].pc = "sw_down"
    /\ modem' = FALSE
    /\ proc' = [proc EXCEPT ![p].pc = "sw_gpio",
                            ![p].seen = IF proc[p].status = "none" THEN gpio
                                        ELSE "none"]
    /\ UNCHANGED <<loop, gpio, lock, pidfile, enabled, netconf, guard, mixed>>

\* Mutant: any argument is taken for a SIM.
TargetAsGiven(q) == IF q.status = "none" THEN Other(q.seen) ELSE q.status

\* Without a SIM to switch to, the one that was not in use; "default" is no
\* SIM's name and changes nothing.
Target(q) ==
    CASE q.status = "none" -> Other(q.seen)
      [] q.status = "default" -> gpio
      [] OTHER -> q.status

SwitchGpio(p) ==
    /\ proc[p].pc = "sw_gpio"
    /\ gpio' = Target(proc[p])
    /\ mixed' = (mixed \/ (gpio' # gpio /\ \E q \in Proc : Copying(proc[q])))
    /\ proc' = [proc EXCEPT ![p].pc = "sw_conf", ![p].status = "none",
                            ![p].seen = "none"]
    /\ UNCHANGED <<loop, modem, lock, pidfile, enabled, netconf, guard>>

\* Mutant: set_config() is never called.
SkipConfigAlways(p) ==
    /\ proc[p].pc = "sw_conf"
    /\ Goto(p, "sw_up")
    /\ UNCHANGED <<loop, gpio, modem, lock, pidfile, enabled, netconf, guard,
                   mixed>>

\* The parameters are in place already when a web switch gets here.
SkipConfig(p) ==
    /\ proc[p].pc = "sw_conf" /\ proc[p].ign
    /\ Goto(p, "sw_up")
    /\ UNCHANGED <<loop, gpio, modem, lock, pidfile, enabled, netconf, guard,
                   mixed>>

SwitchUp(p) ==
    /\ proc[p].pc = "sw_up"
    /\ modem' = TRUE
    /\ Goto(p, "ul_check")
    /\ UNCHANGED <<loop, gpio, lock, pidfile, enabled, netconf, guard, mixed>>

\* Mutant: the services are not restarted.
UnlockedAndBack(q) == IF q.ret = "st_check" THEN "st_check" ELSE Back(q)

\* Where lockUnlock("unlock") returns to.
Unlocked(q) == IF q.ret = "st_check" THEN "st_check" ELSE "services"

UnlockCheck(p) ==
    /\ proc[p].pc = "ul_check"
    /\ proc' = [proc EXCEPT
                   ![p].seen = lock,
                   ![p].pc = IF lock = "none" THEN Unlocked(proc[p])
                             ELSE "ul_remove"]
    /\ UNCHANGED <<loop, gpio, modem, lock, pidfile, enabled, netconf, guard,
                   mixed>>

UnlockRemove(p) ==
    /\ proc[p].pc = "ul_remove"
    /\ lock' = "none"
    /\ proc' = [proc EXCEPT
                   ![p].seen = "none",
                   ![p].pc = IF proc[p].seen = "1" THEN "ul_reload"
                             ELSE Unlocked(proc[p])]
    /\ UNCHANGED <<loop, gpio, modem, pidfile, enabled, netconf, guard, mixed>>

\* A mark was left: run "/etc/init.d/sim_switch reload" (not past MaxProc).
UnlockReload(p) ==
    /\ proc[p].pc = "ul_reload"
    /\ proc' = [q \in Proc |->
                   IF q = p THEN [proc[p] EXCEPT !.pc = Unlocked(proc[p])]
                   ELSE IF Unused # {} /\ q = Next1 THEN Reloading(enabled)
                   ELSE proc[q]]
    /\ UNCHANGED <<loop, gpio, modem, lock, pidfile, enabled, netconf, guard,
                   mixed>>

\* restart_services(): limit_guard loads the limits of the SIM in use.
Services(p) ==
    /\ proc[p].pc = "services"
    /\ guard' = gpio
    /\ Goto(p, Back(proc[p]))
    /\ UNCHANGED <<loop, gpio, modem, lock, pidfile, enabled, netconf, mixed>>

-----------------------------------------------------------------------------
Step(p) ==
    \/ WebCommit(p) \/ MarkLock(p)
    \/ Stop(p) \/ Start(p) \/ CheckPid(p) \/ WritePid(p)
    \/ \E bad \in SUBSET Rule : Pass(p, bad)
    \/ PassEnd(p)
    \/ LockCheck(p) \/ LockTake(p)
    \/ SwitchDown(p) \/ SwitchGpio(p) \/ SkipConfig(p) \/ SwitchUp(p)
    \/ UnlockCheck(p) \/ UnlockRemove(p) \/ UnlockReload(p)
    \/ Services(p)
    \/ proc[p].pc # "killed" /\ (ConfRead(p) \/ ConfCommit(p))

\* The script of a process that was killed.
Orphan(p) == proc[p].pc = "killed" /\ (ConfRead(p) \/ ConfCommit(p))

Launch ==
    \/ \E en \in BOOLEAN : Reconfigure(en)
    \/ StopService
    \/ \E status \in Sims \cup {"default", "none"} : Change(status)
    \/ WebSwitch \/ ConfigCommand

Next == Launch \/ \E p \in Proc : Step(p) \/ Orphan(p)

Spec == Init /\ [][Next]_vars

\* A process that can run does; nobody has to press a button.
Fairness == \A p \in Proc : WF_vars(Step(p))

FairSpec == Spec /\ Fairness

-----------------------------------------------------------------------------
(* Properties.                                                             *)

\* limit_guard reads the limits of the SIM in use only when it starts: while it
\* has another SIM's, a process past the GPIO has still to restart it (225), or
\* was killed on the way.
ServicesFollow ==
    guard # gpio =>
        \E p \in Proc : /\ Was(proc[p]) \in {"sw_conf", "sw_commit", "sw_up",
                               "ul_check", "ul_remove", "ul_reload", "services"}
                        /\ proc[p].ret # "st_check"

\* The network configuration has the parameters of the SIM in use, except
\* while a process between the GPIO and the commit is about to make it so,
\* while the web interface has committed the default SIM's and not yet set the
\* GPIO, or where a process was killed at one of those places.  Switches that
\* share the lock, the timeout of the lock and kills change nothing in this,
\* as long as no copy overlaps a switch or a copy from the other SIM and no
\* web switch gives up for want of a modem (sim_conf_switch.sh:305-311).
ConfigFollows ==
    netconf # gpio =>
        \/ mixed
        \/ \E p \in Proc :
              \/ Was(proc[p]) = "sw_conf" /\ ~proc[p].ign
              \/ Was(proc[p]) = "sw_commit"
              \/ /\ proc[p].ign /\ netconf = Default
                 /\ Was(proc[p]) \in {"lk_check", "lk_take", "sw_down", "sw_gpio"}

\* start()'s loop, with the switches it makes.
Daemon(p) ==
    \/ proc[p].pc \in {"loop", "pass_end"}
    \/ proc[p].pc \in SwitchPC /\ proc[p].ret \in {"loop", "pass_end"}

\* A daemon that is never killed brings the default SIM back again and again,
\* whatever the rules find on either SIM, whatever locks killed processes left
\* behind and whatever else was switched meanwhile (602-634).
ReturnsToDefault ==
    \A p \in Proc : (<>[]Daemon(p)) => ([]<>(gpio = Default))

\* The switch is locked so that the program is not stopped in the middle of it
\* and does not leave the router without its modem (174-175): a modem that
\* switch_sim has stopped is started again.
ModemComesBack == ~modem ~> modem

====
