-------------------------- MODULE SimSwitchProofs ---------------------------
(***************************************************************************)
(* Proofs about SimSwitch, for any number of processes and any rules.      *)
(***************************************************************************)
EXTENDS SimSwitch, WellFoundedInduction, TLAPS

\* switch_sim as far as the modem is on again.
Switching == {"lk_check", "lk_take", "sw_down", "sw_gpio", "sw_conf",
              "sw_commit", "sw_up"}

Commits == {"sw_commit", "cf_commit"}

\* A process that came from the web interface is in switch_sim or on the way to
\* it, with the default SIM's name until the GPIO is set, and ends when it is
\* over; a script past its first line knows its SIM; and lockUnlock("unlock")
\* of start() is not switch_sim.
Good(q) ==
    /\ q.pc = "wc_commit" => q.ign /\ q.status \in {"none", Default}
    /\ q.ign => q.pc \in SwitchPC \cup {"wc_commit", "killed"} /\ q.ret = "done"
    /\ Between(q) => q.status = Default
    /\ Was(q) \in Commits => q.conf \in Sims /\ ~q.ign
    /\ q.pc \in Switching => q.ret # "st_check"

Calls == \A p \in Proc : Good(proc[p])

\* As long as no copy has overlapped a switch, a script is about to commit the
\* parameters of the SIM in use, and a web switch past its commit finds the
\* default SIM's in the configuration.
Clean(q) ==
    /\ Was(q) \in Commits => q.conf = gpio
    /\ q.pc = "wc_commit" /\ q.status = "none" => gpio = Default
    /\ Between(q) => netconf = Default

Copies == ~mixed => \A p \in Proc : Clean(proc[p])

SimInv == TypeOK /\ Calls /\ Copies /\ ServicesFollow /\ ConfigFollows

\* What ServicesFollow and ConfigFollows look for.
Restarts(q) ==
    /\ Was(q) \in {"sw_conf", "sw_commit", "sw_up", "ul_check", "ul_remove",
                   "ul_reload", "services"}
    /\ q.ret # "st_check"

Fixes(q) ==
    \/ Was(q) = "sw_conf" /\ ~q.ign
    \/ Was(q) = "sw_commit"
    \/ q.ign /\ Was(q) \in {"lk_check", "lk_take", "sw_down", "sw_gpio"}

\* A process that goes from q to t takes nothing from the invariant, but for
\* the restart of the services.
Kept(q, t) ==
    /\ Good(t)
    /\ Fixes(q) => Fixes(t) /\ t.ign = q.ign
    /\ Was(t) \in Commits => \/ t.conf = gpio
                             \/ Was(q) \in Commits /\ t.conf = q.conf
    /\ t.pc = "wc_commit" /\ t.status = "none" =>
          \/ gpio = Default
          \/ q.pc = "wc_commit" /\ q.status = "none"
    /\ Between(t) => Between(q)

\* Process p becomes q, and nothing happens to the others.
Becomes(p, q) == proc' = [proc EXCEPT ![p] = q]

-----------------------------------------------------------------------------
(* Types.                                                                  *)

\* A set of naturals that is not empty has a least element.
LEMMA LeastIn ==
    ASSUME NEW S \in SUBSET Nat, S # {}
    PROVE  Least(S) \in S
<1> DEFINE Less == {ss \in Nat \X Nat : ss[1] < ss[2]}
<1>1. IsWellFoundedOn(Less, Nat)
  BY NatLessThanWellFounded DEF OpToRel
<1>2. PICK x \in S : \A y \in S : ~ (<<y, x>> \in Less)
  <2> HIDE DEF Less
  <2> QED
    BY <1>1, WFMin
<1>3. ASSUME NEW y \in S
      PROVE  x <= y
  <2>1. <<y, x>> \notin Less /\ <<y, x>> \in Nat \X Nat
    BY <1>2
  <2>2. ~(y < x)
    BY <2>1
  <2> QED
    BY <2>2
<1> QED
  BY <1>3 DEF Least

\* The process that is launched next.
LEMMA NextUnused ==
    ASSUME Unused # {}
    PROVE  Next1 \in Proc /\ proc[Next1].pc = "unused"
<1>1. Unused \in SUBSET Nat
  BY DEF Unused, Proc
<1> QED
  BY <1>1, LeastIn DEF Unused, Next1

\* A process that is launched is a process.
LEMMA LaunchedType ==
    ASSUME NEW pc \in PC,
           NEW cmd \in {"start", "stop", "restart", "change", "config"},
           NEW en \in BOOLEAN, NEW status \in Sims \cup {"none", "default"},
           NEW ign \in BOOLEAN
    PROVE  Launched(pc, cmd, en, status, ign) \in Process
BY SimAssumption DEF Launched, Process, PC, SwitchPC, Sims

LEMMA EndedType ==
    /\ Unborn \in Process
    /\ \A q \in Process : /\ Killed(q) \in Process
                          /\ \A pc \in PC : Moved(q, pc) \in Process
<1>1. Unborn \in Process
  BY LaunchedType DEF Unborn, PC
<1>2. ASSUME NEW q \in Process
      PROVE  Killed(q) \in Process
  <2>1. ASSUME NEW u \in Process, NEW pc \in PC, NEW at \in PC,
               NEW ign \in BOOLEAN, NEW conf \in Sims \cup {"none"},
               NEW ret \in {"pass_end", "loop", "stop_end", "done", "st_check"}
        PROVE  [u EXCEPT !.pc = pc, !.at = at, !.ign = ign, !.ret = ret,
                         !.conf = conf] \in Process
    BY ZenonT(60) DEF Process
  <2>2. /\ "killed" \in PC /\ q.pc \in PC /\ q.ign \in BOOLEAN
        /\ q.ret \in {"pass_end", "loop", "stop_end", "done", "st_check"}
        /\ q.conf \in Sims \cup {"none"}
    BY DEF Process, PC
  <2> QED
    BY <1>1, <2>1, <2>2, ZenonT(60) DEF Killed
<1>3. ASSUME NEW q \in Process, NEW pc \in PC
      PROVE  Moved(q, pc) \in Process
  BY <1>1, <1>3 DEF Moved, Process, PC
<1> QED
  BY <1>1, <1>2, <1>3

\* Setting fields of a process to values of their types.
LEMMA SetType ==
    ASSUME NEW q \in Process, NEW pc \in PC,
           NEW status \in Sims \cup {"none", "default"},
           NEW seen \in Sims \cup {"none", "0", "1"}, NEW n \in 0 .. MaxWait + 1,
           NEW ret \in {"pass_end", "loop", "stop_end", "done", "st_check"}
    PROVE  /\ [q EXCEPT !.n = n] \in Process
           /\ [q EXCEPT !.pc = pc, !.n = n] \in Process
           /\ [q EXCEPT !.pc = pc, !.seen = seen] \in Process
           /\ [q EXCEPT !.seen = seen, !.pc = pc] \in Process
           /\ [q EXCEPT !.pc = pc, !.status = status, !.seen = seen] \in Process
           /\ [q EXCEPT !.pc = pc, !.status = status, !.ign = FALSE, !.n = n,
                        !.ret = ret] \in Process
<1>1. /\ [q EXCEPT !.n = n] \in Process
      /\ [q EXCEPT !.pc = pc, !.n = n] \in Process
  BY DEF Process
<1>2. /\ [q EXCEPT !.pc = pc, !.seen = seen] \in Process
      /\ [q EXCEPT !.seen = seen, !.pc = pc] \in Process
  BY DEF Process
<1>3. [q EXCEPT !.pc = pc, !.status = status, !.seen = seen] \in Process
  BY DEF Process
<1>4. [q EXCEPT !.pc = pc, !.status = status, !.ign = FALSE, !.n = n,
                !.ret = ret] \in Process
  BY DEF Process
<1> QED
  BY <1>1, <1>2, <1>3, <1>4

\* What a call of switch_sim and the steps that set several fields make of p.
LEMMA Steps ==
    ASSUME TypeOK, NEW p \in Proc
    PROVE  /\ \A pc : Goto(p, pc) => Becomes(p, Moved(proc[p], pc))
           /\ \A status, ret :
                  Switch(p, status, ret) =>
                      Becomes(p, [proc[p] EXCEPT !.pc = "lk_check",
                                      !.status = status, !.ign = FALSE,
                                      !.n = 0, !.ret = ret])
           /\ LockTake(p) =>
                  Becomes(p, [proc[p] EXCEPT !.pc = "sw_down", !.n = 0])
           /\ SwitchDown(p) =>
                  Becomes(p, [proc[p] EXCEPT !.pc = "sw_gpio",
                                  !.seen = IF proc[p].status = "none" THEN gpio
                                           ELSE "none"])
           /\ SwitchGpio(p) =>
                  Becomes(p, [proc[p] EXCEPT !.pc = "sw_conf",
                                  !.status = "none", !.seen = "none"])
           /\ UnlockCheck(p) =>
                  Becomes(p, [proc[p] EXCEPT !.seen = lock,
                                  !.pc = IF lock = "none"
                                         THEN Unlocked(proc[p])
                                         ELSE "ul_remove"])
           /\ UnlockRemove(p) =>
                  Becomes(p, [proc[p] EXCEPT !.seen = "none",
                                  !.pc = IF proc[p].seen = "1"
                                         THEN "ul_reload"
                                         ELSE Unlocked(proc[p])])
BY DEF TypeOK, Becomes, Goto, Switch, LockTake, SwitchDown, SwitchGpio,
       UnlockCheck, UnlockRemove

LEMMA BecomesType ==
    ASSUME TypeOK, NEW p \in Proc, NEW q \in Process, Becomes(p, q)
    PROVE  proc' \in [Proc -> Process]
BY DEF TypeOK, Becomes

LEMMA FreshLoopType == FreshLoop \in Loop
BY SimAssumption DEF FreshLoop, Loop

LEMMA BackType ==
    ASSUME NEW q \in Process
    PROVE  Back(q) \in PC
BY DEF Process, Back, PC, SwitchPC

LEMMA InitType == Init => TypeOK
<1> SUFFICES ASSUME Init PROVE TypeOK
  OBVIOUS
<1>1. proc \in [Proc -> Process]
  BY LaunchedType, EndedType DEF Init, PC
<1> QED
  BY <1>1, FreshLoopType DEF Init, TypeOK, Sims

\* Launching a process keeps the types.
LEMMA LaunchType ==
    ASSUME TypeOK, Launch
    PROVE  TypeOK'
<1> USE DEF TypeOK
<1>1. ASSUME NEW en \in BOOLEAN
      PROVE  Reloading(en) \in Process
  BY LaunchedType DEF Reloading, PC
<1>2. ASSUME NEW en \in BOOLEAN, Reconfigure(en)
      PROVE  TypeOK'
  BY <1>1, <1>2, NextUnused DEF Reconfigure
<1>3. CASE StopService
  <2>1. Launched("stop", "stop", enabled, "none", FALSE) \in Process
    BY LaunchedType DEF PC
  <2> QED
    BY <1>3, <2>1, NextUnused DEF StopService
<1>4. ASSUME NEW status \in Sims \cup {"default", "none"}, Change(status)
      PROVE  TypeOK'
  <2>1. Launched("lk_check", "change", FALSE, status, FALSE) \in Process
    BY LaunchedType DEF PC, SwitchPC
  <2> QED
    BY <1>4, <2>1, NextUnused DEF Change
<1>5. CASE WebSwitch
  <2>1. Launched("wc_commit", "change", FALSE,
                 IF gpio = Default THEN "none" ELSE Default, TRUE) \in Process
    BY LaunchedType, SimAssumption DEF PC, Sims
  <2> QED
    BY <1>5, <2>1, NextUnused DEF WebSwitch
<1>6. CASE ConfigCommand
  <2>1. Launched("cf_conf", "config", FALSE, "none", FALSE) \in Process
    BY LaunchedType DEF PC
  <2> QED
    BY <1>6, <2>1, NextUnused DEF ConfigCommand
<1> QED
  BY <1>2, <1>3, <1>4, <1>5, <1>6 DEF Launch

\* The steps of start(), stop() and the loop keep the types.
LEMMA DaemonType ==
    ASSUME TypeOK, NEW p \in Proc,
           \/ WebCommit(p) \/ MarkLock(p)
           \/ Stop(p) \/ Start(p) \/ CheckPid(p) \/ WritePid(p)
           \/ \E bad \in SUBSET Rule : Pass(p, bad)
           \/ PassEnd(p)
    PROVE  TypeOK'
<1> USE DEF TypeOK
<1>g. ASSUME NEW pc \in PC, Goto(p, pc)
      PROVE  proc' \in [Proc -> Process]
  <2>1. Moved(proc[p], pc) \in Process
    BY EndedType
  <2> QED
    BY <1>g, <2>1, Steps, BecomesType
<1>s. ASSUME NEW status \in Sims \cup {"none", "default"},
             NEW ret \in {"pass_end", "loop", "stop_end", "done", "st_check"},
             Switch(p, status, ret)
      PROVE  proc' \in [Proc -> Process]
  <2>1. [proc[p] EXCEPT !.pc = "lk_check", !.status = status, !.ign = FALSE,
                        !.n = 0, !.ret = ret] \in Process
    <3> HIDE DEF TypeOK
    <3>1. "lk_check" \in PC /\ 0 \in 0 .. MaxWait + 1 /\ proc[p] \in Process
      BY SimAssumption DEF PC, SwitchPC, TypeOK
    <3> QED
      BY <3>1, SetType, ZenonT(60)
  <2> QED
    BY <1>s, <2>1, Steps, BecomesType, ZenonT(60)
<1>1. CASE WebCommit(p)
  <2>1. proc' \in [Proc -> Process] /\ mixed' \in BOOLEAN
    BY <1>1, <1>g DEF WebCommit, PC, SwitchPC
  <2> QED
    BY <1>1, <2>1, SimAssumption DEF WebCommit
<1>2. CASE MarkLock(p)
  BY <1>2, <1>g DEF MarkLock, PC
<1>3. CASE Stop(p)
  <2> DEFINE me == [proc[p] EXCEPT !.ret = "stop_end", !.status = Default]
             next == IF pidfile # 0 /\ ~me.en /\ gpio # Default
                     THEN "lk_check" ELSE Back(me)
  <2>1. me \in Process
    BY SimAssumption, ZenonT(60) DEF Process
  <2>2. next \in PC
    BY <2>1, BackType DEF PC, SwitchPC
  <2>3. Moved(me, next) \in Process
    BY <2>1, <2>2, EndedType
  <2>4. proc' \in [Proc -> Process]
    <3> HIDE DEF me, next
    <3> USE DEF me, next
    <3>1. proc' = [r \in Proc |->
                      IF r = pidfile /\ r \in Lua THEN Killed(proc[r])
                      ELSE IF r = p THEN Moved(me, next) ELSE proc[r]]
      BY <1>3 DEF Stop
    <3> HIDE DEF me, next
    <3> QED
      BY <3>1, <2>3, EndedType
  <2>5. loop' \in [Proc -> Loop]
    BY <1>3, FreshLoopType DEF Stop
  <2> QED
    BY <1>3, <2>4, <2>5 DEF Stop
<1>4. CASE Start(p)
  <2>1. [proc[p] EXCEPT !.ret = "st_check", !.cmd = "start", !.en = FALSE,
                        !.status = "none"] \in Process
    BY ZenonT(60) DEF Process
  <2> QED
    BY <1>4, <2>1, EndedType DEF Start, PC, SwitchPC
<1>5. CASE CheckPid(p)
  BY <1>5, <1>g DEF CheckPid, PC
<1>6. CASE WritePid(p)
  <2>1. p \in Lua /\ Lua \in SUBSET Nat
    BY <1>6 DEF WritePid, Lua, Proc
  <2>2. Least(Lua) \in Proc
    BY <2>1, LeastIn DEF Lua
  <2> QED
    BY <1>6, <2>2, <1>g DEF WritePid, PC
<1>7. ASSUME NEW bad \in SUBSET Rule, Pass(p, bad)
      PROVE  TypeOK'
  <2> DEFINE old == [r \in Rule |->
                        IF loop[p].executed /\ r \in Forgotten THEN 0
                        ELSE loop[p].retry[r]]
             Fires == {i \in DOMAIN Rules : /\ Rules[i] \in On[gpio] \cap bad
                                            /\ old[Rules[i]] >= Limit[Rules[i]]}
             Tried == {Rules[i] : i \in {j \in DOMAIN Rules :
                                            \A f \in Fires : j <= f}}
             new == [r \in Rule |->
                        IF r \notin Tried \cap On[gpio] THEN old[r]
                        ELSE IF r \in bad /\ old[r] < Limit[r] THEN old[r] + 1
                        ELSE 0]
  <2>1. loop' = [loop EXCEPT ![p].retry = new, ![p].executed = Fires # {}]
    BY <1>7, ZenonT(60) DEF Pass
  <2>2. Switch(p, "none", "pass_end") \/ Goto(p, "pass_end")
    BY <1>7 DEF Pass
  <2>3. old \in [Rule -> Nat]
    BY DEF Loop
  <2> HIDE DEF old, Fires
  <2>4. new \in [Rule -> Nat]
    BY <2>3
  <2> HIDE DEF new
  <2>5. loop' \in [Proc -> Loop]
    BY <2>1, <2>4, ZenonT(60) DEF Loop
  <2>6. proc' \in [Proc -> Process]
    BY <2>2, <1>g, <1>s DEF PC
  <2> QED
    BY <1>7, <2>5, <2>6, ZenonT(60) DEF Pass
<1>8. CASE PassEnd(p)
  <2>1. /\ loop[p] \in Loop
        /\ SimAssumption!1 /\ SimAssumption!9
    BY SimAssumption
  <2>2. TimeAway(loop[p]) \in Nat
    BY <2>1 DEF TimeAway, Loop
  <2> DEFINE l == loop[p]
             loops == IF gpio = Default /\ l.loops <= Settle THEN l.loops + 1
                      ELSE l.loops
             away == gpio \in TimeoutOn /\ gpio # Default
             sub == IF loops > Settle THEN Initial ELSE l.sub
             time == TimeAway(l)
             sub2 == IF sub < SubMax THEN sub + Subsequent ELSE sub
             sub3 == IF away THEN sub ELSE l.sub
             time3 == IF away THEN time ELSE l.time
  <2>a. /\ loops \in 0 .. Settle + 1 /\ 0 \in 0 .. Settle + 1 /\ 0 \in Nat
        /\ sub2 \in Nat /\ sub3 \in Nat /\ time3 \in Nat
    BY <2>1, <2>2 DEF Loop
  <2>b. \/ loop' = [loop EXCEPT ![p].time = 0, ![p].loops = 0, ![p].sub = sub2]
        \/ loop' = [loop EXCEPT ![p].loops = loops, ![p].sub = sub3,
                                ![p].time = time3]
    BY <1>8 DEF PassEnd
  <2> HIDE DEF l, loops, away, sub, time, sub2, sub3, time3
  <2>c. /\ [loop[p] EXCEPT !.time = 0, !.loops = 0, !.sub = sub2] \in Loop
        /\ [loop[p] EXCEPT !.loops = loops, !.sub = sub3, !.time = time3]
              \in Loop
    <3> HIDE DEF TypeOK
    <3> QED
      BY <2>1, <2>a DEF Loop
  <2>d. \/ loop' = [loop EXCEPT ![p] = [loop[p] EXCEPT !.time = 0, !.loops = 0,
                                                      !.sub = sub2]]
        \/ loop' = [loop EXCEPT ![p] = [loop[p] EXCEPT !.loops = loops,
                                            !.sub = sub3, !.time = time3]]
    BY <2>b
  <2>3. loop' \in [Proc -> Loop]
    BY <2>c, <2>d
  <2>4. Switch(p, Default, "loop") \/ Goto(p, "loop")
    BY <1>8 DEF PassEnd
  <2>5. proc' \in [Proc -> Process]
    BY <2>4, <1>g, <1>s, SimAssumption DEF PC
  <2> QED
    BY <1>8, <2>3, <2>5 DEF PassEnd
<1> QED
  BY <1>1, <1>2, <1>3, <1>4, <1>5, <1>6, <1>7, <1>8

\* The steps of switch_sim() keep the types.
LEMMA SwitchType ==
    ASSUME TypeOK, NEW p \in Proc,
           \/ LockCheck(p) \/ LockTake(p)
           \/ SwitchDown(p) \/ SwitchGpio(p) \/ SkipConfig(p) \/ SwitchUp(p)
           \/ UnlockCheck(p) \/ UnlockRemove(p) \/ UnlockReload(p)
           \/ Services(p)
    PROVE  TypeOK'
<1> USE DEF TypeOK
<1>g. ASSUME NEW pc \in PC, Goto(p, pc)
      PROVE  proc' \in [Proc -> Process]
  <2>1. Moved(proc[p], pc) \in Process
    BY EndedType
  <2> QED
    BY <1>g, <2>1, Steps, BecomesType
<1>p. proc[p] \in Process /\ 0 \in 0 .. MaxWait + 1
  BY SimAssumption
<1>u. Unlocked(proc[p]) \in PC
  BY DEF Unlocked, PC, SwitchPC
<1>1. CASE LockCheck(p)
  <2>1. CASE lock = "none"
    BY <1>1, <2>1, <1>g DEF LockCheck, PC, SwitchPC
  <2>2. CASE lock # "none"
    <3> DEFINE n == IF proc[p].n > MaxWait THEN proc[p].n ELSE proc[p].n + 1
    <3>1. [proc[p] EXCEPT !.n = n] \in Process
      <4>1. n \in 0 .. MaxWait + 1
        BY SimAssumption DEF Process
      <4> HIDE DEF n
      <4> QED
        BY <4>1, <1>p, SetType DEF PC
    <3>2. Becomes(p, [proc[p] EXCEPT !.n = n])
      BY <1>1, <2>2 DEF LockCheck, Becomes
    <3>3. proc' \in [Proc -> Process]
      BY <3>1, <3>2, BecomesType
    <3> QED
      BY <1>1, <2>2, <3>3 DEF LockCheck
  <2> QED
    BY <2>1, <2>2
<1>2. CASE LockTake(p)
  <2>1. [proc[p] EXCEPT !.pc = "sw_down", !.n = 0] \in Process
    BY <1>p, SetType, ZenonT(60) DEF PC, SwitchPC
  <2>2. proc' \in [Proc -> Process]
    BY <1>2, <2>1, Steps, BecomesType
  <2> QED
    BY <1>2, <2>2 DEF LockTake
<1>3. CASE SwitchDown(p)
  <2>1. [proc[p] EXCEPT !.pc = "sw_gpio",
                        !.seen = IF proc[p].status = "none" THEN gpio
                                 ELSE "none"] \in Process
    BY <1>p, SetType, ZenonT(60) DEF PC, SwitchPC
  <2>2. proc' \in [Proc -> Process]
    BY <1>3, <2>1, Steps, BecomesType
  <2> QED
    BY <1>3, <2>2 DEF SwitchDown
<1>4. CASE SwitchGpio(p)
  <2>1. [proc[p] EXCEPT !.pc = "sw_conf", !.status = "none",
                        !.seen = "none"] \in Process
    BY <1>p, SetType, ZenonT(60) DEF PC, SwitchPC
  <2>2. proc' \in [Proc -> Process]
    BY <1>4, <2>1, Steps, BecomesType
  <2>3. Target(proc[p]) \in Sims
    BY DEF Target, Other, Process, Sims
  <2> QED
    BY <1>4, <2>2, <2>3 DEF SwitchGpio
<1>5. CASE SkipConfig(p)
  BY <1>5, <1>g DEF SkipConfig, PC, SwitchPC
<1>6. CASE SwitchUp(p)
  BY <1>6, <1>g DEF SwitchUp, PC, SwitchPC
<1>7. CASE UnlockCheck(p)
  <2>1. [proc[p] EXCEPT !.seen = lock,
                        !.pc = IF lock = "none" THEN Unlocked(proc[p])
                               ELSE "ul_remove"] \in Process
    <3>1. (IF lock = "none" THEN Unlocked(proc[p]) ELSE "ul_remove") \in PC
      BY <1>u DEF PC, SwitchPC
    <3>2. lock \in Sims \cup {"none", "0", "1"}
      OBVIOUS
    <3> QED
      BY <1>p, <3>1, <3>2, SetType, ZenonT(60)
  <2>2. proc' \in [Proc -> Process]
    BY <1>7, <2>1, Steps, BecomesType, ZenonT(60)
  <2> QED
    BY <1>7, <2>2 DEF UnlockCheck
<1>8. CASE UnlockRemove(p)
  <2>1. [proc[p] EXCEPT !.seen = "none",
                        !.pc = IF proc[p].seen = "1" THEN "ul_reload"
                               ELSE Unlocked(proc[p])] \in Process
    <3>1. (IF proc[p].seen = "1" THEN "ul_reload" ELSE Unlocked(proc[p])) \in PC
      BY <1>u DEF PC, SwitchPC
    <3> QED
      BY <1>p, <3>1, SetType, ZenonT(60)
  <2>2. proc' \in [Proc -> Process]
    BY <1>8, <2>1, Steps, BecomesType
  <2> QED
    BY <1>8, <2>2 DEF UnlockRemove
<1>9. CASE UnlockReload(p)
  <2>1. Reloading(enabled) \in Process
    BY LaunchedType DEF Reloading, PC
  <2>2. [proc[p] EXCEPT !.pc = Unlocked(proc[p])] \in Process
    BY <1>u DEF Process
  <2> QED
    BY <1>9, <2>1, <2>2 DEF UnlockReload
<1>10. CASE Services(p)
  BY <1>10, <1>g, BackType DEF Services
<1> QED
  BY <1>1, <1>2, <1>3, <1>4, <1>5, <1>6, <1>7, <1>8, <1>9, <1>10

\* The steps of sim_conf_switch.sh keep the types.
LEMMA ScriptType ==
    ASSUME TypeOK, Calls, NEW p \in Proc, ConfRead(p) \/ ConfCommit(p)
    PROVE  TypeOK'
<1> USE DEF TypeOK
<1>1. ASSUME NEW conf \in Sims \cup {"none"}, NEW pc \in PC
      PROVE  Resumed([proc[p] EXCEPT !.conf = conf], pc) \in Process
  <2>1. [proc[p] EXCEPT !.conf = conf] \in Process
    BY ZenonT(60) DEF Process
  <2>2. \A q \in Process : [q EXCEPT !.at = pc] \in Process
    BY ZenonT(60) DEF Process
  <2> QED
    BY <2>1, <2>2, EndedType DEF Resumed
<1>2. CASE ConfRead(p)
  <2>1. PICK pc \in PC :
           proc' = [proc EXCEPT ![p] = Resumed([proc[p] EXCEPT !.conf = gpio], pc)]
    BY <1>2 DEF ConfRead, PC, SwitchPC
  <2>2. Resumed([proc[p] EXCEPT !.conf = gpio], pc) \in Process
    BY <1>1
  <2> QED
    BY <1>2, <2>1, <2>2 DEF ConfRead
<1>3. CASE ConfCommit(p)
  <2>1. PICK pc \in PC :
           proc' = [proc EXCEPT ![p] = Resumed([proc[p] EXCEPT !.conf = "none"], pc)]
    BY <1>3 DEF ConfCommit, PC, SwitchPC
  <2>2. Resumed([proc[p] EXCEPT !.conf = "none"], pc) \in Process
    BY <1>1
  <2>3. proc[p].conf \in Sims
    BY <1>3 DEF ConfCommit, Calls, Good, Commits
  <2> QED
    BY <1>3, <2>1, <2>2, <2>3 DEF ConfCommit
<1> QED
  BY <1>2, <1>3

-----------------------------------------------------------------------------
(* The invariant.                                                          *)

\* Process p goes to pc with these values in its fields, the others stay as
\* they are.
Sets(p, pc, status, ign, ret) ==
    /\ proc'[p].pc = pc /\ proc'[p].status = status
    /\ proc'[p].ign = ign /\ proc'[p].ret = ret
    /\ \A r \in Proc \ {p} : proc'[r] = proc[r]

LEMMA GotoSets ==
    ASSUME TypeOK, NEW p \in Proc, NEW pc \in PC, Goto(p, pc)
    PROVE  IF pc = "done" THEN Sets(p, "done", "none", FALSE, "done")
           ELSE Sets(p, pc, proc[p].status, proc[p].ign, proc[p].ret)
<1>1. Becomes(p, Moved(proc[p], pc)) /\ proc[p] \in Process
  BY Steps DEF TypeOK
<1>2. CASE pc = "done"
  <2>1. /\ Moved(proc[p], pc).pc = "done"
        /\ Moved(proc[p], pc).status = "none"
        /\ Moved(proc[p], pc).ign = FALSE
        /\ Moved(proc[p], pc).ret = "done"
    BY <1>2 DEF Moved, Unborn, Launched
  <2> QED
    BY <1>1, <1>2, <2>1 DEF Becomes, Sets, TypeOK
<1>3. CASE pc # "done"
  BY <1>1, <1>3 DEF Becomes, Moved, Sets, TypeOK, Process
<1> QED
  BY <1>2, <1>3

LEMMA SwitchSets ==
    ASSUME TypeOK, NEW p \in Proc, NEW status, NEW ret, Switch(p, status, ret)
    PROVE  Sets(p, "lk_check", status, FALSE, ret)
<1>1. proc[p] \in Process
  BY DEF TypeOK
<1>2. Becomes(p, [proc[p] EXCEPT !.pc = "lk_check", !.status = status,
                                 !.ign = FALSE, !.n = 0, !.ret = ret])
  BY Steps
<1>3. /\ proc'[p] = [proc[p] EXCEPT !.pc = "lk_check", !.status = status,
                                    !.ign = FALSE, !.n = 0, !.ret = ret]
      /\ \A r \in Proc \ {p} : proc'[r] = proc[r]
  BY <1>2 DEF Becomes, TypeOK
<1> QED
  BY <1>1, <1>3 DEF Sets, Process

\* The invariant survives steps that leave the SIM in use and the network
\* configuration alone and in which every process keeps what it owes.
LEMMA KeptInv ==
    ASSUME SimInv, UNCHANGED <<gpio, netconf, mixed>>,
           \A p \in Proc : Kept(proc[p], proc'[p]),
           \/ guard' = gpio
           \/ /\ guard' = guard
              /\ \A p \in Proc : Restarts(proc[p]) => Restarts(proc'[p])
    PROVE  Calls' /\ Copies' /\ ServicesFollow' /\ ConfigFollows'
<1> USE DEF SimInv
<1>1. Calls'
  BY DEF Kept, Calls, Good, Was, Between
<1>2. Copies'
  <2>1. ASSUME ~mixed', NEW p \in Proc
        PROVE  Clean(proc[p])'
    <3>1. Clean(proc[p]) /\ Kept(proc[p], proc'[p])
      BY <2>1 DEF Copies
    <3> QED
      BY <3>1 DEF Clean, Kept, Was, Between
  <2> QED
    BY <2>1 DEF Copies
<1>3. ServicesFollow'
  <2>1. CASE guard' = gpio
    BY <2>1 DEF ServicesFollow
  <2>2. CASE /\ guard' = guard
             /\ \A p \in Proc : Restarts(proc[p]) => Restarts(proc'[p])
    BY <2>2 DEF ServicesFollow, Restarts, Was
  <2> QED
    BY <2>1, <2>2
<1>4. ConfigFollows'
  <2>1. ASSUME netconf # gpio, ~mixed
        PROVE  \E p \in Proc : /\ Fixes(proc'[p])
                               /\ proc'[p].ign => netconf = Default
    <3>1. PICK p \in Proc : /\ Fixes(proc[p])
                            /\ proc[p].ign => netconf = Default
      BY <2>1 DEF ConfigFollows, Fixes, Calls, Good, Commits
    <3>2. Fixes(proc'[p]) /\ proc'[p].ign = proc[p].ign
      BY <3>1 DEF Kept
    <3> QED
      BY <3>1, <3>2
  <2> QED
    BY <2>1 DEF ConfigFollows, Fixes, Was
<1> QED
  BY <1>1, <1>2, <1>3, <1>4

\* A process that nothing happens to keeps what it owes.
LEMMA StayKept ==
    ASSUME NEW q, Good(q)
    PROVE  Kept(q, q)
BY DEF Kept

\* The same, where only one process moves.
LEMMA OneInv ==
    ASSUME SimInv, NEW p \in Proc, UNCHANGED <<gpio, netconf, mixed>>,
           \A r \in Proc \ {p} : proc'[r] = proc[r],
           Kept(proc[p], proc'[p]),
           \/ guard' = gpio
           \/ guard' = guard /\ (Restarts(proc[p]) => Restarts(proc'[p]))
    PROVE  Calls' /\ Copies' /\ ServicesFollow' /\ ConfigFollows'
<1>1. \A r \in Proc : Kept(proc[r], proc'[r])
  BY StayKept DEF SimInv, Calls
<1>2. \/ guard' = gpio
      \/ guard' = guard /\ \A r \in Proc : Restarts(proc[r]) => Restarts(proc'[r])
  OBVIOUS
<1> QED
  BY <1>1, <1>2, KeptInv

\* switch_sim, from the lock until the modem is on again, but for the GPIO and the
\* script.
LEMMA SwitchInv ==
    ASSUME SimInv, NEW p \in Proc,
           LockTake(p) \/ SwitchDown(p) \/ SkipConfig(p) \/ SwitchUp(p)
    PROVE  Calls' /\ Copies' /\ ServicesFollow' /\ ConfigFollows'
<1> USE DEF SimInv
<1>p. proc[p] \in Process /\ Good(proc[p]) /\ Default \in Sims
  BY SimAssumption DEF TypeOK, Calls
<1>1. CASE LockTake(p)
  <2>1. Sets(p, "sw_down", proc[p].status, proc[p].ign, proc[p].ret)
    BY <1>1, <1>p, Steps DEF LockTake, Becomes, Sets, TypeOK, Process
  <2>2. /\ proc[p].pc = "lk_take"
        /\ UNCHANGED guard /\ UNCHANGED <<gpio, netconf, mixed>>
    BY <1>1 DEF LockTake
  <2>3. /\ Kept(proc[p], proc'[p])
        /\ guard' = gpio \/ (Restarts(proc[p]) => Restarts(proc'[p]))
    BY <1>p, <2>1, <2>2
    DEF Sets, Kept, Good, Fixes, Restarts,
       Was, Between, Commits, Switching, SwitchPC
  <2>4. \A r \in Proc \ {p} : proc'[r] = proc[r]
    BY <2>1 DEF Sets
  <2> QED
    BY <2>2, <2>3, <2>4, OneInv
<1>2. CASE SwitchDown(p)
  <2>1. Sets(p, "sw_gpio", proc[p].status, proc[p].ign, proc[p].ret)
    BY <1>2, <1>p, Steps DEF SwitchDown, Becomes, Sets, TypeOK, Process
  <2>2. /\ proc[p].pc = "sw_down"
        /\ UNCHANGED guard /\ UNCHANGED <<gpio, netconf, mixed>>
    BY <1>2 DEF SwitchDown
  <2>3. /\ Kept(proc[p], proc'[p])
        /\ guard' = gpio \/ (Restarts(proc[p]) => Restarts(proc'[p]))
    BY <1>p, <2>1, <2>2
    DEF Sets, Kept, Good, Fixes, Restarts,
       Was, Between, Commits, Switching, SwitchPC
  <2>4. \A r \in Proc \ {p} : proc'[r] = proc[r]
    BY <2>1 DEF Sets
  <2> QED
    BY <2>2, <2>3, <2>4, OneInv
<1>3. CASE SkipConfig(p)
  <2>1. Sets(p, "sw_up", proc[p].status, proc[p].ign, proc[p].ret) /\ proc[p].ign
    BY <1>3, GotoSets DEF SkipConfig, PC, SwitchPC
  <2>2. /\ proc[p].pc = "sw_conf"
        /\ UNCHANGED guard /\ UNCHANGED <<gpio, netconf, mixed>>
    BY <1>3 DEF SkipConfig
  <2>3. /\ Kept(proc[p], proc'[p])
        /\ guard' = gpio \/ (Restarts(proc[p]) => Restarts(proc'[p]))
    BY <1>p, <2>1, <2>2
    DEF Sets, Kept, Good, Fixes, Restarts,
       Was, Between, Commits, Switching, SwitchPC
  <2>4. \A r \in Proc \ {p} : proc'[r] = proc[r]
    BY <2>1 DEF Sets
  <2> QED
    BY <2>2, <2>3, <2>4, OneInv
<1>4. CASE SwitchUp(p)
  <2>1. Sets(p, "ul_check", proc[p].status, proc[p].ign, proc[p].ret)
    BY <1>4, GotoSets DEF SwitchUp, PC, SwitchPC
  <2>2. /\ proc[p].pc = "sw_up"
        /\ UNCHANGED guard /\ UNCHANGED <<gpio, netconf, mixed>>
    BY <1>4 DEF SwitchUp
  <2>3. /\ Kept(proc[p], proc'[p])
        /\ guard' = gpio \/ (Restarts(proc[p]) => Restarts(proc'[p]))
    BY <1>p, <2>1, <2>2
    DEF Sets, Kept, Good, Fixes, Restarts,
       Was, Between, Commits, Switching, SwitchPC
  <2>4. \A r \in Proc \ {p} : proc'[r] = proc[r]
    BY <2>1 DEF Sets
  <2> QED
    BY <2>2, <2>3, <2>4, OneInv
<1> QED
  BY <1>1, <1>2, <1>3, <1>4

\* The end of switch_sim: the lock is given up, the services restarted.
LEMMA ReturnInv ==
    ASSUME SimInv, NEW p \in Proc,
           UnlockCheck(p) \/ UnlockRemove(p) \/ Services(p)
    PROVE  Calls' /\ Copies' /\ ServicesFollow' /\ ConfigFollows'
<1> USE DEF SimInv
<1>p. proc[p] \in Process /\ Good(proc[p]) /\ Default \in Sims
  BY SimAssumption DEF TypeOK, Calls
<1>1. CASE UnlockCheck(p)
  <2>0. Sets(p, IF lock = "none" THEN Unlocked(proc[p]) ELSE "ul_remove",
             proc[p].status, proc[p].ign, proc[p].ret)
    BY <1>1, <1>p, Steps DEF UnlockCheck, Becomes, Sets, TypeOK, Process
  <2>1. PICK pc \in {"ul_remove", "ul_reload", "services", "st_check"} :
           /\ Sets(p, pc, proc[p].status, proc[p].ign, proc[p].ret)
           /\ pc = "st_check" => proc[p].ret = "st_check"
    BY <2>0 DEF Unlocked
  <2>2. /\ proc[p].pc = "ul_check"
        /\ UNCHANGED guard /\ UNCHANGED <<gpio, netconf, mixed>>
    BY <1>1 DEF UnlockCheck
  <2>3. /\ Kept(proc[p], proc'[p])
        /\ guard' = gpio \/ (Restarts(proc[p]) => Restarts(proc'[p]))
    BY <1>p, <2>1, <2>2
    DEF Sets, Kept, Good, Fixes, Restarts,
       Was, Between, Commits, Switching, SwitchPC
  <2>4. \A r \in Proc \ {p} : proc'[r] = proc[r]
    BY <2>1 DEF Sets
  <2> QED
    BY <2>2, <2>3, <2>4, OneInv
<1>2. CASE UnlockRemove(p)
  <2>0. Sets(p, IF proc[p].seen = "1" THEN "ul_reload" ELSE Unlocked(proc[p]),
             proc[p].status, proc[p].ign, proc[p].ret)
    BY <1>2, <1>p, Steps DEF UnlockRemove, Becomes, Sets, TypeOK, Process
  <2>1. PICK pc \in {"ul_remove", "ul_reload", "services", "st_check"} :
           /\ Sets(p, pc, proc[p].status, proc[p].ign, proc[p].ret)
           /\ pc = "st_check" => proc[p].ret = "st_check"
    BY <2>0 DEF Unlocked
  <2>2. /\ proc[p].pc = "ul_remove"
        /\ UNCHANGED guard /\ UNCHANGED <<gpio, netconf, mixed>>
    BY <1>2 DEF UnlockRemove
  <2>3. /\ Kept(proc[p], proc'[p])
        /\ guard' = gpio \/ (Restarts(proc[p]) => Restarts(proc'[p]))
    BY <1>p, <2>1, <2>2
    DEF Sets, Kept, Good, Fixes, Restarts,
       Was, Between, Commits, Switching, SwitchPC
  <2>4. \A r \in Proc \ {p} : proc'[r] = proc[r]
    BY <2>1 DEF Sets
  <2> QED
    BY <2>2, <2>3, <2>4, OneInv
<1>3. CASE Services(p)
  <2>0. IF Back(proc[p]) = "done" THEN Sets(p, "done", "none", FALSE, "done")
        ELSE Sets(p, Back(proc[p]), proc[p].status, proc[p].ign, proc[p].ret)
    BY <1>3, <1>p, GotoSets, BackType DEF Services
  <2>1. PICK pc \in {"pass_end", "loop", "start", "st_check", "done"} :
           IF pc = "done" THEN Sets(p, "done", "none", FALSE, "done")
           ELSE /\ Sets(p, pc, proc[p].status, proc[p].ign, proc[p].ret)
                /\ proc[p].ret # "done"
    BY <2>0, <1>p DEF Back, Process
  <2>2. /\ proc[p].pc = "services"
        /\ guard' = gpio /\ UNCHANGED <<gpio, netconf, mixed>>
    BY <1>3 DEF Services
  <2>3. /\ Kept(proc[p], proc'[p])
        /\ guard' = gpio \/ (Restarts(proc[p]) => Restarts(proc'[p]))
    BY <1>p, <2>1, <2>2
    DEF Sets, Kept, Good, Fixes, Restarts,
       Was, Between, Commits, Switching, SwitchPC
  <2>4. \A r \in Proc \ {p} : proc'[r] = proc[r]
    BY <2>1 DEF Sets
  <2> QED
    BY <2>2, <2>3, <2>4, OneInv
<1> QED
  BY <1>1, <1>2, <1>3

\* The reload mark and the beginning of start().
LEMMA StartInv ==
    ASSUME SimInv, NEW p \in Proc,
           MarkLock(p) \/ Start(p) \/ CheckPid(p) \/ WritePid(p)
    PROVE  Calls' /\ Copies' /\ ServicesFollow' /\ ConfigFollows'
<1> USE DEF SimInv
<1>p. proc[p] \in Process /\ Good(proc[p]) /\ Default \in Sims
  BY SimAssumption DEF TypeOK, Calls
<1>1. CASE MarkLock(p)
  <2>1. Sets(p, "done", "none", FALSE, "done")
    BY <1>1, GotoSets DEF MarkLock, PC, SwitchPC
  <2>2. /\ proc[p].pc = "rl_mark"
        /\ UNCHANGED guard /\ UNCHANGED <<gpio, netconf, mixed>>
    BY <1>1 DEF MarkLock
  <2>3. /\ Kept(proc[p], proc'[p])
        /\ guard' = gpio \/ (Restarts(proc[p]) => Restarts(proc'[p]))
    BY <1>p, <2>1, <2>2
    DEF Sets, Kept, Good, Fixes, Restarts,
       Was, Between, Commits, Switching, SwitchPC
  <2>4. \A r \in Proc \ {p} : proc'[r] = proc[r]
    BY <2>1 DEF Sets
  <2> QED
    BY <2>2, <2>3, <2>4, OneInv
<1>2. CASE Start(p)
  <2>1. \/ Sets(p, "ul_check", "none", proc[p].ign, "st_check")
        \/ Sets(p, "done", "none", FALSE, "done")
    BY <1>2, <1>p DEF Start, Sets, Moved, Unborn, Launched, TypeOK, Process
  <2>2. /\ proc[p].pc = "start"
        /\ UNCHANGED guard /\ UNCHANGED <<gpio, netconf, mixed>>
    BY <1>2 DEF Start
  <2>3. /\ Kept(proc[p], proc'[p])
        /\ guard' = gpio \/ (Restarts(proc[p]) => Restarts(proc'[p]))
    BY <1>p, <2>1, <2>2
    DEF Sets, Kept, Good, Fixes, Restarts,
       Was, Between, Commits, Switching, SwitchPC
  <2>4. \A r \in Proc \ {p} : proc'[r] = proc[r]
    BY <2>1 DEF Sets
  <2> QED
    BY <2>2, <2>3, <2>4, OneInv
<1>3. CASE CheckPid(p)
  <2>1. \/ Sets(p, "st_pid", proc[p].status, proc[p].ign, proc[p].ret)
        \/ Sets(p, "done", "none", FALSE, "done")
    BY <1>3, GotoSets DEF CheckPid, PC
  <2>2. /\ proc[p].pc = "st_check"
        /\ UNCHANGED guard /\ UNCHANGED <<gpio, netconf, mixed>>
    BY <1>3 DEF CheckPid
  <2>3. /\ Kept(proc[p], proc'[p])
        /\ guard' = gpio \/ (Restarts(proc[p]) => Restarts(proc'[p]))
    BY <1>p, <2>1, <2>2
    DEF Sets, Kept, Good, Fixes, Restarts,
       Was, Between, Commits, Switching, SwitchPC
  <2>4. \A r \in Proc \ {p} : proc'[r] = proc[r]
    BY <2>1 DEF Sets
  <2> QED
    BY <2>2, <2>3, <2>4, OneInv
<1>4. CASE WritePid(p)
  <2>1. Sets(p, "loop", proc[p].status, proc[p].ign, proc[p].ret)
    BY <1>4, GotoSets DEF WritePid, PC, SwitchPC
  <2>2. /\ proc[p].pc = "st_pid"
        /\ UNCHANGED guard /\ UNCHANGED <<gpio, netconf, mixed>>
    BY <1>4 DEF WritePid
  <2>3. /\ Kept(proc[p], proc'[p])
        /\ guard' = gpio \/ (Restarts(proc[p]) => Restarts(proc'[p]))
    BY <1>p, <2>1, <2>2
    DEF Sets, Kept, Good, Fixes, Restarts,
       Was, Between, Commits, Switching, SwitchPC
  <2>4. \A r \in Proc \ {p} : proc'[r] = proc[r]
    BY <2>1 DEF Sets
  <2> QED
    BY <2>2, <2>3, <2>4, OneInv
<1> QED
  BY <1>1, <1>2, <1>3, <1>4

\* The loop of start(), and waiting for the lock.
LEMMA LoopInv ==
    ASSUME SimInv, NEW p \in Proc,
           (\E bad \in SUBSET Rule : Pass(p, bad)) \/ PassEnd(p) \/ LockCheck(p)
    PROVE  Calls' /\ Copies' /\ ServicesFollow' /\ ConfigFollows'
<1> USE DEF SimInv
<1>p. proc[p] \in Process /\ Good(proc[p]) /\ Default \in Sims
  BY SimAssumption DEF TypeOK, Calls
<1>1. ASSUME NEW bad \in SUBSET Rule, Pass(p, bad)
      PROVE  Calls' /\ Copies' /\ ServicesFollow' /\ ConfigFollows'
  <2>0. Switch(p, "none", "pass_end") \/ Goto(p, "pass_end")
    BY <1>1 DEF Pass
  <2>1. \/ Sets(p, "lk_check", "none", FALSE, "pass_end")
        \/ Sets(p, "pass_end", proc[p].status, proc[p].ign, proc[p].ret)
    BY <2>0, GotoSets, SwitchSets DEF PC, SwitchPC
  <2>2. /\ proc[p].pc = "loop"
        /\ UNCHANGED guard /\ UNCHANGED <<gpio, netconf, mixed>>
    BY <1>1 DEF Pass
  <2>3. /\ Kept(proc[p], proc'[p])
        /\ guard' = gpio \/ (Restarts(proc[p]) => Restarts(proc'[p]))
    BY <1>p, <2>1, <2>2
    DEF Sets, Kept, Good, Fixes, Restarts,
       Was, Between, Commits, Switching, SwitchPC
  <2>4. \A r \in Proc \ {p} : proc'[r] = proc[r]
    BY <2>1 DEF Sets
  <2> QED
    BY <2>2, <2>3, <2>4, OneInv
<1>2. CASE PassEnd(p)
  <2>0. Switch(p, Default, "loop") \/ Goto(p, "loop")
    BY <1>2 DEF PassEnd
  <2>1. \/ Sets(p, "lk_check", Default, FALSE, "loop")
        \/ Sets(p, "loop", proc[p].status, proc[p].ign, proc[p].ret)
    BY <2>0, GotoSets, SwitchSets DEF PC, SwitchPC
  <2>2. /\ proc[p].pc = "pass_end"
        /\ UNCHANGED guard /\ UNCHANGED <<gpio, netconf, mixed>>
    BY <1>2 DEF PassEnd
  <2>3. /\ Kept(proc[p], proc'[p])
        /\ guard' = gpio \/ (Restarts(proc[p]) => Restarts(proc'[p]))
    BY <1>p, <2>1, <2>2
    DEF Sets, Kept, Good, Fixes, Restarts,
       Was, Between, Commits, Switching, SwitchPC
  <2>4. \A r \in Proc \ {p} : proc'[r] = proc[r]
    BY <2>1 DEF Sets
  <2> QED
    BY <2>2, <2>3, <2>4, OneInv
<1>3. CASE LockCheck(p)
  <2>1. \/ Sets(p, "lk_take", proc[p].status, proc[p].ign, proc[p].ret)
        \/ Sets(p, "lk_check", proc[p].status, proc[p].ign, proc[p].ret)
    <3>1. CASE lock = "none"
      BY <1>3, <3>1, GotoSets DEF LockCheck, PC, SwitchPC
    <3>2. CASE lock # "none"
      BY <1>3, <3>2, <1>p DEF LockCheck, Sets, TypeOK, Process
    <3> QED
      BY <3>1, <3>2
  <2>2. /\ proc[p].pc = "lk_check"
        /\ UNCHANGED guard /\ UNCHANGED <<gpio, netconf, mixed>>
    BY <1>3 DEF LockCheck
  <2>3. /\ Kept(proc[p], proc'[p])
        /\ guard' = gpio \/ (Restarts(proc[p]) => Restarts(proc'[p]))
    BY <1>p, <2>1, <2>2
    DEF Sets, Kept, Good, Fixes, Restarts,
       Was, Between, Commits, Switching, SwitchPC
  <2>4. \A r \in Proc \ {p} : proc'[r] = proc[r]
    BY <2>1 DEF Sets
  <2> QED
    BY <2>2, <2>3, <2>4, OneInv
<1> QED
  BY <1>1, <1>2, <1>3

\* stop(): the process of the pid file is killed where it is.
LEMMA StopInv ==
    ASSUME SimInv, NEW p \in Proc, Stop(p)
    PROVE  Calls' /\ Copies' /\ ServicesFollow' /\ ConfigFollows'
<1> USE DEF SimInv
<1> DEFINE me == [proc[p] EXCEPT !.ret = "stop_end", !.status = Default]
           next == IF pidfile # 0 /\ ~me.en /\ gpio # Default
                   THEN "lk_check" ELSE Back(me)
<1>p. \A r \in Proc : proc[r] \in Process /\ Good(proc[r])
  BY DEF TypeOK, Calls
<1>1. /\ proc[p].pc = "stop"
      /\ proc' = [r \in Proc |->
                      IF r = pidfile /\ r \in Lua THEN Killed(proc[r])
                      ELSE IF r = p THEN Moved(me, next) ELSE proc[r]]
  BY DEF Stop
<1>0. UNCHANGED <<gpio, netconf, guard, mixed>>
  BY DEF Stop
<1>2. me.ret = "stop_end" /\ me.ign = proc[p].ign
  BY <1>p DEF Process
<1>3. next \in {"lk_check", "start", "done"}
  BY <1>2 DEF Back
<1>4. \A r \in Proc : /\ Killed(proc[r]).pc = "killed"
                      /\ Killed(proc[r]).at = proc[r].pc
                      /\ Killed(proc[r]).ign = proc[r].ign
                      /\ Killed(proc[r]).ret = proc[r].ret
                      /\ Killed(proc[r]).conf = proc[r].conf
  BY DEF Killed, Unborn, Launched
<1>5. /\ Moved(me, next).pc = next
      /\ next = "done" => Moved(me, next).ign = FALSE
      /\ next # "done" => /\ Moved(me, next).ign = proc[p].ign
                          /\ Moved(me, next).ret = "stop_end"
  <2>1. CASE next = "done"
    BY <2>1 DEF Moved, Unborn, Launched
  <2>2. CASE next # "done"
    <3>1. Moved(me, next) = [me EXCEPT !.pc = next]
      BY <2>2 DEF Moved
    <3>2. me \in Process
      BY <1>p, SimAssumption, ZenonT(60) DEF Process
    <3> HIDE DEF me, next
    <3> QED
      BY <3>1, <3>2, <1>2, <1>3, <2>2 DEF Process
  <2> QED
    BY <2>1, <2>2
<1> HIDE DEF me, next
<1>6. ASSUME NEW r \in Proc
      PROVE  /\ Kept(proc[r], proc'[r])
             /\ Restarts(proc[r]) => Restarts(proc'[r])
  <2>1. CASE r = pidfile /\ r \in Lua
    <3>1. /\ proc[r].pc # "killed" /\ proc[r].pc # "wc_commit" /\ Good(proc[r])
          /\ proc'[r].pc = "killed" /\ proc'[r].at = proc[r].pc
          /\ proc'[r].ign = proc[r].ign /\ proc'[r].ret = proc[r].ret
          /\ proc'[r].conf = proc[r].conf
      BY <1>p, <1>1, <1>4, <2>1 DEF Lua
    <3> QED
      BY <3>1 DEF Kept, Good, Fixes, Restarts, Was, Between, Commits, Switching,
                  SwitchPC
  <2>2. CASE ~(r = pidfile /\ r \in Lua) /\ r = p
    <3>1. /\ proc[p].pc = "stop" /\ ~proc[p].ign /\ proc'[p].ign = FALSE
          /\ \/ proc'[p].pc \in {"lk_check", "start"}
                  /\ proc'[p].ret = "stop_end"
             \/ proc'[p].pc = "done"
      BY <1>p, <1>1, <1>3, <1>5, <2>2 DEF Good, SwitchPC
    <3> QED
      BY <2>2, <3>1 DEF Kept, Good, Fixes, Restarts, Was, Between, Commits,
                        Switching
  <2>3. CASE r # p /\ ~(r = pidfile /\ r \in Lua)
    <3>1. proc'[r] = proc[r]
      BY <1>1, <2>3
    <3> QED
      BY <3>1, <1>p, StayKept
  <2> QED
    BY <2>1, <2>2, <2>3
<1> QED
  BY <1>0, <1>6, KeptInv

\* A process q is launched.
Joins(q) ==
    /\ Unused # {} /\ proc' = [proc EXCEPT ![Next1] = q]
    /\ UNCHANGED <<gpio, netconf, guard, mixed>>
    /\ q.ret = "done"
    /\ \/ q.pc \in {"stop", "rl_mark", "lk_check", "cf_conf"} /\ ~q.ign
       \/ /\ q.pc = "wc_commit" /\ q.ign
          /\ q.status = IF gpio = Default THEN "none" ELSE Default

\* Launching a process.
LEMMA LaunchInv ==
    ASSUME SimInv, Launch
    PROVE  Calls' /\ Copies' /\ ServicesFollow' /\ ConfigFollows'
<1> USE DEF SimInv
<1>p. proc \in [Proc -> Process]
  BY DEF TypeOK
<1>0. PICK q : Joins(q)
  <2> USE DEF Joins
  <2>1. ASSUME NEW en \in BOOLEAN, Reconfigure(en)
        PROVE  \E q : Joins(q)
    <3> WITNESS Reloading(en)
    <3> QED
      BY <2>1 DEF Reconfigure, Reloading, Launched
  <2>2. ASSUME StopService
        PROVE  \E q : Joins(q)
    <3> WITNESS Launched("stop", "stop", enabled, "none", FALSE)
    <3> QED
      BY <2>2 DEF StopService, Launched
  <2>3. ASSUME NEW status \in Sims \cup {"default", "none"}, Change(status)
        PROVE  \E q : Joins(q)
    <3> WITNESS Launched("lk_check", "change", FALSE, status, FALSE)
    <3> QED
      BY <2>3 DEF Change, Launched
  <2>4. ASSUME WebSwitch
        PROVE  \E q : Joins(q)
    <3> WITNESS Launched("wc_commit", "change", FALSE,
                         IF gpio = Default THEN "none" ELSE Default, TRUE)
    <3> QED
      BY <2>4 DEF WebSwitch, Launched
  <2>5. ASSUME ConfigCommand
        PROVE  \E q : Joins(q)
    <3> WITNESS Launched("cf_conf", "config", FALSE, "none", FALSE)
    <3> QED
      BY <2>5 DEF ConfigCommand, Launched
  <2> QED
    BY <2>1, <2>2, <2>3, <2>4, <2>5 DEF Launch
<1>1. Next1 \in Proc /\ proc[Next1].pc = "unused"
  BY <1>0, NextUnused DEF Joins
<1>2. proc'[Next1] = q /\ \A r \in Proc \ {Next1} : proc'[r] = proc[r]
  BY <1>p, <1>0, <1>1 DEF Joins
<1>3. Kept(proc[Next1], q) /\ ~Restarts(proc[Next1])
  <2>1. Good(proc[Next1]) /\ ~proc[Next1].ign
    BY <1>1 DEF Calls, Good, SwitchPC
  <2>2. Default # "none"
    BY SimAssumption DEF Sims
  <2> QED
    BY <1>0, <1>1, <2>1, <2>2 DEF Joins, Kept, Good, Fixes, Restarts, Was,
                                  Between, Commits, Switching, SwitchPC
<1> QED
  BY <1>0, <1>1, <1>2, <1>3, OneInv DEF Joins

\* The reload that the end of lockUnlock runs: one process moves on and
\* another is launched.
LEMMA ReloadInv ==
    ASSUME SimInv, NEW p \in Proc, UnlockReload(p)
    PROVE  Calls' /\ Copies' /\ ServicesFollow' /\ ConfigFollows'
<1> USE DEF SimInv
<1>p. /\ proc \in [Proc -> Process]
      /\ UNCHANGED <<gpio, netconf, guard, mixed>>
      /\ \A q \in Proc : Good(proc[q])
  BY DEF TypeOK, UnlockReload, Calls
<1>1. /\ proc[p].pc = "ul_reload"
      /\ \A q \in Proc \ {p} :
            \/ proc'[q] = proc[q]
            \/ proc[q].pc = "unused" /\ proc'[q] = Reloading(enabled)
  BY NextUnused DEF UnlockReload
<1>2. /\ proc'[p].pc \in {"st_check", "services"}
      /\ proc'[p].pc = "st_check" => proc[p].ret = "st_check"
      /\ proc'[p].ign = proc[p].ign /\ proc'[p].ret = proc[p].ret
  BY <1>p DEF UnlockReload, Unlocked, Process
<1>3. LET q == Reloading(enabled)
      IN  q.pc \in {"stop", "rl_mark"} /\ ~q.ign /\ q.ret = "done"
  BY DEF Reloading, Launched
<1>4. ASSUME NEW r \in Proc
      PROVE  /\ Kept(proc[r], proc'[r])
             /\ Restarts(proc[r]) => Restarts(proc'[r])
  <2>1. CASE r = p
    BY <1>p, <1>1, <1>2, <2>1 DEF Kept, Good, Fixes, Restarts, Was, Between,
       Commits, Switching, SwitchPC
  <2>2. CASE proc'[r] = proc[r]
    BY <1>p, <2>2, StayKept
  <2>3. CASE proc[r].pc = "unused" /\ proc'[r] = Reloading(enabled)
    BY <1>p, <1>3, <2>3 DEF Kept, Good, Fixes, Restarts, Was, Between, Commits,
       Switching, SwitchPC
  <2> QED
    BY <1>1, <2>1, <2>2, <2>3
<1> QED
  BY <1>p, <1>4, KeptInv

-----------------------------------------------------------------------------
(* The steps that change the SIM in use or the network configuration.      *)

\* What sim_conf_switch.sh makes of the process that runs it.
LEMMA ResumedFields ==
    ASSUME NEW q \in Process, NEW conf,
           NEW pc \in {"sw_commit", "cf_commit", "sw_up", "done"}
    PROVE  LET t == Resumed([q EXCEPT !.conf = conf], pc)
           IN  /\ Was(t) = pc
               /\ pc # "done" => /\ t.ign = q.ign /\ t.ret = q.ret
                                 /\ t.conf = conf /\ t.status = q.status
               /\ t.pc = "killed" <=> q.pc = "killed"
               /\ t.pc # "killed" => t.pc = pc
               /\ t.ign => q.ign
<1> DEFINE u == [q EXCEPT !.conf = conf]
<1>0. /\ u.pc = q.pc /\ u.ign = q.ign /\ u.ret = q.ret /\ u.conf = conf
      /\ u.status = q.status
      /\ \A x : /\ [u EXCEPT !.pc = x].pc = x
                /\ [u EXCEPT !.pc = x].ign = q.ign
                /\ [u EXCEPT !.pc = x].ret = q.ret
                /\ [u EXCEPT !.pc = x].conf = conf
                /\ [u EXCEPT !.pc = x].status = q.status
      /\ \A x : /\ [u EXCEPT !.at = x].pc = q.pc
                /\ [u EXCEPT !.at = x].at = x
                /\ [u EXCEPT !.at = x].ign = q.ign
                /\ [u EXCEPT !.at = x].ret = q.ret
                /\ [u EXCEPT !.at = x].conf = conf
                /\ [u EXCEPT !.at = x].status = q.status
  BY DEF Process
<1>d. LET d == [Unborn EXCEPT !.pc = "done"]
      IN  d.pc = "done" /\ ~d.ign
  BY DEF Unborn, Launched
<1> HIDE DEF u
<1>1. CASE q.pc = "killed"
  BY <1>0, <1>1 DEF Resumed, Was, u
<1>2. CASE q.pc # "killed" /\ pc = "done"
  BY <1>0, <1>d, <1>2 DEF Resumed, Moved, Was, u
<1>3. CASE q.pc # "killed" /\ pc # "done"
  BY <1>0, <1>3 DEF Resumed, Moved, Was, u
<1> QED
  BY <1>1, <1>2, <1>3

\* The script reads the SIM in use.
LEMMA ConfReadInv ==
    ASSUME SimInv, NEW p \in Proc, ConfRead(p)
    PROVE  Calls' /\ Copies' /\ ServicesFollow' /\ ConfigFollows'
<1> USE DEF SimInv
<1>p. proc[p] \in Process /\ Good(proc[p]) /\ gpio \in Sims
  BY DEF TypeOK, Calls
<1>0. /\ Was(proc[p]) \in {"sw_conf", "cf_conf"} /\ ~proc[p].ign
      /\ UNCHANGED <<gpio, netconf, guard, mixed>>
  BY DEF ConfRead
<1>1. PICK pc \in {"sw_commit", "cf_commit"} :
         /\ pc = "sw_commit" <=> Was(proc[p]) = "sw_conf"
         /\ proc'[p] = Resumed([proc[p] EXCEPT !.conf = gpio], pc)
         /\ \A r \in Proc \ {p} : proc'[r] = proc[r]
  BY DEF ConfRead, TypeOK
<1>2. /\ Was(proc'[p]) = pc /\ ~proc'[p].ign /\ proc'[p].ign = proc[p].ign
      /\ proc'[p].ret = proc[p].ret /\ proc'[p].conf = gpio
      /\ proc'[p].pc = "killed" <=> proc[p].pc = "killed"
      /\ proc'[p].pc # "killed" => proc'[p].pc = pc
  BY <1>p, <1>0, <1>1, ResumedFields
<1>3. Good(proc'[p])
  BY <1>p, <1>0, <1>1, <1>2
     DEF Good, Was, Between, Commits, Switching, SwitchPC
<1>4. Kept(proc[p], proc'[p]) /\ (Restarts(proc[p]) => Restarts(proc'[p]))
  BY <1>0, <1>1, <1>2, <1>3 DEF Kept, Fixes, Restarts, Between
<1> QED
  BY <1>0, <1>1, <1>4, OneInv

\* The script commits: as long as nothing overlaps, the SIM in use.
LEMMA ConfCommitInv ==
    ASSUME SimInv, NEW p \in Proc, ConfCommit(p)
    PROVE  Calls' /\ Copies' /\ ServicesFollow' /\ ConfigFollows'
<1> USE DEF SimInv
<1>p. proc[p] \in Process /\ Good(proc[p])
  BY DEF TypeOK, Calls
<1>0. /\ Was(proc[p]) \in Commits /\ ~proc[p].ign
      /\ netconf' = proc[p].conf
      /\ mixed' = (mixed \/ Clash(p, proc[p].conf))
      /\ UNCHANGED <<gpio, guard>>
  BY <1>p DEF ConfCommit, Good, Commits
<1>1. PICK pc \in {"sw_up", "done"} :
         /\ pc = "sw_up" <=> Was(proc[p]) = "sw_commit"
         /\ proc'[p] = Resumed([proc[p] EXCEPT !.conf = "none"], pc)
         /\ \A r \in Proc \ {p} : proc'[r] = proc[r]
  BY DEF ConfCommit, TypeOK
<1>2. /\ Was(proc'[p]) = pc /\ ~proc'[p].ign
      /\ pc = "sw_up" => proc'[p].ret = proc[p].ret
      /\ proc'[p].pc = "killed" <=> proc[p].pc = "killed"
      /\ proc'[p].pc # "killed" => proc'[p].pc = pc
  BY <1>p, <1>0, <1>1, ResumedFields
<1>3. Good(proc'[p]) /\ (Restarts(proc[p]) => Restarts(proc'[p]))
  BY <1>p, <1>0, <1>1, <1>2
     DEF Good, Was, Between, Commits, Switching, SwitchPC, Restarts
<1>4. Calls'
  BY <1>1, <1>3 DEF Calls, Good, Was, Between
<1>5. ServicesFollow'
  BY <1>0, <1>1, <1>3 DEF ServicesFollow, Restarts, Was
<1>6. ~mixed' => netconf' = gpio'
  BY <1>0 DEF Copies, Clean
<1>7. Copies'
  <2>1. ASSUME ~mixed', NEW r \in Proc
        PROVE  Clean(proc[r])'
    <3>1. CASE r = p
      BY <1>0, <1>1, <1>2, <3>1 DEF Clean, Was, Between, Commits
    <3>2. CASE r # p
      <4>1. Clean(proc[r]) /\ proc'[r] = proc[r]
        BY <1>0, <1>1, <2>1, <3>2 DEF Copies
      <4>2. Between(proc[r]) => netconf' = Default
        BY <1>0, <2>1, <3>2 DEF Clash
      <4> QED
        BY <1>0, <4>1, <4>2 DEF Clean, Was, Between
    <3> QED
      BY <3>1, <3>2
  <2> QED
    BY <2>1 DEF Copies
<1>8. ConfigFollows'
  BY <1>6 DEF ConfigFollows
<1> QED
  BY <1>4, <1>5, <1>7, <1>8

\* The web interface's script commits the default SIM, and goes on to the
\* switch or gives it up.
LEMMA WebCommitInv ==
    ASSUME SimInv, NEW p \in Proc, WebCommit(p)
    PROVE  Calls' /\ Copies' /\ ServicesFollow' /\ ConfigFollows'
<1> USE DEF SimInv
<1>p. proc[p] \in Process /\ Good(proc[p]) /\ Default \in Sims
  BY SimAssumption DEF TypeOK, Calls
<1>0. PICK found \in BOOLEAN :
         /\ proc[p].pc = "wc_commit" /\ netconf' = Default
         /\ found => proc[p].status # "none"
         /\ Goto(p, IF found THEN "lk_check" ELSE "done")
         /\ mixed' = (mixed \/ Clash(p, Default) \/ (~found /\ gpio # Default))
         /\ UNCHANGED <<gpio, guard>>
  BY DEF WebCommit
<1>1. IF found THEN Sets(p, "lk_check", Default, TRUE, "done")
      ELSE Sets(p, "done", "none", FALSE, "done")
  <2>1. proc[p].ign /\ proc[p].ret = "done"
        /\ (found => proc[p].status = Default)
    BY <1>p, <1>0 DEF Good
  <2>2. "lk_check" \in PC /\ "done" \in PC /\ proc[p].ign \in BOOLEAN
    BY <1>p DEF PC, SwitchPC, Process
  <2> QED
    BY <1>0, <2>1, <2>2, GotoSets
<1>2. Good(proc'[p]) /\ ~Restarts(proc[p])
  BY <1>p, <1>0, <1>1
     DEF Sets, Good, Was, Between, Commits, Switching, SwitchPC, Restarts
<1>o. \A r \in Proc \ {p} : proc'[r] = proc[r]
  BY <1>1 DEF Sets
<1>3. Calls'
  BY <1>o, <1>2 DEF Calls, Good, Was, Between
<1>4. ServicesFollow'
  BY <1>0, <1>o, <1>2 DEF ServicesFollow, Restarts, Was
<1>5. Copies'
  <2>1. ASSUME ~mixed', NEW r \in Proc
        PROVE  Clean(proc[r])'
    <3>1. CASE r = p
      BY <1>0, <1>1, <3>1 DEF Sets, Clean, Was, Between, Commits
    <3>2. CASE r # p
      <4>1. Clean(proc[r]) /\ proc'[r] = proc[r]
        BY <1>0, <1>o, <2>1, <3>2 DEF Copies
      <4> QED
        BY <1>0, <4>1 DEF Clean, Was, Between
    <3> QED
      BY <3>1, <3>2
  <2> QED
    BY <2>1 DEF Copies
<1>6. ConfigFollows'
  <2>1. CASE found
    BY <1>0, <1>1, <2>1 DEF Sets, ConfigFollows, Was
  <2>2. CASE ~found
    BY <1>0, <2>2 DEF ConfigFollows
  <2> QED
    BY <2>1, <2>2
<1> QED
  BY <1>3, <1>4, <1>5, <1>6

\* The GPIO is set: the parameters follow, or are there already.
LEMMA SwitchGpioInv ==
    ASSUME SimInv, NEW p \in Proc, SwitchGpio(p)
    PROVE  Calls' /\ Copies' /\ ServicesFollow' /\ ConfigFollows'
<1> USE DEF SimInv
<1>p. proc[p] \in Process /\ Good(proc[p]) /\ Default \in Sims
  BY SimAssumption DEF TypeOK, Calls
<1>0. /\ proc[p].pc = "sw_gpio" /\ gpio' = Target(proc[p])
      /\ mixed' = (mixed \/ (gpio' # gpio /\ \E q \in Proc : Copying(proc[q])))
      /\ UNCHANGED <<netconf, guard>>
  BY DEF SwitchGpio
<1>1. Sets(p, "sw_conf", "none", proc[p].ign, proc[p].ret)
  BY <1>p, Steps DEF SwitchGpio, Becomes, Sets, TypeOK, Process
<1>2. Good(proc'[p]) /\ Restarts(proc'[p])
  BY <1>p, <1>0, <1>1
     DEF Sets, Good, Was, Between, Commits, Switching, SwitchPC, Restarts
<1>o. \A r \in Proc \ {p} : proc'[r] = proc[r]
  BY <1>1 DEF Sets
<1>3. Calls'
  BY <1>o, <1>2 DEF Calls, Good, Was, Between
<1>4. ServicesFollow'
  BY <1>2 DEF ServicesFollow, Restarts, Was
<1>5. Copies'
  <2>1. ASSUME ~mixed', NEW r \in Proc
        PROVE  Clean(proc[r])'
    <3>1. CASE r = p
      BY <1>0, <1>1, <3>1 DEF Sets, Clean, Was, Between, Commits
    <3>2. CASE r # p
      <4>1. Clean(proc[r]) /\ proc'[r] = proc[r]
        BY <1>0, <1>o, <2>1, <3>2 DEF Copies
      <4>2. gpio' = gpio \/ ~Copying(proc[r])
        BY <1>0, <2>1
      <4>3. ~Copying(proc[r]) => Was(proc[r]) \notin Commits
                                 /\ proc[r].pc # "wc_commit"
        BY DEF Copying, Commits, Was
      <4> QED
        BY <1>0, <4>1, <4>2, <4>3 DEF Clean, Was, Between
    <3> QED
      BY <3>1, <3>2
  <2> QED
    BY <2>1 DEF Copies
<1>6. ConfigFollows'
  <2>1. CASE ~proc[p].ign
    BY <1>1, <2>1 DEF Sets, ConfigFollows, Was
  <2>2. CASE proc[p].ign
    <3>1. Between(proc[p]) /\ proc[p].status = Default
      BY <1>p, <1>0, <2>2 DEF Good, Between
    <3>2. gpio' = Default
      BY <1>p, <1>0, <3>1 DEF Target, Sims
    <3>3. ~mixed => netconf = Default
      BY <3>1 DEF Copies, Clean
    <3> QED
      BY <1>0, <3>2, <3>3 DEF ConfigFollows
  <2> QED
    BY <2>1, <2>2
<1> QED
  BY <1>3, <1>4, <1>5, <1>6

-----------------------------------------------------------------------------
(* The theorems.                                                           *)

LEMMA InitInv == Init => SimInv
<1> SUFFICES ASSUME Init PROVE SimInv
  OBVIOUS
<1>1. TypeOK
  BY InitType
<1>2. \A p \in Proc : /\ proc[p].pc \in {"start", "unused"}
                      /\ ~proc[p].ign
  BY DEF Init, Unborn, Launched
<1>3. guard = gpio /\ netconf = gpio
  BY DEF Init
<1> QED
  BY <1>1, <1>2, <1>3 DEF SimInv, Calls, Good, Copies, Clean, Between, Was,
     Commits, Switching, ServicesFollow, ConfigFollows

LEMMA NextInv == SimInv /\ [Next]_vars => SimInv'
<1> SUFFICES ASSUME SimInv, [Next]_vars
             PROVE  SimInv'
  OBVIOUS
<1>1. CASE Launch
  BY <1>1, LaunchType, LaunchInv DEF SimInv
<1>2. ASSUME NEW p \in Proc, Step(p) \/ Orphan(p)
      PROVE  SimInv'
  <2>1. TypeOK'
    BY <1>2, DaemonType, SwitchType, ScriptType DEF Step, Orphan, SimInv
  <2> QED
    BY <1>2, <2>1, SwitchInv, ReturnInv, StartInv, LoopInv, StopInv, ReloadInv,
       ConfReadInv, ConfCommitInv, WebCommitInv, SwitchGpioInv
    DEF Step, Orphan, SimInv
<1>3. CASE UNCHANGED vars
  <2>1. TypeOK'
    BY <1>3 DEF vars, SimInv, TypeOK
  <2>2. \A p \in Proc : proc'[p] = proc[p] /\ Kept(proc[p], proc'[p])
    BY <1>3, StayKept DEF vars, SimInv, Calls
  <2>3. UNCHANGED <<gpio, netconf, mixed, guard>>
    BY <1>3 DEF vars
  <2> QED
    BY <2>1, <2>2, <2>3, KeptInv DEF SimInv
<1> QED
  BY <1>1, <1>2, <1>3 DEF Next

LEMMA SimInvariant == Spec => []SimInv
BY InitInv, NextInv, PTL DEF Spec

\* The files, the GPIO line and the locals of every sim_switch process keep
\* their types, whatever processes are launched and killed.
THEOREM SimTypeCorrect == Spec => []TypeOK
BY SimInvariant, PTL DEF SimInv

\* However many sim_switch processes run at once, and whatever locks they take
\* from each other, limit_guard has the limits of the SIM in use, or a process
\* on the way to restart it, or one that was killed on that way.
THEOREM ServicesNeverForgotten == Spec => []ServicesFollow
BY SimInvariant, PTL DEF SimInv

\* The network configuration follows the SIM in use through any number of
\* switches, web switches, configuration commands and kills, but for the
\* processes that are between the two, for copies that overlapped a switch or a
\* copy from the other SIM, and for a web switch that found no modem.
THEOREM ConfigNeverForgotten == Spec => []ConfigFollows
BY SimInvariant, PTL DEF SimInv

====
