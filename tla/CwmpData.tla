------------------------------ MODULE CwmpData ------------------------------
(***************************************************************************)
(* easycwmp: the parameters of the router as the daemon and its external   *)
(* script keep them.  SetParameterValues and SetParameterAttributes are    *)
(* sent to the script one parameter at a time and then applied; between    *)
(* the two they live in temporary files and in uncommitted uci changes.    *)
(* Value changes are found by comparing the values with a baseline file,   *)
(* and kept in the daemon's list of notifications until an Inform has      *)
(* been answered.                                                          *)
(*                                                                         *)
(* A parameter is not an option of uci: its set command writes one and     *)
(* its get command reads one.  The Enable of every WLANConfiguration is    *)
(* wireless.wl0.disabled; the Enable of WANPPPConnection.1 writes          *)
(* network.wan.auto and reads the hardware address; a Password is written  *)
(* and read as nothing.  Two ways to write a value (true and 1) are one    *)
(* value here.  Attributes are of parameters only: those of objects, which *)
(* the parameters below them inherit, are left out.                        *)
(*                                                                         *)
(* The configuration also changes behind the daemon's back, the daemon     *)
(* can die at any moment, and the router can lose its power.               *)
(***************************************************************************)
EXTENDS Naturals, Sequences, FiniteSetsExt

CONSTANTS
    Params,         \* the parameters of the data model
    Names,          \* the names the ACS may use
    Options,        \* the options of uci behind them
    SetOpt, GetOpt, \* the option a parameter's set and get command work on
    Values,
    ReadOnly,       \* parameters without a set command
    Invalid,        \* <<p, v>>: the set command of p refuses v
    Own,            \* options of easycwmp's own configuration
    MaxNames,       \* bound: names in a request
    MaxEvents       \* bound on requests, local changes and crashes together

None == "-"

Notifs == {"0", "1"}    \* no notification, some notification

ASSUME DataAssumption ==
    /\ Params \subseteq Names /\ ReadOnly \subseteq Params /\ Own \subseteq Options
    /\ SetOpt \in [Params -> Options] /\ GetOpt \in [Params -> Options]
    /\ Invalid \subseteq Params \X Values
    /\ None \notin Values
    /\ MaxNames \in Nat /\ MaxEvents \in Nat

\* What uci holds: a value for every option and a notification attribute for
\* every parameter.
Val(o) == <<"value", o>>
Attr(p) == <<"attr", p>>
Item == {Val(o) : o \in Options} \cup {Attr(p) : p \in Params}

VARIABLES
    conf,       \* committed configuration
    delta,      \* uncommitted changes, None where there is none (/tmp/.uci)
    cmds,       \* set_command_tmp_file: the set commands to evaluate
    fault,      \* set_fault_tmp_file exists
    base,       \* NOTIF_PARAM_VALUES: the baseline of the tracked parameters
    pending,    \* cwmp->notifications
    mode,       \* what the daemon is doing
    req,        \* the request being executed: what it sets and what is left
    changed,    \* easycwmp_config_changed of the script
    reload,     \* ENDS_RELOAD_CONFIG of the session
    told,       \* history: the value the ACS was last told, or has set
    swallowed,  \* history: changes that moved the baseline without a word
    refused,    \* history: settings of options answered with a fault
    orphan,     \* history: a dead daemon's request is in the files
    count       \* events so far

vars == <<conf, delta, cmds, fault, base, pending, mode, req, changed, reload,
          told, swallowed, refused, orphan, count>>

Modes == {"down", "idle", "checked", "session", "setting", "answer",
          "closing"}

\* uci get: uncommitted changes are seen.
View(i) == IF delta[i] # None THEN delta[i] ELSE conf[i]

\* What the get command of p prints.
Seen(p) == View(Val(GetOpt[p]))

NoDelta == [i \in Item |-> None]

\* What a request may ask for.
Wants(V) ==
    UNION {[S -> V] : S \in {T \in SUBSET Names : Cardinality(T) \in 1 .. MaxNames}}

NoReq == [kind |-> "none", want |-> <<>>, todo |-> {}]

\* What the ACS knows of p, or will once the daemon's list has been sent.
Known(p) == IF pending[p] # None THEN pending[p] ELSE told[p]

DataTypeOK ==
    /\ \A o \in Options : /\ conf[Val(o)] \in Values
                          /\ delta[Val(o)] \in Values \cup {None}
    /\ \A p \in Params : /\ conf[Attr(p)] \in Notifs
                         /\ delta[Attr(p)] \in Notifs \cup {None}
    /\ cmds \in Seq(Params \X Values) /\ fault \in BOOLEAN
    /\ base \in [Params -> Values \cup {None}]
    /\ pending \in [Params -> Values \cup {None}]
    /\ mode \in Modes
    /\ req.todo \subseteq DOMAIN req.want
    /\ {changed, reload, orphan} \subseteq BOOLEAN
    /\ told \in [Params -> Values]
    /\ swallowed \subseteq Params
    /\ refused \subseteq Options \X Values

\* A router that was just set up by its ACS.
Init ==
    /\ \E v \in [Options -> Values], n \in [Params -> Notifs] :
          /\ conf = [i \in Item |-> IF i[1] = "value" THEN v[i[2]] ELSE n[i[2]]]
          /\ told = [p \in Params |-> v[GetOpt[p]]]
    /\ delta = NoDelta /\ cmds = <<>> /\ fault = FALSE
    /\ base = [p \in Params |-> None] /\ pending = [p \in Params |-> None]
    /\ mode = "down" /\ req = NoReq /\ changed = FALSE /\ reload = FALSE
    /\ swallowed = {} /\ refused = {} /\ orphan = FALSE
    /\ count = 0

-----------------------------------------------------------------------------
(* Value changes.                                                          *)

\* update_value_change: the baseline is written anew from the tracked
\* parameters, whatever it held.
Snapshot ==
    [p \in Params |-> IF View(Attr(p)) = "0" THEN None ELSE Seen(p)]

Swallowed(b) == swallowed \cup {p \in Params : b[p] \notin {None, Known(p)}}

\* The daemon starts: config_load ends with update_value_change.
Start ==
    /\ mode = "down"
    /\ mode' = "idle"
    /\ base' = Snapshot /\ swallowed' = Swallowed(Snapshot)
    /\ UNCHANGED <<conf, delta, cmds, fault, pending, req, changed, reload,
                   told, refused, orphan, count>>

\* ubus reload: the same config_load.
Reload ==
    /\ mode = "idle"
    /\ base' = Snapshot /\ swallowed' = Swallowed(Snapshot)
    /\ UNCHANGED <<conf, delta, cmds, fault, pending, mode, req, changed,
                   reload, told, refused, orphan, count>>

\* Mutant: a parameter that is on the list already keeps its first value.
FirstDifference(p) ==
    IF base[p] \notin {None, Seen(p)} /\ pending[p] = None THEN Seen(p)
    ELSE pending[p]

\* check_value_change hands every parameter that differs from its baseline to
\* cwmp_add_notification, which replaces the value of one on the list.
Difference(p) ==
    IF base[p] \notin {None, Seen(p)} THEN Seen(p) ELSE pending[p]

\* ubus notify: first the comparison ...
Notify ==
    /\ mode = "idle"
    /\ mode' = "checked"
    /\ pending' = [p \in Params |-> Difference(p)]
    /\ swallowed' = swallowed \ {p \in Params : pending'[p] # pending[p]}
    /\ UNCHANGED <<conf, delta, cmds, fault, base, req, changed, reload, told,
                   refused, orphan, count>>

\* ... then the new baseline, in the same script command but later; it takes
\* in parameters that were not tracked.
NotifyUpdate ==
    /\ mode = "checked"
    /\ mode' = "idle"
    /\ base' = Snapshot
    /\ swallowed' = swallowed \cup {p \in Swallowed(Snapshot) : base[p] = None}
    /\ UNCHANGED <<conf, delta, cmds, fault, pending, req, changed, reload,
                   told, refused, orphan, count>>

\* Somebody else sets and commits an option; between the halves of notify
\* nobody notices.
LocalChange(o, v) ==
    /\ count < MaxEvents /\ count' = count + 1
    /\ View(Val(o)) # v
    /\ conf' = [conf EXCEPT ![Val(o)] = v]
    /\ delta' = [delta EXCEPT ![Val(o)] = None]
    /\ refused' = refused \ {<<o, v>>}
    /\ swallowed' = IF mode = "checked"
                    THEN swallowed \cup {p \in Params : GetOpt[p] = o}
                    ELSE swallowed
    /\ UNCHANGED <<cmds, fault, base, pending, mode, req, changed, reload, told,
                   orphan>>

-----------------------------------------------------------------------------
(* A session.                                                              *)

\* The Inform carries the list and is answered; the list is cleared.  (A
\* failed Inform changes nothing here.)
SessionOpen ==
    /\ mode = "idle"
    /\ mode' = "session" /\ changed' = FALSE
    /\ told' = [p \in Params |-> Known(p)]
    /\ pending' = [p \in Params |-> None]
    /\ UNCHANGED <<conf, delta, cmds, fault, base, req, reload, swallowed,
                   refused, orphan, count>>

\* The session ends, in order or not; the configuration is loaded when one of
\* its requests asked for it.
SessionClose ==
    /\ mode \in {"session", "closing"}
    /\ mode' = "idle" /\ reload' = FALSE
    /\ base' = IF reload THEN Snapshot ELSE base
    /\ swallowed' = IF reload THEN Swallowed(Snapshot) ELSE swallowed
    /\ UNCHANGED <<conf, delta, cmds, fault, pending, req, changed, told,
                   refused, orphan, count>>

\* What a SetParameterValues sets, as far as the data model has its names.
Settings(want) == {<<SetOpt[p], want[p]>> : p \in Params \cap DOMAIN want}

\* A request arrives; every name is sent to the script in a command of its own.
Request(kind, want) ==
    /\ mode = "session"
    /\ count < MaxEvents /\ count' = count + 1
    /\ mode' = "setting"
    /\ req' = [kind |-> kind, want |-> want, todo |-> DOMAIN want]
    /\ refused' = IF kind = "value" THEN refused \ Settings(want) ELSE refused
    /\ UNCHANGED <<conf, delta, cmds, fault, base, pending, changed, reload,
                   told, swallowed, orphan>>

\* Mutant: only read-only parameters are refused.
SettableByAnyName(n) == n \notin ReadOnly

\* The data model has the parameter and a command that sets it.
Settable(n) == n \in Params \ ReadOnly

\* set_value: the command is written down, or the fault.
SetValue(n) ==
    /\ mode = "setting" /\ req.kind = "value" /\ n \in req.todo
    /\ req' = [req EXCEPT !.todo = @ \ {n}]
    /\ IF Settable(n)
       THEN cmds' = Append(cmds, <<n, req.want[n]>>) /\ UNCHANGED fault
       ELSE fault' = TRUE /\ UNCHANGED cmds
    /\ UNCHANGED <<conf, delta, base, pending, mode, changed, reload, told,
                   swallowed, refused, orphan, count>>

\* set_notification: the attribute is changed in uci at once.
SetAttribute(n) ==
    /\ mode = "setting" /\ req.kind = "attr" /\ n \in req.todo
    /\ req' = [req EXCEPT !.todo = @ \ {n}]
    /\ IF n \in Params
       THEN delta' = [delta EXCEPT ![Attr(n)] = req.want[n]] /\ UNCHANGED fault
       ELSE fault' = TRUE /\ UNCHANGED delta
    /\ UNCHANGED <<conf, cmds, base, pending, mode, changed, reload, told,
                   swallowed, refused, orphan, count>>

\* What a fault says has not been set.
Refusal ==
    IF req.kind # "value" THEN {}
    ELSE {r \in Settings(req.want) : View(Val(r[1])) # r[2]}

\* Mutant: the commands stay in their file after a fault.
KeepCommands == cmds

\* A fault is in the file: it is the answer, and both files are removed.
AfterFault == <<>>

ApplyFault ==
    /\ mode = "setting" /\ req.todo = {} /\ fault
    /\ mode' = "session" /\ req' = NoReq
    /\ fault' = FALSE /\ cmds' = AfterFault /\ orphan' = FALSE
    /\ refused' = refused \cup Refusal
    /\ UNCHANGED <<conf, delta, base, pending, changed, reload, told, swallowed,
                   count>>

\* The places of the commands that set item i, but for the failed ones.
Setters(c, failed, i) ==
    {k \in DOMAIN c \ failed : Val(SetOpt[c[k][1]]) = i}

\* The commands are evaluated in the order of the file: the last one for an
\* option counts.  A command whose uci set failed returns 0 all the same.
Evaluate(d, c, failed) ==
    [i \in Item |-> IF Setters(c, failed, i) = {} THEN d[i]
                    ELSE c[Max(Setters(c, failed, i))][2]]

\* Mutant: the revert is forgotten.
Unreverted == Evaluate(delta, cmds, {})

\* UCI_REVERT of every package with changes.
Reverted == NoDelta

\* A set command refuses its value: all uncommitted changes are reverted,
\* those of the commands before and after it and any older ones.
ApplyRevert ==
    /\ mode = "setting" /\ req.todo = {} /\ ~fault
    /\ \E i \in DOMAIN cmds : cmds[i] \in Invalid
    /\ mode' = "session" /\ req' = NoReq
    /\ delta' = Reverted /\ cmds' = <<>> /\ orphan' = FALSE
    /\ refused' = refused \cup Refusal
    /\ UNCHANGED <<conf, fault, base, pending, changed, reload, told, swallowed,
                   count>>

\* apply_value moves the baseline of the tracked parameters it has set to what
\* their get commands print; apply_notification leaves it alone.
BaseAfter(c, new) ==
    IF req.kind = "attr" THEN base
    ELSE [p \in Params |->
             IF base[p] # None /\ \E i \in DOMAIN c : c[i][1] = p
             THEN new[Val(GetOpt[p])] ELSE base[p]]

\* No set command returns a fault: everything uncommitted is committed.
ApplyCommit ==
    /\ mode = "setting" /\ req.todo = {} /\ ~fault
    /\ \A i \in DOMAIN cmds : cmds[i] \notin Invalid
    /\ \E failed \in SUBSET DOMAIN cmds :
       LET all == Evaluate(delta, cmds, failed)
           new == [i \in Item |-> IF all[i] # None THEN all[i] ELSE conf[i]]
           own == \/ \E p \in Params : all[Attr(p)] # None
                  \/ \E o \in Own : all[Val(o)] # None
           b == BaseAfter(cmds, new)
       IN  /\ conf' = new /\ delta' = NoDelta
           /\ base' = b
           /\ swallowed' = swallowed \cup
                 {p \in Params : b[p] # base[p] /\ p \notin DOMAIN req.want}
           /\ changed' = (changed \/ own)
           /\ reload' = (reload \/ changed \/ own)
    /\ cmds' = <<>> /\ orphan' = FALSE
    /\ mode' = "answer"
    /\ UNCHANGED <<fault, pending, req, told, refused, count>>

\* The response reaches the ACS, which takes its values for set; the baseline
\* may have another one ...
Answer ==
    /\ mode = "answer"
    /\ mode' = "session" /\ req' = NoReq
    /\ told' = [p \in Params |->
                   IF req.kind = "value" /\ p \in DOMAIN req.want
                   THEN req.want[p] ELSE told[p]]
    /\ swallowed' = IF req.kind # "value" THEN swallowed
                    ELSE (swallowed \ DOMAIN req.want) \cup
                         {p \in Params \cap DOMAIN req.want :
                             base[p] \notin {None, req.want[p]}}
    /\ UNCHANGED <<conf, delta, cmds, fault, base, pending, changed, reload,
                   refused, orphan, count>>

\* What the ACS does not learn when the response to the request is lost.
Unheard ==
    IF mode = "answer" /\ req.kind = "value" THEN Params \cap DOMAIN req.want
    ELSE {}

\* ... or is lost, which ends the session.
AnswerLost ==
    /\ mode = "answer"
    /\ mode' = "closing" /\ req' = NoReq
    /\ swallowed' = swallowed \cup Unheard
    /\ UNCHANGED <<conf, delta, cmds, fault, base, pending, changed, reload,
                   told, refused, orphan, count>>

-----------------------------------------------------------------------------
\* The daemon dies.  The files in /tmp and the uncommitted changes stay; the
\* script carries out what it has been sent and ends.
Crash ==
    /\ mode # "down"
    /\ count < MaxEvents /\ count' = count + 1
    /\ mode' = "down" /\ req' = NoReq /\ changed' = FALSE /\ reload' = FALSE
    /\ pending' = [p \in Params |-> None]
    /\ swallowed' = swallowed \cup Unheard
                      \cup {p \in Params : pending[p] # None}
    /\ orphan' = (orphan \/ mode = "setting")
    /\ UNCHANGED <<conf, delta, cmds, fault, base, told, refused>>

\* The router reboots: /tmp is empty.
Reboot ==
    /\ count < MaxEvents /\ count' = count + 1
    /\ mode' = "down" /\ req' = NoReq /\ changed' = FALSE /\ reload' = FALSE
    /\ delta' = NoDelta /\ cmds' = <<>> /\ fault' = FALSE /\ orphan' = FALSE
    /\ base' = [p \in Params |-> None] /\ pending' = [p \in Params |-> None]
    /\ swallowed' = swallowed \cup Unheard
                      \cup {p \in Params : pending[p] # None}
    /\ UNCHANGED <<conf, told, refused>>

Next ==
    \/ Start \/ Reload \/ Notify \/ NotifyUpdate
    \/ \E o \in Options, v \in Values : LocalChange(o, v)
    \/ SessionOpen \/ SessionClose
    \/ \E want \in Wants(Values) : Request("value", want)
    \/ \E want \in Wants(Notifs) : Request("attr", want)
    \/ \E n \in Names : SetValue(n) \/ SetAttribute(n)
    \/ ApplyFault \/ ApplyRevert \/ ApplyCommit
    \/ Answer \/ AnswerLost
    \/ Crash \/ Reboot

Spec == Init /\ [][Next]_vars

-----------------------------------------------------------------------------
(* Properties.                                                             *)

\* No change is lost: where the baseline has caught up with the value of a
\* tracked parameter, so that the next notify will find nothing, the ACS has
\* been told that value, is about to be, or has set it - unless the baseline
\* was moved past the change by a reload, a start, a change between the two
\* halves of notify, a crash that took the list or an answer with it, or by a
\* request that was answered with success and whose set command failed, was
\* undone by another one for the same option, or has a get command that reads
\* something else.
NoChangeLost ==
    mode # "checked" =>
        \A p \in Params \ swallowed :
            base[p] = Seen(p) => Known(p) = Seen(p) \/ p \in Unheard

\* A value the ACS was refused is not set, neither at once nor by a later
\* request: no command or uncommitted change of a SetParameterValues survives
\* its fault.
RefusedNotApplied == \A r \in refused : View(Val(r[1])) # r[2]

\* Between requests nothing is left for the next one to apply, except what a
\* daemon that died left, and attributes of a SetParameterAttributes that was
\* answered with a fault.
NothingLeftOver ==
    mode # "setting" /\ ~orphan =>
        cmds = <<>> /\ ~fault /\ \A o \in Options : delta[Val(o)] = None

====
