----------------------------- MODULE CwmpAgent ------------------------------
(***************************************************************************)
(* The easycwmp daemon: sessions with the ACS, the event list, downloads   *)
(* and their TransferComplete reports, the backup file, retries, and       *)
(* crashes between any two writes of the backup file.                      *)
(*                                                                         *)
(* The daemon is one uloop thread.  A handler runs to its end before the   *)
(* next one starts (pc = "idle" between handlers); it is cut into a step   *)
(* per exchange with the ACS and per rewrite of the backup file, because   *)
(* those are the points where the outside world, or a power cut, can make  *)
(* a difference.  The file and the in-memory XML tree are equal after each *)
(* rewrite, so the f-variables stand for both.                             *)
(***************************************************************************)
EXTENDS CwmpEvents, Sequences

CONSTANTS
    Downloads,      \* download requests of the ACS, each sent at most once
    Keys,           \* command keys of ScheduleInform and Reboot, each used once
    Urls,           \* values of the ACS URL in the configuration
    None,
    RequestCodes,   \* events asked for by a connection request or over ubus
    MAX_DOWNLOAD,   \* cwmp.h
    MaxRetry,       \* bound: consecutive sessions that may fail
    MaxExit         \* bound: crashes, stops and factory resets

ASSUME BoundsAssumption ==
    /\ MAX_DOWNLOAD \in Nat \ {0}
    /\ MaxRetry \in Nat
    /\ MaxExit \in Nat

ASSUME NamesAssumption ==
    /\ None \notin Downloads \cup Keys \cup Urls
    /\ NoKey \notin Downloads \cup Keys
    /\ Downloads \cap Keys = {}
    /\ RequestCodes \subseteq EventCode \ (Multiple \cup AfterTransferComplete)
    /\ IsFiniteSet(Downloads)

VARIABLES
    pc,                 \* what the daemon is doing
    ret,                \* where config_load returns to
    \* volatile state of the daemon
    events,             \* cwmp->events
    downloads,          \* cwmp->downloads
    stuck,              \* the downloads whose timer has fired to no effect
    download_count,
    scheduled,          \* cwmp->scheduled_informs
    inform,             \* inform_timer is armed
    retry,              \* inform_timer_retry is armed
    retry_count,
    get_rpc_methods,
    hold_requests,
    end_session,
    method_id,          \* last id given to a transfer
    cur,                \* the download or key the running handler is about
    mid,                \* method_id of the TransferComplete being answered
    \* persistent state
    fUrl,               \* acs_url of the backup file, None: no readable file
    fEvents, fDownloads, fTcs,
    conf,               \* acs.url of the uci configuration
    \* history
    fate,               \* how far each download got
    reported,           \* what the ACS was last told about each download
    lost,               \* downloads dropped by a new ACS, a reset, an upgrade or a crash
    unsure,             \* downloads a crash interrupted after recording them
    owed,               \* is the ACS of fUrl owed a "0 BOOTSTRAP"?
    told,               \* events of the Inform accepted in this session
    used,               \* keys used so far
    exits

listVars    == <<events, fEvents>>
queueVars   == <<downloads, stuck, download_count, fDownloads>>
timerVars   == <<inform, retry>>
sessionVars == <<retry_count, get_rpc_methods, hold_requests, end_session>>
localVars   == <<cur, mid>>
confVars    == <<fUrl, conf>>
boundVars   == <<used, exits>>
transferHist == <<fate, reported, lost, unsure>>
history     == <<transferHist, owed, told>>

vars == <<pc, ret, listVars, queueVars, scheduled, timerVars, sessionVars,
          method_id, localVars, fTcs, confVars, history, boundVars>>

PC == {"down", "config", "bootstrap", "boot", "start_rpc", "idle", "inform",
       "informed", "requests", "tc_answered", "tc_events", "tc_last",
       "messages", "end", "ok_done", "err_done", "scheduled", "launch",
       "dl_remove", "dl_record", "dl_event", "dl_key", "dl_apply",
       "dl_fault", "dl_time"}

Returns == {"boot", "idle", "ok_done", "err_done"}

Key == Downloads \cup Keys \cup {NoKey}

Event == [code : EventCode, key : Key, mid : Nat, node : Nat]

Transfer == [d : Downloads, mid : Nat, fault : {"ok", "fail"}, time : BOOLEAN]

\* The downloads that have a TransferComplete in the backup file.
Recorded(tcs) == {tcs[i].d : i \in DOMAIN tcs}

TypeOK ==
    /\ pc \in PC
    /\ ret \in Returns
    /\ events \subseteq Event
    /\ fEvents \subseteq Event
    /\ downloads \subseteq Downloads
    /\ stuck \subseteq Downloads
    /\ fDownloads \subseteq Downloads
    /\ download_count \in Nat
    /\ scheduled \subseteq Keys
    /\ inform \in BOOLEAN
    /\ retry \in BOOLEAN
    /\ retry_count \in Nat
    /\ get_rpc_methods \in BOOLEAN
    /\ hold_requests \in BOOLEAN
    /\ end_session \subseteq {"FACTORY_RESET", "REBOOT", "RELOAD_CONFIG"}
    /\ method_id \in Nat
    /\ cur \in Downloads \cup Keys \cup {None}
    /\ mid \in Nat
    /\ fTcs \in Seq(Transfer)
    /\ fUrl \in Urls \cup {None}
    /\ conf \in Urls
    /\ fate \in [Downloads -> {"none", "asked", "fetched", "applied", "failed"}]
    /\ reported \in [Downloads -> {"none", "ok", "fail"}]
    /\ lost \subseteq Downloads
    /\ unsure \subseteq Downloads
    /\ owed \in {"no", "yes", "lost"}
    /\ told \subseteq Event
    /\ used \subseteq Keys
    /\ exits \in Nat

Init ==
    /\ pc = "down" /\ ret = "boot"
    /\ events = {} /\ fEvents = {}
    /\ downloads = {} /\ stuck = {} /\ fDownloads = {} /\ download_count = 0
    /\ scheduled = {}
    /\ inform = FALSE /\ retry = FALSE
    /\ retry_count = 0 /\ get_rpc_methods = FALSE /\ hold_requests = FALSE
    /\ end_session = {} /\ method_id = 0
    /\ cur = None /\ mid = 0
    /\ fTcs = << >>
    /\ fUrl = None /\ conf \in Urls
    /\ fate = [d \in Downloads |-> "none"]
    /\ reported = [d \in Downloads |-> "none"]
    /\ lost = {} /\ unsure = {}
    /\ owed = "no" /\ told = {}
    /\ used = {} /\ exits = 0

-----------------------------------------------------------------------------
(* Operations on the event list shared by the handlers.                    *)

\* Mutant: the event is not written to the file.
AddEventUnsaved(code, key, id) ==
    /\ events' = IF Refused(events, code) THEN events
                 ELSE events \cup {NewEvent(code, key, id, 0)}
    /\ UNCHANGED fEvents

\* cwmp_add_event(code, key, id, EVENT_BACKUP), with its backup_add_event.
AddEventBackup(code, key, id) ==
    IF Refused(events, code)
    THEN UNCHANGED listVars
    ELSE LET e == NewEvent(code, key, id,
                           FreshNode(NodesOf(events) \cup NodesOf(fEvents)))
         IN  /\ events' = events \cup {e}
             /\ fEvents' = fEvents \cup {e}

\* cwmp_add_event(code, NULL, 0, EVENT_NO_BACKUP).
AddEventNoBackup(code) ==
    /\ events' = IF Refused(events, code) THEN events
                 ELSE events \cup {NewEvent(code, NoKey, 0, 0)}
    /\ UNCHANGED fEvents

\* Mutant: backup_remove_event is left out.
RemoveEventInMemory(policy, id) ==
    /\ events' = events \ Removable(events, policy, id)
    /\ UNCHANGED fEvents

\* cwmp_remove_event(policy, id), with its backup_remove_event.
RemoveEvent(policy, id) ==
    LET gone == Removable(events, policy, id)
    IN  /\ events' = events \ gone
        /\ fEvents' = Unlink(fEvents, gone)

\* The process is gone, and its memory with it.
Exit ==
    /\ pc' = "down" /\ ret' = "boot"
    /\ events' = {} /\ downloads' = {} /\ stuck' = {} /\ download_count' = 0
    /\ scheduled' = {}
    /\ inform' = FALSE /\ retry' = FALSE
    /\ retry_count' = 0 /\ get_rpc_methods' = FALSE /\ hold_requests' = FALSE
    /\ end_session' = {} /\ method_id' = 0
    /\ cur' = None /\ mid' = 0
    /\ told' = {}

\* The downloads whose only trace is in the backup file or in this process.
Unreported ==
    fDownloads \cup Recorded(fTcs)
        \cup (IF pc = "dl_record" THEN {cur} \cap Downloads ELSE {})

\* The backup file no longer holds anything.
WipeFile ==
    /\ fEvents' = {} /\ fDownloads' = {} /\ fTcs' = << >>
    /\ lost' = lost \cup Unreported

-----------------------------------------------------------------------------
(* Start of the daemon: main() with --boot --getrpcmethod.                 *)

\* Mutant: only the oldest report is given a time.
FirstCompleteTime(tcs) ==
    IF tcs = << >> THEN tcs ELSE [tcs EXCEPT ![1].time = TRUE]

\* backup_update_all_complete_time_transfer_complete.
AllCompleteTimes(tcs) ==
    [i \in DOMAIN tcs |-> [tcs[i] EXCEPT !.time = TRUE]]

\* backup_init: reload downloads and events, give every TransferComplete a
\* completion time.
Start ==
    /\ pc = "down"
    /\ events' = LoadedEvents(fEvents)
    /\ inform' = (fEvents # {})
    /\ downloads' = fDownloads
    /\ download_count' = Cardinality(fDownloads)
    /\ fTcs' = AllCompleteTimes(fTcs)
    /\ pc' = "config" /\ ret' = "boot"
    /\ UNCHANGED <<fEvents, fDownloads, stuck, scheduled, retry, sessionVars,
                   method_id, localVars, confVars, history, boundVars>>

\* config_load when backup_check_acs_url finds the URL it knows.
SameAcs ==
    /\ pc = "config" /\ fUrl = conf
    /\ pc' = ret
    /\ UNCHANGED <<ret, listVars, queueVars, scheduled, timerVars, sessionVars,
                   method_id, localVars, fTcs, confVars, history, boundVars>>

\* config_load with a new URL: backup_add_acsurl up to its first save.
NewAcs ==
    /\ pc = "config" /\ fUrl # conf
    \* cwmp_clean
    /\ events' = {} /\ downloads' = {} /\ stuck' = {} /\ download_count' = 0
    /\ scheduled' = {}
    /\ end_session' = {} /\ retry_count' = 0
    /\ hold_requests' = FALSE /\ get_rpc_methods' = FALSE
    \* backup_tree_init
    /\ WipeFile
    /\ fUrl' = conf
    /\ owed' = "yes"
    /\ pc' = "bootstrap"
    /\ UNCHANGED <<ret, timerVars, method_id, localVars, conf, fate, reported,
                   unsure, told, boundVars>>

\* The rest of backup_add_acsurl.
AddBootstrap ==
    /\ pc = "bootstrap"
    /\ AddEventBackup("BOOTSTRAP", NoKey, 0)
    /\ inform' = TRUE
    /\ pc' = ret
    /\ UNCHANGED <<ret, queueVars, scheduled, retry, sessionVars, method_id,
                   localVars, fTcs, confVars, history, boundVars>>

AddBoot ==
    /\ pc = "boot"
    /\ AddEventBackup("BOOT", NoKey, 0)
    /\ inform' = TRUE
    /\ pc' = "start_rpc"
    /\ UNCHANGED <<ret, queueVars, scheduled, retry, sessionVars, method_id,
                   localVars, fTcs, confVars, history, boundVars>>

StartGetRpcMethods ==
    /\ pc = "start_rpc"
    /\ get_rpc_methods' = TRUE
    /\ AddEventBackup("PERIODIC", NoKey, 0)
    /\ inform' = TRUE
    /\ pc' = "idle"
    /\ UNCHANGED <<ret, queueVars, scheduled, retry, retry_count,
                   hold_requests, end_session, method_id, localVars, fTcs,
                   confVars, history, boundVars>>

-----------------------------------------------------------------------------
(* Timers and requests, handled between sessions.                          *)

\* cwmp_do_inform: either timer starts a session and cancels the retry.
StartSession ==
    /\ pc = "idle"
    /\ \/ inform /\ inform' = FALSE
       \/ retry /\ UNCHANGED inform
    /\ retry' = FALSE
    /\ pc' = "inform"
    /\ UNCHANGED <<ret, listVars, queueVars, scheduled, sessionVars, method_id,
                   localVars, fTcs, confVars, history, boundVars>>

PeriodicInform ==
    /\ pc = "idle"
    /\ AddEventBackup("PERIODIC", NoKey, 0)
    /\ inform' = TRUE
    /\ UNCHANGED <<pc, ret, queueVars, scheduled, retry, sessionVars, method_id,
                   localVars, fTcs, confVars, history, boundVars>>

\* cwmp_connection_request, from the HTTP server or from ubus "inform".
ConnectionRequest(code) ==
    /\ pc = "idle"
    /\ AddEventNoBackup(code)
    /\ inform' = TRUE
    /\ UNCHANGED <<pc, ret, queueVars, scheduled, retry, sessionVars, method_id,
                   localVars, fTcs, confVars, history, boundVars>>

\* cwmp_add_notification for a changed parameter: only an active
\* notification starts a session.  easycwmp_netlink_interface does what an
\* active one does when the interface has got another address.
Notify(active) ==
    /\ pc = "idle"
    /\ AddEventNoBackup("VALUE_CHANGE")
    /\ inform' = (inform \/ active)
    /\ UNCHANGED <<pc, ret, queueVars, scheduled, retry, sessionVars, method_id,
                   localVars, fTcs, confVars, history, boundVars>>

\* cwmp_scheduled_inform, in two saves.
ScheduledInform(k) ==
    /\ pc = "idle" /\ k \in scheduled
    /\ AddEventBackup("SCHEDULED", NoKey, 0)
    /\ cur' = k
    /\ pc' = "scheduled"
    /\ UNCHANGED <<ret, queueVars, scheduled, timerVars, sessionVars, method_id,
                   mid, fTcs, confVars, history, boundVars>>

AddScheduleKey ==
    /\ pc = "scheduled"
    /\ AddEventBackup("M_SCHEDULEINFORM", cur, 0)
    /\ inform' = TRUE
    /\ scheduled' = scheduled \ {cur}
    /\ cur' = None
    /\ pc' = "idle"
    /\ UNCHANGED <<ret, queueVars, retry, sessionVars, method_id, mid, fTcs,
                   confVars, history, boundVars>>

\* easycwmp_do_reload.
Reload ==
    /\ pc = "idle"
    /\ pc' = "config" /\ ret' = "idle"
    /\ UNCHANGED <<listVars, queueVars, scheduled, timerVars, sessionVars,
                   method_id, localVars, fTcs, confVars, history, boundVars>>

\* The administrator edits the uci configuration, at any time.
Configure(u) ==
    /\ u # conf
    /\ conf' = u
    /\ UNCHANGED <<pc, ret, listVars, queueVars, scheduled, timerVars,
                   sessionVars, method_id, localVars, fTcs, fUrl, history,
                   boundVars>>

-----------------------------------------------------------------------------
(* A session: cwmp_inform.                                                 *)

\* The error exit of cwmp_inform; no more than MaxRetry sessions in a row.
Fail ==
    /\ retry_count < MaxRetry
    /\ pc' = "end" /\ ret' = "err_done"

\* rpc_inform, or the fork of external_init, fails (CwmpChildren has what
\* happens when a session cannot even get there).  A malformed answer may
\* still have set hold_requests.
InformFails ==
    /\ pc = "inform"
    /\ Fail
    /\ hold_requests' \in BOOLEAN
    /\ UNCHANGED <<listVars, queueVars, scheduled, timerVars, retry_count,
                   get_rpc_methods, end_session, method_id, localVars, fTcs,
                   confVars, history, boundVars>>

InformAccepted ==
    /\ pc = "inform"
    /\ hold_requests' \in BOOLEAN
    /\ told' = events
    /\ owed' = IF Present(events, "BOOTSTRAP") THEN "no" ELSE owed
    /\ pc' = "informed"
    /\ UNCHANGED <<ret, listVars, queueVars, scheduled, timerVars, retry_count,
                   get_rpc_methods, end_session, method_id, localVars, fTcs,
                   confVars, transferHist, boundVars>>

RemoveInformed ==
    /\ pc = "informed"
    /\ RemoveEvent("AFTER_INFORM", 0)
    /\ pc' = "requests"
    /\ UNCHANGED <<ret, queueVars, scheduled, timerVars, sessionVars, method_id,
                   localVars, fTcs, confVars, history, boundVars>>

\* rpc_transfer_complete succeeds for the first report of the file.
TransferCompleteAnswered ==
    /\ pc = "requests" /\ fTcs # << >> /\ ~hold_requests
    /\ reported' = [reported EXCEPT ![fTcs[1].d] = fTcs[1].fault]
    /\ mid' = fTcs[1].mid
    /\ hold_requests' \in BOOLEAN
    /\ pc' = "tc_answered"
    /\ UNCHANGED <<ret, listVars, queueVars, scheduled, timerVars, retry_count,
                   get_rpc_methods, end_session, method_id, cur, fTcs,
                   confVars, fate, lost, unsure, owed, told, boundVars>>

\* It fails; the ACS may have received the report all the same.
TransferCompleteFails ==
    /\ pc = "requests" /\ fTcs # << >> /\ ~hold_requests
    /\ Fail
    /\ \/ reported' = [reported EXCEPT ![fTcs[1].d] = fTcs[1].fault]
       \/ UNCHANGED reported
    /\ UNCHANGED <<listVars, queueVars, scheduled, timerVars, sessionVars,
                   method_id, localVars, fTcs, confVars, fate, lost, unsure,
                   owed, told, boundVars>>

\* Mutant: the newest report is deleted instead.
DropNewestReport(tcs) == SubSeq(tcs, 1, Len(tcs) - 1)

\* backup_remove_transfer_complete of the report just answered, the first.
DropReport(tcs) == Tail(tcs)

RemoveTransferComplete ==
    /\ pc = "tc_answered"
    /\ fTcs' = DropReport(fTcs)
    /\ pc' = "tc_events"
    /\ UNCHANGED <<ret, listVars, queueVars, scheduled, timerVars, sessionVars,
                   method_id, localVars, confVars, history, boundVars>>

RemoveTransferEvents ==
    /\ pc = "tc_events"
    /\ RemoveEvent("AFTER_TRANSFER_COMPLETE", mid)
    /\ pc' = IF fTcs = << >> THEN "tc_last" ELSE "requests"
    /\ UNCHANGED <<ret, queueVars, scheduled, timerVars, sessionVars, method_id,
                   localVars, fTcs, confVars, history, boundVars>>

RemoveLastTransferEvents ==
    /\ pc = "tc_last"
    /\ RemoveEvent("AFTER_TRANSFER_COMPLETE", 0)
    /\ pc' = "requests"
    /\ UNCHANGED <<ret, queueVars, scheduled, timerVars, sessionVars, method_id,
                   localVars, fTcs, confVars, history, boundVars>>

GetRpcMethodsAnswered ==
    /\ pc = "requests" /\ fTcs = << >> /\ get_rpc_methods /\ ~hold_requests
    /\ get_rpc_methods' = FALSE
    /\ hold_requests' \in BOOLEAN
    /\ pc' = "messages"
    /\ UNCHANGED <<ret, listVars, queueVars, scheduled, timerVars, retry_count,
                   end_session, method_id, localVars, fTcs, confVars, history,
                   boundVars>>

GetRpcMethodsFails ==
    /\ pc = "requests" /\ fTcs = << >> /\ get_rpc_methods /\ ~hold_requests
    /\ Fail
    /\ UNCHANGED <<listVars, queueVars, scheduled, timerVars, sessionVars,
                   method_id, localVars, fTcs, confVars, history, boundVars>>

\* Nothing to ask for, or the ACS holds the requests of the CPE.
NoRequest ==
    /\ pc = "requests"
    /\ hold_requests \/ (fTcs = << >> /\ ~get_rpc_methods)
    /\ pc' = "messages"
    /\ UNCHANGED <<ret, listVars, queueVars, scheduled, timerVars, sessionVars,
                   method_id, localVars, fTcs, confVars, history, boundVars>>

\* Mutant: the loop looks at the reports only.
MoreReports == fTcs # << >>

\* The condition of the loop of cwmp_inform.
MoreRequests == get_rpc_methods \/ fTcs # << >>

\* cwmp_handle_messages returns on the empty message: another round or the
\* end of a successful session.
EmptyMessage ==
    /\ pc = "messages"
    /\ hold_requests' = FALSE
    /\ IF MoreRequests
       THEN pc' = "requests" /\ UNCHANGED ret
       ELSE pc' = "end" /\ ret' = "ok_done"
    /\ UNCHANGED <<listVars, queueVars, scheduled, timerVars, retry_count,
                   get_rpc_methods, end_session, method_id, localVars, fTcs,
                   confVars, history, boundVars>>

MessagesFail ==
    /\ pc = "messages"
    /\ Fail
    /\ UNCHANGED <<listVars, queueVars, scheduled, timerVars, sessionVars,
                   method_id, localVars, fTcs, confVars, history, boundVars>>

\* Mutant: one download too many.
SlotFreeOffByOne == download_count <= MAX_DOWNLOAD

\* The limit xml_handle_download puts on the queue.
SlotFree == download_count < MAX_DOWNLOAD

\* Mutant: download_count is not incremented.
AddDownloadUncounted(d) ==
    /\ fDownloads' = fDownloads \cup {d}
    /\ downloads' = downloads \cup {d}
    /\ UNCHANGED download_count

\* Mutant: the request is not written to the file.
AddDownloadUnsaved(d) ==
    /\ downloads' = downloads \cup {d}
    /\ download_count' = download_count + 1
    /\ UNCHANGED fDownloads

\* backup_add_download and cwmp_add_download.
AddDownload(d) ==
    /\ fDownloads' = fDownloads \cup {d}
    /\ downloads' = downloads \cup {d}
    /\ download_count' = download_count + 1

\* xml_handle_download accepts the request; above MAX_DOWNLOAD it answers a
\* fault and changes nothing.
HandleDownload(d) ==
    /\ pc = "messages"
    /\ fate[d] = "none"
    /\ SlotFree
    /\ AddDownload(d)
    /\ fate' = [fate EXCEPT ![d] = "asked"]
    /\ UNCHANGED <<pc, ret, listVars, stuck, scheduled, timerVars, sessionVars,
                   method_id, localVars, fTcs, confVars, reported, lost,
                   unsure, owed, told, boundVars>>

HandleScheduleInform(k) ==
    /\ pc = "messages"
    /\ k \notin used
    /\ used' = used \cup {k}
    /\ scheduled' = scheduled \cup {k}
    /\ UNCHANGED <<pc, ret, listVars, queueVars, timerVars, sessionVars,
                   method_id, localVars, fTcs, confVars, history, exits>>

\* xml_handle_reboot writes its event to the backup file only.  Without a
\* CommandKey the code tests an uninitialised pointer: a fault (no change), a
\* crash, or this step with a key the ACS never sent.
HandleReboot(k) ==
    /\ pc = "messages"
    /\ k \notin used
    /\ used' = used \cup {k}
    /\ LET n == FreshNode(NodesOf(events) \cup NodesOf(fEvents))
       IN  fEvents' = fEvents \cup {NewEvent("M_REBOOT", k, 0, n)}
    /\ end_session' = end_session \cup {"REBOOT"}
    /\ UNCHANGED <<pc, ret, events, queueVars, scheduled, timerVars,
                   retry_count, get_rpc_methods, hold_requests, method_id,
                   localVars, fTcs, confVars, history, exits>>

HandleFactoryReset ==
    /\ pc = "messages"
    /\ exits < MaxExit
    /\ exits' = exits + 1
    /\ end_session' = end_session \cup {"FACTORY_RESET"}
    /\ UNCHANGED <<pc, ret, listVars, queueVars, scheduled, timerVars,
                   retry_count, get_rpc_methods, hold_requests, method_id,
                   localVars, fTcs, confVars, history, used>>

\* xml_handle_set_parameter_values: the script commits the new values, the
\* ACS URL perhaps among them, and the daemon reloads at the end.
HandleSetParameterValues(u) ==
    /\ pc = "messages"
    /\ conf' = u
    /\ end_session' = end_session \cup {"RELOAD_CONFIG"}
    /\ UNCHANGED <<pc, ret, listVars, queueVars, scheduled, timerVars,
                   retry_count, get_rpc_methods, hold_requests, method_id,
                   localVars, fTcs, fUrl, history, boundVars>>

-----------------------------------------------------------------------------
(* The end of a session: cwmp_handle_end_session, on success and on error. *)

EndFactoryReset ==
    /\ pc = "end" /\ "FACTORY_RESET" \in end_session
    /\ WipeFile
    /\ fUrl' = None /\ conf' \in Urls
    /\ Exit
    /\ UNCHANGED <<fate, reported, unsure, owed, boundVars>>

EndReboot ==
    /\ pc = "end" /\ "REBOOT" \in end_session
    /\ "FACTORY_RESET" \notin end_session
    /\ Exit
    /\ UNCHANGED <<fEvents, fDownloads, fTcs, confVars, transferHist, owed,
                   boundVars>>

EndSession ==
    /\ pc = "end"
    /\ end_session \cap {"FACTORY_RESET", "REBOOT"} = {}
    /\ end_session' = {}
    /\ told' = {} /\ mid' = 0
    /\ pc' = IF "RELOAD_CONFIG" \in end_session THEN "config" ELSE ret
    /\ UNCHANGED <<ret, listVars, queueVars, scheduled, timerVars, retry_count,
                   get_rpc_methods, hold_requests, method_id, cur, fTcs,
                   confVars, transferHist, owed, boundVars>>

SessionDone ==
    /\ pc = "ok_done"
    /\ retry_count' = 0
    /\ pc' = "idle"
    /\ UNCHANGED <<ret, listVars, queueVars, scheduled, timerVars,
                   get_rpc_methods, hold_requests, end_session, method_id,
                   localVars, fTcs, confVars, history, boundVars>>

\* Mutant: no retry when the Inform got through and left no event.
RetryForEvents ==
    \E e \in events : "NO_RETRY" \notin RemovePolicy(e.code)

\* Mutant: no retry as soon as there is an event.
RetryWithoutEvents == events = {}

\* cwmp_retry_session asks for no retry only if every event is of the
\* NO_RETRY kind, and there is one.
RetryWanted ==
    events = {} \/ \E e \in events : "NO_RETRY" \notin RemovePolicy(e.code)

RetrySession ==
    /\ pc = "err_done"
    /\ RemoveEvent("NO_RETRY", 0)
    /\ IF ~RetryWanted /\ retry_count = 0
       THEN UNCHANGED <<retry_count, retry>>
       ELSE retry_count' = retry_count + 1 /\ retry' = TRUE
    /\ pc' = "idle"
    /\ UNCHANGED <<ret, queueVars, scheduled, inform, get_rpc_methods,
                   hold_requests, end_session, method_id, localVars, fTcs,
                   confVars, history, boundVars>>

-----------------------------------------------------------------------------
(* A download: cwmp_download_launch.                                       *)

FireDownload(d) ==
    /\ pc = "idle" /\ d \in downloads \ stuck
    /\ cur' = d
    /\ pc' = "launch"
    /\ UNCHANGED <<ret, listVars, queueVars, scheduled, timerVars, sessionVars,
                   method_id, mid, fTcs, confVars, history, boundVars>>

\* external_init fails: the handler returns and no timer is left.
LaunchFails ==
    /\ pc = "launch"
    /\ stuck' = stuck \cup {cur}
    /\ cur' = None
    /\ pc' = "idle"
    /\ UNCHANGED <<ret, listVars, downloads, download_count, fDownloads,
                   scheduled, timerVars, sessionVars, method_id, mid, fTcs,
                   confVars, history, boundVars>>

\* The script fetches the file, or reports a fault.
Fetch ==
    /\ pc = "launch"
    /\ \E r \in {"fetched", "failed"} : fate' = [fate EXCEPT ![cur] = r]
    /\ pc' = "dl_remove"
    /\ UNCHANGED <<ret, listVars, queueVars, scheduled, timerVars, sessionVars,
                   method_id, localVars, fTcs, confVars, reported, lost,
                   unsure, owed, told, boundVars>>

RemoveDownload ==
    /\ pc = "dl_remove"
    /\ fDownloads' = fDownloads \ {cur}
    /\ downloads' = downloads \ {cur}
    /\ download_count' = download_count - 1
    /\ pc' = "dl_record"
    /\ UNCHANGED <<ret, listVars, stuck, scheduled, timerVars, sessionVars,
                   method_id, localVars, fTcs, confVars, history, boundVars>>

\* backup_add_transfer_complete, with FAULT_0 and no completion time.
RecordTransfer ==
    /\ pc = "dl_record"
    /\ method_id' = method_id + 1
    /\ fTcs' = Append(fTcs, [d |-> cur, mid |-> method_id + 1,
                             fault |-> "ok", time |-> FALSE])
    /\ pc' = "dl_event"
    /\ UNCHANGED <<ret, listVars, queueVars, scheduled, timerVars, sessionVars,
                   localVars, confVars, history, boundVars>>

AddTransferEvent ==
    /\ pc = "dl_event"
    /\ AddEventBackup("TRANSFER_COMPLETE", NoKey, 0)
    /\ pc' = "dl_key"
    /\ UNCHANGED <<ret, queueVars, scheduled, timerVars, sessionVars, method_id,
                   localVars, fTcs, confVars, history, boundVars>>

AddDownloadEvent ==
    /\ pc = "dl_key"
    /\ AddEventBackup("M_DOWNLOAD", cur, method_id)
    /\ pc' = "dl_apply"
    /\ UNCHANGED <<ret, queueVars, scheduled, timerVars, sessionVars, method_id,
                   localVars, fTcs, confVars, history, boundVars>>

\* A failed download, or a failed "apply download", goes to end_fault.
ApplyFails ==
    /\ pc = "dl_apply"
    /\ fate' = [fate EXCEPT ![cur] = "failed"]
    /\ pc' = "dl_fault"
    /\ UNCHANGED <<ret, listVars, queueVars, scheduled, timerVars, sessionVars,
                   method_id, localVars, fTcs, confVars, reported, lost,
                   unsure, owed, told, boundVars>>

\* A status other than '1', which the script of this repository never gives.
Applied ==
    /\ pc = "dl_apply" /\ fate[cur] = "fetched"
    /\ fate' = [fate EXCEPT ![cur] = "applied"]
    /\ pc' = "dl_time"
    /\ UNCHANGED <<ret, listVars, queueVars, scheduled, timerVars, sessionVars,
                   method_id, localVars, fTcs, confVars, reported, lost,
                   unsure, owed, told, boundVars>>

\* "3 Vendor Configuration File": sysupgrade -r unpacks the archive over the
\* root, which may bring another ACS URL, and the device reboots; status '1'.
AppliedConfiguration ==
    /\ pc = "dl_apply" /\ fate[cur] = "fetched"
    /\ fate' = [fate EXCEPT ![cur] = "applied"]
    /\ conf' \in Urls
    /\ Exit
    /\ UNCHANGED <<fEvents, fDownloads, fTcs, fUrl, reported, lost, unsure,
                   owed, boundVars>>

\* "1 Firmware Upgrade Image": sysupgrade -n writes the image and keeps
\* nothing, neither the configuration nor the backup file.
AppliedFirmware ==
    /\ pc = "dl_apply" /\ fate[cur] = "fetched"
    /\ fate' = [fate EXCEPT ![cur] = "applied"]
    /\ WipeFile
    /\ fUrl' = None /\ conf' \in Urls
    /\ Exit
    /\ UNCHANGED <<reported, unsure, owed, boundVars>>

\* Mutant: the fault goes to the oldest report.
FaultOnOldest(tcs) == [tcs EXCEPT ![1].fault = "fail"]

\* backup_update_fault_transfer_complete on the report just added, the last.
FaultOnLast(tcs) == [tcs EXCEPT ![Len(tcs)].fault = "fail"]

RecordFault ==
    /\ pc = "dl_fault"
    /\ fTcs' = FaultOnLast(fTcs)
    /\ pc' = "dl_time"
    /\ UNCHANGED <<ret, listVars, queueVars, scheduled, timerVars, sessionVars,
                   method_id, localVars, confVars, history, boundVars>>

RecordTime ==
    /\ pc = "dl_time"
    /\ fTcs' = [fTcs EXCEPT ![Len(fTcs)].time = TRUE]
    /\ inform' = TRUE
    /\ cur' = None
    /\ pc' = "idle"
    /\ UNCHANGED <<ret, listVars, queueVars, scheduled, retry, sessionVars,
                   method_id, mid, confVars, history, boundVars>>

-----------------------------------------------------------------------------
(* Crashes, power cuts and stops; procd starts the daemon again.           *)

\* The events a removal under way deletes one save at a time.
BeingRemoved ==
    CASE pc = "informed"  -> Removable(events, "AFTER_INFORM", 0)
      [] pc = "tc_events" -> Removable(events, "AFTER_TRANSFER_COMPLETE", mid)
      [] pc = "tc_last"   -> Removable(events, "AFTER_TRANSFER_COMPLETE", 0)
      [] pc = "err_done"  -> Removable(events, "NO_RETRY", 0)
      [] OTHER            -> {}

\* The crash falls between two saves of the file.
Crash ==
    /\ pc # "down"
    /\ exits < MaxExit
    /\ exits' = exits + 1
    /\ fEvents' \in PartialUnlink(fEvents, BeingRemoved)
    /\ lost' = IF pc = "dl_record" THEN lost \cup {cur} ELSE lost
    /\ unsure' = IF pc \in {"dl_event", "dl_key", "dl_apply", "dl_fault"}
                 THEN unsure \cup {cur} ELSE unsure
    /\ owed' = IF pc = "bootstrap" THEN "lost" ELSE owed
    /\ Exit
    /\ UNCHANGED <<fDownloads, fTcs, confVars, fate, reported, used>>

\* The handler about to run, or the step that follows, rewrites the file.
Saving ==
    \/ pc = "down" /\ fUrl # None
    \/ pc = "config" /\ fUrl # conf
    \/ pc \in {"bootstrap", "tc_answered", "messages", "scheduled",
               "dl_remove", "dl_record", "dl_key", "dl_fault", "dl_time"}
    \/ pc = "boot" /\ ~Refused(events, "BOOT")
    \/ pc \in {"start_rpc", "idle"} /\ ~Refused(events, "PERIODIC")
    \/ pc = "idle" /\ scheduled # {} /\ ~Refused(events, "SCHEDULED")
    \/ pc = "dl_event" /\ ~Refused(events, "TRANSFER_COMPLETE")
    \/ BeingRemoved # {}

\* backup_save_file truncates the file and then writes it: a crash between
\* the two leaves a file mxmlLoadFile cannot read.
CrashInSave ==
    /\ Saving
    /\ exits < MaxExit
    /\ exits' = exits + 1
    /\ WipeFile
    /\ fUrl' = None
    /\ Exit
    /\ UNCHANGED <<conf, fate, reported, unsure, owed, used>>

\* ubus "command stop" ends uloop_run.
Stop ==
    /\ pc = "idle"
    /\ exits < MaxExit
    /\ exits' = exits + 1
    /\ Exit
    /\ UNCHANGED <<fEvents, fDownloads, fTcs, confVars, transferHist, owed,
                   used>>

-----------------------------------------------------------------------------
Boot == Start \/ SameAcs \/ NewAcs \/ AddBootstrap \/ AddBoot \/ StartGetRpcMethods

Idle ==
    \/ StartSession \/ PeriodicInform \/ Reload
    \/ \E c \in RequestCodes : ConnectionRequest(c)
    \/ \E a \in BOOLEAN : Notify(a)
    \/ \E k \in Keys : ScheduledInform(k)
    \/ AddScheduleKey

Session ==
    \/ InformFails \/ InformAccepted \/ RemoveInformed
    \/ TransferCompleteAnswered \/ TransferCompleteFails
    \/ RemoveTransferComplete \/ RemoveTransferEvents \/ RemoveLastTransferEvents
    \/ GetRpcMethodsAnswered \/ GetRpcMethodsFails \/ NoRequest
    \/ EmptyMessage \/ MessagesFail

Rpc ==
    \/ \E d \in Downloads : HandleDownload(d)
    \/ \E k \in Keys : HandleScheduleInform(k) \/ HandleReboot(k)
    \/ HandleFactoryReset
    \/ \E u \in Urls : HandleSetParameterValues(u)

End == EndFactoryReset \/ EndReboot \/ EndSession \/ SessionDone \/ RetrySession

Launch ==
    \/ \E d \in Downloads : FireDownload(d)
    \/ LaunchFails \/ Fetch \/ RemoveDownload \/ RecordTransfer
    \/ AddTransferEvent \/ AddDownloadEvent
    \/ ApplyFails \/ Applied \/ AppliedConfiguration \/ AppliedFirmware
    \/ RecordFault \/ RecordTime

Environment == Crash \/ CrashInSave \/ Stop \/ \E u \in Urls : Configure(u)

Next == Boot \/ Idle \/ Session \/ Rpc \/ End \/ Launch \/ Environment

Spec == Init /\ [][Next]_vars
-----------------------------------------------------------------------------
(* Properties.                                                             *)

\* Something the ACS must still hear about: a report, GetRPCMethods, or an
\* event that waits for an Inform (a passive notification may wait).
WorkPending ==
    \/ fTcs # << >>
    \/ get_rpc_methods
    \/ \E e \in Removable(events, "AFTER_INFORM", 0) : e.code # "VALUE_CHANGE"

\* No handler, failed session or restart leaves work behind without a timer
\* that will start a session for it (cwmp_add_inform_timer,
\* cwmp_retry_session).
NoStrandedWork == pc = "idle" /\ WorkPending => inform \/ retry

\* Between handlers the event list and its backup agree: an event linked to
\* an element has it in the file, and every element belongs to an event
\* (cwmp_add_event, cwmp_remove_event, backup_load_event).
BackupAgrees ==
    pc = "idle" =>
        /\ NodesOf(fEvents) = NodesOf(events) \ {0}
        /\ \A e \in events, f \in fEvents :
               e.node = f.node => e.code = f.code /\ e.key = f.key
        /\ downloads = fDownloads

\* Between handlers download_count counts the pending downloads, so that the
\* limit of xml_handle_download neither leaks slots nor lets the queue grow.
DownloadSlots ==
    pc = "idle" =>
        /\ download_count = Cardinality(downloads)
        /\ download_count <= MAX_DOWNLOAD

\* A download the device accepted stays in the backup file as a request or
\* as a report until the ACS has been told, in one place at a time.  It is
\* lost only with the whole file, to a new ACS, a factory reset, a crash in
\* backup_save_file or a firmware upgrade (which loses its own report as
\* well), or by a crash between backup_remove_download and
\* backup_add_transfer_complete.
TransferAccounted ==
    /\ \A d \in Downloads : fate[d] # "none" =>
          \/ d \in fDownloads \cup Recorded(fTcs) \cup lost
          \/ reported[d] # "none"
          \/ pc = "dl_record" /\ cur = d
    /\ fDownloads \cap Recorded(fTcs) = {}
    /\ \A i, j \in DOMAIN fTcs : fTcs[i].d = fTcs[j].d => i = j

\* The ledger entry of a download, read off the backup file.
StageOf(d) ==
    IF fate[d] = "none" THEN "none"
    ELSE IF d \in fDownloads \/ (pc = "dl_record" /\ cur = d) THEN "pending"
    ELSE IF d \in Recorded(fTcs) THEN "complete"
    ELSE IF d \in lost THEN "lost"
    ELSE IF reported[d] # "none" THEN "reported"
    ELSE "forgotten"

Ledger == INSTANCE TransferLedger WITH stage <- [d \in Downloads |-> StageOf(d)]

\* Through sessions, retries, crashes and restarts a download only moves
\* forward: no request is carried out again once its report is recorded, and
\* no report leaves the file before it is answered
\* (cwmp_download_launch, backup_remove_transfer_complete).
LedgerKept == Ledger!LedgerSpec

\* What a TransferComplete says is what happened to the download, unless a
\* crash fell between recording the report with FAULT_0 and correcting it
\* (backup_update_fault_transfer_complete).
ReportTruthful ==
    \A d \in Downloads \ unsure :
        /\ reported[d] = "ok" => fate[d] = "applied"
        /\ reported[d] = "fail" => fate[d] = "failed"

\* No TransferComplete is sent with an unknown completion time, even when
\* the daemon exited or crashed before it wrote one
\* (backup_update_all_complete_time_transfer_complete).
CompleteTimeKnown ==
    pc \in {"inform", "informed", "requests", "messages"} =>
        \A i \in DOMAIN fTcs : fTcs[i].time

\* A new ACS is owed a BOOTSTRAP event, and the debt survives restarts until
\* it has accepted an Inform that carries one (backup_add_acsurl); only a
\* crash between the two saves of backup_add_acsurl cancels it.
BootstrapOwed ==
    owed = "yes" /\ fUrl # None => pc = "bootstrap" \/ Present(fEvents, "BOOTSTRAP")

\* While the same ACS is served, an event leaves the backup file only if the
\* Inform accepted in this session carried it (cwmp_remove_event).
ForgetOnlyTold ==
    [][\A f \in fEvents : f \notin fEvents' /\ fUrl' = fUrl
                              => f.node \in NodesOf(told)]_vars

\* After an accepted Inform no event of the EVENT_REMOVE_AFTER_INFORM kind
\* is left in the list (event_code_array).
InformClears ==
    pc = "requests" =>
        \A e \in events : "AFTER_INFORM" \notin RemovePolicy(e.code)

\* An "M Download" event is removed by the answer to the TransferComplete of
\* its own transfer (event_code_array, EVENT_REMOVE_AFTER_TRANSFER_COMPLETE).
OwnReportRemoves ==
    [][pc = "tc_events" /\ pc' # "down" =>
         \A e \in events \ events' :
             e.code = "M_DOWNLOAD" => e.key \notin Recorded(fTcs)]_vars

-----------------------------------------------------------------------------
(* Fairness: uloop keeps running handlers and expired timers in order,     *)
(* procd restarts the daemon, the ACS ends its messages and answers after  *)
(* at most MaxRetry failures.                                              *)

Running ==
    \/ Boot \/ AddScheduleKey \/ End
    \/ InformAccepted \/ RemoveInformed \/ TransferCompleteAnswered
    \/ RemoveTransferComplete \/ RemoveTransferEvents \/ RemoveLastTransferEvents
    \/ GetRpcMethodsAnswered \/ NoRequest \/ EmptyMessage
    \/ Fetch \/ RemoveDownload \/ RecordTransfer \/ AddTransferEvent
    \/ AddDownloadEvent \/ ApplyFails \/ RecordFault \/ RecordTime

Fairness ==
    /\ WF_vars(Running)
    /\ SF_vars(StartSession)
    /\ \A d \in Downloads : SF_vars(FireDownload(d))

LiveSpec == Spec /\ Fairness

\* Every download the device accepted is reported in the end, unless it is
\* lost (see TransferAccounted) or its launch got stuck on external_init.
TransferReported ==
    \A d \in Downloads :
        d \in fDownloads ~> reported[d] # "none" \/ d \in lost \cup stuck

\* The GetRPCMethods request made at start is answered in the end.
GetRpcMethodsDone == get_rpc_methods ~> ~get_rpc_methods
=============================================================================
