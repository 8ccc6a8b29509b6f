-------------------------- MODULE CwmpStrandProofs --------------------------
(***************************************************************************)
(* No work is stranded: whenever the agent is between handlers and has     *)
(* something to tell the ACS, a timer will start a session for it.         *)
(*                                                                         *)
(* The retry decision of cwmp_retry_session looks at the event list only,  *)
(* while the work also includes the reports of the backup file and the     *)
(* GetRPCMethods request.  The invariant says why that is enough: as long  *)
(* as no session has failed, such work comes with an event that is worth a *)
(* retry; once one has, retry_count alone makes the agent try again.       *)
(***************************************************************************)
EXTENDS CwmpAgentProofs

\* An event that makes cwmp_retry_session try again.
Lasting == \E e \in events : "NO_RETRY" \notin RemovePolicy(e.code)

\* An event, not a passive notification, that waits for an Inform.
Untold == \E e \in Removable(events, "AFTER_INFORM", 0) : e.code # "VALUE_CHANGE"

\* config_load runs for the caller r.
Reloading(r) == pc \in {"config", "bootstrap"} /\ ret = r

\* A connection request is never backed up and has no method_id.
RequestsVolatile ==
    /\ \A e \in events : e.code = "CONNECTION_REQUEST" => e.mid = 0
    /\ \A f \in fEvents : f.code # "CONNECTION_REQUEST"

\* Between handlers, a launch that may fail and a reload included.
Armed ==
    pc \in {"idle", "launch"} \/ Reloading("idle") =>
        (WorkPending => inform \/ retry)

\* Before the first failure, reports and requests come with an event.
Accompanied ==
    /\ \/ pc \in {"idle", "inform", "launch", "dl_remove", "dl_record", "scheduled"}
       \/ Reloading("idle")
    /\ MoreRequests
    /\ retry_count = 0
    => Lasting

\* A download launched has left its event.
LaunchEvent == pc \in {"dl_key", "dl_apply", "dl_fault", "dl_time"} => Lasting

\* At the end of a failed session the decision will be to retry.
WillRetry ==
    /\ Reloading("err_done") \/ (pc \in {"end", "err_done"} /\ ret = "err_done")
    /\ MoreRequests
    /\ retry_count = 0
    => RetryWanted

\* After the Inform nothing that waited for it is left.
Informed ==
    pc \in {"requests", "tc_answered", "tc_events", "tc_last", "messages"} =>
        Removable(events, "AFTER_INFORM", 0) = {}

\* At the end of a successful session only a new ACS makes work.
Finished ==
    Reloading("ok_done") \/ (pc \in {"end", "ok_done"} /\ ret = "ok_done") =>
        ~MoreRequests /\ (Untold => inform)

StrandInv ==
    /\ RequestsVolatile
    /\ Armed
    /\ Accompanied
    /\ LaunchEvent
    /\ WillRetry
    /\ Informed
    /\ Finished

-----------------------------------------------------------------------------
(* What the operations on the event list do to these facts.                *)

\* A backed up event is worth a retry, whether it is new or was there.
LEMMA AddEventBackupLasts ==
    ASSUME RequestsVolatile, NEW code, NEW key, NEW id,
           code # "CONNECTION_REQUEST", AddEventBackup(code, key, id)
    PROVE  RequestsVolatile' /\ Lasting'
<1>1. "NO_RETRY" \notin RemovePolicy(code)
  BY DEF RemovePolicy
<1>2. CASE Refused(events, code)
  <2>1. PICK e \in events : e.code = code
    BY <1>2 DEF Refused, Present
  <2>2. events' = events /\ fEvents' = fEvents
    BY <1>2 DEF AddEventBackup, listVars
  <2> QED
    BY <1>1, <2>1, <2>2 DEF RequestsVolatile, Lasting
<1>3. CASE ~Refused(events, code)
  <2>1. PICK n : /\ events' = events \cup {NewEvent(code, key, id, n)}
                 /\ fEvents' = fEvents \cup {NewEvent(code, key, id, n)}
    BY <1>3 DEF AddEventBackup
  <2> DEFINE e == NewEvent(code, key, id, n)
  <2>2. e.code = code
    BY DEF NewEvent
  <2> HIDE DEF e
  <2>3. events' = events \cup {e} /\ fEvents' = fEvents \cup {e}
    BY <2>1 DEF e
  <2>4. Lasting'
    BY <1>1, <2>2, <2>3 DEF Lasting
  <2> QED
    BY <2>2, <2>3, <2>4 DEF RequestsVolatile
<1> QED
  BY <1>2, <1>3

\* An event that is not backed up leaves the others alone.
LEMMA AddEventNoBackupLasts ==
    ASSUME RequestsVolatile, NEW code, AddEventNoBackup(code)
    PROVE  RequestsVolatile' /\ (Lasting => Lasting')
<1>1. \/ events' = events
      \/ events' = events \cup {NewEvent(code, NoKey, 0, 0)}
  BY DEF AddEventNoBackup
<1>2. fEvents' = fEvents
  BY DEF AddEventNoBackup
<1> QED
  BY <1>1, <1>2 DEF NewEvent, RequestsVolatile, Lasting

\* Deleting events keeps what is said of all of them.
LEMMA FewerEventsVolatile ==
    ASSUME RequestsVolatile, events' \subseteq events, fEvents' \subseteq fEvents
    PROVE  RequestsVolatile'
BY DEF RequestsVolatile

\* Loading the file makes no connection request.
LEMMA LoadedEventsVolatile ==
    ASSUME RequestsVolatile, ListsOK,
           events' = LoadedEvents(fEvents), fEvents' = fEvents
    PROVE  RequestsVolatile'
<1>1. ASSUME NEW x \in LoadedEvents(fEvents)
      PROVE  x.code # "CONNECTION_REQUEST"
  <2>1. PICK e \in fEvents : x = [e EXCEPT !.mid = LoadedId(fEvents, e)]
    BY <1>1 DEF LoadedEvents
  <2>2. e \in Event
    BY DEF ListsOK
  <2>3. x.code = e.code
    BY <2>1, <2>2 DEF Event
  <2> QED
    BY <2>3 DEF RequestsVolatile
<1> QED
  BY <1>1 DEF RequestsVolatile

-----------------------------------------------------------------------------
(* Every action preserves StrandInv.                                       *)

\* main(), config_load.
LEMMA BootStrand ==
    ASSUME TypeInv, StrandInv, Boot
    PROVE  StrandInv'
<1> USE DEF listVars, queueVars, timerVars, sessionVars, localVars, confVars,
            boundVars, transferHist, history
<1> USE DEF StrandInv, Reloading
<1>1. CASE Start
  <2>1. RequestsVolatile'
    BY <1>1, LoadedEventsVolatile DEF Start, TypeInv, TypeOK, ListsOK
  <2> QED
    BY <1>1, <2>1 DEF Start, Armed, Accompanied, LaunchEvent, WillRetry,
       Informed, Finished
<1>2. CASE SameAcs
  <2>1. /\ pc = "config" /\ pc' = ret /\ ret' = ret /\ ret \in Returns
        /\ events' = events /\ fEvents' = fEvents
        /\ inform' = inform /\ retry' = retry /\ retry_count' = retry_count
    BY <1>2 DEF SameAcs, TypeInv, TypeOK
  <2>2. /\ WorkPending' <=> WorkPending
        /\ MoreRequests' <=> MoreRequests
        /\ Untold' <=> Untold
        /\ Lasting' <=> Lasting
        /\ RetryWanted' <=> RetryWanted
    BY <1>2 DEF SameAcs, WorkPending, MoreRequests, Untold, Lasting,
       RetryWanted
  <2>3. RequestsVolatile'
    BY <2>1, FewerEventsVolatile
  <2> QED
    BY <2>1, <2>2, <2>3 DEF Returns, Armed, Accompanied, LaunchEvent,
       WillRetry, Informed, Finished
<1>3. CASE NewAcs
  <2>1. RequestsVolatile'
    BY <1>3, FewerEventsVolatile DEF NewAcs, WipeFile
  <2>2. ~MoreRequests' /\ ~Untold' /\ pc' = "bootstrap"
    BY <1>3 DEF NewAcs, WipeFile, MoreRequests, Untold, Removable
  <2>3. ~WorkPending'
    BY <2>2 DEF WorkPending, MoreRequests, Untold
  <2> QED
    BY <2>1, <2>2, <2>3 DEF Armed, Accompanied, LaunchEvent, WillRetry,
       Informed, Finished
<1>4. CASE AddBootstrap
  <2>1. RequestsVolatile' /\ Lasting'
    BY <1>4, AddEventBackupLasts DEF AddBootstrap
  <2>2. RetryWanted'
    BY <2>1 DEF RetryWanted, Lasting
  <2>3. /\ pc = "bootstrap" /\ pc' = ret /\ ret' = ret /\ ret \in Returns
        /\ inform' = TRUE
        /\ MoreRequests' <=> MoreRequests
    BY <1>4 DEF AddBootstrap, MoreRequests, TypeInv, TypeOK
  <2> QED
    BY <2>1, <2>2, <2>3 DEF Returns, Armed, Accompanied, LaunchEvent,
       WillRetry, Informed, Finished
<1>5. CASE AddBoot
  <2>1. RequestsVolatile'
    BY <1>5, AddEventBackupLasts DEF AddBoot
  <2> QED
    BY <1>5, <2>1 DEF AddBoot, Armed, Accompanied, LaunchEvent, WillRetry,
       Informed, Finished
<1>6. CASE StartGetRpcMethods
  <2>1. RequestsVolatile' /\ Lasting'
    BY <1>6, AddEventBackupLasts DEF StartGetRpcMethods
  <2> QED
    BY <1>6, <2>1 DEF StartGetRpcMethods, Armed, Accompanied, LaunchEvent,
       WillRetry, Informed, Finished
<1> QED
  BY <1>1, <1>2, <1>3, <1>4, <1>5, <1>6 DEF Boot

\* Timers and requests between sessions.
LEMMA IdleStrand ==
    ASSUME TypeInv, StrandInv, Idle
    PROVE  StrandInv'
<1> USE DEF listVars, queueVars, timerVars, sessionVars, localVars, confVars,
            boundVars, transferHist, history
<1> USE DEF StrandInv, Reloading
<1>1. CASE StartSession
  <2>1. /\ pc = "idle" /\ pc' = "inform" /\ retry_count' = retry_count
        /\ MoreRequests' <=> MoreRequests
        /\ Lasting' <=> Lasting
    BY <1>1 DEF StartSession, MoreRequests, Lasting
  <2>2. RequestsVolatile'
    BY <1>1, FewerEventsVolatile DEF StartSession
  <2> QED
    BY <2>1, <2>2 DEF Armed, Accompanied, LaunchEvent, WillRetry, Informed,
       Finished
<1>2. CASE PeriodicInform
  <2>1. RequestsVolatile' /\ Lasting'
    BY <1>2, AddEventBackupLasts DEF PeriodicInform
  <2> QED
    BY <1>2, <2>1 DEF PeriodicInform, Armed, Accompanied, LaunchEvent,
       WillRetry, Informed, Finished
<1>3. CASE Reload
  <2>1. /\ pc = "idle" /\ pc' = "config" /\ ret' = "idle"
        /\ retry_count' = retry_count /\ inform' = inform /\ retry' = retry
        /\ WorkPending' <=> WorkPending
        /\ MoreRequests' <=> MoreRequests
        /\ Lasting' <=> Lasting
    BY <1>3 DEF Reload, WorkPending, MoreRequests, Lasting
  <2>2. RequestsVolatile'
    BY <1>3, FewerEventsVolatile DEF Reload
  <2> QED
    BY <2>1, <2>2 DEF Armed, Accompanied, LaunchEvent, WillRetry, Informed,
       Finished
<1>4. ASSUME NEW c \in RequestCodes, ConnectionRequest(c)
      PROVE  StrandInv'
  <2>1. RequestsVolatile' /\ (Lasting => Lasting')
    BY <1>4, AddEventNoBackupLasts DEF ConnectionRequest
  <2>2. /\ pc = "idle" /\ pc' = "idle" /\ retry_count' = retry_count
        /\ inform' = TRUE
        /\ MoreRequests' <=> MoreRequests
    BY <1>4 DEF ConnectionRequest, MoreRequests
  <2> QED
    BY <2>1, <2>2 DEF Armed, Accompanied, LaunchEvent, WillRetry, Informed,
       Finished
<1>5. ASSUME NEW a \in BOOLEAN, Notify(a)
      PROVE  StrandInv'
  <2>1. RequestsVolatile' /\ (Lasting => Lasting')
    BY <1>5, AddEventNoBackupLasts DEF Notify
  <2>2. /\ pc = "idle" /\ pc' = "idle" /\ retry_count' = retry_count
        /\ retry' = retry
        /\ MoreRequests' <=> MoreRequests
    BY <1>5 DEF Notify, MoreRequests
  <2>3. inform => inform'
    BY <1>5, Zenon DEF Notify
  <2>4. Untold' => Untold
    <3>1. \/ events' = events
          \/ events' = events \cup {NewEvent("VALUE_CHANGE", NoKey, 0, 0)}
      BY <1>5 DEF Notify, AddEventNoBackup
    <3> QED
      BY <3>1 DEF Untold, Removable, NewEvent
  <2>5. WorkPending' => WorkPending
    BY <2>2, <2>4, Zenon DEF WorkPending, MoreRequests, Untold
  <2> QED
    BY <2>1, <2>2, <2>3, <2>5
    DEF Armed, Accompanied, LaunchEvent, WillRetry, Informed, Finished
<1>6. ASSUME NEW k \in Keys, ScheduledInform(k)
      PROVE  StrandInv'
  <2>1. RequestsVolatile' /\ Lasting'
    BY <1>6, AddEventBackupLasts DEF ScheduledInform
  <2> QED
    BY <1>6, <2>1 DEF ScheduledInform, Armed, Accompanied, LaunchEvent,
       WillRetry, Informed, Finished
<1>7. CASE AddScheduleKey
  <2>1. RequestsVolatile' /\ Lasting'
    BY <1>7, AddEventBackupLasts DEF AddScheduleKey
  <2> QED
    BY <1>7, <2>1 DEF AddScheduleKey, Armed, Accompanied, LaunchEvent,
       WillRetry, Informed, Finished
<1> QED
  BY <1>1, <1>2, <1>3, <1>4, <1>5, <1>6, <1>7 DEF Idle

\* A session.
LEMMA SessionStrand ==
    ASSUME TypeInv, StrandInv, Session
    PROVE  StrandInv'
<1> USE DEF listVars, queueVars, timerVars, sessionVars, localVars, confVars,
            boundVars, transferHist, history
<1> USE DEF StrandInv, Reloading
<1>1. CASE InformFails
  <2>1. RequestsVolatile'
    BY <1>1, FewerEventsVolatile DEF InformFails
  <2>2. /\ pc = "inform" /\ pc' = "end" /\ ret' = "err_done"
        /\ retry_count' = retry_count
        /\ MoreRequests' <=> MoreRequests
        /\ Lasting' <=> Lasting
    BY <1>1 DEF InformFails, Fail, MoreRequests, Lasting
  <2>3. Lasting' => RetryWanted'
    BY DEF Lasting, RetryWanted
  <2> QED
    BY <2>1, <2>2, <2>3 DEF Armed, Accompanied, LaunchEvent, WillRetry,
       Informed, Finished
<1>2. CASE InformAccepted
  <2>1. RequestsVolatile'
    BY <1>2, FewerEventsVolatile DEF InformAccepted
  <2> QED
    BY <1>2, <2>1 DEF InformAccepted, Armed, Accompanied, LaunchEvent,
       WillRetry, Informed, Finished
<1>3. CASE RemoveInformed
  <2>1. RequestsVolatile'
    BY <1>3, RemoveEventShrinks, FewerEventsVolatile DEF RemoveInformed
  <2>2. Removable(events', "AFTER_INFORM", 0) = {} /\ pc' = "requests"
    BY <1>3 DEF RemoveInformed, RemoveEvent, Removable
  <2> QED
    BY <2>1, <2>2 DEF Armed, Accompanied, LaunchEvent, WillRetry, Informed,
       Finished
<1>a. pc \in {"requests", "messages"} => RetryWanted /\ ~Untold
  <2>1. SUFFICES ASSUME pc \in {"requests", "messages"}
                 PROVE  RetryWanted /\ ~Untold
    OBVIOUS
  <2>2. Removable(events, "AFTER_INFORM", 0) = {}
    BY <2>1 DEF Informed
  <2>3. \A e \in events : e.code # "CONNECTION_REQUEST"
    BY <2>2 DEF RequestsVolatile, Removable, RemovePolicy,
       AfterTransferComplete
  <2>4. \A e \in events : "NO_RETRY" \notin RemovePolicy(e.code)
    BY <2>3 DEF RemovePolicy
  <2> QED
    BY <2>2, <2>4 DEF RetryWanted, Untold
<1>4. CASE TransferCompleteAnswered
  <2>1. RequestsVolatile'
    BY <1>4, FewerEventsVolatile DEF TransferCompleteAnswered
  <2> QED
    BY <1>4, <2>1 DEF TransferCompleteAnswered, Armed, Accompanied,
       LaunchEvent, WillRetry, Informed, Finished
<1>5. CASE TransferCompleteFails
  <2>1. RequestsVolatile'
    BY <1>5, FewerEventsVolatile DEF TransferCompleteFails
  <2>2. RetryWanted'
    BY <1>5, <1>a DEF TransferCompleteFails, RetryWanted
  <2> QED
    BY <1>5, <2>1, <2>2
    DEF TransferCompleteFails, Fail, Armed, Accompanied, LaunchEvent,
       WillRetry, Informed, Finished
<1>6. CASE RemoveTransferComplete
  <2>1. RequestsVolatile'
    BY <1>6, FewerEventsVolatile DEF RemoveTransferComplete
  <2> QED
    BY <1>6, <2>1 DEF RemoveTransferComplete, Armed, Accompanied, LaunchEvent,
       WillRetry, Informed, Finished
<1>7. CASE RemoveTransferEvents
  <2>1. events' \subseteq events /\ fEvents' \subseteq fEvents
    BY <1>7, RemoveEventShrinks DEF RemoveTransferEvents
  <2>2. RequestsVolatile'
    BY <2>1, FewerEventsVolatile
  <2>3. Removable(events, "AFTER_INFORM", 0) = {} /\ pc' \in {"tc_last", "requests"}
    BY <1>7 DEF RemoveTransferEvents, Informed
  <2>4. Removable(events', "AFTER_INFORM", 0) = {}
    BY <2>1, <2>3 DEF Removable
  <2> QED
    BY <2>2, <2>3, <2>4 DEF Armed, Accompanied, LaunchEvent, WillRetry,
       Informed, Finished
<1>8. CASE RemoveLastTransferEvents
  <2>1. events' \subseteq events /\ fEvents' \subseteq fEvents
    BY <1>8, RemoveEventShrinks DEF RemoveLastTransferEvents
  <2>2. RequestsVolatile'
    BY <2>1, FewerEventsVolatile
  <2>3. Removable(events, "AFTER_INFORM", 0) = {} /\ pc' = "requests"
    BY <1>8 DEF RemoveLastTransferEvents, Informed
  <2>4. Removable(events', "AFTER_INFORM", 0) = {}
    BY <2>1, <2>3 DEF Removable
  <2> QED
    BY <2>2, <2>3, <2>4 DEF Armed, Accompanied, LaunchEvent, WillRetry,
       Informed, Finished
<1>9. CASE GetRpcMethodsAnswered
  <2>1. RequestsVolatile'
    BY <1>9, FewerEventsVolatile DEF GetRpcMethodsAnswered
  <2> QED
    BY <1>9, <2>1 DEF GetRpcMethodsAnswered, Armed, Accompanied, LaunchEvent,
       WillRetry, Informed, Finished
<1>10. CASE GetRpcMethodsFails
  <2>1. RequestsVolatile'
    BY <1>10, FewerEventsVolatile DEF GetRpcMethodsFails
  <2>2. RetryWanted'
    BY <1>10, <1>a DEF GetRpcMethodsFails, RetryWanted
  <2> QED
    BY <1>10, <2>1, <2>2
    DEF GetRpcMethodsFails, Fail, Armed, Accompanied, LaunchEvent, WillRetry,
       Informed, Finished
<1>11. CASE NoRequest
  <2>1. RequestsVolatile'
    BY <1>11, FewerEventsVolatile DEF NoRequest
  <2> QED
    BY <1>11, <2>1 DEF NoRequest, Armed, Accompanied, LaunchEvent, WillRetry,
       Informed, Finished
<1>12. CASE EmptyMessage
  <2>1. RequestsVolatile'
    BY <1>12, FewerEventsVolatile DEF EmptyMessage
  <2>2. /\ pc = "messages"
        /\ \/ pc' = "requests"
           \/ ~MoreRequests /\ pc' = "end" /\ ret' = "ok_done"
    BY <1>12, Zenon DEF EmptyMessage
  <2>3. MoreRequests' <=> MoreRequests
    BY <1>12 DEF EmptyMessage, MoreRequests
  <2>4. events' = events
    BY <1>12 DEF EmptyMessage
  <2>5. ~Untold'
    BY <1>a, <2>2, <2>4 DEF Untold
  <2> QED
    BY <2>1, <2>2, <2>3, <2>4, <2>5
    DEF Armed, Accompanied, LaunchEvent, WillRetry, Informed, Finished
<1>13. CASE MessagesFail
  <2>1. RequestsVolatile'
    BY <1>13, FewerEventsVolatile DEF MessagesFail
  <2>2. RetryWanted'
    BY <1>13, <1>a DEF MessagesFail, RetryWanted
  <2> QED
    BY <1>13, <2>1, <2>2
    DEF MessagesFail, Fail, Armed, Accompanied, LaunchEvent, WillRetry,
       Informed, Finished
<1> QED
  BY <1>1, <1>2, <1>3, <1>4, <1>5, <1>6, <1>7, <1>8, <1>9, <1>10, <1>11,
     <1>12, <1>13 DEF Session

\* The requests of the ACS leave the event list alone.
LEMMA RpcStrand ==
    ASSUME TypeInv, StrandInv, Rpc
    PROVE  StrandInv'
<1> USE DEF listVars, queueVars, timerVars, sessionVars, localVars, confVars,
            boundVars, transferHist, history
<1> USE DEF StrandInv, Reloading
<1>1. pc = "messages" /\ pc' = "messages" /\ events' = events
  BY DEF Rpc, HandleDownload, HandleScheduleInform, HandleReboot,
         HandleFactoryReset, HandleSetParameterValues
<1>2. RequestsVolatile'
  <2>1. CASE \E k \in Keys : HandleReboot(k)
    <3>1. PICK k \in Keys : HandleReboot(k)
      BY <2>1
    <3>2. \A f \in fEvents' : f \in fEvents \/ f.code = "M_REBOOT"
      BY <3>1 DEF HandleReboot, NewEvent
    <3> QED
      BY <1>1, <3>2 DEF RequestsVolatile
  <2>2. CASE fEvents' = fEvents
    BY <1>1, <2>2, FewerEventsVolatile
  <2> QED
    BY <2>1, <2>2 DEF Rpc, HandleDownload, HandleScheduleInform,
                      HandleFactoryReset, HandleSetParameterValues
<1> QED
  BY <1>1, <1>2 DEF Armed, Accompanied, LaunchEvent, WillRetry, Informed,
     Finished

\* A process that is gone leaves nothing to strand.
LEMMA ExitStrand ==
    ASSUME StrandInv, Exit, fEvents' \subseteq fEvents
    PROVE  StrandInv'
<1>1. pc' = "down" /\ events' = {}
  BY DEF Exit
<1>2. RequestsVolatile'
  BY <1>1 DEF StrandInv, RequestsVolatile
<1> QED
  BY <1>1, <1>2 DEF StrandInv, Reloading, Armed, Accompanied, LaunchEvent,
                    WillRetry, Informed, Finished

\* The end of a session; the decision to retry.
LEMMA EndStrand ==
    ASSUME TypeInv, StrandInv, End
    PROVE  StrandInv'
<1> USE DEF listVars, queueVars, timerVars, sessionVars, localVars, confVars,
            boundVars, transferHist, history
<1> USE DEF StrandInv, Reloading
<1>1. CASE EndFactoryReset
  BY <1>1, ExitStrand DEF EndFactoryReset, WipeFile
<1>2. CASE EndReboot
  BY <1>2, ExitStrand DEF EndReboot
<1>3. CASE EndSession
  <2>1. RequestsVolatile'
    BY <1>3, FewerEventsVolatile DEF EndSession
  <2>2. /\ pc = "end" /\ (pc' = "config" \/ pc' = ret) /\ ret' = ret
        /\ ret \in {"ok_done", "err_done"}
        /\ retry_count' = retry_count /\ inform' = inform
        /\ MoreRequests' <=> MoreRequests
        /\ Untold' <=> Untold
        /\ RetryWanted' <=> RetryWanted
    BY <1>3 DEF EndSession, TypeInv, Locals, MoreRequests, Untold, RetryWanted
  <2> QED
    BY <2>1, <2>2 DEF Armed, Accompanied, LaunchEvent, WillRetry, Informed,
       Finished
<1>4. CASE SessionDone
  <2>1. RequestsVolatile'
    BY <1>4, FewerEventsVolatile DEF SessionDone
  <2>2. /\ pc = "ok_done" /\ ret = "ok_done" /\ pc' = "idle"
        /\ inform' = inform
        /\ MoreRequests' <=> MoreRequests
        /\ Untold' <=> Untold
        /\ WorkPending' <=> MoreRequests' \/ Untold'
    BY <1>4 DEF SessionDone, TypeInv, Locals, MoreRequests, Untold, WorkPending
  <2> QED
    BY <2>1, <2>2 DEF Armed, Accompanied, LaunchEvent, WillRetry, Informed,
       Finished
<1>5. CASE RetrySession
  <2>1. RequestsVolatile'
    BY <1>5, RemoveEventShrinks, FewerEventsVolatile DEF RetrySession
  <2>2. /\ pc = "err_done" /\ ret = "err_done" /\ pc' = "idle"
        /\ MoreRequests' <=> MoreRequests
        /\ WorkPending' <=> MoreRequests' \/ Untold'
    BY <1>5 DEF RetrySession, TypeInv, Locals, MoreRequests, Untold,
       WorkPending
  <2>3. CASE ~RetryWanted /\ retry_count = 0
    <3>1. ~MoreRequests
      BY <2>2, <2>3 DEF WillRetry
    <3>2. \A e \in events : e.code = "CONNECTION_REQUEST" /\ e.mid = 0
      BY <2>3 DEF RetryWanted, RemovePolicy, RequestsVolatile
    <3>3. events' = {}
      BY <1>5, <3>2 DEF RetrySession, RemoveEvent, Removable, RemovePolicy,
         AfterTransferComplete
    <3>4. ~Untold'
      BY <3>3 DEF Untold, Removable
    <3> QED
      BY <2>1, <2>2, <3>1, <3>4
      DEF Armed, Accompanied, LaunchEvent, WillRetry, Informed, Finished
  <2>4. CASE ~(~RetryWanted /\ retry_count = 0)
    <3>1. retry' = TRUE /\ retry_count' = retry_count + 1
      BY <1>5, <2>4, Zenon DEF RetrySession
    <3>2. retry_count' # 0
      BY <3>1 DEF TypeInv, TypeOK
    <3> QED
      BY <2>1, <2>2, <3>1, <3>2
      DEF Armed, Accompanied, LaunchEvent, WillRetry, Informed, Finished
  <2> QED
    BY <2>3, <2>4
<1> QED
  BY <1>1, <1>2, <1>3, <1>4, <1>5 DEF End

\* cwmp_download_launch.
LEMMA LaunchStrand ==
    ASSUME TypeInv, StrandInv, Launch
    PROVE  StrandInv'
<1> USE DEF listVars, queueVars, timerVars, sessionVars, localVars, confVars,
            boundVars, transferHist, history
<1> USE DEF StrandInv, Reloading
<1>1. ASSUME NEW d \in Downloads, FireDownload(d)
      PROVE  StrandInv'
  <2>1. RequestsVolatile'
    BY <1>1, FewerEventsVolatile DEF FireDownload
  <2>2. /\ pc = "idle" /\ pc' = "launch" /\ retry_count' = retry_count
        /\ inform' = inform /\ retry' = retry
        /\ WorkPending' <=> WorkPending
        /\ MoreRequests' <=> MoreRequests
        /\ Lasting' <=> Lasting
    BY <1>1 DEF FireDownload, WorkPending, MoreRequests, Lasting
  <2> QED
    BY <2>1, <2>2 DEF Armed, Accompanied, LaunchEvent, WillRetry, Informed,
       Finished
<1>2. CASE LaunchFails
  <2>1. RequestsVolatile'
    BY <1>2, FewerEventsVolatile DEF LaunchFails
  <2>2. /\ pc = "launch" /\ pc' = "idle" /\ retry_count' = retry_count
        /\ inform' = inform /\ retry' = retry
        /\ WorkPending' <=> WorkPending
        /\ MoreRequests' <=> MoreRequests
        /\ Lasting' <=> Lasting
    BY <1>2 DEF LaunchFails, WorkPending, MoreRequests, Lasting
  <2> QED
    BY <2>1, <2>2 DEF Armed, Accompanied, LaunchEvent, WillRetry, Informed,
       Finished
<1>3. CASE Fetch
  <2>1. RequestsVolatile'
    BY <1>3, FewerEventsVolatile DEF Fetch
  <2>2. /\ pc = "launch" /\ pc' = "dl_remove" /\ retry_count' = retry_count
        /\ inform' = inform /\ retry' = retry
        /\ WorkPending' <=> WorkPending
        /\ MoreRequests' <=> MoreRequests
        /\ Lasting' <=> Lasting
    BY <1>3 DEF Fetch, WorkPending, MoreRequests, Lasting
  <2> QED
    BY <2>1, <2>2 DEF Armed, Accompanied, LaunchEvent, WillRetry, Informed,
       Finished
<1>4. CASE RemoveDownload
  <2>1. RequestsVolatile'
    BY <1>4, FewerEventsVolatile DEF RemoveDownload
  <2>2. /\ pc = "dl_remove" /\ pc' = "dl_record" /\ retry_count' = retry_count
        /\ inform' = inform /\ retry' = retry
        /\ WorkPending' <=> WorkPending
        /\ MoreRequests' <=> MoreRequests
        /\ Lasting' <=> Lasting
    BY <1>4 DEF RemoveDownload, WorkPending, MoreRequests, Lasting
  <2> QED
    BY <2>1, <2>2 DEF Armed, Accompanied, LaunchEvent, WillRetry, Informed,
       Finished
<1>5. CASE RecordTransfer
  <2>1. RequestsVolatile'
    BY <1>5, FewerEventsVolatile DEF RecordTransfer
  <2> QED
    BY <1>5, <2>1 DEF RecordTransfer, Armed, Accompanied, LaunchEvent,
       WillRetry, Informed, Finished
<1>6. CASE AddTransferEvent
  <2>1. RequestsVolatile' /\ Lasting'
    BY <1>6, AddEventBackupLasts DEF AddTransferEvent
  <2> QED
    BY <1>6, <2>1 DEF AddTransferEvent, Armed, Accompanied, LaunchEvent,
       WillRetry, Informed, Finished
<1>7. CASE AddDownloadEvent
  <2>1. RequestsVolatile' /\ Lasting'
    BY <1>7, AddEventBackupLasts DEF AddDownloadEvent
  <2> QED
    BY <1>7, <2>1 DEF AddDownloadEvent, Armed, Accompanied, LaunchEvent,
       WillRetry, Informed, Finished
<1>8. CASE ApplyFails
  <2>1. RequestsVolatile'
    BY <1>8, FewerEventsVolatile DEF ApplyFails
  <2>2. /\ pc = "dl_apply" /\ pc' = "dl_fault" /\ retry_count' = retry_count
        /\ inform' = inform /\ retry' = retry
        /\ WorkPending' <=> WorkPending
        /\ MoreRequests' <=> MoreRequests
        /\ Lasting' <=> Lasting
    BY <1>8 DEF ApplyFails, WorkPending, MoreRequests, Lasting
  <2> QED
    BY <2>1, <2>2 DEF Armed, Accompanied, LaunchEvent, WillRetry, Informed,
       Finished
<1>9. CASE Applied
  <2>1. RequestsVolatile'
    BY <1>9, FewerEventsVolatile DEF Applied
  <2>2. /\ pc = "dl_apply" /\ pc' = "dl_time" /\ retry_count' = retry_count
        /\ inform' = inform /\ retry' = retry
        /\ WorkPending' <=> WorkPending
        /\ MoreRequests' <=> MoreRequests
        /\ Lasting' <=> Lasting
    BY <1>9 DEF Applied, WorkPending, MoreRequests, Lasting
  <2> QED
    BY <2>1, <2>2 DEF Armed, Accompanied, LaunchEvent, WillRetry, Informed,
       Finished
<1>10. CASE AppliedConfiguration
  BY <1>10, ExitStrand DEF AppliedConfiguration
<1>13. CASE AppliedFirmware
  BY <1>13, ExitStrand DEF AppliedFirmware, WipeFile
<1>11. CASE RecordFault
  <2>1. RequestsVolatile'
    BY <1>11, FewerEventsVolatile DEF RecordFault
  <2>2. pc = "dl_fault" /\ pc' = "dl_time" /\ (Lasting' <=> Lasting)
    BY <1>11 DEF RecordFault, Lasting
  <2> QED
    BY <2>1, <2>2 DEF Armed, Accompanied, LaunchEvent, WillRetry, Informed,
       Finished
<1>12. CASE RecordTime
  <2>1. RequestsVolatile'
    BY <1>12, FewerEventsVolatile DEF RecordTime
  <2>2. pc = "dl_time" /\ pc' = "idle" /\ inform' = TRUE /\ (Lasting' <=> Lasting)
    BY <1>12 DEF RecordTime, Lasting
  <2> QED
    BY <2>1, <2>2 DEF Armed, Accompanied, LaunchEvent, WillRetry, Informed,
       Finished
<1> QED
  BY <1>1, <1>2, <1>3, <1>4, <1>5, <1>6, <1>7, <1>8, <1>9, <1>10, <1>11,
     <1>12, <1>13 DEF Launch

\* A step that leaves the daemon alone.
LEMMA IdleStepStrand ==
    ASSUME StrandInv,
           UNCHANGED <<pc, ret, events, fEvents, inform, retry, retry_count,
                       get_rpc_methods, fTcs>>
    PROVE  StrandInv'
<1>1. /\ WorkPending' <=> WorkPending
      /\ MoreRequests' <=> MoreRequests
      /\ Untold' <=> Untold
      /\ Lasting' <=> Lasting
      /\ RetryWanted' <=> RetryWanted
  BY DEF WorkPending, MoreRequests, Untold, Lasting, RetryWanted
<1>2. RequestsVolatile'
  BY FewerEventsVolatile DEF StrandInv
<1> QED
  BY <1>1, <1>2 DEF StrandInv, Reloading, Armed, Accompanied, LaunchEvent,
                    WillRetry, Informed, Finished

\* Crashes, stops and edits of the configuration.
LEMMA EnvironmentStrand ==
    ASSUME TypeInv, StrandInv, Environment
    PROVE  StrandInv'
<1> USE DEF listVars, queueVars, timerVars, sessionVars, localVars, confVars,
            boundVars, transferHist, history
<1> USE DEF StrandInv, Reloading
<1>1. CASE Crash
  <2>1. fEvents' \subseteq fEvents /\ Exit
    BY <1>1 DEF Crash, PartialUnlink, Unlink
  <2> QED
    BY <2>1, ExitStrand
<1>2. CASE CrashInSave
  BY <1>2, ExitStrand DEF CrashInSave, WipeFile
<1>3. CASE Stop
  BY <1>3, ExitStrand DEF Stop
<1>4. ASSUME NEW u \in Urls, Configure(u)
      PROVE  StrandInv'
  BY <1>4, IdleStepStrand DEF Configure
<1> QED
  BY <1>1, <1>2, <1>3, <1>4 DEF Environment

-----------------------------------------------------------------------------
\* The invariant holds throughout.
THEOREM StrandInvariant == Spec => []StrandInv
<1>1. Init => StrandInv
  BY DEF Init, StrandInv, Reloading, RequestsVolatile, Armed, Accompanied,
         LaunchEvent, WillRetry, Informed, Finished
<1>2. TypeInv /\ StrandInv /\ [Next]_vars => StrandInv'
  <2>1. SUFFICES ASSUME TypeInv, StrandInv, [Next]_vars
                 PROVE  StrandInv'
    OBVIOUS
  <2>2. CASE Next
    BY <2>1, <2>2, BootStrand, IdleStrand, SessionStrand, RpcStrand, EndStrand,
       LaunchStrand, EnvironmentStrand DEF Next
  <2>3. CASE UNCHANGED vars
    BY <2>1, <2>3, IdleStepStrand
    DEF vars, listVars, queueVars, timerVars, sessionVars, localVars,
        confVars, boundVars, transferHist, history
  <2> QED
    BY <2>1, <2>2, <2>3
<1> QED
  BY <1>1, <1>2, TypeInvariant, PTL DEF Spec

\* No handler, failed session, crash or restart leaves a report, a
\* GetRPCMethods request or an event behind without a timer that will start
\* a session for it (cwmp_retry_session, cwmp_add_inform_timer).
THEOREM WorkNeverStranded == Spec => []NoStrandedWork
<1>1. StrandInv => NoStrandedWork
  BY DEF StrandInv, Armed, NoStrandedWork
<1> QED
  BY <1>1, StrandInvariant, PTL

=============================================================================
