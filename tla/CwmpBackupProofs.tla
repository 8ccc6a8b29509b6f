-------------------------- MODULE CwmpBackupProofs --------------------------
(***************************************************************************)
(* The event list and its copy in the backup file: between handlers they   *)
(* agree, an event leaves the file only after the ACS was told, and a new  *)
(* ACS is not denied its BOOTSTRAP event.                                  *)
(***************************************************************************)
EXTENDS CwmpAgentProofs

\* A session between the accepted Inform and its end.
Serving == {"informed", "requests", "tc_answered", "tc_events", "tc_last",
            "messages"}

\* An element of the file has a number of its own and, unless its code may
\* occur several times, a code of its own; connection requests are not saved.
FileWell ==
    /\ \A f \in fEvents : f.node # 0 /\ f.code # "CONNECTION_REQUEST"
    /\ \A f, g \in fEvents :
          f.node = g.node \/ (f.code = g.code /\ f.code \notin Multiple) => f = g

\* Two events of the list do not share an element, and the element an event is
\* linked to is its own.
ListWell ==
    /\ \A e, g \in events : e.node = g.node /\ e.node # 0 => e = g
    /\ \A e \in events, f \in fEvents :
          e.node = f.node => e.code = f.code /\ e.key = f.key

\* While the daemon runs, the links of the list lead into the file, and the
\* elements of the file belong to events, but for the reboot that ends the
\* session.
Linked ==
    pc # "down" =>
        /\ \A e \in events : e.node # 0 => e.node \in NodesOf(fEvents)
        /\ \A f \in fEvents :
              f.node \in NodesOf(events)
              \/ (f.code = "M_REBOOT" /\ "REBOOT" \in end_session)

RebootPending ==
    "REBOOT" \in end_session => pc \in (Serving \ {"informed"}) \cup {"end"}

\* What the ACS has been told of while a session lasts.
Told ==
    /\ pc \in Serving => events \subseteq told
    /\ pc = "informed" /\ Present(events, "BOOTSTRAP") => owed = "no"

\* Without an ACS URL the file is empty, and the daemon at its start.
NoFile == fUrl = None => fEvents = {} /\ pc \in {"down", "config"}

CleanAtBootstrap == pc = "bootstrap" => events = {} /\ fEvents = {}

BackupInv == FileWell /\ ListWell /\ Linked /\ RebootPending /\ Told /\ NoFile
             /\ CleanAtBootstrap /\ BootstrapOwed

-----------------------------------------------------------------------------
(* The kinds of steps, as far as the event list and its copy see them.     *)

\* Neither list changes.
KeepsLists ==
    /\ UNCHANGED <<events, fEvents, fUrl, owed>>
    /\ "REBOOT" \in end_session' <=> "REBOOT" \in end_session
    /\ \/ pc' = pc /\ told' = told
       \/ /\ pc \notin {"down", "bootstrap"} /\ fUrl # None
          /\ pc' \notin {"down", "bootstrap", "informed"}
          /\ pc' \in Serving => pc \in Serving /\ told' = told
          /\ "REBOOT" \in end_session => pc' \in Serving \cup {"end"}
       \/ pc' = "config" /\ pc \notin {"down", "bootstrap"} \cup Serving
          /\ "REBOOT" \notin end_session

\* cwmp_add_event with EVENT_BACKUP.
AddsSaved ==
    /\ \E code \in EventCode \ {"CONNECTION_REQUEST"}, key \in Key, id \in Nat :
          /\ AddEventBackup(code, key, id)
          /\ pc = "bootstrap" => code = "BOOTSTRAP"
    /\ pc \notin Serving \cup {"down", "config", "end"}
    /\ pc' \notin Serving \cup {"down", "bootstrap"}
    /\ UNCHANGED <<fUrl, owed, end_session>>

\* cwmp_add_event with EVENT_NO_BACKUP.
AddsUnsaved ==
    /\ \E code \in EventCode : AddEventNoBackup(code)
    /\ pc = "idle" /\ pc' = "idle"
    /\ UNCHANGED <<fUrl, owed, end_session>>

\* cwmp_remove_event, from its first save to its last.
Removes ==
    /\ events' = events \ BeingRemoved
    /\ fEvents' = Unlink(fEvents, BeingRemoved)
    /\ pc \notin {"down", "config", "bootstrap", "end"}
    /\ \/ pc \in Serving /\ pc' \in Serving \ {"informed"}
       \/ pc \notin Serving /\ pc' = "idle"
    /\ UNCHANGED <<fUrl, owed, end_session, told>>

\* The process ends, perhaps in the middle of a removal.
Leaves ==
    /\ Exit
    /\ \E gone \in SUBSET BeingRemoved : fEvents' = Unlink(fEvents, gone)
    /\ fUrl' = fUrl
    /\ (owed' = owed /\ pc # "bootstrap") \/ owed' = "lost"

\* The process ends and the file is lost.
Wipes == Exit /\ fEvents' = {} /\ fUrl' = None

Other == Start \/ NewAcs \/ InformAccepted \/ \E k \in Keys : HandleReboot(k)

\* What cwmp_remove_event deletes has been in the accepted Inform, but for
\* connection requests, which have no element in the file; a BOOTSTRAP event
\* among it is no longer owed.
LEMMA RemovedWasTold ==
    ASSUME BackupInv
    PROVE  /\ BeingRemoved \subseteq events
           /\ \A e \in BeingRemoved :
                 /\ e.code = "BOOTSTRAP" => owed = "no"
                 /\ e \in told \/ e.code = "CONNECTION_REQUEST"
<1> USE DEF BackupInv, Told, Serving, Removable, RemovePolicy,
            AfterTransferComplete, Present
<1>1. CASE pc = "informed"
  BY <1>1 DEF BeingRemoved
<1>2. CASE pc = "tc_events"
  BY <1>2 DEF BeingRemoved
<1>3. CASE pc = "tc_last"
  BY <1>3 DEF BeingRemoved
<1>4. CASE pc = "err_done"
  BY <1>4 DEF BeingRemoved
<1>5. CASE pc \notin {"informed", "tc_events", "tc_last", "err_done"}
  BY <1>5 DEF BeingRemoved
<1> QED
  BY <1>1, <1>2, <1>3, <1>4, <1>5

\* Every step is of one of these kinds.
LEMMA Kinds ==
    ASSUME TypeInv, BackupInv, [Next]_vars
    PROVE  \/ KeepsLists \/ AddsSaved \/ AddsUnsaved \/ Removes
           \/ Leaves \/ Wipes \/ Other
<1> USE DEF listVars, queueVars, timerVars, sessionVars, localVars, confVars,
            boundVars, transferHist, history, Serving
<1>0. /\ fUrl = None => pc \in {"down", "config"}
      /\ "REBOOT" \in end_session => pc \in Serving \cup {"end"}
      /\ conf # None /\ ret \in Returns /\ cur \in Downloads \cup Keys \cup {None}
  BY NamesAssumption DEF BackupInv, NoFile, RebootPending, TypeInv, TypeOK
<1>00. /\ NoKey \in Key
       /\ pc \in Launching => cur \in Key
       /\ pc = "scheduled" => cur \in Key
       /\ method_id \in Nat /\ 0 \in Nat
       /\ \A k \in Keys : k \in Key
  BY DEF Key, TypeInv, TypeOK, Locals
<1>1. CASE Boot
  <2>1. CASE SameAcs
    BY <2>1, <1>0 DEF SameAcs, Returns, KeepsLists
  <2>2. CASE AddBootstrap
    <3>1. AddEventBackup("BOOTSTRAP", NoKey, 0)
      BY <2>2 DEF AddBootstrap
    <3>2. "BOOTSTRAP" \in EventCode \ {"CONNECTION_REQUEST"} /\ NoKey \in Key /\ 0 \in Nat
      BY <2>2, <1>00 DEF AddBootstrap, EventCode, Launching
    <3> QED
      BY <2>2, <1>0, <3>1, <3>2 DEF AddBootstrap, AddsSaved, Returns
  <2>3. CASE AddBoot
    <3>1. AddEventBackup("BOOT", NoKey, 0)
      BY <2>3 DEF AddBoot
    <3>2. "BOOT" \in EventCode \ {"CONNECTION_REQUEST"} /\ NoKey \in Key /\ 0 \in Nat
      BY <2>3, <1>00 DEF AddBoot, EventCode, Launching
    <3> QED
      BY <2>3, <1>0, <3>1, <3>2 DEF AddBoot, AddsSaved
  <2>4. CASE StartGetRpcMethods
    <3>1. AddEventBackup("PERIODIC", NoKey, 0)
      BY <2>4 DEF StartGetRpcMethods
    <3>2. "PERIODIC" \in EventCode \ {"CONNECTION_REQUEST"} /\ NoKey \in Key /\ 0 \in Nat
      BY <2>4, <1>00 DEF StartGetRpcMethods, EventCode, Launching
    <3> QED
      BY <2>4, <1>0, <3>1, <3>2 DEF StartGetRpcMethods, AddsSaved
  <2> QED
    BY <1>1, <2>1, <2>2, <2>3, <2>4 DEF Boot, Other
<1>2. CASE Idle
  <2>1. CASE StartSession
    BY <2>1, <1>0 DEF StartSession, KeepsLists
  <2>2. CASE PeriodicInform
    <3>1. AddEventBackup("PERIODIC", NoKey, 0)
      BY <2>2 DEF PeriodicInform
    <3>2. "PERIODIC" \in EventCode \ {"CONNECTION_REQUEST"} /\ NoKey \in Key /\ 0 \in Nat
      BY <2>2, <1>00 DEF PeriodicInform, EventCode, Launching
    <3> QED
      BY <2>2, <1>0, <3>1, <3>2 DEF PeriodicInform, AddsSaved
  <2>3. CASE Reload
    BY <2>3, <1>0 DEF Reload, KeepsLists
  <2>4. ASSUME NEW c \in RequestCodes, ConnectionRequest(c)
        PROVE  AddsUnsaved
    BY <2>4, NamesAssumption DEF ConnectionRequest, AddsUnsaved
  <2>5. ASSUME NEW a \in BOOLEAN, Notify(a)
        PROVE  AddsUnsaved
    <3>1. "VALUE_CHANGE" \in EventCode /\ AddEventNoBackup("VALUE_CHANGE")
      BY <2>5 DEF Notify, EventCode
    <3> QED
      BY <2>5, <3>1 DEF Notify, AddsUnsaved
  <2>6. ASSUME NEW k \in Keys, ScheduledInform(k)
        PROVE  AddsSaved
    <3>1. AddEventBackup("SCHEDULED", NoKey, 0)
      BY <2>6 DEF ScheduledInform
    <3>2. "SCHEDULED" \in EventCode \ {"CONNECTION_REQUEST"} /\ NoKey \in Key /\ 0 \in Nat
      BY <2>6, <1>00 DEF ScheduledInform, EventCode, Launching
    <3> QED
      BY <2>6, <1>0, <3>1, <3>2 DEF ScheduledInform, AddsSaved
  <2>7. CASE AddScheduleKey
    <3>1. AddEventBackup("M_SCHEDULEINFORM", cur, 0)
      BY <2>7 DEF AddScheduleKey
    <3>2. "M_SCHEDULEINFORM" \in EventCode \ {"CONNECTION_REQUEST"} /\ cur \in Key /\ 0 \in Nat
      BY <2>7, <1>00 DEF AddScheduleKey, EventCode, Launching
    <3> QED
      BY <2>7, <1>0, <3>1, <3>2 DEF AddScheduleKey, AddsSaved
  <2> QED
    BY <1>2, <2>1, <2>2, <2>3, <2>4, <2>5, <2>6, <2>7 DEF Idle
<1>3. CASE Session
  <2>1. CASE InformFails
    BY <2>1, <1>0 DEF InformFails, Fail, KeepsLists
  <2>2. CASE TransferCompleteAnswered
    BY <2>2, <1>0 DEF TransferCompleteAnswered, KeepsLists
  <2>3. CASE TransferCompleteFails
    BY <2>3, <1>0 DEF TransferCompleteFails, Fail, KeepsLists
  <2>4. CASE RemoveTransferComplete
    BY <2>4, <1>0 DEF RemoveTransferComplete, KeepsLists
  <2>5. CASE GetRpcMethodsAnswered
    BY <2>5, <1>0 DEF GetRpcMethodsAnswered, KeepsLists
  <2>6. CASE GetRpcMethodsFails
    BY <2>6, <1>0 DEF GetRpcMethodsFails, Fail, KeepsLists
  <2>7. CASE NoRequest
    BY <2>7, <1>0 DEF NoRequest, KeepsLists
  <2>8. CASE MessagesFail
    BY <2>8, <1>0 DEF MessagesFail, Fail, KeepsLists
  <2>9. CASE EmptyMessage
    <3>1. /\ pc = "messages" /\ pc' \in {"requests", "end"}
          /\ UNCHANGED <<events, fEvents, fUrl, owed, told, end_session>>
      BY <2>9, Zenon DEF EmptyMessage
    <3> QED
      BY <3>1, <1>0 DEF KeepsLists
  <2>10. CASE RemoveInformed
    BY <2>10 DEF RemoveInformed, RemoveEvent, BeingRemoved, Removes
  <2>11. CASE RemoveTransferEvents
    BY <2>11 DEF RemoveTransferEvents, RemoveEvent, BeingRemoved, Removes
  <2>12. CASE RemoveLastTransferEvents
    BY <2>12 DEF RemoveLastTransferEvents, RemoveEvent, BeingRemoved, Removes
  <2> QED
    BY <1>3, <2>1, <2>2, <2>3, <2>4, <2>5, <2>6, <2>7, <2>8, <2>9, <2>10,
       <2>11, <2>12 DEF Session, Other
<1>4. CASE Rpc
  <2>1. ASSUME NEW d \in Downloads, HandleDownload(d)
        PROVE  KeepsLists
    BY <2>1, <1>0 DEF HandleDownload, KeepsLists
  <2>2. ASSUME NEW k \in Keys, HandleScheduleInform(k)
        PROVE  KeepsLists
    BY <2>2, <1>0 DEF HandleScheduleInform, KeepsLists
  <2>3. CASE HandleFactoryReset
    BY <2>3, <1>0 DEF HandleFactoryReset, KeepsLists
  <2>4. ASSUME NEW u \in Urls, HandleSetParameterValues(u)
        PROVE  KeepsLists
    BY <2>4, <1>0 DEF HandleSetParameterValues, KeepsLists
  <2> QED
    BY <1>4, <2>1, <2>2, <2>3, <2>4 DEF Rpc, Other
<1>5. CASE End
  <2>1. CASE EndFactoryReset
    BY <2>1 DEF EndFactoryReset, WipeFile, Wipes
  <2>2. CASE EndReboot
    <3>1. fEvents' = Unlink(fEvents, {})
      BY <2>2 DEF EndReboot, Unlink, NodesOf
    <3> QED
      BY <2>2, <3>1 DEF EndReboot, Leaves
  <2>3. CASE EndSession
    BY <2>3, <1>0 DEF EndSession, Returns, KeepsLists
  <2>4. CASE SessionDone
    BY <2>4, <1>0 DEF SessionDone, KeepsLists
  <2>5. CASE RetrySession
    BY <2>5 DEF RetrySession, RemoveEvent, BeingRemoved, Removes
  <2> QED
    BY <1>5, <2>1, <2>2, <2>3, <2>4, <2>5 DEF End
<1>6. CASE Launch
  <2>1. ASSUME NEW d \in Downloads, FireDownload(d)
        PROVE  KeepsLists
    BY <2>1, <1>0 DEF FireDownload, KeepsLists
  <2>2. CASE LaunchFails
    BY <2>2, <1>0 DEF LaunchFails, KeepsLists
  <2>3. CASE Fetch
    BY <2>3, <1>0 DEF Fetch, KeepsLists
  <2>4. CASE RemoveDownload
    BY <2>4, <1>0 DEF RemoveDownload, KeepsLists
  <2>5. CASE RecordTransfer
    BY <2>5, <1>0 DEF RecordTransfer, KeepsLists
  <2>6. CASE ApplyFails
    BY <2>6, <1>0 DEF ApplyFails, KeepsLists
  <2>7. CASE Applied
    BY <2>7, <1>0 DEF Applied, KeepsLists
  <2>8. CASE RecordFault
    BY <2>8, <1>0 DEF RecordFault, KeepsLists
  <2>9. CASE RecordTime
    BY <2>9, <1>0 DEF RecordTime, KeepsLists
  <2>10. CASE AddTransferEvent
    <3>1. AddEventBackup("TRANSFER_COMPLETE", NoKey, 0)
      BY <2>10 DEF AddTransferEvent
    <3>2. "TRANSFER_COMPLETE" \in EventCode \ {"CONNECTION_REQUEST"} /\ NoKey \in Key /\ 0 \in Nat
      BY <2>10, <1>00 DEF AddTransferEvent, EventCode, Launching
    <3> QED
      BY <2>10, <1>0, <3>1, <3>2 DEF AddTransferEvent, AddsSaved
  <2>11. CASE AddDownloadEvent
    <3>1. AddEventBackup("M_DOWNLOAD", cur, method_id)
      BY <2>11 DEF AddDownloadEvent
    <3>2. "M_DOWNLOAD" \in EventCode \ {"CONNECTION_REQUEST"} /\ cur \in Key /\ method_id \in Nat
      BY <2>11, <1>00 DEF AddDownloadEvent, EventCode, Launching
    <3> QED
      BY <2>11, <1>0, <3>1, <3>2 DEF AddDownloadEvent, AddsSaved
  <2>12. CASE AppliedConfiguration
    <3>1. fEvents' = Unlink(fEvents, {})
      BY <2>12 DEF AppliedConfiguration, Unlink, NodesOf
    <3> QED
      BY <2>12, <3>1 DEF AppliedConfiguration, Leaves
  <2>13. CASE AppliedFirmware
    BY <2>13 DEF AppliedFirmware, WipeFile, Wipes
  <2> QED
    BY <1>6, <2>1, <2>2, <2>3, <2>4, <2>5, <2>6, <2>7, <2>8, <2>9, <2>10,
       <2>11, <2>12, <2>13 DEF Launch
<1>7. CASE Environment
  <2>1. CASE Crash
    <3>1. \E gone \in SUBSET BeingRemoved : fEvents' = Unlink(fEvents, gone)
      BY <2>1 DEF Crash, PartialUnlink
    <3> QED
      BY <2>1, <3>1 DEF Crash, Leaves
  <2>2. CASE CrashInSave
    BY <2>2 DEF CrashInSave, WipeFile, Wipes
  <2>3. CASE Stop
    <3>1. fEvents' = Unlink(fEvents, {})
      BY <2>3 DEF Stop, Unlink, NodesOf
    <3> QED
      BY <2>3, <3>1 DEF Stop, Leaves
  <2>4. ASSUME NEW u \in Urls, Configure(u)
        PROVE  KeepsLists
    BY <2>4, <1>0 DEF Configure, KeepsLists
  <2> QED
    BY <1>7, <2>1, <2>2, <2>3, <2>4 DEF Environment
<1>8. CASE UNCHANGED vars
  BY <1>8 DEF vars, KeepsLists
<1> QED
  BY <1>1, <1>2, <1>3, <1>4, <1>5, <1>6, <1>7, <1>8 DEF Next

-----------------------------------------------------------------------------
(* Every kind of step preserves BackupInv.                                 *)

LEMMA KeepsListsKeeps ==
    ASSUME BackupInv, KeepsLists
    PROVE  BackupInv'
<1> USE DEF BackupInv, KeepsLists, Serving
<1>1. FileWell' /\ ListWell'
  BY DEF FileWell, ListWell
<1>2. Linked'
  BY DEF Linked, NodesOf
<1>3. RebootPending' /\ NoFile' /\ CleanAtBootstrap'
  BY DEF RebootPending, NoFile, CleanAtBootstrap
<1>4. Told'
  BY DEF Told, Present
<1>5. BootstrapOwed'
  BY DEF BootstrapOwed, Present
<1> QED
  BY <1>1, <1>2, <1>3, <1>4, <1>5

LEMMA AddsSavedKeeps ==
    ASSUME TypeInv, BackupInv, AddsSaved
    PROVE  BackupInv'
<1> USE DEF BackupInv, Serving
<1>0. ListsOK
  BY DEF TypeInv, TypeOK, ListsOK
<1>1. PICK code \in EventCode \ {"CONNECTION_REQUEST"}, key \in Key, id \in Nat :
         /\ AddEventBackup(code, key, id)
         /\ pc = "bootstrap" => code = "BOOTSTRAP"
  BY DEF AddsSaved
<1>2. /\ pc \notin Serving \cup {"down", "config", "end"}
      /\ pc' \notin Serving \cup {"down", "bootstrap"}
      /\ UNCHANGED <<fUrl, owed, end_session>>
      /\ "REBOOT" \notin end_session /\ fUrl # None
  BY DEF AddsSaved, RebootPending, NoFile
<1>3. RebootPending' /\ NoFile' /\ CleanAtBootstrap' /\ Told'
  BY <1>2 DEF RebootPending, NoFile, CleanAtBootstrap, Told
<1>4. CASE Refused(events, code)
  <2>1. UNCHANGED <<events, fEvents>> /\ (pc = "bootstrap" => events # {})
    BY <1>1, <1>4 DEF AddEventBackup, listVars, Refused, Present
  <2>2. FileWell' /\ ListWell' /\ Linked'
    BY <1>2, <2>1 DEF FileWell, ListWell, Linked, NodesOf
  <2>3. BootstrapOwed'
    BY <1>2, <2>1 DEF BootstrapOwed, Present, CleanAtBootstrap
  <2> QED
    BY <1>3, <2>2, <2>3
<1>5. CASE ~Refused(events, code)
  <2> DEFINE n == FreshNode(NodesOf(events) \cup NodesOf(fEvents))
             e == NewEvent(code, key, id, n)
  <2>1. n \in Nat \ {0} /\ \A m \in NodesOf(events) \cup NodesOf(fEvents) : m < n
    BY <1>0, FreshNodeType
  <2>2. events' = events \cup {e} /\ fEvents' = fEvents \cup {e}
    BY <1>1, <1>5 DEF AddEventBackup
  <2> HIDE DEF n
  <2>3. e.node = n /\ e.code = code /\ e.key = key
    BY DEF NewEvent
  <2> HIDE DEF e
  <2>4. /\ \A g \in events \cup fEvents : g.node # n /\ g.node \in Nat
        /\ n # 0
    BY <2>1, <1>0 DEF NodesOf, ListsOK, Event
  <2>5. \A f \in fEvents : \E g \in events : g.node = f.node /\ g.code = f.code
    BY <1>2 DEF Linked, ListWell, NodesOf
  <2>6. ASSUME NEW f \in fEvents, code \notin Multiple
        PROVE  f.code # code
    BY <1>5, <2>5, <2>6 DEF Refused, Present
  <2>7. FileWell'
    BY <2>2, <2>3, <2>4, <2>6 DEF FileWell
  <2>8. ListWell'
    BY <2>2, <2>3, <2>4 DEF ListWell
  <2>9. Linked'
    BY <1>2, <2>2, <2>3, <2>4 DEF Linked, NodesOf
  <2>10. BootstrapOwed'
    BY <1>1, <1>2, <2>2, <2>3 DEF BootstrapOwed, Present
  <2> QED
    BY <1>3, <2>7, <2>8, <2>9, <2>10
<1> QED
  BY <1>4, <1>5

LEMMA AddsUnsavedKeeps ==
    ASSUME BackupInv, AddsUnsaved
    PROVE  BackupInv'
<1> USE DEF BackupInv, Serving
<1>1. PICK code \in EventCode : AddEventNoBackup(code)
  BY DEF AddsUnsaved
<1>2. /\ pc = "idle" /\ pc' = "idle" /\ UNCHANGED <<fEvents, fUrl, owed, end_session>>
      /\ events \subseteq events'
      /\ \A e \in events' : e \in events \/ (e = NewEvent(code, NoKey, 0, 0) /\ e.node = 0)
  BY <1>1 DEF AddsUnsaved, AddEventNoBackup, NewEvent
<1>3. FileWell' /\ RebootPending' /\ NoFile' /\ CleanAtBootstrap' /\ Told'
  BY <1>2 DEF FileWell, RebootPending, NoFile, CleanAtBootstrap, Told
<1>4. ListWell'
  BY <1>2 DEF FileWell, ListWell
<1>5. Linked'
  BY <1>2 DEF Linked, NodesOf
<1>6. BootstrapOwed'
  BY <1>2 DEF BootstrapOwed, Present
<1> QED
  BY <1>3, <1>4, <1>5, <1>6

LEMMA RemovesKeeps ==
    ASSUME BackupInv, Removes
    PROVE  BackupInv'
<1> USE DEF BackupInv, Serving
<1>1. /\ BeingRemoved \subseteq events
      /\ \A e \in BeingRemoved : e.code = "BOOTSTRAP" => owed = "no"
  BY RemovedWasTold
<1> HIDE DEF BackupInv
<1>2. PICK gone \in SUBSET events : gone = BeingRemoved
  BY <1>1
<1>3. /\ \A e : e \in events' <=> e \in events /\ e \notin gone
      /\ \A f : f \in fEvents' <=> f \in fEvents /\ ~ \E e \in gone : e.node = f.node
  BY <1>2 DEF Removes, Unlink, NodesOf
<1>4. /\ pc \notin {"down", "config", "bootstrap", "end"}
      /\ \/ pc \in Serving /\ pc' \in Serving \ {"informed"}
         \/ pc \notin Serving /\ pc' = "idle"
      /\ UNCHANGED <<fUrl, owed, end_session, told>>
  BY DEF Removes
<1> USE DEF BackupInv
<1>5. FileWell' /\ ListWell'
  BY <1>3 DEF FileWell, ListWell
<1>6. Linked'
  BY <1>3, <1>4 DEF Linked, ListWell, FileWell, NodesOf, RebootPending
<1>7. RebootPending' /\ NoFile' /\ CleanAtBootstrap'
  BY <1>3, <1>4 DEF RebootPending, NoFile, CleanAtBootstrap
<1>8. Told'
  BY <1>3, <1>4 DEF Told
<1>9. BootstrapOwed'
  BY <1>1, <1>2, <1>3, <1>4 DEF BootstrapOwed, Present, ListWell
<1> QED
  BY <1>5, <1>6, <1>7, <1>8, <1>9

LEMMA LeavesKeeps ==
    ASSUME BackupInv, Leaves \/ Wipes
    PROVE  BackupInv'
<1> USE DEF BackupInv, Serving
<1>1. pc' = "down" /\ events' = {} /\ end_session' = {}
  BY DEF Leaves, Wipes, Exit
<1>2. Linked' /\ RebootPending' /\ Told' /\ CleanAtBootstrap'
  BY <1>1 DEF Linked, RebootPending, Told, CleanAtBootstrap
<1>3. fEvents' \subseteq fEvents
  BY DEF Leaves, Wipes, Unlink
<1>4. FileWell' /\ ListWell'
  BY <1>1, <1>3 DEF FileWell, ListWell
<1>5. CASE Wipes
  BY <1>1, <1>2, <1>4, <1>5 DEF Wipes, NoFile, BootstrapOwed
<1>6. CASE Leaves
  <2>1. NoFile'
    BY <1>1, <1>3, <1>6 DEF Leaves, NoFile
  <2>2. CASE owed' = "lost"
    BY <1>2, <1>4, <2>1, <2>2 DEF BootstrapOwed
  <2>3. CASE owed' = owed /\ pc # "bootstrap"
    <3>1. PICK gone \in SUBSET BeingRemoved : fEvents' = Unlink(fEvents, gone)
      BY <1>6 DEF Leaves
    <3>2. \A e \in gone : e \in events /\ (e.code = "BOOTSTRAP" => owed = "no")
      BY RemovedWasTold
    <3>3. \A f \in fEvents : f \in fEvents' \/ \E e \in gone : e.node = f.node
      BY <3>1 DEF Unlink, NodesOf
    <3>4. fUrl' = fUrl
      BY <1>6 DEF Leaves
    <3>5. BootstrapOwed'
      BY <2>3, <3>2, <3>3, <3>4 DEF BootstrapOwed, Present, ListWell
    <3> QED
      BY <1>2, <1>4, <2>1, <3>5
  <2> QED
    BY <1>6, <2>2, <2>3 DEF Leaves
<1> QED
  BY <1>5, <1>6

\* backup_load_event builds an event for every element of a well formed file.
LEMMA EveryElementLoaded ==
    ASSUME ListsOK, FileWell
    PROVE  /\ \A e \in LoadedEvents(fEvents) : \E f \in fEvents :
                 e = [f EXCEPT !.mid = LoadedId(fEvents, f)]
           /\ \A f \in fEvents : [f EXCEPT !.mid = LoadedId(fEvents, f)]
                                     \in LoadedEvents(fEvents)
<1>1. ASSUME NEW f \in fEvents
      PROVE  f.code \in Multiple
             \/ \A g \in fEvents : g.code = f.code => f.node <= g.node
  BY DEF FileWell, ListsOK, Event
<1> QED
  BY <1>1 DEF LoadedEvents

LEMMA OtherKeeps ==
    ASSUME TypeInv, BackupInv, Other
    PROVE  BackupInv'
<1> USE DEF BackupInv, Serving, listVars, queueVars, timerVars, sessionVars,
            localVars, confVars, boundVars, transferHist, history
<1>0. ListsOK
  BY DEF TypeInv, TypeOK, ListsOK
<1>1. CASE Start
  <2>1. /\ pc = "down" /\ pc' = "config" /\ events' = LoadedEvents(fEvents)
        /\ UNCHANGED <<fEvents, fUrl, owed, told, end_session>>
    BY <1>1 DEF Start
  <2>2. /\ \A e \in events' : \E f \in fEvents :
               e = [f EXCEPT !.mid = LoadedId(fEvents, f)]
        /\ \A f \in fEvents : [f EXCEPT !.mid = LoadedId(fEvents, f)] \in events'
    BY <1>0, <2>1, EveryElementLoaded
  <2>3. \A f \in fEvents : /\ [f EXCEPT !.mid = LoadedId(fEvents, f)].node = f.node
                           /\ [f EXCEPT !.mid = LoadedId(fEvents, f)].code = f.code
                           /\ [f EXCEPT !.mid = LoadedId(fEvents, f)].key = f.key
    BY <1>0 DEF ListsOK, Event
  <2>4. FileWell' /\ RebootPending' /\ Told' /\ CleanAtBootstrap' /\ NoFile'
    BY <2>1 DEF FileWell, RebootPending, Told, CleanAtBootstrap, NoFile
  <2>5. ListWell'
    <3>1. ASSUME NEW e \in events', NEW g \in events', e.node = g.node
          PROVE  e = g
      <4>1. PICK f \in fEvents : e = [f EXCEPT !.mid = LoadedId(fEvents, f)]
        BY <2>2
      <4>2. PICK h \in fEvents : g = [h EXCEPT !.mid = LoadedId(fEvents, h)]
        BY <2>2
      <4>3. f.node = h.node
        BY <2>3, <3>1, <4>1, <4>2
      <4>4. f = h
        BY <4>3 DEF FileWell
      <4> QED
        BY <4>1, <4>2, <4>4
    <3>2. ASSUME NEW e \in events', NEW f \in fEvents, e.node = f.node
          PROVE  e.code = f.code /\ e.key = f.key
      <4>1. PICK h \in fEvents : e = [h EXCEPT !.mid = LoadedId(fEvents, h)]
        BY <2>2
      <4>2. h.node = f.node
        BY <2>3, <3>2, <4>1
      <4>3. h = f
        BY <4>2 DEF FileWell
      <4> QED
        BY <2>3, <4>1, <4>3
    <3> QED
      BY <2>1, <3>1, <3>2 DEF ListWell
  <2>6. Linked'
    <3>1. \A e \in events' : \E f \in fEvents : e.node = f.node
      BY <2>2, <2>3
    <3>2. \A f \in fEvents : \E e \in events' : f.node = e.node
      BY <2>2, <2>3
    <3> QED
      BY <2>1, <3>1, <3>2 DEF Linked, NodesOf
  <2>7. BootstrapOwed'
    BY <2>1 DEF BootstrapOwed, Present
  <2> QED
    BY <2>4, <2>5, <2>6, <2>7
<1>2. CASE NewAcs
  <2>1. /\ events' = {} /\ fEvents' = {} /\ end_session' = {}
        /\ pc' = "bootstrap" /\ fUrl' = conf /\ conf # None
    BY <1>2, NamesAssumption DEF NewAcs, WipeFile, TypeInv, TypeOK
  <2> QED
    BY <2>1 DEF FileWell, ListWell, Linked, RebootPending, Told, NoFile,
                CleanAtBootstrap, BootstrapOwed
<1>3. CASE InformAccepted
  <2>1. /\ pc = "inform" /\ pc' = "informed" /\ told' = events
        /\ owed' = IF Present(events, "BOOTSTRAP") THEN "no" ELSE owed
        /\ UNCHANGED <<events, fEvents, fUrl, end_session>>
    BY <1>3 DEF InformAccepted
  <2>2. FileWell' /\ ListWell' /\ Linked' /\ RebootPending' /\ NoFile'
        /\ CleanAtBootstrap'
    BY <2>1 DEF FileWell, ListWell, Linked, RebootPending, NoFile,
                CleanAtBootstrap, NodesOf
  <2>3. Told' /\ BootstrapOwed'
    BY <2>1 DEF Told, BootstrapOwed, Present
  <2> QED
    BY <2>2, <2>3
<1>4. ASSUME NEW k \in Keys, HandleReboot(k)
      PROVE  BackupInv'
  <2> DEFINE n == FreshNode(NodesOf(events) \cup NodesOf(fEvents))
             e == NewEvent("M_REBOOT", k, 0, n)
  <2>1. n \in Nat \ {0} /\ \A m \in NodesOf(events) \cup NodesOf(fEvents) : m < n
    BY <1>0, FreshNodeType
  <2>2. /\ fEvents' = fEvents \cup {e} /\ pc = "messages"
        /\ UNCHANGED <<pc, events, fUrl, owed, told>>
        /\ "REBOOT" \in end_session'
    BY <1>4 DEF HandleReboot
  <2> HIDE DEF n
  <2>3. e.node = n /\ e.code = "M_REBOOT"
    BY DEF NewEvent
  <2> HIDE DEF e
  <2>4. \A g \in events \cup fEvents : g.node # n
    BY <2>1, <1>0 DEF NodesOf, ListsOK, Event
  <2>5. FileWell'
    BY <2>1, <2>2, <2>3, <2>4 DEF FileWell, Multiple
  <2>6. ListWell'
    BY <2>2, <2>3, <2>4 DEF ListWell
  <2>7. Linked'
    BY <2>2, <2>3 DEF Linked, NodesOf
  <2>8. RebootPending' /\ Told' /\ NoFile' /\ CleanAtBootstrap'
    BY <2>2 DEF RebootPending, Told, NoFile, CleanAtBootstrap, Present
  <2>9. BootstrapOwed'
    BY <2>2 DEF BootstrapOwed, Present
  <2> QED
    BY <2>5, <2>6, <2>7, <2>8, <2>9
<1> QED
  BY <1>1, <1>2, <1>3, <1>4 DEF Other

-----------------------------------------------------------------------------

LEMMA BackupInit == Init => BackupInv
BY DEF Init, BackupInv, FileWell, ListWell, Linked, RebootPending, Told,
       NoFile, CleanAtBootstrap, BootstrapOwed, Serving

LEMMA BackupNext == TypeInv /\ BackupInv /\ [Next]_vars => BackupInv'
BY Kinds, KeepsListsKeeps, AddsSavedKeeps, AddsUnsavedKeeps, RemovesKeeps,
   LeavesKeeps, OtherKeeps

LEMMA BackupInvariant == Spec => []BackupInv
<1>1. Init => BackupInv
  BY BackupInit
<1>2. TypeInv /\ BackupInv /\ [Next]_vars => BackupInv'
  BY BackupNext
<1> QED
  BY <1>1, <1>2, TypeInvariant, PTL DEF Spec

\* Between handlers the event list and the download queue agree with their
\* copies in the backup file, whatever crashes, restarts and sessions came
\* before (cwmp_add_event, cwmp_remove_event, backup_load_event).
THEOREM BackupInStep == Spec => []BackupAgrees
<1>1. ASSUME TypeInv, BackupInv
      PROVE  BackupAgrees
  <2> SUFFICES ASSUME pc = "idle" PROVE BackupAgrees
    BY <1>1 DEF BackupAgrees
  <2>1. downloads = fDownloads
    BY <1>1 DEF TypeInv, Slots
  <2>2. \A e \in events, f \in fEvents :
            e.node = f.node => e.code = f.code /\ e.key = f.key
    BY <1>1 DEF BackupInv, ListWell
  <2>3. NodesOf(fEvents) = NodesOf(events) \ {0}
    BY <1>1 DEF BackupInv, Linked, RebootPending, FileWell, NodesOf, Serving
  <2> QED
    BY <2>1, <2>2, <2>3 DEF BackupAgrees
<1> QED
  BY <1>1, TypeInvariant, BackupInvariant, PTL

\* Once the first save of backup_add_acsurl is done, only an accepted Inform
\* that carries the event, another ACS, the loss of the file or a crash
\* between its two saves ends the debt of a BOOTSTRAP event.
THEOREM BootstrapStaysOwed == Spec => []BootstrapOwed
<1>1. BackupInv => BootstrapOwed
  BY DEF BackupInv
<1> QED
  BY <1>1, BackupInvariant, PTL

\* An event leaves the backup file of an ACS only if the Inform accepted in
\* this session carried it (cwmp_remove_event, cwmp_retry_session), even
\* when a crash interrupts the removal.
THEOREM NothingForgottenUntold == Spec => ForgetOnlyTold
<1> DEFINE A == \A f \in fEvents : f \notin fEvents' /\ fUrl' = fUrl
                                       => f.node \in NodesOf(told)
<1>1. ASSUME TypeInv, BackupInv, [Next]_vars
      PROVE  A
  <2> SUFFICES ASSUME NEW f \in fEvents, f \notin fEvents', fUrl' = fUrl
               PROVE  f.node \in NodesOf(told)
    OBVIOUS
  <2>1. f.node # 0 /\ f.code # "CONNECTION_REQUEST"
    BY <1>1 DEF BackupInv, FileWell
  <2>2. ASSUME NEW gone \in SUBSET BeingRemoved, fEvents' = Unlink(fEvents, gone)
        PROVE  f.node \in NodesOf(told)
    <3>1. PICK e \in gone : e.node = f.node
      BY <2>2 DEF Unlink, NodesOf
    <3>2. e \in events /\ (e \in told \/ e.code = "CONNECTION_REQUEST")
      BY <1>1, RemovedWasTold
    <3>3. e.code = f.code
      BY <1>1, <3>1, <3>2 DEF BackupInv, ListWell
    <3> QED
      BY <2>1, <3>1, <3>2, <3>3 DEF NodesOf
  <2>3. CASE KeepsLists \/ AddsUnsaved
    BY <2>3 DEF KeepsLists, AddsUnsaved, AddEventNoBackup
  <2>4. CASE AddsSaved
    BY <2>4 DEF AddsSaved, AddEventBackup, listVars
  <2>5. CASE Removes
    BY <2>2, <2>5 DEF Removes
  <2>6. CASE Leaves
    BY <2>2, <2>6 DEF Leaves
  <2>7. CASE Wipes
    BY <1>1, <2>7 DEF Wipes, BackupInv, NoFile
  <2>8. CASE Other
    BY <2>8 DEF Other, Start, NewAcs, InformAccepted, HandleReboot, listVars
  <2> QED
    BY <1>1, <2>3, <2>4, <2>5, <2>6, <2>7, <2>8, Kinds
<1>2. TypeInv /\ BackupInv /\ [Next]_vars => [A]_vars
  BY <1>1
<1> QED
  BY <1>2, TypeInvariant, BackupInvariant, PTL DEF Spec, ForgetOnlyTold

====
