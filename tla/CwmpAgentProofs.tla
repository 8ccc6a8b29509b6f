-------------------------- MODULE CwmpAgentProofs ---------------------------
(***************************************************************************)
(* Proofs about CwmpAgent, for every set of downloads, keys and URLs and   *)
(* every bound: type correctness, the accounting of download slots.        *)
(***************************************************************************)
EXTENDS CwmpAgent, SequenceTheorems, FiniteSetTheorems,
        WellFoundedInduction, TLAPS

\* The numbers of the elements of the backup file have an upper bound, so
\* that FreshNode is a number.
NodesBounded ==
    \E b \in Nat : \A n \in NodesOf(events) \cup NodesOf(fEvents) : n <= b

ListsOK == events \subseteq Event /\ fEvents \subseteq Event /\ NodesBounded

Launching == {"launch", "dl_remove", "dl_record", "dl_event", "dl_key",
              "dl_apply", "dl_fault", "dl_time"}

\* What the local variables of a handler hold while it runs.
Locals ==
    /\ pc \in Launching => cur \in Downloads
    /\ pc \in {"launch", "dl_remove"} => cur \in fDownloads
    /\ pc = "scheduled" => cur \in Keys
    /\ pc = "tc_answered" => fTcs # << >>
    /\ pc \in Launching \ {"launch", "dl_remove", "dl_record"} => fTcs # << >>
    /\ pc = "end" => ret \in {"ok_done", "err_done"}
    /\ pc \in {"ok_done", "err_done"} => ret = pc

\* The download queue, its counter and its backup.
Slots ==
    /\ \A d \in fDownloads : fate[d] # "none"
    /\ Cardinality(fDownloads) <= MAX_DOWNLOAD
    /\ pc # "down" => /\ downloads = fDownloads
                      /\ download_count = Cardinality(fDownloads)

TypeInv == TypeOK /\ NodesBounded /\ Locals /\ Slots

-----------------------------------------------------------------------------
(* Facts about the operators of CwmpEvents.                                *)

\* A non-empty set of naturals has a least element.
LEMMA LeastExists ==
    ASSUME NEW S \in SUBSET Nat, S # {}
    PROVE  \E x \in S : \A y \in S : x <= y
<1> DEFINE R == {ss \in Nat \X Nat : ss[1] < ss[2]}
<1>1. IsWellFoundedOn(R, Nat)
  BY NatLessThanWellFounded DEF OpToRel
<1>2. PICK x \in S : \A y \in S : ~ (<<y, x>> \in R)
  <2> HIDE DEF R
  <2> QED BY <1>1, WFMin
<1>3. ASSUME NEW y \in S PROVE x <= y
  <2>1. <<y, x>> \notin R /\ <<y, x>> \in Nat \X Nat
    BY <1>2
  <2>2. ~ (y < x)
    BY <2>1
  <2> QED
    BY <2>2
<1> QED
  BY <1>3

\* A non-empty bounded set of naturals has a greatest element (used for the
\* number of the last element of the backup document).
LEMMA GreatestExists ==
    ASSUME NEW S \in SUBSET Nat, S # {},
           NEW b \in Nat, \A n \in S : n <= b
    PROVE  \E x \in S : \A y \in S : x >= y
<1> DEFINE T == {b - n : n \in S}
<1>1. T \in SUBSET Nat
  OBVIOUS
<1>2. T # {}
  OBVIOUS
<1>3. PICK t \in T : \A u \in T : t <= u
  <2> HIDE DEF T
  <2> QED BY <1>1, <1>2, LeastExists
<1>4. PICK x \in S : t = b - x
  BY <1>3
<1>5. ASSUME NEW y \in S PROVE x >= y
  <2>1. t <= b - y
    BY <1>3
  <2> QED
    BY <2>1, <1>4
<1> QED
  BY <1>5

\* FreshNode numbers an element above all those of the document.
LEMMA FreshNodeAbove ==
    ASSUME NEW S \in SUBSET Nat, NEW b \in Nat, \A n \in S : n <= b
    PROVE  /\ FreshNode(S) \in Nat \ {0}
           /\ \A n \in S : n < FreshNode(S)
<1> DEFINE T == S \cup {0}
<1>a. T \in SUBSET Nat /\ T # {} /\ \A n \in T : n <= b
  OBVIOUS
<1>1. \E x \in T : \A y \in T : x >= y
  <2> HIDE DEF T
  <2> QED BY <1>a, GreatestExists
<1>2. Max(T) \in T /\ \A y \in T : Max(T) >= y
  <2> HIDE DEF T
  <2> QED BY <1>1 DEF Max
<1>3. Max(T) \in Nat
  <2> HIDE DEF T
  <2> QED BY <1>2, <1>a
<1> QED
  BY <1>2, <1>3 DEF FreshNode

-----------------------------------------------------------------------------
(* The operations on the event list.                                       *)

\* A number above all elements of the list and of the file.
LEMMA FreshNodeType ==
    ASSUME ListsOK
    PROVE  LET n == FreshNode(NodesOf(events) \cup NodesOf(fEvents))
           IN  /\ n \in Nat \ {0}
               /\ \A m \in NodesOf(events) \cup NodesOf(fEvents) : m < n
<1> DEFINE S == NodesOf(events) \cup NodesOf(fEvents)
<1>1. S \in SUBSET Nat
  BY DEF ListsOK, NodesOf, Event
<1>2. PICK b \in Nat : \A n \in S : n <= b
  BY DEF ListsOK, NodesBounded
<1> HIDE DEF S
<1>3. FreshNode(S) \in Nat \ {0} /\ \A m \in S : m < FreshNode(S)
  BY <1>1, <1>2, FreshNodeAbove
<1> QED
  BY <1>3 DEF S

\* cwmp_add_event with EVENT_BACKUP keeps the lists well formed.
LEMMA AddEventBackupType ==
    ASSUME ListsOK, NEW code \in EventCode, NEW key \in Key, NEW id \in Nat,
           AddEventBackup(code, key, id)
    PROVE  ListsOK'
<1> DEFINE n == FreshNode(NodesOf(events) \cup NodesOf(fEvents))
           e == NewEvent(code, key, id, n)
<1>1. CASE Refused(events, code)
  BY <1>1 DEF AddEventBackup, listVars, ListsOK, NodesBounded
<1>2. CASE ~Refused(events, code)
  <2>1. n \in Nat \ {0} /\ \A m \in NodesOf(events) \cup NodesOf(fEvents) : m < n
    BY FreshNodeType
  <2>2. events' = events \cup {e} /\ fEvents' = fEvents \cup {e}
    BY <1>2 DEF AddEventBackup
  <2> HIDE DEF n
  <2>3. e \in Event /\ e.node = n
    BY <2>1 DEF NewEvent, Event
  <2> HIDE DEF e
  <2>4. \A m \in NodesOf(events') \cup NodesOf(fEvents') : m <= n
    BY <2>1, <2>2, <2>3 DEF NodesOf, ListsOK, Event
  <2> QED
    BY <2>1, <2>2, <2>3, <2>4 DEF ListsOK, NodesBounded
<1> QED
  BY <1>1, <1>2

\* cwmp_add_event with EVENT_NO_BACKUP keeps the lists well formed.
LEMMA AddEventNoBackupType ==
    ASSUME ListsOK, NEW code \in EventCode, AddEventNoBackup(code)
    PROVE  ListsOK'
<1> DEFINE e == NewEvent(code, NoKey, 0, 0)
<1>1. e \in Event /\ e.node = 0
  BY DEF NewEvent, Event, Key
<1>2. events' \subseteq events \cup {e} /\ fEvents' = fEvents
  BY DEF AddEventNoBackup
<1> HIDE DEF e
<1>3. PICK b \in Nat : \A n \in NodesOf(events) \cup NodesOf(fEvents) : n <= b
  BY DEF ListsOK, NodesBounded
<1>4. \A n \in NodesOf(events') \cup NodesOf(fEvents') : n <= b
  BY <1>1, <1>2, <1>3 DEF NodesOf
<1> QED
  BY <1>1, <1>2, <1>4 DEF ListsOK, NodesBounded

\* Shrinking the lists keeps them well formed.
LEMMA FewerEventsType ==
    ASSUME ListsOK, events' \subseteq events, fEvents' \subseteq fEvents
    PROVE  ListsOK'
<1>1. PICK b \in Nat : \A n \in NodesOf(events) \cup NodesOf(fEvents) : n <= b
  BY DEF ListsOK, NodesBounded
<1>2. \A n \in NodesOf(events') \cup NodesOf(fEvents') : n <= b
  BY <1>1 DEF NodesOf
<1> QED
  BY <1>2 DEF ListsOK, NodesBounded

\* cwmp_remove_event only deletes.
LEMMA RemoveEventShrinks ==
    ASSUME NEW policy, NEW id, RemoveEvent(policy, id)
    PROVE  events' \subseteq events /\ fEvents' \subseteq fEvents
BY DEF RemoveEvent, Unlink

\* The method_id backup_load_event gives to an event is one of the file's.
LEMMA LoadedIdType ==
    ASSUME ListsOK, NEW e \in fEvents
    PROVE  LoadedId(fEvents, e) \in Nat
<1> DEFINE read == {f \in fEvents : f.mid # 0 /\ f.node <= e.node}
<1>1. CASE read = {}
  BY <1>1 DEF LoadedId
<1>2. CASE read # {}
  <2> DEFINE S == {f.node : f \in read}
  <2>1. S \in SUBSET Nat /\ S # {} /\ e.node \in Nat /\ \A n \in S : n <= e.node
    BY <1>2 DEF ListsOK, Event
  <2>2. \E n \in S : \A m \in S : n >= m
    <3> HIDE DEF S
    <3> QED
      BY <2>1, GreatestExists
  <2>3. \E f \in read : \A g \in read : g.node <= f.node
    BY <2>1, <2>2
  <2> DEFINE last == CHOOSE f \in read : \A g \in read : g.node <= f.node
  <2>4. last \in read
    <3> HIDE DEF read
    <3> QED
      BY <2>3
  <2>5. LoadedId(fEvents, e) = last.mid
    BY <1>2 DEF LoadedId
  <2> QED
    BY <2>4, <2>5 DEF ListsOK, Event
<1> QED
  BY <1>1, <1>2

\* backup_load_event builds a well formed list.
LEMMA LoadedEventsType ==
    ASSUME ListsOK
    PROVE  /\ LoadedEvents(fEvents) \subseteq Event
           /\ NodesOf(LoadedEvents(fEvents)) \subseteq NodesOf(fEvents)
<1>1. ASSUME NEW x \in LoadedEvents(fEvents)
      PROVE  x \in Event /\ x.node \in NodesOf(fEvents)
  <2>1. PICK e \in fEvents : x = [e EXCEPT !.mid = LoadedId(fEvents, e)]
    BY <1>1 DEF LoadedEvents
  <2>2. LoadedId(fEvents, e) \in Nat
    BY LoadedIdType
  <2>3. e \in Event
    BY DEF ListsOK
  <2> QED
    BY <2>1, <2>2, <2>3 DEF Event, NodesOf
<1> QED
  BY <1>1 DEF NodesOf

-----------------------------------------------------------------------------
(* Sequences of TransferComplete reports.                                  *)

\* The completion times written at start.
LEMMA AllCompleteTimesType ==
    ASSUME NEW tcs \in Seq(Transfer)
    PROVE  AllCompleteTimes(tcs) \in Seq(Transfer)
<1>1. tcs \in [1..Len(tcs) -> Transfer] /\ Len(tcs) \in Nat
  BY LenProperties
<1>2. AllCompleteTimes(tcs) \in [1..Len(tcs) -> Transfer]
  BY <1>1 DEF AllCompleteTimes, Transfer
<1> QED
  BY <1>1, <1>2, SeqDef

\* Updates of the last report of the file.
LEMMA LastReportType ==
    ASSUME NEW tcs \in Seq(Transfer), tcs # << >>
    PROVE  /\ FaultOnLast(tcs) \in Seq(Transfer) /\ FaultOnLast(tcs) # << >>
           /\ [tcs EXCEPT ![Len(tcs)].time = TRUE] \in Seq(Transfer)
           /\ DropReport(tcs) \in Seq(Transfer)
           /\ tcs[1] \in Transfer
<1>1. tcs \in [1..Len(tcs) -> Transfer] /\ Len(tcs) \in Nat \ {0}
  BY LenProperties, EmptySeq
<1>2. FaultOnLast(tcs) \in [1..Len(tcs) -> Transfer]
  BY <1>1 DEF FaultOnLast, Transfer
<1>3. [tcs EXCEPT ![Len(tcs)].time = TRUE] \in [1..Len(tcs) -> Transfer]
  BY <1>1 DEF Transfer
<1>4. FaultOnLast(tcs) # << >>
  BY <1>1 DEF FaultOnLast
<1>5. DropReport(tcs) \in Seq(Transfer)
  BY HeadTailProperties DEF DropReport
<1> QED
  BY <1>1, <1>2, <1>3, <1>4, <1>5, SeqDef

-----------------------------------------------------------------------------
(* The download queue.                                                     *)

\* Any part of the set of downloads has a cardinality.
LEMMA DownloadsFinite ==
    ASSUME NEW S \in SUBSET Downloads
    PROVE  IsFiniteSet(S) /\ Cardinality(S) \in Nat
BY NamesAssumption, FS_Subset, FS_CardinalityType

\* The reports of the file are about downloads.
LEMMA UnreportedType ==
    ASSUME TypeOK
    PROVE  Unreported \subseteq Downloads
<1>1. fTcs \in [1..Len(fTcs) -> Transfer] /\ DOMAIN fTcs = 1..Len(fTcs)
  BY LenProperties DEF TypeOK
<1>2. Recorded(fTcs) \subseteq Downloads
  BY <1>1 DEF Recorded, Transfer
<1> QED
  BY <1>2 DEF Unreported, TypeOK

-----------------------------------------------------------------------------
(* Every action preserves TypeInv.                                         *)

\* main(), config_load.
LEMMA BootType ==
    ASSUME TypeInv, Boot
    PROVE  TypeInv'
<1> USE DEF listVars, queueVars, timerVars, sessionVars, localVars, confVars,
            boundVars, transferHist, history
<1>0. ListsOK
  BY DEF TypeInv, TypeOK, ListsOK
<1>1. CASE Start
  <2>1. ListsOK'
    <3>1. events' = LoadedEvents(fEvents) /\ fEvents' = fEvents
      BY <1>1 DEF Start
    <3>2. PICK b \in Nat : \A n \in NodesOf(events) \cup NodesOf(fEvents) : n <= b
      BY DEF TypeInv, NodesBounded
    <3>3. \A n \in NodesOf(events') \cup NodesOf(fEvents') : n <= b
      BY <1>0, <3>1, <3>2, LoadedEventsType
    <3> QED
      BY <1>0, <3>1, <3>3, LoadedEventsType DEF ListsOK, NodesBounded
  <2>2. fTcs' \in Seq(Transfer)
    BY <1>1, AllCompleteTimesType DEF Start, TypeInv, TypeOK
  <2>3. Cardinality(fDownloads) \in Nat
    BY DownloadsFinite DEF TypeInv, TypeOK
  <2>4. TypeOK'
    BY <1>1, <2>1, <2>2, <2>3 DEF Start, TypeInv, TypeOK, ListsOK, PC, Returns
  <2>5. Locals' /\ Slots'
    BY <1>1 DEF Start, TypeInv, Locals, Slots, Launching
  <2> QED
    BY <2>1, <2>4, <2>5 DEF TypeInv, ListsOK
<1>2. CASE SameAcs
  BY <1>2 DEF SameAcs, TypeInv, TypeOK, NodesBounded, Locals, Slots, PC,
     Returns, Launching
<1>3. CASE NewAcs
  <2>1. ListsOK'
    BY <1>3, <1>0, FewerEventsType DEF NewAcs, WipeFile
  <2>2. lost' \subseteq Downloads
    BY <1>3, UnreportedType DEF NewAcs, WipeFile, TypeInv, TypeOK
  <2>3. TypeOK'
    BY <1>3, <2>1, <2>2, EmptySeq DEF NewAcs, WipeFile, TypeInv, TypeOK,
       ListsOK, PC
  <2>4. Locals' /\ Slots'
    BY <1>3, FS_EmptySet, BoundsAssumption
    DEF NewAcs, WipeFile, TypeInv, Locals, Slots, Launching
  <2> QED
    BY <2>1, <2>3, <2>4 DEF TypeInv, ListsOK
<1>4. CASE AddBootstrap
  <2>1. ListsOK'
    BY <1>4, <1>0, AddEventBackupType DEF AddBootstrap, EventCode, Key
  <2> QED
    BY <1>4, <2>1
    DEF AddBootstrap, TypeInv, TypeOK, ListsOK, Locals, Slots, PC, Returns,
       Launching
<1>5. CASE AddBoot
  <2>1. ListsOK'
    BY <1>5, <1>0, AddEventBackupType DEF AddBoot, EventCode, Key
  <2> QED
    BY <1>5, <2>1
    DEF AddBoot, TypeInv, TypeOK, ListsOK, Locals, Slots, PC, Returns,
       Launching
<1>6. CASE StartGetRpcMethods
  <2>1. ListsOK'
    BY <1>6, <1>0, AddEventBackupType DEF StartGetRpcMethods, EventCode, Key
  <2> QED
    BY <1>6, <2>1
    DEF StartGetRpcMethods, TypeInv, TypeOK, ListsOK, Locals, Slots, PC,
       Returns, Launching
<1> QED
  BY <1>1, <1>2, <1>3, <1>4, <1>5, <1>6 DEF Boot

\* Timers and requests between sessions.
LEMMA IdleType ==
    ASSUME TypeInv, Idle
    PROVE  TypeInv'
<1> USE DEF listVars, queueVars, timerVars, sessionVars, localVars, confVars,
            boundVars, transferHist, history
<1>0. ListsOK
  BY DEF TypeInv, TypeOK, ListsOK
<1>1. CASE StartSession
  <2>1. /\ pc = "idle" /\ pc' = "inform" /\ retry' = FALSE
        /\ inform' = FALSE \/ inform' = inform
        /\ UNCHANGED <<ret, listVars, queueVars, scheduled, sessionVars,
                       method_id, localVars, fTcs, confVars, history, boundVars>>
    BY <1>1 DEF StartSession
  <2>2. TypeOK'
    BY <2>1 DEF TypeInv, TypeOK, PC
  <2>3. NodesBounded' /\ Locals' /\ Slots'
    BY <2>1 DEF TypeInv, NodesBounded, Locals, Slots, Launching
  <2> QED
    BY <2>2, <2>3 DEF TypeInv
<1>2. CASE PeriodicInform
  <2>1. ListsOK'
    BY <1>2, <1>0, AddEventBackupType DEF PeriodicInform, EventCode, Key
  <2> QED
    BY <1>2, <2>1
    DEF PeriodicInform, TypeInv, TypeOK, ListsOK, Locals, Slots, PC, Returns,
       Launching
<1>3. CASE Reload
  BY <1>3 DEF Reload, TypeInv, TypeOK, NodesBounded, Locals, Slots, PC,
     Returns, Launching
<1>4. ASSUME NEW c \in RequestCodes, ConnectionRequest(c)
      PROVE  TypeInv'
  <2>1. c \in EventCode
    BY NamesAssumption
  <2>2. ListsOK'
    BY <1>4, <1>0, <2>1, AddEventNoBackupType DEF ConnectionRequest
  <2> QED
    BY <1>4, <2>2
    DEF ConnectionRequest, TypeInv, TypeOK, ListsOK, Locals, Slots, PC,
       Returns, Launching
<1>5. ASSUME NEW a \in BOOLEAN, Notify(a)
      PROVE  TypeInv'
  <2>1. ListsOK'
    BY <1>5, <1>0, AddEventNoBackupType DEF Notify, EventCode
  <2>2. inform' \in BOOLEAN
    BY <1>5 DEF Notify
  <2> QED
    BY <1>5, <2>1, <2>2
    DEF Notify, TypeInv, TypeOK, ListsOK, Locals, Slots, PC, Returns, Launching
<1>6. ASSUME NEW k \in Keys, ScheduledInform(k)
      PROVE  TypeInv'
  <2>1. ListsOK'
    BY <1>6, <1>0, AddEventBackupType DEF ScheduledInform, EventCode, Key
  <2> QED
    BY <1>6, <2>1
    DEF ScheduledInform, TypeInv, TypeOK, ListsOK, Locals, Slots, PC, Returns,
       Launching
<1>7. CASE AddScheduleKey
  <2>1. cur \in Key
    BY <1>7 DEF AddScheduleKey, TypeInv, Locals, Key
  <2>2. ListsOK'
    BY <1>7, <1>0, <2>1, AddEventBackupType DEF AddScheduleKey, EventCode
  <2> QED
    BY <1>7, <2>2
    DEF AddScheduleKey, TypeInv, TypeOK, ListsOK, Locals, Slots, PC, Returns,
       Launching
<1> QED
  BY <1>1, <1>2, <1>3, <1>4, <1>5, <1>6, <1>7 DEF Idle

\* The exchanges of a session and the removals they cause.
LEMMA SessionType ==
    ASSUME TypeInv, Session
    PROVE  TypeInv'
<1> USE DEF listVars, queueVars, timerVars, sessionVars, localVars, confVars,
            boundVars, transferHist, history
<1>0. ListsOK
  BY DEF TypeInv, TypeOK, ListsOK
<1>1. CASE InformFails
  BY <1>1 DEF InformFails, Fail, TypeInv, TypeOK, NodesBounded, Locals, Slots,
     PC, Returns, Launching
<1>2. CASE InformAccepted
  BY <1>2 DEF InformAccepted, TypeInv, TypeOK, NodesBounded, Locals, Slots,
     PC, Returns, Launching
<1>3. CASE RemoveInformed
  <2>1. ListsOK'
    BY <1>3, <1>0, RemoveEventShrinks, FewerEventsType DEF RemoveInformed
  <2> QED
    BY <1>3, <2>1
    DEF RemoveInformed, TypeInv, TypeOK, ListsOK, Locals, Slots, PC, Returns,
       Launching
<1>4. CASE TransferCompleteAnswered
  <2>1. fTcs[1] \in Transfer
    BY <1>4, LastReportType DEF TransferCompleteAnswered, TypeInv, TypeOK
  <2>2. reported' \in [Downloads -> {"none", "ok", "fail"}] /\ mid' \in Nat
    BY <1>4, <2>1 DEF TransferCompleteAnswered, TypeInv, TypeOK, Transfer
  <2> QED
    BY <1>4, <2>2
    DEF TransferCompleteAnswered, TypeInv, TypeOK, NodesBounded, Locals,
       Slots, PC, Returns, Launching
<1>5. CASE TransferCompleteFails
  <2>1. fTcs[1] \in Transfer
    BY <1>5, LastReportType DEF TransferCompleteFails, TypeInv, TypeOK
  <2>2. reported' \in [Downloads -> {"none", "ok", "fail"}]
    BY <1>5, <2>1 DEF TransferCompleteFails, TypeInv, TypeOK, Transfer
  <2> QED
    BY <1>5, <2>2
    DEF TransferCompleteFails, Fail, TypeInv, TypeOK, NodesBounded, Locals,
       Slots, PC, Returns, Launching
<1>6. CASE RemoveTransferComplete
  <2>1. fTcs' \in Seq(Transfer)
    BY <1>6, LastReportType DEF RemoveTransferComplete, TypeInv, TypeOK, Locals
  <2> QED
    BY <1>6, <2>1
    DEF RemoveTransferComplete, TypeInv, TypeOK, NodesBounded, Locals, Slots,
       PC, Returns, Launching
<1>7. CASE RemoveTransferEvents
  <2>1. ListsOK'
    BY <1>7, <1>0, RemoveEventShrinks, FewerEventsType DEF RemoveTransferEvents
  <2> QED
    BY <1>7, <2>1
    DEF RemoveTransferEvents, TypeInv, TypeOK, ListsOK, Locals, Slots, PC,
       Returns, Launching
<1>8. CASE RemoveLastTransferEvents
  <2>1. ListsOK'
    BY <1>8, <1>0, RemoveEventShrinks, FewerEventsType
       DEF RemoveLastTransferEvents
  <2> QED
    BY <1>8, <2>1
    DEF RemoveLastTransferEvents, TypeInv, TypeOK, ListsOK, Locals, Slots, PC,
       Returns, Launching
<1>9. CASE GetRpcMethodsAnswered
  BY <1>9, ZenonT(60) DEF GetRpcMethodsAnswered, TypeInv, TypeOK,
     NodesBounded, Locals, Slots, PC, Returns, Launching
<1>10. CASE GetRpcMethodsFails
  BY <1>10 DEF GetRpcMethodsFails, Fail, TypeInv, TypeOK, NodesBounded,
     Locals, Slots, PC, Returns, Launching
<1>11. CASE NoRequest
  BY <1>11 DEF NoRequest, TypeInv, TypeOK, NodesBounded, Locals, Slots, PC,
     Returns, Launching
<1>12. CASE EmptyMessage
  <2>1. \/ pc' = "requests" /\ ret' = ret
        \/ pc' = "end" /\ ret' = "ok_done"
    BY <1>12, Zenon DEF EmptyMessage
  <2>2. /\ pc = "messages" /\ hold_requests' = FALSE
        /\ UNCHANGED <<listVars, queueVars, scheduled, timerVars, retry_count,
                       get_rpc_methods, end_session, method_id, localVars,
                       fTcs, confVars, history, boundVars>>
    BY <1>12, Zenon DEF EmptyMessage
  <2>3. TypeOK'
    BY <2>1, <2>2, ZenonT(60) DEF TypeInv, TypeOK, PC, Returns
  <2>4. NodesBounded'
    BY <2>2 DEF TypeInv, NodesBounded
  <2>5. Locals'
    BY <2>1, <2>2 DEF TypeInv, Locals, Launching
  <2>6. Slots'
    BY <2>1, <2>2 DEF TypeInv, Slots
  <2> QED
    BY <2>3, <2>4, <2>5, <2>6 DEF TypeInv
<1>13. CASE MessagesFail
  BY <1>13 DEF MessagesFail, Fail, TypeInv, TypeOK, NodesBounded, Locals,
     Slots, PC, Returns, Launching
<1> QED
  BY <1>1, <1>2, <1>3, <1>4, <1>5, <1>6, <1>7, <1>8, <1>9, <1>10, <1>11,
     <1>12, <1>13 DEF Session

\* The requests of the ACS.
LEMMA RpcType ==
    ASSUME TypeInv, Rpc
    PROVE  TypeInv'
<1> USE DEF listVars, queueVars, timerVars, sessionVars, localVars, confVars,
            boundVars, transferHist, history
<1>0. ListsOK
  BY DEF TypeInv, TypeOK, ListsOK
<1>1. ASSUME NEW d \in Downloads, HandleDownload(d)
      PROVE  TypeInv'
  <2>1. d \notin fDownloads /\ IsFiniteSet(fDownloads) /\ Cardinality(fDownloads) \in Nat
    BY <1>1, DownloadsFinite DEF HandleDownload, TypeInv, TypeOK, Slots
  <2>2. Cardinality(fDownloads') = Cardinality(fDownloads) + 1
    BY <1>1, <2>1, FS_AddElement DEF HandleDownload, AddDownload
  <2>3. Slots'
    BY <1>1, <2>1, <2>2, BoundsAssumption
    DEF HandleDownload, AddDownload, SlotFree, TypeInv, TypeOK, Slots
  <2>4. TypeOK'
    BY <1>1 DEF HandleDownload, AddDownload, TypeInv, TypeOK
  <2>5. NodesBounded' /\ Locals'
    BY <1>1 DEF HandleDownload, AddDownload, TypeInv, NodesBounded, Locals,
       Launching
  <2> QED
    BY <2>3, <2>4, <2>5 DEF TypeInv
<1>2. ASSUME NEW k \in Keys, HandleScheduleInform(k)
      PROVE  TypeInv'
  BY <1>2 DEF HandleScheduleInform, TypeInv, TypeOK, NodesBounded, Locals,
     Slots, Launching
<1>3. ASSUME NEW k \in Keys, HandleReboot(k)
      PROVE  TypeInv'
  <2> DEFINE n == FreshNode(NodesOf(events) \cup NodesOf(fEvents))
             e == NewEvent("M_REBOOT", k, 0, n)
  <2>1. n \in Nat \ {0} /\ \A m \in NodesOf(events) \cup NodesOf(fEvents) : m < n
    BY <1>0, FreshNodeType
  <2>2. events' = events /\ fEvents' = fEvents \cup {e}
    BY <1>3 DEF HandleReboot
  <2> HIDE DEF n
  <2>3. e \in Event /\ e.node = n
    BY <2>1 DEF NewEvent, Event, EventCode, Key
  <2> HIDE DEF e
  <2>4. \A m \in NodesOf(events') \cup NodesOf(fEvents') : m <= n
    BY <1>0, <2>1, <2>2, <2>3 DEF NodesOf, ListsOK, Event
  <2>5. ListsOK'
    BY <1>0, <2>1, <2>2, <2>3, <2>4 DEF ListsOK, NodesBounded
  <2> QED
    BY <1>3, <2>5, ZenonT(60)
    DEF HandleReboot, TypeInv, TypeOK, ListsOK, Locals, Slots, Launching
<1>4. CASE HandleFactoryReset
  BY <1>4 DEF HandleFactoryReset, TypeInv, TypeOK, NodesBounded, Locals,
     Slots, Launching
<1>5. ASSUME NEW u \in Urls, HandleSetParameterValues(u)
      PROVE  TypeInv'
  BY <1>5 DEF HandleSetParameterValues, TypeInv, TypeOK, NodesBounded, Locals,
     Slots, Launching
<1> QED
  BY <1>1, <1>2, <1>3, <1>4, <1>5 DEF Rpc

\* The end of a session.
LEMMA EndType ==
    ASSUME TypeInv, End
    PROVE  TypeInv'
<1> USE DEF listVars, queueVars, timerVars, sessionVars, localVars, confVars,
            boundVars, transferHist, history
<1>0. ListsOK
  BY DEF TypeInv, TypeOK, ListsOK
<1>1. CASE EndFactoryReset
  <2>1. ListsOK'
    BY <1>1, <1>0, FewerEventsType DEF EndFactoryReset, Exit, WipeFile
  <2>2. lost' \subseteq Downloads
    BY <1>1, UnreportedType DEF EndFactoryReset, WipeFile, TypeInv, TypeOK
  <2>3. TypeOK'
    BY <1>1, <2>1, <2>2, EmptySeq
    DEF EndFactoryReset, WipeFile, Exit, TypeInv, TypeOK, ListsOK, PC, Returns
  <2>4. Locals' /\ Slots'
    BY <1>1, FS_EmptySet, BoundsAssumption
    DEF EndFactoryReset, WipeFile, Exit, Locals, Slots, Launching
  <2> QED
    BY <2>1, <2>3, <2>4 DEF TypeInv, ListsOK
<1>2. CASE EndReboot
  <2>1. ListsOK'
    BY <1>2, <1>0, FewerEventsType DEF EndReboot, Exit
  <2> QED
    BY <1>2, <2>1 DEF EndReboot, Exit, TypeInv, TypeOK, ListsOK, Locals,
       Slots, PC, Returns, Launching
<1>3. CASE EndSession
  BY <1>3 DEF EndSession, TypeInv, TypeOK, NodesBounded, Locals, Slots, PC,
     Returns, Launching
<1>4. CASE SessionDone
  BY <1>4 DEF SessionDone, TypeInv, TypeOK, NodesBounded, Locals, Slots, PC,
     Returns, Launching
<1>5. CASE RetrySession
  <2>1. ListsOK'
    BY <1>5, <1>0, RemoveEventShrinks, FewerEventsType DEF RetrySession
  <2>2. \/ retry_count' = retry_count /\ retry' = retry
        \/ retry_count' = retry_count + 1 /\ retry' = TRUE
    BY <1>5, Zenon DEF RetrySession
  <2>3. /\ pc = "err_done" /\ pc' = "idle"
        /\ UNCHANGED <<ret, queueVars, scheduled, inform, get_rpc_methods,
                       hold_requests, end_session, method_id, localVars, fTcs,
                       confVars, history, boundVars>>
    BY <1>5, Zenon DEF RetrySession
  <2>4. retry' \in BOOLEAN
    BY <2>2, Zenon DEF TypeInv, TypeOK
  <2>5. retry_count' = retry_count \/ retry_count' = retry_count + 1
    BY <2>2, Zenon
  <2>6. retry_count' \in Nat
    BY <2>5 DEF TypeInv, TypeOK
  <2>7. TypeOK'
    BY <2>1, <2>3, <2>4, <2>6 DEF TypeInv, TypeOK, ListsOK, PC
  <2>8. Locals' /\ Slots'
    BY <2>3 DEF TypeInv, Locals, Slots, Launching
  <2> QED
    BY <2>1, <2>7, <2>8 DEF TypeInv, ListsOK
<1> QED
  BY <1>1, <1>2, <1>3, <1>4, <1>5 DEF End

\* cwmp_download_launch.
LEMMA LaunchType ==
    ASSUME TypeInv, Launch
    PROVE  TypeInv'
<1> USE DEF listVars, queueVars, timerVars, sessionVars, localVars, confVars,
            boundVars, transferHist, history
<1>0. ListsOK
  BY DEF TypeInv, TypeOK, ListsOK
<1>1. ASSUME NEW d \in Downloads, FireDownload(d)
      PROVE  TypeInv'
  BY <1>1 DEF FireDownload, TypeInv, TypeOK, NodesBounded, Locals, Slots, PC,
     Returns, Launching
<1>2. CASE LaunchFails
  BY <1>2 DEF LaunchFails, TypeInv, TypeOK, NodesBounded, Locals, Slots, PC,
     Returns, Launching
<1>3. CASE Fetch
  BY <1>3 DEF Fetch, TypeInv, TypeOK, NodesBounded, Locals, Slots, PC,
     Returns, Launching
<1>4. CASE RemoveDownload
  <2>1. cur \in fDownloads /\ IsFiniteSet(fDownloads) /\ Cardinality(fDownloads) \in Nat
    BY <1>4, DownloadsFinite DEF RemoveDownload, TypeInv, TypeOK, Locals
  <2>2. Cardinality(fDownloads') = Cardinality(fDownloads) - 1
    BY <1>4, <2>1, FS_RemoveElement DEF RemoveDownload
  <2>3. Cardinality(fDownloads') \in Nat
    BY <1>4, DownloadsFinite DEF RemoveDownload, TypeInv, TypeOK
  <2>4. Slots' /\ download_count' \in Nat
    BY <1>4, <2>1, <2>2, <2>3, BoundsAssumption DEF RemoveDownload, TypeInv,
       Slots
  <2>5. TypeOK'
    BY <1>4, <2>4 DEF RemoveDownload, TypeInv, TypeOK, PC
  <2>6. NodesBounded' /\ Locals'
    BY <1>4 DEF RemoveDownload, TypeInv, NodesBounded, Locals, Launching
  <2> QED
    BY <2>4, <2>5, <2>6 DEF TypeInv
<1>5. CASE RecordTransfer
  <2> DEFINE r == [d |-> cur, mid |-> method_id + 1, fault |-> "ok", time |-> FALSE]
  <2>1. r \in Transfer
    BY <1>5 DEF RecordTransfer, TypeInv, TypeOK, Locals, Launching, Transfer
  <2>2. fTcs' = Append(fTcs, r) /\ fTcs \in Seq(Transfer)
    BY <1>5 DEF RecordTransfer, TypeInv, TypeOK
  <2> HIDE DEF r
  <2>3. fTcs' \in Seq(Transfer) /\ fTcs' # << >>
    BY <2>1, <2>2, AppendProperties, EmptySeq
  <2> QED
    BY <1>5, <2>3, SMTT(30)
    DEF RecordTransfer, TypeInv, TypeOK, NodesBounded, Locals, Slots, PC,
       Returns, Launching
<1>6. CASE AddTransferEvent
  <2>1. ListsOK'
    BY <1>6, <1>0, AddEventBackupType DEF AddTransferEvent, EventCode, Key
  <2> QED
    BY <1>6, <2>1
    DEF AddTransferEvent, TypeInv, TypeOK, ListsOK, Locals, Slots, PC,
       Returns, Launching
<1>7. CASE AddDownloadEvent
  <2>1. cur \in Key /\ method_id \in Nat
    BY <1>7 DEF AddDownloadEvent, TypeInv, TypeOK, Locals, Launching, Key
  <2>2. ListsOK'
    BY <1>7, <1>0, <2>1, AddEventBackupType DEF AddDownloadEvent, EventCode
  <2> QED
    BY <1>7, <2>2
    DEF AddDownloadEvent, TypeInv, TypeOK, ListsOK, Locals, Slots, PC,
       Returns, Launching
<1>8. CASE ApplyFails
  BY <1>8 DEF ApplyFails, TypeInv, TypeOK, NodesBounded, Locals, Slots, PC,
     Returns, Launching
<1>9. CASE Applied
  BY <1>9 DEF Applied, TypeInv, TypeOK, NodesBounded, Locals, Slots, PC,
     Returns, Launching
<1>10. CASE AppliedConfiguration
  <2>1. ListsOK'
    BY <1>10, <1>0, FewerEventsType DEF AppliedConfiguration, Exit
  <2> QED
    BY <1>10, <2>1 DEF AppliedConfiguration, Exit, TypeInv, TypeOK, ListsOK,
       Locals, Slots, PC, Returns, Launching
<1>13. CASE AppliedFirmware
  <2>1. ListsOK'
    BY <1>13, <1>0, FewerEventsType DEF AppliedFirmware, Exit, WipeFile
  <2>2. lost' \subseteq Downloads
    BY <1>13, UnreportedType DEF AppliedFirmware, WipeFile, TypeInv, TypeOK
  <2>3. TypeOK'
    BY <1>13, <2>1, <2>2, EmptySeq
    DEF AppliedFirmware, WipeFile, Exit, TypeInv, TypeOK, ListsOK, PC, Returns
  <2>4. Locals' /\ Slots'
    BY <1>13, FS_EmptySet, BoundsAssumption
    DEF AppliedFirmware, WipeFile, Exit, Locals, Slots, Launching
  <2> QED
    BY <2>1, <2>3, <2>4 DEF TypeInv, ListsOK
<1>11. CASE RecordFault
  <2>1. fTcs' \in Seq(Transfer) /\ fTcs' # << >>
    BY <1>11, LastReportType DEF RecordFault, TypeInv, TypeOK, Locals,
       Launching
  <2> QED
    BY <1>11, <2>1
    DEF RecordFault, TypeInv, TypeOK, NodesBounded, Locals, Slots, PC,
       Returns, Launching
<1>12. CASE RecordTime
  <2>1. fTcs' \in Seq(Transfer)
    BY <1>12, LastReportType DEF RecordTime, TypeInv, TypeOK, Locals, Launching
  <2> QED
    BY <1>12, <2>1
    DEF RecordTime, TypeInv, TypeOK, NodesBounded, Locals, Slots, PC, Returns,
       Launching
<1> QED
  BY <1>1, <1>2, <1>3, <1>4, <1>5, <1>6, <1>7, <1>8, <1>9, <1>10, <1>11,
     <1>12, <1>13 DEF Launch

\* Crashes, stops and edits of the configuration.
LEMMA EnvironmentType ==
    ASSUME TypeInv, Environment
    PROVE  TypeInv'
<1> USE DEF listVars, queueVars, timerVars, sessionVars, localVars, confVars,
            boundVars, transferHist, history
<1>0. ListsOK
  BY DEF TypeInv, TypeOK, ListsOK
<1>1. CASE Crash
  <2>1. fEvents' \subseteq fEvents /\ events' = {}
    BY <1>1 DEF Crash, Exit, PartialUnlink, Unlink
  <2>2. ListsOK'
    BY <1>0, <2>1, FewerEventsType
  <2>3. lost' \subseteq Downloads /\ unsure' \subseteq Downloads
    BY <1>1 DEF Crash, TypeInv, TypeOK, Locals, Launching
  <2>4. exits' \in Nat /\ used' = used /\ owed' \in {"no", "yes", "lost"}
    BY <1>1 DEF Crash, TypeInv, TypeOK
  <2>5. TypeOK'
    BY <1>1, <2>2, <2>3, <2>4
    DEF Crash, Exit, TypeInv, TypeOK, ListsOK, PC, Returns
  <2>6. Locals' /\ Slots'
    BY <1>1 DEF Crash, Exit, TypeInv, Locals, Slots, Launching
  <2> QED
    BY <2>2, <2>5, <2>6 DEF TypeInv, ListsOK
<1>2. CASE CrashInSave
  <2>1. ListsOK'
    BY <1>2, <1>0, FewerEventsType DEF CrashInSave, Exit, WipeFile
  <2>2. lost' \subseteq Downloads
    BY <1>2, UnreportedType DEF CrashInSave, WipeFile, TypeInv, TypeOK
  <2>3. exits' \in Nat /\ used' = used
    BY <1>2 DEF CrashInSave, TypeInv, TypeOK
  <2>4. TypeOK'
    BY <1>2, <2>1, <2>2, <2>3, EmptySeq
    DEF CrashInSave, WipeFile, Exit, TypeInv, TypeOK, ListsOK, PC, Returns
  <2>5. Locals' /\ Slots'
    BY <1>2, FS_EmptySet, BoundsAssumption
    DEF CrashInSave, WipeFile, Exit, Locals, Slots, Launching
  <2> QED
    BY <2>1, <2>4, <2>5 DEF TypeInv, ListsOK
<1>3. CASE Stop
  <2>1. ListsOK'
    BY <1>3, <1>0, FewerEventsType DEF Stop, Exit
  <2>2. exits' \in Nat /\ used' = used
    BY <1>3 DEF Stop, TypeInv, TypeOK
  <2>3. TypeOK'
    BY <1>3, <2>1, <2>2 DEF Stop, Exit, TypeInv, TypeOK, ListsOK, PC, Returns
  <2>4. Locals' /\ Slots'
    BY <1>3 DEF Stop, Exit, TypeInv, Locals, Slots, Launching
  <2> QED
    BY <2>1, <2>3, <2>4 DEF TypeInv, ListsOK
<1>4. ASSUME NEW u \in Urls, Configure(u)
      PROVE  TypeInv'
  BY <1>4 DEF Configure, TypeInv, TypeOK, NodesBounded, Locals, Slots,
     Launching
<1> QED
  BY <1>1, <1>2, <1>3, <1>4 DEF Environment

\* The initial state: the daemon is down and nothing has been backed up.
LEMMA InitType ==
    ASSUME Init
    PROVE  TypeInv
<1>1. TypeOK
  BY EmptySeq DEF Init, TypeOK, PC, Returns
<1>2. NodesBounded
  BY DEF Init, NodesBounded, NodesOf
<1>3. Locals
  BY DEF Init, Locals, Launching
<1>4. Slots
  BY FS_EmptySet, BoundsAssumption DEF Init, Slots
<1> QED
  BY <1>1, <1>2, <1>3, <1>4 DEF TypeInv

\* Every step, and every stuttering step, preserves TypeInv.
LEMMA NextType ==
    ASSUME TypeInv, [Next]_vars
    PROVE  TypeInv'
<1>1. CASE Next
  BY <1>1, BootType, IdleType, SessionType, RpcType, EndType, LaunchType,
     EnvironmentType DEF Next
<1>2. CASE UNCHANGED vars
  BY <1>2 DEF vars, listVars, queueVars, timerVars, sessionVars, localVars,
     confVars, boundVars, transferHist, history, TypeInv, TypeOK,
     NodesBounded, Locals, Slots, Launching
<1> QED
  BY <1>1, <1>2

\* The strengthened type invariant holds in every state of the daemon.
THEOREM TypeInvariant == Spec => []TypeInv
<1>1. Init => TypeInv
  BY InitType
<1>2. TypeInv /\ [Next]_vars => TypeInv'
  BY NextType
<1> QED
  BY <1>1, <1>2, PTL DEF Spec

\* Every variable of the daemon keeps its type; in particular
\* download_count never goes below zero (cwmp_download_launch, cwmp_clean)
\* and every handler that needs a pending report or download has one.
THEOREM TypeCorrect == Spec => []TypeOK
<1>1. TypeInv => TypeOK
  BY DEF TypeInv
<1> QED
  BY <1>1, TypeInvariant, PTL

\* Between handlers download_count is the number of pending downloads and at
\* most MAX_DOWNLOAD, also after a restart has reloaded the queue
\* (xml_handle_download, cwmp_add_download, backup_load_download).
THEOREM SlotsNeverLeak == Spec => []DownloadSlots
<1>1. TypeInv => DownloadSlots
  BY DEF TypeInv, Slots, DownloadSlots
<1> QED
  BY <1>1, TypeInvariant, PTL

=============================================================================
