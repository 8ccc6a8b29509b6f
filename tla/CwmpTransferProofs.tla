------------------------- MODULE CwmpTransferProofs -------------------------
(***************************************************************************)
(* The downloads of the ACS: none is forgotten, none is carried out again  *)
(* once its report is recorded, the report says what happened and carries  *)
(* a completion time; and CwmpAgent implements TransferLedger.             *)
(***************************************************************************)
EXTENDS CwmpAgentProofs

\* cwmp_download_launch after backup_add_transfer_complete, and as far as the
\* fault may still be corrected.
Late == {"dl_event", "dl_key", "dl_apply", "dl_fault", "dl_time"}

Correcting == Late \ {"dl_time"}

\* A download is in one place, was accepted, and was not reported while it is
\* a request; one that was lost does not come back.
Places ==
    /\ \A d \in fDownloads \cup Recorded(fTcs) \cup lost : fate[d] # "none"
    /\ \A d \in Downloads : reported[d] # "none" => fate[d] # "none"
    /\ \A d \in fDownloads : reported[d] = "none"
    /\ lost \cap (fDownloads \cup Recorded(fTcs)) = {}

\* The download a handler is about: between request and report it is nowhere
\* in the file, then its report is the last; and the report that was answered
\* is the first.
Handled ==
    /\ pc = "dl_record" => /\ cur \notin fDownloads \cup Recorded(fTcs) \cup lost
                           /\ reported[cur] = "none" /\ fate[cur] # "none"
    /\ pc \in Late => fTcs[Len(fTcs)].d = cur /\ reported[cur] = "none"
    /\ pc \in Correcting => fTcs[Len(fTcs)].fault = "ok"
    /\ pc = "dl_fault" => fate[cur] = "failed"
    /\ pc = "tc_answered" => reported[fTcs[1].d] = fTcs[1].fault

\* A report that will not be corrected any more says what happened.
Says(f, d) == (f = "ok" => fate[d] = "applied") /\ (f = "fail" => fate[d] = "failed")

Truthful ==
    \A i \in DOMAIN fTcs :
        \/ fTcs[i].d \in unsure
        \/ pc \in Correcting /\ i = Len(fTcs)
        \/ Says(fTcs[i].fault, fTcs[i].d)

\* Every report has its completion time, but for the one being recorded.
Timed ==
    pc # "down" => \A i \in DOMAIN fTcs : \/ fTcs[i].time
                                          \/ pc \in Late /\ i = Len(fTcs)

TransferInv == TransferAccounted /\ Places /\ Handled /\ Truthful
               /\ ReportTruthful /\ Timed

-----------------------------------------------------------------------------
(* Sequences of reports.                                                   *)

LEMMA ReportsDomain ==
    ASSUME TypeOK
    PROVE  /\ DOMAIN fTcs = 1 .. Len(fTcs) /\ Len(fTcs) \in Nat
           /\ \A i \in DOMAIN fTcs : fTcs[i] \in Transfer
           /\ fTcs # << >> => 1 \in DOMAIN fTcs /\ Len(fTcs) \in DOMAIN fTcs
           /\ fTcs = << >> => DOMAIN fTcs = {}
           /\ Recorded(fTcs) \subseteq Downloads
<1>1. fTcs \in [1..Len(fTcs) -> Transfer] /\ Len(fTcs) \in Nat
  BY LenProperties DEF TypeOK
<1>2. fTcs # << >> => Len(fTcs) # 0
  BY EmptySeq DEF TypeOK
<1>3. Recorded(fTcs) \subseteq Downloads
  BY <1>1 DEF Recorded, Transfer
<1>4. fTcs = << >> => DOMAIN fTcs = {}
  OBVIOUS
<1> QED
  BY <1>1, <1>2, <1>3, <1>4

\* A report is appended.
LEMMA ReportAppended ==
    ASSUME TypeOK, NEW r \in Transfer, fTcs' = Append(fTcs, r)
    PROVE  /\ Len(fTcs') = Len(fTcs) + 1 /\ Len(fTcs') \in DOMAIN fTcs'
           /\ fTcs'[Len(fTcs')] = r
           /\ \A i \in DOMAIN fTcs' : \/ i = Len(fTcs')
                                      \/ i \in DOMAIN fTcs /\ fTcs'[i] = fTcs[i]
           /\ Recorded(fTcs') = Recorded(fTcs) \cup {r.d}
<1>1. /\ DOMAIN fTcs = 1 .. Len(fTcs) /\ Len(fTcs) \in Nat
      /\ fTcs \in Seq(Transfer)
  BY ReportsDomain DEF TypeOK
<1>2. /\ Len(fTcs') = Len(fTcs) + 1 /\ DOMAIN fTcs' = 1 .. Len(fTcs) + 1
      /\ \A i \in 1 .. Len(fTcs) : fTcs'[i] = fTcs[i]
      /\ fTcs'[Len(fTcs) + 1] = r
  BY <1>1, AppendProperties, LenProperties
<1>3. Recorded(fTcs') = Recorded(fTcs) \cup {r.d}
  <2>1. \A i \in 1 .. Len(fTcs) + 1 : i \in 1 .. Len(fTcs) \/ i = Len(fTcs) + 1
    BY <1>1
  <2>2. 1 .. Len(fTcs) \subseteq 1 .. Len(fTcs) + 1
        /\ Len(fTcs) + 1 \in 1 .. Len(fTcs) + 1
    BY <1>1
  <2> QED
    BY <1>1, <1>2, <2>1, <2>2, ZenonT(60) DEF Recorded
<1> QED
  BY <1>1, <1>2, <1>3

\* The first report is deleted.
LEMMA ReportDropped ==
    ASSUME TypeOK, fTcs # << >>, fTcs' = DropReport(fTcs)
    PROVE  /\ Len(fTcs') = Len(fTcs) - 1 /\ DOMAIN fTcs' = 1 .. Len(fTcs) - 1
           /\ \A i \in DOMAIN fTcs' : /\ i + 1 \in DOMAIN fTcs /\ i + 1 # 1
                                      /\ fTcs'[i] = fTcs[i + 1]
           /\ Recorded(fTcs') \subseteq Recorded(fTcs)
           /\ Recorded(fTcs) \subseteq Recorded(fTcs') \cup {fTcs[1].d}
<1>1. /\ DOMAIN fTcs = 1 .. Len(fTcs) /\ Len(fTcs) \in Nat \ {0}
      /\ fTcs \in Seq(Transfer)
  BY ReportsDomain DEF TypeOK
<1>2. /\ Len(fTcs') = Len(fTcs) - 1 /\ DOMAIN fTcs' = 1 .. Len(fTcs) - 1
      /\ \A i \in 1 .. Len(fTcs) - 1 : fTcs'[i] = fTcs[i + 1]
  BY <1>1, HeadTailProperties, LenProperties DEF DropReport
<1>3. \A i \in 1 .. Len(fTcs) - 1 : i + 1 \in 1 .. Len(fTcs) /\ i + 1 # 1
  BY <1>1
<1>4. ASSUME NEW i \in 1 .. Len(fTcs), i # 1
      PROVE  i - 1 \in 1 .. Len(fTcs) - 1 /\ (i - 1) + 1 = i
  BY <1>1, <1>4
<1>5. Recorded(fTcs') \subseteq Recorded(fTcs)
  BY <1>1, <1>2, <1>3 DEF Recorded
<1>6. Recorded(fTcs) \subseteq Recorded(fTcs') \cup {fTcs[1].d}
  <2> SUFFICES ASSUME NEW i \in DOMAIN fTcs, i # 1
               PROVE  fTcs[i].d \in Recorded(fTcs')
    BY DEF Recorded
  <2>1. i - 1 \in DOMAIN fTcs' /\ fTcs'[i - 1] = fTcs[i]
    BY <1>1, <1>2, <1>4
  <2> QED
    BY <2>1 DEF Recorded
<1> QED
  BY <1>1, <1>2, <1>3, <1>5, <1>6

\* Fields of reports are rewritten in place.
LEMMA ReportsRewritten ==
    ASSUME DOMAIN fTcs' = DOMAIN fTcs,
           \A i \in DOMAIN fTcs : fTcs'[i].d = fTcs[i].d
    PROVE  Recorded(fTcs') = Recorded(fTcs)
BY DEF Recorded

-----------------------------------------------------------------------------
(* The steps that have nothing to do with downloads.                       *)

Calm == PC \ (Late \cup {"dl_record", "tc_answered", "down"})

Quiet ==
    /\ UNCHANGED <<fDownloads, fTcs, fate, reported, lost, unsure>>
    /\ \/ pc \in Calm /\ pc' \in Calm \cup {"down"}
       \/ pc' = pc /\ cur' = cur

\* The steps that are about downloads.
Transferring ==
    \/ Start \/ NewAcs \/ EndFactoryReset \/ Crash \/ CrashInSave
    \/ TransferCompleteAnswered \/ TransferCompleteFails
    \/ RemoveTransferComplete \/ \E d \in Downloads : HandleDownload(d)
    \/ Fetch \/ RemoveDownload \/ RecordTransfer
    \/ AddTransferEvent \/ AddDownloadEvent
    \/ ApplyFails \/ Applied \/ AppliedConfiguration \/ AppliedFirmware
    \/ RecordFault \/ RecordTime

LEMMA QuietOrTransferring ==
    ASSUME TypeInv, [Next]_vars
    PROVE  Quiet \/ Transferring
<1> USE DEF listVars, queueVars, timerVars, sessionVars, localVars, confVars,
            boundVars, transferHist, history, Quiet, Calm, PC, Late
<1>1. CASE Boot
  <2>1. CASE SameAcs
    BY <2>1 DEF SameAcs, TypeInv, TypeOK, Returns
  <2>2. CASE AddBootstrap
    BY <2>2 DEF AddBootstrap, TypeInv, TypeOK, Returns
  <2>3. CASE AddBoot
    BY <2>3 DEF AddBoot
  <2>4. CASE StartGetRpcMethods
    BY <2>4 DEF StartGetRpcMethods
  <2> QED
    BY <1>1, <2>1, <2>2, <2>3, <2>4 DEF Boot, Transferring
<1>2. CASE Idle
  <2>1. CASE StartSession
    BY <2>1 DEF StartSession
  <2>2. CASE PeriodicInform
    BY <2>2 DEF PeriodicInform
  <2>3. CASE Reload
    BY <2>3 DEF Reload
  <2>4. ASSUME NEW c \in RequestCodes, ConnectionRequest(c)
        PROVE  Quiet
    BY <2>4 DEF ConnectionRequest
  <2>5. ASSUME NEW a \in BOOLEAN, Notify(a)
        PROVE  Quiet
    BY <2>5 DEF Notify
  <2>6. ASSUME NEW k \in Keys, ScheduledInform(k)
        PROVE  Quiet
    BY <2>6 DEF ScheduledInform
  <2>7. CASE AddScheduleKey
    BY <2>7 DEF AddScheduleKey
  <2> QED
    BY <1>2, <2>1, <2>2, <2>3, <2>4, <2>5, <2>6, <2>7 DEF Idle
<1>3. CASE Session
  <2>1. CASE InformFails
    BY <2>1 DEF InformFails, Fail
  <2>2. CASE InformAccepted
    BY <2>2 DEF InformAccepted
  <2>3. CASE RemoveInformed
    BY <2>3 DEF RemoveInformed
  <2>4. CASE RemoveTransferEvents
    BY <2>4 DEF RemoveTransferEvents
  <2>5. CASE RemoveLastTransferEvents
    BY <2>5 DEF RemoveLastTransferEvents
  <2>6. CASE GetRpcMethodsAnswered
    BY <2>6 DEF GetRpcMethodsAnswered
  <2>7. CASE GetRpcMethodsFails
    BY <2>7 DEF GetRpcMethodsFails, Fail
  <2>8. CASE NoRequest
    BY <2>8 DEF NoRequest
  <2>9. CASE EmptyMessage
    <3>1. /\ pc = "messages" /\ pc' \in {"requests", "end"}
          /\ UNCHANGED <<fDownloads, fTcs, fate, reported, lost, unsure>>
      BY <2>9, Zenon DEF EmptyMessage
    <3> QED
      BY <3>1
  <2>10. CASE MessagesFail
    BY <2>10 DEF MessagesFail, Fail
  <2> QED
    BY <1>3, <2>1, <2>2, <2>3, <2>4, <2>5, <2>6, <2>7, <2>8, <2>9, <2>10
    DEF Session, Transferring
<1>4. CASE Rpc
  <2>1. ASSUME NEW k \in Keys, HandleScheduleInform(k) \/ HandleReboot(k)
        PROVE  Quiet
    BY <2>1 DEF HandleScheduleInform, HandleReboot
  <2>2. CASE HandleFactoryReset
    BY <2>2 DEF HandleFactoryReset
  <2>3. ASSUME NEW u \in Urls, HandleSetParameterValues(u)
        PROVE  Quiet
    BY <2>3 DEF HandleSetParameterValues
  <2> QED
    BY <1>4, <2>1, <2>2, <2>3 DEF Rpc, Transferring
<1>5. CASE End
  <2>1. CASE EndReboot
    BY <2>1 DEF EndReboot, Exit
  <2>2. CASE EndSession
    BY <2>2 DEF EndSession, TypeInv, TypeOK, Returns
  <2>3. CASE SessionDone
    BY <2>3 DEF SessionDone
  <2>4. CASE RetrySession
    BY <2>4 DEF RetrySession
  <2> QED
    BY <1>5, <2>1, <2>2, <2>3, <2>4 DEF End, Transferring
<1>6. CASE Launch
  <2>1. ASSUME NEW d \in Downloads, FireDownload(d)
        PROVE  Quiet
    BY <2>1 DEF FireDownload
  <2>2. CASE LaunchFails
    BY <2>2 DEF LaunchFails
  <2> QED
    BY <1>6, <2>1, <2>2 DEF Launch, Transferring
<1>7. CASE Environment
  <2>1. CASE Stop
    BY <2>1 DEF Stop, Exit
  <2>2. ASSUME NEW u \in Urls, Configure(u)
        PROVE  Quiet
    BY <2>2 DEF Configure
  <2> QED
    BY <1>7, <2>1, <2>2 DEF Environment, Transferring
<1>8. CASE UNCHANGED vars
  BY <1>8 DEF vars
<1> QED
  BY <1>1, <1>2, <1>3, <1>4, <1>5, <1>6, <1>7, <1>8 DEF Next

-----------------------------------------------------------------------------
(* Every step preserves TransferInv.                                       *)

LEMMA QuietKeeps ==
    ASSUME TypeInv, TransferInv, Quiet
    PROVE  TransferInv'
<1> USE DEF Quiet, TransferInv, Late, Correcting, Calm, PC
<1>1. TransferAccounted'
  BY DEF TransferAccounted, Recorded
<1>2. Places'
  BY DEF Places, Recorded
<1>3. Handled'
  BY DEF Handled, Recorded
<1>4. Truthful' /\ ReportTruthful'
  BY DEF Truthful, ReportTruthful, Says
<1>5. Timed'
  BY DEF Timed
<1> QED
  BY <1>1, <1>2, <1>3, <1>4, <1>5

\* The backup file is lost with all it holds: a new ACS, a factory reset, a
\* crash while it is written.
LEMMA WipeKeeps ==
    ASSUME TypeInv, TransferInv, WipeFile, UNCHANGED <<fate, reported, unsure>>,
           pc' \in {"bootstrap", "down"}
    PROVE  TransferInv'
<1>1. /\ fDownloads' = {} /\ fTcs' = << >> /\ lost' = lost \cup Unreported
      /\ DOMAIN fTcs' = {} /\ Recorded(fTcs') = {}
  BY DEF WipeFile, Recorded
<1>2. TransferAccounted'
  BY <1>1 DEF TransferInv, TransferAccounted, Unreported
<1>3. Places'
  BY <1>1 DEF TransferInv, Places, Handled, Unreported
<1>4. Handled' /\ Truthful' /\ ReportTruthful' /\ Timed'
  BY <1>1 DEF TransferInv, Handled, Truthful, ReportTruthful, Timed, Late,
              Correcting
<1> QED
  BY <1>2, <1>3, <1>4 DEF TransferInv

\* Start, crashes, and what empties the file.
LEMMA RestartKeeps ==
    ASSUME TypeInv, TransferInv,
           Start \/ NewAcs \/ EndFactoryReset \/ Crash \/ CrashInSave
    PROVE  TransferInv'
<1> USE DEF listVars, queueVars, timerVars, sessionVars, localVars, confVars,
            boundVars, transferHist, history
<1>1. CASE Start
  <2>1. /\ DOMAIN fTcs' = DOMAIN fTcs /\ Len(fTcs') = Len(fTcs)
        /\ \A i \in DOMAIN fTcs : /\ fTcs'[i].d = fTcs[i].d
                                  /\ fTcs'[i].fault = fTcs[i].fault
                                  /\ fTcs'[i].time = TRUE
    <3>1. /\ DOMAIN fTcs = 1 .. Len(fTcs) /\ Len(fTcs) \in Nat
          /\ \A i \in DOMAIN fTcs : fTcs[i] \in Transfer
      BY ReportsDomain DEF TypeInv
    <3>2. fTcs' = [i \in DOMAIN fTcs |-> [fTcs[i] EXCEPT !.time = TRUE]]
      BY <1>1 DEF Start, AllCompleteTimes
    <3>3. fTcs' \in Seq(Transfer)
      BY <1>1, AllCompleteTimesType DEF Start, TypeInv, TypeOK
    <3>4. DOMAIN fTcs' = 1 .. Len(fTcs') /\ Len(fTcs') \in Nat
      BY <3>3, LenProperties
    <3>5. Len(fTcs') = Len(fTcs)
      BY <3>1, <3>2, <3>4
    <3> QED
      BY <3>1, <3>2, <3>5 DEF Transfer
  <2>2. Recorded(fTcs') = Recorded(fTcs)
    BY <2>1, ReportsRewritten
  <2>3. /\ pc = "down" /\ pc' = "config"
        /\ UNCHANGED <<fDownloads, fate, reported, lost, unsure>>
    BY <1>1 DEF Start
  <2>4. TransferAccounted' /\ Places' /\ Handled'
    BY <2>1, <2>2, <2>3
    DEF TransferInv, TransferAccounted, Places, Handled, Late, Correcting
  <2>5. Truthful' /\ ReportTruthful' /\ Timed'
    BY <2>1, <2>3 DEF TransferInv, Truthful, ReportTruthful, Says, Timed, Late,
                      Correcting
  <2> QED
    BY <2>4, <2>5 DEF TransferInv
<1>2. CASE NewAcs
  BY <1>2, WipeKeeps DEF NewAcs
<1>3. CASE EndFactoryReset
  BY <1>3, WipeKeeps DEF EndFactoryReset, Exit
<1>4. CASE CrashInSave
  BY <1>4, WipeKeeps DEF CrashInSave, Exit
<1>5. CASE Crash
  <2>1. /\ pc' = "down" /\ UNCHANGED <<fDownloads, fTcs, fate, reported>>
        /\ lost' = IF pc = "dl_record" THEN lost \cup {cur} ELSE lost
        /\ unsure' = IF pc \in Correcting THEN unsure \cup {cur} ELSE unsure
    BY <1>5 DEF Crash, Exit, Correcting, Late
  <2>2. TransferAccounted'
    BY <2>1 DEF TransferInv, TransferAccounted
  <2>3. Places'
    BY <2>1 DEF TransferInv, Places, Handled
  <2>4. Handled' /\ ReportTruthful' /\ Timed'
    BY <2>1 DEF TransferInv, Handled, ReportTruthful, Timed, Late, Correcting
  <2>5. Truthful'
    BY <2>1 DEF TransferInv, Truthful, Handled, Says, Correcting
  <2> QED
    BY <2>2, <2>3, <2>4, <2>5 DEF TransferInv
<1> QED
  BY <1>1, <1>2, <1>3, <1>4, <1>5

\* The reports of a session, and a request that is accepted.
LEMMA SessionKeeps ==
    ASSUME TypeInv, TransferInv,
           \/ TransferCompleteAnswered \/ TransferCompleteFails
           \/ RemoveTransferComplete \/ \E d \in Downloads : HandleDownload(d)
    PROVE  TransferInv'
<1> USE DEF listVars, queueVars, timerVars, sessionVars, localVars, confVars,
            boundVars, transferHist, history, Late, Correcting
<1>d. /\ DOMAIN fTcs = 1 .. Len(fTcs) /\ Len(fTcs) \in Nat
      /\ \A i \in DOMAIN fTcs : fTcs[i] \in Transfer
      /\ fTcs # << >> => 1 \in DOMAIN fTcs /\ Len(fTcs) \in DOMAIN fTcs
      /\ reported \in [Downloads -> {"none", "ok", "fail"}]
  BY ReportsDomain DEF TypeInv, TypeOK
<1>1. ASSUME pc = "requests", fTcs # << >>,
             UNCHANGED <<fDownloads, fTcs, fate, lost, unsure>>,
             \/ /\ reported' = [reported EXCEPT ![fTcs[1].d] = fTcs[1].fault]
                /\ pc' \in {"tc_answered", "end"}
             \/ pc' = "end" /\ reported' = reported
      PROVE  TransferInv'
  <2>1. 1 \in DOMAIN fTcs /\ fTcs[1].d \in Recorded(fTcs) /\ fTcs[1].d \in Downloads
        /\ fTcs[1].fault \in {"ok", "fail"}
    BY <1>1, <1>d DEF Recorded, Transfer
  <2>2. \A d \in Downloads :
           \/ reported'[d] = reported[d]
           \/ d = fTcs[1].d /\ reported'[d] = fTcs[1].fault
    BY <1>1, <1>d
  <2>3. TransferAccounted'
    BY <1>1, <2>1, <2>2 DEF TransferInv, TransferAccounted, Recorded
  <2>4. Places'
    <3>1. fTcs[1].d \notin fDownloads /\ fDownloads \subseteq Downloads
      BY <2>1 DEF TransferInv, TransferAccounted, TypeInv, TypeOK
    <3> QED
      BY <1>1, <2>1, <2>2, <3>1 DEF TransferInv, Places, Recorded
  <2>5. Handled'
    BY <1>1, <2>1, <1>d DEF TransferInv, Handled
  <2>6. Truthful' /\ Timed'
    BY <1>1 DEF TransferInv, Truthful, Says, Timed
  <2>7. ReportTruthful'
    BY <1>1, <2>1, <2>2 DEF TransferInv, ReportTruthful, Truthful, Says
  <2> QED
    BY <2>3, <2>4, <2>5, <2>6, <2>7 DEF TransferInv
<1>2. CASE TransferCompleteAnswered
  BY <1>1, <1>2 DEF TransferCompleteAnswered
<1>3. CASE TransferCompleteFails
  BY <1>1, <1>3 DEF TransferCompleteFails, Fail
<1>4. CASE RemoveTransferComplete
  <2>1. /\ pc = "tc_answered" /\ pc' = "tc_events" /\ fTcs' = DropReport(fTcs)
        /\ UNCHANGED <<fDownloads, fate, reported, lost, unsure>>
    BY <1>4 DEF RemoveTransferComplete
  <2>2. fTcs # << >>
    BY <2>1 DEF TypeInv, Locals
  <2>3. /\ \A i \in DOMAIN fTcs' : /\ i + 1 \in DOMAIN fTcs /\ i + 1 # 1
                                   /\ fTcs'[i] = fTcs[i + 1]
        /\ DOMAIN fTcs' = 1 .. Len(fTcs) - 1
        /\ Recorded(fTcs') \subseteq Recorded(fTcs)
        /\ Recorded(fTcs) \subseteq Recorded(fTcs') \cup {fTcs[1].d}
    BY <2>1, <2>2, ReportDropped DEF TypeInv
  <2>4. fTcs[1].d \in Downloads /\ reported[fTcs[1].d] # "none"
    BY <2>1, <2>2, <1>d DEF TransferInv, Handled, Transfer
  <2>5. TransferAccounted'
    <3>1. ASSUME NEW i \in DOMAIN fTcs', NEW j \in DOMAIN fTcs',
                 fTcs'[i].d = fTcs'[j].d
          PROVE  i = j
      <4>1. i \in Nat /\ j \in Nat
        BY <2>3, <1>d
      <4>2. i + 1 = j + 1
        BY <2>3, <3>1 DEF TransferInv, TransferAccounted
      <4> QED
        BY <4>1, <4>2
    <3> QED
      BY <2>1, <2>3, <2>4, <3>1 DEF TransferInv, TransferAccounted
  <2>6. Places' /\ Handled'
    BY <2>1, <2>3 DEF TransferInv, Places, Handled
  <2>7. Truthful' /\ ReportTruthful' /\ Timed'
    BY <2>1, <2>3 DEF TransferInv, Truthful, ReportTruthful, Says, Timed
  <2> QED
    BY <2>5, <2>6, <2>7 DEF TransferInv
<1>5. ASSUME NEW d \in Downloads, HandleDownload(d)
      PROVE  TransferInv'
  <2>1. /\ pc = "messages" /\ pc' = "messages" /\ fate[d] = "none"
        /\ fDownloads' = fDownloads \cup {d}
        /\ fate' = [fate EXCEPT ![d] = "asked"]
        /\ UNCHANGED <<fTcs, reported, lost, unsure>>
    BY <1>5 DEF HandleDownload, AddDownload
  <2>2. /\ fate'[d] = "asked"
        /\ \A e \in Downloads : e # d => fate'[e] = fate[e]
    BY <2>1 DEF TypeInv, TypeOK
  <2>3. /\ d \notin Recorded(fTcs) /\ d \notin lost /\ reported[d] = "none"
        /\ Recorded(fTcs) \subseteq Downloads /\ lost \subseteq Downloads
        /\ fDownloads \subseteq Downloads
    BY <2>1, ReportsDomain DEF TransferInv, Places, TypeInv, TypeOK
  <2>4. TransferAccounted'
    BY <2>1, <2>2, <2>3 DEF TransferInv, TransferAccounted, Recorded
  <2>5. Places'
    BY <2>1, <2>2, <2>3 DEF TransferInv, Places, Recorded
  <2>6. Handled' /\ Timed'
    BY <2>1 DEF TransferInv, Handled, Timed
  <2>7. Truthful' /\ ReportTruthful'
    <3>1. \A i \in DOMAIN fTcs : fTcs[i].d \in Downloads /\ fTcs[i].d # d
      BY <2>3, <1>d DEF Recorded
    <3> QED
      BY <2>1, <2>2, <2>3, <3>1 DEF TransferInv, Truthful, ReportTruthful, Says
  <2> QED
    BY <2>4, <2>5, <2>6, <2>7 DEF TransferInv
<1> QED
  BY <1>2, <1>3, <1>4, <1>5

\* cwmp_download_launch as far as the report is recorded.
LEMMA FetchKeeps ==
    ASSUME TypeInv, TransferInv, Fetch \/ RemoveDownload \/ RecordTransfer
    PROVE  TransferInv'
<1> USE DEF listVars, queueVars, timerVars, sessionVars, localVars, confVars,
            boundVars, transferHist, history, Late, Correcting
<1>d. /\ DOMAIN fTcs = 1 .. Len(fTcs) /\ Len(fTcs) \in Nat
      /\ \A i \in DOMAIN fTcs : fTcs[i] \in Transfer /\ fTcs[i].d \in Recorded(fTcs)
      /\ Recorded(fTcs) \subseteq Downloads /\ lost \subseteq Downloads
      /\ fDownloads \subseteq Downloads
      /\ fate \in [Downloads -> {"none", "asked", "fetched", "applied", "failed"}]
  BY ReportsDomain DEF TypeInv, TypeOK, Recorded
<1>1. CASE Fetch
  <2>1. /\ pc = "launch" /\ pc' = "dl_remove"
        /\ \E r \in {"fetched", "failed"} : fate' = [fate EXCEPT ![cur] = r]
        /\ UNCHANGED <<cur, fDownloads, fTcs, reported, lost, unsure>>
    BY <1>1 DEF Fetch
  <2>2. /\ cur \in fDownloads /\ cur \in Downloads
        /\ cur \notin Recorded(fTcs) /\ reported[cur] = "none"
    BY <2>1, <1>d DEF TypeInv, Locals, TransferInv, TransferAccounted, Places
  <2>3. /\ fate'[cur] # "none"
        /\ \A e \in Downloads : e # cur => fate'[e] = fate[e]
    BY <2>1, <2>2, <1>d
  <2>4. TransferAccounted'
    BY <2>1, <2>2, <2>3 DEF TransferInv, TransferAccounted, Recorded
  <2>5. Places'
    BY <2>1, <2>2, <2>3, <1>d DEF TransferInv, Places, Recorded
  <2>6. Handled' /\ Timed'
    BY <2>1 DEF TransferInv, Handled, Timed
  <2>7. Truthful' /\ ReportTruthful'
    BY <2>1, <2>2, <2>3, <1>d DEF TransferInv, Truthful, ReportTruthful, Says
  <2> QED
    BY <2>4, <2>5, <2>6, <2>7 DEF TransferInv
<1>2. CASE RemoveDownload
  <2>1. /\ pc = "dl_remove" /\ pc' = "dl_record"
        /\ fDownloads' = fDownloads \ {cur}
        /\ UNCHANGED <<cur, fTcs, fate, reported, lost, unsure>>
    BY <1>2 DEF RemoveDownload
  <2>2. cur \in fDownloads
    BY <2>1 DEF TypeInv, Locals
  <2>3. TransferAccounted' /\ Places' /\ Handled'
    BY <2>1, <2>2 DEF TransferInv, TransferAccounted, Places, Handled, Recorded
  <2>4. Truthful' /\ ReportTruthful' /\ Timed'
    BY <2>1 DEF TransferInv, Truthful, ReportTruthful, Says, Timed
  <2> QED
    BY <2>3, <2>4 DEF TransferInv
<1>3. CASE RecordTransfer
  <2> DEFINE r == [d |-> cur, mid |-> method_id + 1, fault |-> "ok",
                   time |-> FALSE]
  <2>1. /\ pc = "dl_record" /\ pc' = "dl_event" /\ fTcs' = Append(fTcs, r)
        /\ UNCHANGED <<cur, fDownloads, fate, reported, lost, unsure>>
    BY <1>3 DEF RecordTransfer
  <2>2. r \in Transfer /\ r.d = cur /\ r.fault = "ok"
    BY <2>1 DEF TypeInv, TypeOK, Locals, Launching, Transfer
  <2> HIDE DEF r
  <2>3. /\ Len(fTcs') \in DOMAIN fTcs' /\ fTcs'[Len(fTcs')] = r
        /\ \A i \in DOMAIN fTcs' : \/ i = Len(fTcs')
                                   \/ i \in DOMAIN fTcs /\ fTcs'[i] = fTcs[i]
        /\ Recorded(fTcs') = Recorded(fTcs) \cup {cur}
    BY <2>1, <2>2, ReportAppended DEF TypeInv
  <2>4. /\ cur \notin fDownloads \cup Recorded(fTcs) \cup lost
        /\ reported[cur] = "none" /\ fate[cur] # "none"
    BY <2>1 DEF TransferInv, Handled
  <2>5. TransferAccounted'
    BY <2>1, <2>2, <2>3, <2>4, <1>d DEF TransferInv, TransferAccounted
  <2>6. Places' /\ Handled'
    BY <2>1, <2>2, <2>3, <2>4 DEF TransferInv, Places, Handled
  <2>7. Truthful' /\ ReportTruthful' /\ Timed'
    BY <2>1, <2>3 DEF TransferInv, Truthful, ReportTruthful, Says, Timed
  <2> QED
    BY <2>5, <2>6, <2>7 DEF TransferInv
<1> QED
  BY <1>1, <1>2, <1>3

\* The rest of cwmp_download_launch.
LEMMA ApplyKeeps ==
    ASSUME TypeInv, TransferInv,
           \/ AddTransferEvent \/ AddDownloadEvent \/ ApplyFails \/ Applied
           \/ AppliedConfiguration \/ AppliedFirmware \/ RecordFault
           \/ RecordTime
    PROVE  TransferInv'
<1> USE DEF listVars, queueVars, timerVars, sessionVars, localVars, confVars,
            boundVars, transferHist, history, Late, Correcting
<1> DEFINE n == Len(fTcs)
<1>d. /\ DOMAIN fTcs = 1 .. n /\ n \in Nat
      /\ \A i \in DOMAIN fTcs : fTcs[i] \in Transfer /\ fTcs[i].d \in Recorded(fTcs)
      /\ Recorded(fTcs) \subseteq Downloads /\ lost \subseteq Downloads
      /\ fDownloads \subseteq Downloads
      /\ fate \in [Downloads -> {"none", "asked", "fetched", "applied", "failed"}]
  BY ReportsDomain DEF TypeInv, TypeOK, Recorded
<1>l. /\ fTcs # << >> /\ n \in DOMAIN fTcs /\ fTcs[n].d = cur
      /\ pc \in Late /\ cur \in Downloads /\ reported[cur] = "none"
      /\ \A i \in DOMAIN fTcs : i # n => fTcs[i].d # cur
  <2>1. pc \in Late
    BY DEF AddTransferEvent, AddDownloadEvent, ApplyFails, Applied,
           AppliedConfiguration, AppliedFirmware, RecordFault, RecordTime
  <2>2. fTcs # << >> /\ cur \in Downloads
    BY <2>1 DEF TypeInv, Locals, Launching
  <2>3. n \in DOMAIN fTcs /\ fTcs[n].d = cur /\ reported[cur] = "none"
    BY <2>1, <2>2, ReportsDomain DEF TypeInv, TransferInv, Handled
  <2> QED
    BY <2>1, <2>2, <2>3 DEF TransferInv, TransferAccounted
<1>1. ASSUME pc \in Correcting, pc' \in {"dl_key", "dl_apply"},
             UNCHANGED <<cur, fDownloads, fTcs, fate, reported, lost, unsure>>
      PROVE  TransferInv'
  <2>1. TransferAccounted' /\ Places'
    BY <1>1 DEF TransferInv, TransferAccounted, Places, Recorded
  <2>2. Handled'
    BY <1>1 DEF TransferInv, Handled
  <2>3. Truthful' /\ ReportTruthful' /\ Timed'
    BY <1>1 DEF TransferInv, Truthful, ReportTruthful, Says, Timed
  <2> QED
    BY <2>1, <2>2, <2>3 DEF TransferInv
<1>2. CASE AddTransferEvent \/ AddDownloadEvent
  BY <1>1, <1>2 DEF AddTransferEvent, AddDownloadEvent
<1>3. ASSUME pc = "dl_apply",
             UNCHANGED <<fDownloads, fTcs, reported, lost, unsure>>,
             \/ /\ fate' = [fate EXCEPT ![cur] = "failed"]
                /\ pc' = "dl_fault" /\ cur' = cur
             \/ /\ fate' = [fate EXCEPT ![cur] = "applied"]
                /\ \/ pc' = "dl_time" /\ cur' = cur
                   \/ pc' = "down"
      PROVE  TransferInv'
  <2>1. /\ fate'[cur] # "none" /\ fTcs[n].fault = "ok"
        /\ pc' = "dl_fault" => fate'[cur] = "failed"
        /\ pc' # "dl_fault" => fate'[cur] = "applied"
        /\ \A e \in Downloads : e # cur => fate'[e] = fate[e]
    BY <1>3, <1>d, <1>l DEF TransferInv, Handled
  <2>2. TransferAccounted' /\ Places'
    BY <1>3, <2>1, <1>d, <1>l
    DEF TransferInv, TransferAccounted, Places, Recorded
  <2>3. Handled' /\ Timed'
    BY <1>3, <2>1 DEF TransferInv, Handled, Timed
  <2>4. Truthful'
    BY <1>3, <2>1, <1>d, <1>l DEF TransferInv, Truthful, Says
  <2>5. ReportTruthful'
    BY <1>3, <2>1, <1>l DEF TransferInv, ReportTruthful
  <2> QED
    BY <2>2, <2>3, <2>4, <2>5 DEF TransferInv
<1>4. CASE ApplyFails
  BY <1>3, <1>4 DEF ApplyFails
<1>5. CASE Applied
  BY <1>3, <1>5 DEF Applied
<1>6. CASE AppliedConfiguration
  BY <1>3, <1>6 DEF AppliedConfiguration, Exit
<1>9. CASE AppliedFirmware
  <2>1. /\ pc = "dl_apply" /\ pc' = "down" /\ cur \in Recorded(fTcs)
        /\ fate' = [fate EXCEPT ![cur] = "applied"]
        /\ UNCHANGED <<reported, unsure>>
    BY <1>9, <1>l, <1>d DEF AppliedFirmware, Exit
  <2>2. /\ fDownloads' = {} /\ fTcs' = << >> /\ Recorded(fTcs') = {}
        /\ lost' = lost \cup fDownloads \cup Recorded(fTcs)
    BY <1>9, <2>1 DEF AppliedFirmware, WipeFile, Unreported, Recorded
  <2>3. \A e \in Downloads : e # cur => fate'[e] = fate[e]
    BY <2>1, <1>d, <1>l
  <2>4. TransferAccounted'
    BY <2>1, <2>2, <2>3, <1>d DEF TransferInv, TransferAccounted
  <2>5. Places'
    BY <2>1, <2>2, <2>3, <1>d, <1>l DEF TransferInv, Places
  <2>6. Handled' /\ Timed' /\ Truthful'
    BY <2>1, <2>2 DEF Handled, Timed, Truthful
  <2>7. ReportTruthful'
    BY <2>1, <2>3, <1>l DEF TransferInv, ReportTruthful
  <2> QED
    BY <2>4, <2>5, <2>6, <2>7 DEF TransferInv
<1>7. CASE RecordFault
  <2>u. /\ pc = "dl_fault" /\ pc' = "dl_time"
        /\ UNCHANGED <<cur, fDownloads, fate, reported, lost, unsure>>
    BY <1>7 DEF RecordFault
  <2>1. fTcs' = [fTcs EXCEPT ![n].fault = "fail"]
    BY <1>7 DEF RecordFault, FaultOnLast
  <2>2. fTcs' \in Seq(Transfer)
    BY <1>7, <1>l, LastReportType DEF RecordFault, TypeInv, TypeOK
  <2>3. DOMAIN fTcs' = DOMAIN fTcs /\ Len(fTcs') = n
    <3>1. DOMAIN fTcs' = 1 .. Len(fTcs') /\ Len(fTcs') \in Nat
      BY <2>2, LenProperties
    <3> QED
      BY <2>1, <3>1, <1>d
  <2>4. /\ \A i \in DOMAIN fTcs : fTcs'[i].d = fTcs[i].d
                                  /\ fTcs'[i].time = fTcs[i].time
        /\ \A i \in DOMAIN fTcs : i # n => fTcs'[i].fault = fTcs[i].fault
        /\ fTcs'[n].fault = "fail" /\ fate[cur] = "failed"
    BY <2>u, <2>1, <1>d, <1>l DEF Transfer, TransferInv, Handled
  <2>5. Recorded(fTcs') = Recorded(fTcs)
    BY <2>3, <2>4, ReportsRewritten
  <2>6. TransferAccounted' /\ Places'
    BY <2>u, <2>3, <2>4, <2>5 DEF TransferInv, TransferAccounted, Places
  <2>7. Handled' /\ Timed'
    BY <2>u, <2>3, <2>4, <1>l DEF TransferInv, Handled, Timed
  <2>8. Truthful' /\ ReportTruthful'
    BY <2>u, <2>3, <2>4, <1>l DEF TransferInv, Truthful, ReportTruthful, Says
  <2> QED
    BY <2>6, <2>7, <2>8 DEF TransferInv
<1>8. CASE RecordTime
  <2>u. /\ pc = "dl_time" /\ pc' = "idle"
        /\ UNCHANGED <<fDownloads, fate, reported, lost, unsure>>
    BY <1>8 DEF RecordTime
  <2>1. fTcs' = [fTcs EXCEPT ![n].time = TRUE]
    BY <1>8 DEF RecordTime
  <2>2. fTcs' \in Seq(Transfer)
    BY <2>1, <1>l, LastReportType DEF TypeInv, TypeOK
  <2>3. DOMAIN fTcs' = DOMAIN fTcs /\ Len(fTcs') = n
    <3>1. DOMAIN fTcs' = 1 .. Len(fTcs') /\ Len(fTcs') \in Nat
      BY <2>2, LenProperties
    <3> QED
      BY <2>1, <3>1, <1>d
  <2>4. /\ \A i \in DOMAIN fTcs : fTcs'[i].d = fTcs[i].d
                                  /\ fTcs'[i].fault = fTcs[i].fault
        /\ \A i \in DOMAIN fTcs : i # n => fTcs'[i].time = fTcs[i].time
        /\ fTcs'[n].time = TRUE
    BY <2>u, <2>1, <1>d, <1>l DEF Transfer
  <2>5. Recorded(fTcs') = Recorded(fTcs)
    BY <2>3, <2>4, ReportsRewritten
  <2>6. TransferAccounted' /\ Places'
    BY <2>u, <2>3, <2>4, <2>5 DEF TransferInv, TransferAccounted, Places
  <2>7. Handled' /\ Timed'
    BY <2>u, <2>3, <2>4, <1>l DEF TransferInv, Handled, Timed
  <2>8. Truthful' /\ ReportTruthful'
    BY <2>u, <2>3, <2>4, <1>l DEF TransferInv, Truthful, ReportTruthful, Says
  <2> QED
    BY <2>6, <2>7, <2>8 DEF TransferInv
<1> QED
  BY <1>2, <1>4, <1>5, <1>6, <1>7, <1>8, <1>9

LEMMA TransferInit == Init => TransferInv
BY DEF Init, TransferInv, TransferAccounted, Places, Handled, Truthful,
       ReportTruthful, Timed, Recorded, Late, Correcting

LEMMA TransferNext == TypeInv /\ TransferInv /\ [Next]_vars => TransferInv'
BY QuietOrTransferring, QuietKeeps, RestartKeeps, SessionKeeps, FetchKeeps,
   ApplyKeeps DEF Transferring

LEMMA TransferInvariant == Spec => []TransferInv
BY TransferInit, TransferNext, TypeInvariant, PTL DEF Spec

\* Through any number of downloads, sessions, failed or repeated ones, crashes
\* and restarts a download that the device accepted stays in the backup file,
\* in one place, until the ACS has been told of it or the file is lost: to a
\* new ACS, a crash, a factory reset or a firmware upgrade, which keeps nothing.
THEOREM TransfersAccounted == Spec => []TransferAccounted
BY TransferInvariant, PTL DEF TransferInv

\* A TransferComplete tells the ACS what happened to the download, unless a
\* crash fell between recording it with FAULT_0 and correcting it.
THEOREM ReportsTruthful == Spec => []ReportTruthful
BY TransferInvariant, PTL DEF TransferInv

\* Every TransferComplete that can be sent has its completion time.
THEOREM CompleteTimesKnown == Spec => []CompleteTimeKnown
<1>1. TransferInv => CompleteTimeKnown
  BY DEF TransferInv, Timed, CompleteTimeKnown, Late
<1> QED
  BY <1>1, TransferInvariant, PTL

-----------------------------------------------------------------------------
(* CwmpAgent implements TransferLedger.                                    *)

\* A download moves in the ledger, the others stay.
Moves(d, from, to) ==
    /\ StageOf(d) = from /\ StageOf(d)' = to
    /\ \A e \in Downloads \ {d} : StageOf(e)' = StageOf(e)

Loses(S) ==
    /\ \A d \in S : StageOf(d) \in {"pending", "complete"} /\ StageOf(d)' = "lost"
    /\ \A e \in Downloads \ S : StageOf(e)' = StageOf(e)

Stays == \A d \in Downloads : StageOf(d)' = StageOf(d)

\* What a wiped file does to the ledger.
LEMMA WipeLoses ==
    ASSUME TypeInv, TransferInv, WipeFile, UNCHANGED <<fate, reported>>,
           pc' \in {"bootstrap", "down"}
    PROVE  Unreported \in SUBSET Downloads /\ Loses(Unreported)
<1>1. /\ fDownloads' = {} /\ Recorded(fTcs') = {} /\ pc' # "dl_record"
      /\ lost' = lost \cup Unreported
  BY DEF WipeFile, Recorded
<1>2. Unreported \subseteq Downloads
  BY UnreportedType DEF TypeInv
<1>3. \A d \in Unreported : fate[d] # "none"
  BY DEF TransferInv, Places, Handled, Unreported
<1>4. ASSUME NEW d \in Downloads
      PROVE  d \in Unreported <=> \/ d \in fDownloads \cup Recorded(fTcs)
                                  \/ pc = "dl_record" /\ cur = d
  BY DEF Unreported
<1> QED
  BY <1>1, <1>2, <1>3, <1>4 DEF Loses, StageOf

\* Steps of the agent are steps of the ledger, or leave it alone.
LEMMA StagesMove ==
    ASSUME TypeInv, TransferInv, TransferInv', [Next]_vars
    PROVE  \/ Stays
           \/ \E d \in Downloads : \/ Moves(d, "none", "pending")
                                   \/ Moves(d, "pending", "complete")
                                   \/ Moves(d, "complete", "reported")
           \/ \E S \in SUBSET Downloads : Loses(S)
<1> USE DEF listVars, queueVars, timerVars, sessionVars, localVars, confVars,
            boundVars, transferHist, history
<1>1. CASE Quiet
  BY <1>1 DEF Quiet, Calm, Stays, StageOf, Recorded
<1>2. CASE Start
  <2>1. DOMAIN fTcs' = DOMAIN fTcs /\ \A i \in DOMAIN fTcs : fTcs'[i].d = fTcs[i].d
    BY <1>2, ReportsDomain DEF Start, AllCompleteTimes, TypeInv, Transfer
  <2>2. Recorded(fTcs') = Recorded(fTcs)
    BY <2>1, ReportsRewritten
  <2> QED
    BY <1>2, <2>2 DEF Start, Stays, StageOf
<1>3. CASE NewAcs
  BY <1>3, WipeLoses DEF NewAcs
<1>4. CASE EndFactoryReset
  BY <1>4, WipeLoses DEF EndFactoryReset, Exit
<1>5. CASE CrashInSave
  BY <1>5, WipeLoses DEF CrashInSave, Exit
<1>6. CASE Crash
  <2>1. /\ pc' = "down" /\ UNCHANGED <<fDownloads, fTcs, fate, reported>>
        /\ lost' = IF pc = "dl_record" THEN lost \cup {cur} ELSE lost
    BY <1>6 DEF Crash, Exit
  <2>2. CASE pc = "dl_record"
    <3>1. cur \in Downloads
      BY <2>2 DEF TypeInv, Locals, Launching
    <3>2. Loses({cur})
      BY <2>1, <2>2, <3>1 DEF Loses, StageOf, Recorded, TransferInv, Handled
    <3> QED
      BY <3>1, <3>2
  <2>3. CASE pc # "dl_record"
    BY <2>1, <2>3 DEF Stays, StageOf, Recorded
  <2> QED
    BY <2>2, <2>3
<1>7. CASE TransferCompleteAnswered \/ TransferCompleteFails
  <2>1. /\ pc = "requests" /\ pc' \in {"tc_answered", "end"}
        /\ UNCHANGED <<fDownloads, fTcs, fate, lost>>
        /\ \/ reported' = [reported EXCEPT ![fTcs[1].d] = fTcs[1].fault]
           \/ reported' = reported
    BY <1>7 DEF TransferCompleteAnswered, TransferCompleteFails, Fail
  <2>2. fTcs[1].d \in Recorded(fTcs)
    BY <1>7, ReportsDomain
    DEF TransferCompleteAnswered, TransferCompleteFails, TypeInv, Recorded
  <2>3. \A d \in Downloads : d \notin Recorded(fTcs) => reported'[d] = reported[d]
    BY <2>1, <2>2 DEF TypeInv, TypeOK
  <2>4. Recorded(fTcs') = Recorded(fTcs)
    BY <2>1
  <2> QED
    BY <2>1, <2>3, <2>4 DEF Stays, StageOf
<1>8. CASE RemoveTransferComplete
  <2>1. /\ pc = "tc_answered" /\ pc' = "tc_events"
        /\ UNCHANGED <<fDownloads, fate, reported, lost>>
    BY <1>8 DEF RemoveTransferComplete
  <2>2. fTcs # << >> /\ fTcs' = DropReport(fTcs)
    BY <1>8 DEF RemoveTransferComplete, TypeInv, Locals
  <2>d. PICK d \in Downloads : d = fTcs[1].d
    BY <2>2, ReportsDomain DEF TypeInv, Transfer
  <2>3. /\ DOMAIN fTcs' = 1 .. Len(fTcs) - 1
        /\ \A i \in DOMAIN fTcs' : /\ i + 1 \in DOMAIN fTcs /\ i + 1 # 1
                                   /\ fTcs'[i] = fTcs[i + 1]
        /\ Recorded(fTcs') \subseteq Recorded(fTcs)
        /\ Recorded(fTcs) \subseteq Recorded(fTcs') \cup {d}
    BY <2>2, <2>d, ReportDropped DEF TypeInv
  <2>4. /\ 1 \in DOMAIN fTcs /\ d \in Recorded(fTcs) /\ d \in Downloads
        /\ reported[d] # "none"
    BY <2>1, <2>2, <2>d, ReportsDomain
    DEF TypeInv, Recorded, TransferInv, Handled, Transfer
  <2>5. d \notin Recorded(fTcs')
    BY <2>3, <2>4, <2>d DEF Recorded, TransferInv, TransferAccounted
  <2>6. /\ d \notin fDownloads /\ d \notin lost /\ fate[d] # "none"
    BY <2>4 DEF TransferInv, TransferAccounted, Places
  <2>7. \A e \in Downloads \ {d} : e \in Recorded(fTcs') <=> e \in Recorded(fTcs)
    BY <2>3
  <2>8. d \in Downloads /\ d \in Recorded(fTcs) /\ reported[d] # "none"
    BY <2>4
  <2>9. Moves(d, "complete", "reported")
    BY <2>1, <2>5, <2>6, <2>7, <2>8 DEF Moves, StageOf
  <2> QED
    BY <2>8, <2>9
<1>9. ASSUME NEW d \in Downloads, HandleDownload(d)
      PROVE  Moves(d, "none", "pending")
  <2>1. /\ pc = "messages" /\ pc' = "messages" /\ fate[d] = "none"
        /\ fDownloads' = fDownloads \cup {d}
        /\ UNCHANGED <<fTcs, reported, lost>>
    BY <1>9 DEF HandleDownload, AddDownload
  <2>2. /\ fate'[d] = "asked"
        /\ \A e \in Downloads : e # d => fate'[e] = fate[e]
    BY <1>9 DEF HandleDownload, TypeInv, TypeOK
  <2>3. Recorded(fTcs') = Recorded(fTcs)
    BY <2>1
  <2> QED
    BY <2>1, <2>2, <2>3 DEF Moves, StageOf
<1>10. CASE Fetch
  <2>1. /\ pc = "launch" /\ pc' = "dl_remove"
        /\ UNCHANGED <<fDownloads, fTcs, reported, lost>>
    BY <1>10 DEF Fetch
  <2>2. cur \in fDownloads /\ fate[cur] # "none"
    BY <2>1 DEF TypeInv, Locals, Slots
  <2>3. /\ fate'[cur] # "none"
        /\ \A e \in Downloads : e # cur => fate'[e] = fate[e]
    BY <1>10, <2>2 DEF Fetch, TypeInv, TypeOK
  <2>4. Recorded(fTcs') = Recorded(fTcs)
    BY <2>1
  <2> QED
    BY <2>1, <2>2, <2>3, <2>4 DEF Stays, StageOf
<1>11. CASE RemoveDownload
  BY <1>11 DEF RemoveDownload, TypeInv, Locals, Slots, Stays, StageOf, Recorded
<1>12. CASE RecordTransfer
  <2> DEFINE r == [d |-> cur, mid |-> method_id + 1, fault |-> "ok",
                   time |-> FALSE]
  <2>1. /\ pc = "dl_record" /\ pc' = "dl_event"
        /\ UNCHANGED <<cur, fDownloads, fate, reported, lost>>
    BY <1>12 DEF RecordTransfer
  <2>2. r \in Transfer /\ r.d = cur /\ cur \in Downloads
    BY <2>1 DEF TypeInv, TypeOK, Locals, Launching, Transfer
  <2>3. fTcs' = Append(fTcs, r)
    BY <1>12 DEF RecordTransfer
  <2> HIDE DEF r
  <2>4. Recorded(fTcs') = Recorded(fTcs) \cup {cur}
    BY <2>2, <2>3, ReportAppended DEF TypeInv
  <2>5. cur \notin fDownloads /\ fate[cur] # "none"
    BY <2>1 DEF TransferInv, Handled
  <2>6. PICK d \in Downloads : d = cur
    BY <2>2
  <2>7. Moves(d, "pending", "complete")
    BY <2>1, <2>4, <2>5, <2>6 DEF Moves, StageOf
  <2> QED
    BY <2>7
<1>13. CASE AddTransferEvent \/ AddDownloadEvent
  BY <1>13 DEF AddTransferEvent, AddDownloadEvent, Stays, StageOf, Recorded
<1>14. CASE ApplyFails \/ Applied \/ AppliedConfiguration
  <2>1. /\ pc = "dl_apply" /\ pc' \in {"dl_fault", "dl_time", "down"}
        /\ UNCHANGED <<fDownloads, fTcs, reported, lost>>
        /\ \/ fate' = [fate EXCEPT ![cur] = "failed"]
           \/ fate' = [fate EXCEPT ![cur] = "applied"]
    BY <1>14 DEF ApplyFails, Applied, AppliedConfiguration, Exit
  <2>2. fTcs # << >> /\ fTcs[Len(fTcs)].d = cur
    BY <2>1 DEF TypeInv, Locals, Launching, TransferInv, Handled, Late
  <2>3. cur \in Recorded(fTcs)
    BY <2>2, ReportsDomain DEF TypeInv, Recorded
  <2>4. cur \in Downloads /\ fate[cur] # "none"
    BY <2>3, ReportsDomain DEF TypeInv, TransferInv, Places
  <2>5. /\ fate'[cur] # "none"
        /\ \A e \in Downloads : e # cur => fate'[e] = fate[e]
    BY <2>1, <2>4 DEF TypeInv, TypeOK
  <2>6. Recorded(fTcs') = Recorded(fTcs)
    BY <2>1
  <2> QED
    BY <2>1, <2>4, <2>5, <2>6 DEF Stays, StageOf
<1>16. CASE AppliedFirmware
  <2>1. /\ pc = "dl_apply" /\ pc' = "down"
        /\ fate' = [fate EXCEPT ![cur] = "applied"] /\ reported' = reported
        /\ fDownloads' = {} /\ Recorded(fTcs') = {}
        /\ lost' = lost \cup Unreported /\ Unreported = fDownloads \cup Recorded(fTcs)
    BY <1>16 DEF AppliedFirmware, WipeFile, Exit, Unreported, Recorded
  <2>2. cur \in Recorded(fTcs) /\ Unreported \subseteq Downloads
    <3>1. fTcs # << >> /\ fTcs[Len(fTcs)].d = cur
      BY <2>1 DEF TypeInv, Locals, Launching, TransferInv, Handled, Late
    <3> QED
      BY <3>1, ReportsDomain, UnreportedType DEF TypeInv, Recorded
  <2>3. \A d \in Unreported : fate[d] # "none"
    BY <2>1 DEF TransferInv, Places
  <2>4. \A d \in Downloads : fate'[d] = "none" <=> fate[d] = "none"
    BY <2>1, <2>2, <2>3 DEF TypeInv, TypeOK
  <2>5. Loses(Unreported)
    BY <2>1, <2>2, <2>3, <2>4 DEF Loses, StageOf
  <2> QED
    BY <2>2, <2>5
<1>15. CASE RecordFault \/ RecordTime
  <2>1. /\ pc \in {"dl_fault", "dl_time"} /\ pc' \in {"dl_time", "idle"}
        /\ UNCHANGED <<fDownloads, fate, reported, lost>>
    BY <1>15 DEF RecordFault, RecordTime
  <2>2. DOMAIN fTcs' = DOMAIN fTcs /\ \A i \in DOMAIN fTcs : fTcs'[i].d = fTcs[i].d
    <3>1. \/ fTcs' = [fTcs EXCEPT ![Len(fTcs)].fault = "fail"]
          \/ fTcs' = [fTcs EXCEPT ![Len(fTcs)].time = TRUE]
      BY <1>15 DEF RecordFault, RecordTime, FaultOnLast
    <3> QED
      BY <3>1, ReportsDomain DEF TypeInv, Transfer
  <2>3. Recorded(fTcs') = Recorded(fTcs)
    BY <2>2, ReportsRewritten
  <2> QED
    BY <2>1, <2>3 DEF Stays, StageOf
<1> QED
  BY <1>1, <1>2, <1>3, <1>4, <1>5, <1>6, <1>7, <1>8, <1>9, <1>10, <1>11,
     <1>12, <1>13, <1>14, <1>15, <1>16, QuietOrTransferring DEF Transferring

LEMMA LedgerStep ==
    ASSUME TypeInv, TransferInv, TransferInv', [Next]_vars
    PROVE  [Ledger!LedgerNext]_([d \in Downloads |-> StageOf(d)])
<1>1. CASE Stays
  BY <1>1 DEF Stays
<1>2. ASSUME NEW d \in Downloads,
             \/ Moves(d, "none", "pending") \/ Moves(d, "pending", "complete")
             \/ Moves(d, "complete", "reported")
      PROVE  Ledger!LedgerNext
  BY <1>2 DEF Moves, Ledger!LedgerNext, Ledger!Accept, Ledger!Complete,
              Ledger!Report, Ledger!Move
<1>3. ASSUME NEW S \in SUBSET Downloads, Loses(S)
      PROVE  Ledger!LedgerNext
  BY <1>3 DEF Loses, Ledger!LedgerNext, Ledger!Lose
<1> QED
  BY <1>1, <1>2, <1>3, StagesMove

\* The agent keeps the ledger of TransferLedger: through sessions, retries,
\* crashes and restarts a download only moves forward, its request is never
\* carried out again once its report is recorded, and no report leaves the
\* file before it is answered.
THEOREM LedgerImplemented == Spec => LedgerKept
<1>1. Init => Ledger!LedgerInit
  BY DEF Init, Ledger!LedgerInit, StageOf
<1>2. TypeInv /\ TransferInv /\ TransferInv' /\ [Next]_vars
         => [Ledger!LedgerNext]_([d \in Downloads |-> StageOf(d)])
  BY LedgerStep
<1> QED
  BY <1>1, <1>2, TypeInvariant, TransferInvariant, PTL
  DEF Spec, LedgerKept, Ledger!LedgerSpec

====
