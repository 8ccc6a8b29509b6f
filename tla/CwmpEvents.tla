----------------------------- MODULE CwmpEvents -----------------------------
(***************************************************************************)
(* The event list of the easycwmp agent (cwmp.c) and its persistent copy   *)
(* in the backup file (backup.c), as operators on sets of event records.   *)
(*                                                                         *)
(* An event of the in-memory list carries, in the field node, the place of *)
(* the XML element that backs it up (its backup_node), 0 when it has none. *)
(* Elements are numbered in document order: a new one is appended to the   *)
(* document, so it gets a number above all the others.  The order of the   *)
(* memory list is never observed and is left out.                          *)
(***************************************************************************)
EXTENDS Naturals, FiniteSets, FiniteSetsExt

CONSTANT
    NoKey           \* an event without a command key

EventCode == {"BOOTSTRAP", "BOOT", "PERIODIC", "SCHEDULED", "VALUE_CHANGE",
              "KICKED", "CONNECTION_REQUEST", "TRANSFER_COMPLETE",
              "DIAGNOSTICS_COMPLETE", "REQUEST_DOWNLOAD",
              "AUTONOMOUS_TRANSFER_COMPLETE", "M_REBOOT",
              "M_SCHEDULEINFORM", "M_DOWNLOAD"}

Multiple == {"M_REBOOT", "M_SCHEDULEINFORM", "M_DOWNLOAD"}

AfterTransferComplete ==
    {"TRANSFER_COMPLETE", "AUTONOMOUS_TRANSFER_COMPLETE", "M_DOWNLOAD"}

\* Mutant: the NO_RETRY flag on a row too many.
PeriodicNotRetried(code) ==
    IF code \in AfterTransferComplete THEN {"AFTER_TRANSFER_COMPLETE"}
    ELSE IF code \in {"PERIODIC", "CONNECTION_REQUEST"} THEN {"AFTER_INFORM", "NO_RETRY"}
    ELSE {"AFTER_INFORM"}

\* The remove_policy column of event_code_array.
RemovePolicy(code) ==
    IF code \in AfterTransferComplete THEN {"AFTER_TRANSFER_COMPLETE"}
    ELSE IF code = "CONNECTION_REQUEST" THEN {"AFTER_INFORM", "NO_RETRY"}
    ELSE {"AFTER_INFORM"}

Present(evs, code) == \E e \in evs : e.code = code

\* cwmp_add_event returns NULL: an EVENT_SINGLE code is already in the list.
Refused(evs, code) == code \notin Multiple /\ Present(evs, code)

NodesOf(evs) == {e.node : e \in evs}

\* The number of an element appended to a document that holds these nodes.
FreshNode(nodes) == Max(nodes \cup {0}) + 1

NewEvent(code, key, mid, node) ==
    [code |-> code, key |-> key, mid |-> mid, node |-> node]

\* The events cwmp_remove_event deletes from the list evs.
Removable(evs, policy, mid) ==
    {e \in evs : policy \in RemovePolicy(e.code) /\ e.mid = mid}

\* The backup document fevs once the elements of the events gone are deleted.
Unlink(fevs, gone) == {f \in fevs : f.node \notin NodesOf(gone)}

\* cwmp_remove_event saves the file after each event it deletes: what a
\* crash on the way leaves in the file.
PartialUnlink(fevs, gone) ==
    {Unlink(fevs, {e \in gone : e.node <= n}) : n \in NodesOf(gone) \cup {0}}

-----------------------------------------------------------------------------
\* backup_load_event declares method_id before its loop and assigns it only
\* for an element that has an event_method_id: any other element gets the
\* last id read before it.
LoadedId(fevs, e) ==
    LET read == {f \in fevs : f.mid # 0 /\ f.node <= e.node}
    IN  IF read = {} THEN 0
        ELSE (CHOOSE f \in read : \A g \in read : g.node <= f.node).mid

\* The list backup_load_event builds: of several elements with a single
\* code only the first becomes an event.
LoadedEvents(fevs) ==
    {[e EXCEPT !.mid = LoadedId(fevs, e)] :
        e \in {f \in fevs : \/ f.code \in Multiple
                            \/ \A g \in fevs : g.code = f.code => f.node <= g.node}}
=============================================================================
