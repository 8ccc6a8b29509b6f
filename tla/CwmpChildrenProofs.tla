------------------------- MODULE CwmpChildrenProofs -------------------------
(***************************************************************************)
(* Proofs about CwmpChildren, for any number of connections.               *)
(***************************************************************************)
EXTENDS CwmpChildren, TLAPS

\* How the exit status of a child travels to http_del_client.
StatusKept ==
    /\ pc = "del_client" <=> cl # Nobody
    /\ cl # Nobody => child[cl] = "gone" /\ ret = answer[cl]
    /\ \A c \in Clients : child[c] \in Exited => answer[c] = child[c]
    /\ \A c \in requests : child[c] = "gone"

\* While a handler that waits for children is running, every live child
\* counts as overlapped.
Overlap == pc # "idle" => Alive \subseteq overlapped

ChildrenInv ==
    ChildrenTypeOK /\ NoScriptLeft /\ StatusKept /\ Overlap /\ LostOnlyByOverlap

\* The HTTP server preserves the invariant.
LEMMA ServerStep ==
    ASSUME ChildrenInv, NEW c \in Clients, NEW s \in Exited,
           Arrive(c) \/ Connect(c) \/ Reap(c) \/ ChildExits(c, s) \/ DelClient
    PROVE  ChildrenInv'
<1> USE ChildrenAssumption DEF ChildrenInv, server
<1>1. CASE Connect(c)
  BY <1>1 DEF Connect, ChildrenTypeOK, NoScriptLeft, StatusKept, Overlap,
              LostOnlyByOverlap, Alive, Exited
<1>2. CASE Reap(c)
  BY <1>2 DEF Reap, ChildrenTypeOK, NoScriptLeft, StatusKept, Overlap,
              LostOnlyByOverlap, Alive, Exited
<1>3. CASE ChildExits(c, s)
  BY <1>3 DEF ChildExits, ChildrenTypeOK, NoScriptLeft, StatusKept, Overlap,
              LostOnlyByOverlap, Alive, Exited
<1>5. CASE Arrive(c)
  BY <1>5 DEF Arrive, ChildrenTypeOK, NoScriptLeft, StatusKept, Overlap,
              LostOnlyByOverlap, Alive, Exited
<1>4. CASE DelClient
  <2>1. cl \in Clients /\ Alive \subseteq overlapped
    BY <1>4 DEF DelClient, ChildrenTypeOK, StatusKept, Overlap
  <2>2. /\ child' \in [Clients -> {"none", "queued", "running", "ok", "fail", "gone"}]
        /\ \A d \in Clients : \/ child'[d] = child[d]
                              \/ child'[d] = "gone" /\ d \in overlapped
    BY <1>4, <2>1 DEF DelClient, ChildrenTypeOK, Alive, Exited
  <2>3. /\ requests' \subseteq requests \cup {cl}
        /\ requests \subseteq requests'
        /\ cl \in requests' => cl \in requests \/ ret = "ok"
        /\ ret = "ok" => cl \in requests'
    BY <1>4 DEF DelClient, Requested
  <2>4. ChildrenTypeOK' /\ NoScriptLeft' /\ Overlap'
    BY <1>4, <2>1, <2>2, <2>3
    DEF DelClient, ChildrenTypeOK, NoScriptLeft, Overlap, Exited
  <2>5. StatusKept'
    BY <1>4, <2>1, <2>2, <2>3 DEF DelClient, StatusKept, ChildrenTypeOK, Exited
  <2>6. LostOnlyByOverlap'
    BY <1>4, <2>1, <2>2, <2>3
    DEF DelClient, StatusKept, LostOnlyByOverlap, ChildrenTypeOK
  <2> QED
    BY <2>4, <2>5, <2>6
<1> QED
  BY <1>1, <1>2, <1>3, <1>4, <1>5

\* Starting and ending the script preserves the invariant.
LEMMA ScriptStep ==
    ASSUME ChildrenInv,
           \/ StartScript \/ ForkFails \/ SessionInitFails \/ FinishHandler
           \/ ScriptExits \/ WaitScript \/ WaitFails
    PROVE  ChildrenInv'
<1> USE ChildrenAssumption DEF ChildrenInv, server
<1>1. CASE StartScript
  BY <1>1 DEF StartScript, ChildrenTypeOK, NoScriptLeft, StatusKept, Overlap,
              LostOnlyByOverlap, Alive
<1>2. CASE ForkFails
  BY <1>2 DEF ForkFails, ChildrenTypeOK, NoScriptLeft, StatusKept, Overlap,
              LostOnlyByOverlap, Alive
<1>3. CASE SessionInitFails
  BY <1>3 DEF SessionInitFails, ChildrenTypeOK, NoScriptLeft, StatusKept,
              Overlap, LostOnlyByOverlap, Alive
<1>4. CASE FinishHandler
  BY <1>4 DEF FinishHandler, ChildrenTypeOK, NoScriptLeft, StatusKept, Overlap,
              LostOnlyByOverlap, Alive
<1>5. CASE ScriptExits
  BY <1>5 DEF ScriptExits, ChildrenTypeOK, NoScriptLeft, StatusKept, Overlap,
              LostOnlyByOverlap, Alive
<1>6. CASE WaitScript
  BY <1>6 DEF WaitScript, ChildrenTypeOK, NoScriptLeft, StatusKept, Overlap,
              LostOnlyByOverlap, Alive
<1>7. CASE WaitFails
  BY <1>7 DEF WaitFails, ChildrenTypeOK, NoScriptLeft, StatusKept, Overlap,
              LostOnlyByOverlap, Alive
<1> QED
  BY <1>1, <1>2, <1>3, <1>4, <1>5, <1>6, <1>7

\* The loop of external_exit steals only overlapped children.
LEMMA WaitOtherStep ==
    ASSUME ChildrenInv, NEW c \in Clients, WaitOther(c)
    PROVE  ChildrenInv'
BY ChildrenAssumption
DEF ChildrenInv, WaitOther, ChildrenTypeOK, NoScriptLeft, StatusKept, Overlap,
    LostOnlyByOverlap, Alive, Exited, server

\* The invariant holds throughout.
THEOREM ChildrenInvariant == ChildrenSpec => []ChildrenInv
<1>1. ChildrenInit => ChildrenInv
  <2>1. ChildrenInit => ChildrenTypeOK
    <3>1. FALSE \in BOOLEAN
      OBVIOUS
    <3>2. 0 \in Nat
      OBVIOUS
    <3> QED
      BY <3>1, <3>2, ChildrenAssumption, Zenon DEF ChildrenInit, ChildrenTypeOK, Exited
  <2> QED
    BY <2>1, ChildrenAssumption
    DEF ChildrenInit, ChildrenInv, NoScriptLeft, StatusKept, Overlap,
        LostOnlyByOverlap, Exited
<1>2. ChildrenInv /\ [ChildrenNext]_vars => ChildrenInv'
  <2>1. SUFFICES ASSUME ChildrenInv, [ChildrenNext]_vars
                 PROVE  ChildrenInv'
    OBVIOUS
  <2>2. CASE UNCHANGED vars
    BY <2>1, <2>2
    DEF vars, ChildrenInv, ChildrenTypeOK, NoScriptLeft, StatusKept, Overlap,
        LostOnlyByOverlap, Alive
  <2>3. CASE ChildrenNext
    <3>1. CASE DelClient
      <4>1. Clients # {}
        BY <2>1, <3>1 DEF ChildrenInv, ChildrenTypeOK, StatusKept, DelClient
      <4> QED
        BY <2>1, <3>1, <4>1, ServerStep DEF Exited
    <3>2. CASE Spin
      BY <2>2, <3>2 DEF Spin
    <3> QED
      BY <2>1, <2>3, <3>1, <3>2, ServerStep, ScriptStep, WaitOtherStep
      DEF ChildrenNext, Daemon, Exited
  <2> QED
    BY <2>1, <2>2, <2>3
<1> QED
  BY <1>1, <1>2, PTL DEF ChildrenSpec

\* Every variable keeps its type; in particular what http_del_client is handed
\* is an exit status, whichever wait collected the child.
THEOREM ChildrenTypeCorrect == ChildrenSpec => []ChildrenTypeOK
<1>1. ChildrenInv => ChildrenTypeOK
  BY DEF ChildrenInv
<1> QED
  BY <1>1, ChildrenInvariant, PTL

\* However many connections die during external_exit, no handler returns
\* without having collected its own script.
THEOREM ScriptCollected == ChildrenSpec => []NoScriptLeft
<1>1. ChildrenInv => NoScriptLeft
  BY DEF ChildrenInv
<1> QED
  BY <1>1, ChildrenInvariant, PTL

\* An acknowledged connection request can be lost only to the wait of
\* another handler that ran while its child was alive.
THEOREM LossNeedsOverlap == ChildrenSpec => []LostOnlyByOverlap
<1>1. ChildrenInv => LostOnlyByOverlap
  BY DEF ChildrenInv
<1> QED
  BY <1>1, ChildrenInvariant, PTL
=============================================================================
