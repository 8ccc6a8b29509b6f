---------------------------- MODULE CwmpChildren ----------------------------
(***************************************************************************)
(* The child processes of the daemon: one per connection to the HTTP       *)
(* server (http.c), which answers the ACS and reports through its exit     *)
(* status, and the script every handler talks to (external.c).             *)
(*                                                                         *)
(* Three places collect dead children: uloop between handlers, wait(0) in  *)
(* http_del_client, and the loop of external_exit.  Only the first one     *)
(* calls the handler of the child it collects.                             *)
(***************************************************************************)
EXTENDS Naturals, FiniteSets

CONSTANTS
    Clients,        \* connections to the HTTP server, each made once
    Nobody,
    MaxInitFail     \* bound: failures of http_client_init, pipe and fork

ASSUME ChildrenAssumption ==
    /\ Nobody \notin Clients
    /\ MaxInitFail \in Nat

VARIABLES
    pc,             \* what the daemon is doing
    rcvtimeo,       \* the listening socket has its SO_RCVTIMEO
    untimed,        \* connections whose socket has none
    child,          \* the process of each connection
    script,         \* the process of external_init
    pid,            \* the variable pid of external.c
    cl,             \* the connection http_del_client runs for
    ret,            \* its exit status
    requests,       \* connections that got to cwmp_connection_request
    initFails,
    \* history
    answer,         \* what each client was answered
    overlapped      \* connections alive together with another wait

server == <<rcvtimeo, untimed>>

vars == <<pc, rcvtimeo, untimed, child, script, pid, cl, ret, requests,
          initFails, answer, overlapped>>

Exited == {"ok", "fail"}

ChildrenTypeOK ==
    /\ pc \in {"idle", "del_client", "session", "external_exit"}
    /\ rcvtimeo \in BOOLEAN /\ untimed \subseteq Clients
    /\ child \in [Clients -> {"none", "queued", "running", "ok", "fail", "gone"}]
    /\ script \in {"none", "running", "exited"}
    /\ pid \in {"stale", "script", "failed"}
    /\ cl \in Clients \cup {Nobody}
    /\ ret \in Exited
    /\ requests \subseteq Clients
    /\ initFails \in Nat
    /\ answer \in [Clients -> {"none", "ok", "fail"}]
    /\ overlapped \subseteq Clients

\* main() has already run external_init and external_exit once.
ChildrenInit ==
    /\ pc = "idle"
    /\ rcvtimeo = FALSE /\ untimed = {}
    /\ child = [c \in Clients |-> "none"]
    /\ script = "none" /\ pid = "stale"
    /\ cl = Nobody /\ ret = "fail"
    /\ requests = {} /\ initFails = 0
    /\ answer = [c \in Clients |-> "none"]
    /\ overlapped = {}

Alive == {c \in Clients : child[c] \notin {"none", "queued", "gone"}}

-----------------------------------------------------------------------------
(* The HTTP server.                                                        *)

\* The kernel completes the connection, whatever the daemon does, and gives
\* it the timeout that the listening socket has by then.
Arrive(c) ==
    /\ child[c] = "none"
    /\ child' = [child EXCEPT ![c] = "queued"]
    /\ untimed' = IF rcvtimeo THEN untimed ELSE untimed \cup {c}
    /\ UNCHANGED <<pc, rcvtimeo, script, pid, cl, ret, requests, initFails,
                   answer, overlapped>>

\* A round of the loop of http_new_client: accept, setsockopt on the
\* listening socket, not on the one accepted, and fork.
Connect(c) ==
    /\ pc = "idle" /\ child[c] = "queued"
    /\ child' = [child EXCEPT ![c] = "running"]
    /\ rcvtimeo' = TRUE
    /\ UNCHANGED <<pc, untimed, script, pid, cl, ret, requests, initFails,
                   answer, overlapped>>

\* The child answers 200 and exits with 0, or 401 or a timeout and exits with
\* an error.
ChildExits(c, status) ==
    /\ child[c] = "running"
    /\ child' = [child EXCEPT ![c] = status]
    /\ answer' = [answer EXCEPT ![c] = status]
    /\ UNCHANGED <<server, pc, script, pid, cl, ret, requests, initFails,
                   overlapped>>

\* Mutant: the status is read when the process is gone.
ReapStatusLate(c) ==
    /\ pc = "idle" /\ child[c] \in Exited
    /\ child' = [child EXCEPT ![c] = "gone"]
    /\ cl' = c /\ ret' = child'[c]
    /\ overlapped' = overlapped \cup (Alive \ {c})
    /\ pc' = "del_client"
    /\ UNCHANGED <<server, script, pid, requests, initFails, answer>>

\* Mutant: only the children of accepted requests are collected.
ReapAccepted(c) ==
    /\ pc = "idle" /\ child[c] = "ok"
    /\ child' = [child EXCEPT ![c] = "gone"]
    /\ cl' = c /\ ret' = child[c]
    /\ overlapped' = overlapped \cup (Alive \ {c})
    /\ pc' = "del_client"
    /\ UNCHANGED <<server, script, pid, requests, initFails, answer>>

\* uloop collects the child between two handlers and calls http_del_client.
Reap(c) ==
    /\ pc = "idle" /\ child[c] \in Exited
    /\ child' = [child EXCEPT ![c] = "gone"]
    /\ cl' = c /\ ret' = child[c]
    /\ overlapped' = overlapped \cup (Alive \ {c})
    /\ pc' = "del_client"
    /\ UNCHANGED <<server, script, pid, requests, initFails, answer>>

\* Mutant: the test of the exit status is inverted.
RefusedRequested == IF ret = "fail" THEN requests \cup {cl} ELSE requests

\* The test of the exit status, and cwmp_connection_request.
Requested == IF ret = "ok" THEN requests \cup {cl} ELSE requests

\* wait(0) in http_del_client collects some other dead child, or fails
\* because there is no other; it blocks while there are only live ones.
DelClient ==
    /\ pc = "del_client"
    /\ \/ \E c \in Clients : /\ child[c] \in Exited
                             /\ child' = [child EXCEPT ![c] = "gone"]
       \/ Alive = {} /\ UNCHANGED child
    /\ requests' = Requested
    /\ cl' = Nobody /\ ret' = "fail"
    /\ pc' = "idle"
    /\ UNCHANGED <<server, script, pid, initFails, answer, overlapped>>

-----------------------------------------------------------------------------
(* The script: a session, a download, a reload or a notification.          *)

StartScript ==
    /\ pc = "idle"
    /\ script' = "running" /\ pid' = "script"
    /\ overlapped' = overlapped \cup Alive
    /\ pc' = "session"
    /\ UNCHANGED <<server, child, cl, ret, requests, initFails, answer>>

\* fork fails.  cwmp_inform goes to external_exit all the same, the other
\* handlers return.
ForkFails ==
    /\ pc = "idle"
    /\ initFails < MaxInitFail
    /\ initFails' = initFails + 1
    /\ pid' = "failed"
    /\ overlapped' = overlapped \cup Alive
    /\ pc' \in {"idle", "external_exit"}
    /\ UNCHANGED <<server, child, script, cl, ret, requests, answer>>

\* http_client_init or pipe fails in cwmp_inform: external_exit runs with the
\* pid of an earlier script.
SessionInitFails ==
    /\ pc = "idle"
    /\ initFails < MaxInitFail
    /\ initFails' = initFails + 1
    /\ overlapped' = overlapped \cup Alive
    /\ pc' = "external_exit"
    /\ UNCHANGED <<server, child, script, pid, cl, ret, requests, answer>>

FinishHandler ==
    /\ pc = "session"
    /\ pc' = "external_exit"
    /\ UNCHANGED <<server, child, script, pid, cl, ret, requests, initFails,
                   answer, overlapped>>

\* On the command "exit", or killed before.
ScriptExits ==
    /\ script = "running"
    /\ script' = "exited"
    /\ UNCHANGED <<server, pc, child, pid, cl, ret, requests, initFails,
                   answer, overlapped>>

\* The loop of external_exit collects its script and ends.
WaitScript ==
    /\ pc = "external_exit" /\ script = "exited"
    /\ script' = "none" /\ pid' = "stale"
    /\ pc' = "idle"
    /\ UNCHANGED <<server, child, cl, ret, requests, initFails, answer,
                   overlapped>>

\* Mutant: one wait instead of the loop.
WaitAnyEnds(c) ==
    /\ pc = "external_exit" /\ child[c] \in Exited
    /\ child' = [child EXCEPT ![c] = "gone"]
    /\ pc' = "idle"
    /\ UNCHANGED <<server, script, pid, cl, ret, requests, initFails, answer,
                   overlapped>>

\* It collects the child of a connection and goes on.
WaitOther(c) ==
    /\ pc = "external_exit" /\ child[c] \in Exited
    /\ child' = [child EXCEPT ![c] = "gone"]
    /\ UNCHANGED <<server, pc, script, pid, cl, ret, requests, initFails,
                   answer, overlapped>>

\* Mutant: an error of wait does not end the loop.
WaitFailsAgain ==
    /\ pc = "external_exit" /\ script = "none" /\ Alive = {} /\ pid = "failed"
    /\ UNCHANGED vars

\* No child is left: wait returns -1, which is the pid of a failed fork.
WaitFails ==
    /\ pc = "external_exit" /\ script = "none" /\ Alive = {} /\ pid = "failed"
    /\ pc' = "idle"
    /\ UNCHANGED <<server, child, script, pid, cl, ret, requests, initFails,
                   answer, overlapped>>

\* With any other pid the loop goes round for ever.
Spinning == pc = "external_exit" /\ script = "none" /\ pid = "stale"

Spin == Spinning /\ Alive = {} /\ UNCHANGED vars

-----------------------------------------------------------------------------
Daemon ==
    \/ DelClient \/ FinishHandler \/ WaitScript \/ WaitFails
    \/ \E c \in Clients : WaitOther(c)

ChildrenNext ==
    \/ \E c \in Clients : Arrive(c) \/ Connect(c) \/ Reap(c) \/ \E s \in Exited : ChildExits(c, s)
    \/ Daemon
    \/ StartScript \/ ForkFails \/ SessionInitFails \/ ScriptExits \/ Spin

ChildrenSpec == ChildrenInit /\ [][ChildrenNext]_vars

\* uloop collects dead children in every round; a client whose socket has the
\* timeout ends its request or falls silent for a minute; the script obeys
\* "exit".  Nothing is asked of a client without the timeout.
ChildrenFairness ==
    /\ WF_vars(Daemon)
    /\ WF_vars(ScriptExits)
    /\ \A c \in Clients : /\ SF_vars(Reap(c))
                          /\ WF_vars(c \notin untimed /\ \E s \in Exited : ChildExits(c, s))

LiveChildren == ChildrenSpec /\ ChildrenFairness

-----------------------------------------------------------------------------
(* Properties.                                                             *)

\* No handler leaves its script behind, alive or as a zombie, whatever other
\* children die during external_exit: the next external_init finds the
\* daemon without a script, and pid never names a process of another handler.
NoScriptLeft ==
    /\ pc \in {"idle", "del_client"} => script = "none"
    /\ script # "none" => pid = "script"

\* An acknowledged connection request becomes an event unless the child was
\* alive during another handler (http_del_client of another connection, or a
\* handler that ends in external_exit), and a refused one never does.
LostOnlyByOverlap ==
    /\ \A c \in requests : answer[c] = "ok"
    /\ \A c \in Clients \ overlapped :
           child[c] = "gone" /\ answer[c] = "ok" /\ cl # c => c \in requests

\* Every dead child is collected in the end, by one of the three places, also
\* while the daemon is blocked on a silent client.
ZombieReaped ==
    \A c \in Clients : child[c] \in Exited ~> child[c] = "gone"

\* Every handler comes to its end, whatever it waits for, unless a session
\* failed before fork and left external_exit with the pid of an earlier
\* script.  It takes clients that do not stay silent for ever on a socket
\* without the timeout: wait(0) would block on the child of such a one.
HandlerEnds ==
    []<>(\A c \in untimed : child[c] # "running")
        => (pc # "idle" ~> pc = "idle" \/ Spinning)

\* The event handler registered for a child runs when it terminates: an
\* acknowledged connection request becomes an event (http_new_client).
RequestHeard == \A c \in Clients : child[c] = "ok" ~> c \in requests
=============================================================================
