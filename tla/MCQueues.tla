------------------------------ MODULE MCQueues ------------------------------
(***************************************************************************)
(* The queues of the scheduler and of IPC, each driven by a client of its  *)
(* own, and the echo service that answers requests from such a queue:      *)
(* `part` says which one this behaviour exercises; the others rest.        *)
(***************************************************************************)
EXTENDS Rings, EchoService, TLC

CONSTANTS t1, t2, t3, p1, p2

VARIABLE part

MCThreads == {t1, t2, t3}
MCProcessOf == (t1 :> p1) @@ (t2 :> p1) @@ (t3 :> p2)

MCInit == /\ part \in {"run", "ready", "ipc", "echo"}
          /\ Init /\ ReadyInit /\ IpcInit /\ EchoInit

MCNext ==
    /\ UNCHANGED part
    /\ \/ part = "run" /\ Next /\ UNCHANGED <<readyVars, ipcVars, echoVars>>
       \/ part = "ready" /\ ReadyNext /\ UNCHANGED <<rq, ipcVars, echoVars>>
       \/ part = "ipc" /\ IpcNext /\ UNCHANGED <<rq, readyVars, echoVars>>
       \/ part = "echo" /\ EchoNext /\ UNCHANGED <<rq, readyVars, ipcVars>>

MCSpec == MCInit /\ [][MCNext]_<<part, rq, readyVars, ipcVars, echoVars>> /\ WF_rq(NextRecord)
=============================================================================
