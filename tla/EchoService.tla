----------------------------- MODULE EchoService -----------------------------
(***************************************************************************)
(* The manifest-launched echo service of src/supervisor/mock_service.rs:   *)
(* launch with its own supervising process, a capability and an endpoint;  *)
(* crash and recovery; and dispatch_echo_request, which plays both sides   *)
(* of a request over the kernel's message queues while other processes     *)
(* send to the same endpoint. Callers may send to every process. A         *)
(* payload is an opaque body.                                              *)
(***************************************************************************)
EXTENDS Integers, Sequences, FiniteSets, TLAPS

CONSTANTS Callers, Bodies, MaxProc, MaxCaps, MsgDepth, MaxPid

\* The callers are processes from before; MaxPid bounds the launches.
ASSUME EchoAssumption == MaxPid \in Nat /\ Callers \cap 0 .. MaxPid + 1 = {}

VARIABLES procs,     \* [pid -> "supervisor", "service", "zombie"], the callers apart
          next_pid,
          caps,      \* [pid -> number of capability records it holds]
          owner,     \* of echo.ipc
          queue,     \* of the callers and the processes
          report,    \* service_pid of the MockServiceLaunchReport
          exit,      \* the exit report of a crashed service
          sent,      \* history: <<caller, body>> that were sent
          answers    \* history: what dispatch_echo_request returned

echoVars == <<procs, next_pid, caps, owner, queue, report, exit, sent, answers>>

NoPid == 0
LivePids(ps) == {p \in DOMAIN ps : ps[p] # "zombie"}
Held(cs) == LET sum[s \in SUBSET DOMAIN cs] ==
                    IF s = {} THEN 0
                    ELSE LET x == CHOOSE y \in s : TRUE IN cs[x] + sum[s \ {x}]
            IN sum[DOMAIN cs]
With(f, x, v) == [y \in DOMAIN f \cup {x} |-> IF y = x THEN v ELSE f[y]]

EchoInit ==
    /\ procs = [p \in {} |-> 0] /\ next_pid = 1
    /\ caps = [p \in {} |-> 0]
    /\ owner = NoPid
    /\ queue = [c \in Callers |-> <<>>]
    /\ report = NoPid /\ exit = NoPid
    /\ sent = {} /\ answers = {}

\* launch_echo_service_from_validated_manifest of an admitted manifest, from the state
\* left by the recovery. Two processes, the capability reset, the endpoint capability,
\* the registration; an error keeps what was done before it.
Launch(cs, own) ==
    LET sup == next_pid
        svc == next_pid + 1
        slots == MaxProc - Cardinality(DOMAIN procs)
        room == MaxCaps - Held(cs)
        ps1 == With(procs, sup, "supervisor")
    IN CASE slots = 0 \/ room = 0 ->
              /\ procs' = procs /\ next_pid' = next_pid /\ caps' = cs /\ queue' = queue
              /\ owner' = own /\ report' = report
         [] slots = 1 \/ (slots > 1 /\ room = 1) ->
              /\ procs' = ps1 /\ next_pid' = next_pid + 1 /\ caps' = With(cs, sup, 1)
              /\ queue' = With(queue, sup, <<>>)
              /\ owner' = own /\ report' = report
         [] OTHER ->
              /\ procs' = With(ps1, svc, "service") /\ next_pid' = next_pid + 2
              /\ caps' = With(With(cs, sup, 1), svc, IF room = 2 THEN 1 ELSE 2)
              /\ queue' = With(With(queue, sup, <<>>), svc, <<>>)
              /\ owner' = IF room > 2 /\ own = NoPid THEN svc ELSE own
              /\ report' = IF room > 2 /\ own = NoPid THEN svc ELSE report

launch_mock_manifest_service ==
    /\ report = NoPid /\ next_pid <= MaxPid
    /\ Launch(caps, owner)
    /\ UNCHANGED <<exit, sent, answers>>

\* exit_process of the service: domain, capabilities and messages go, the registry stays.
crash ==
    /\ report # NoPid /\ report \in LivePids(procs) /\ exit = NoPid
    /\ procs' = [procs EXCEPT ![report] = "zombie"]
    /\ caps' = [caps EXCEPT ![report] = 0]
    /\ queue' = [queue EXCEPT ![report] = <<>>]
    /\ exit' = report
    /\ UNCHANGED <<next_pid, owner, report, sent, answers>>

\* recover_echo_service_after_crash with a manifest that still says restart.
recover_mock_manifest_service_crash ==
    /\ exit # NoPid /\ next_pid <= MaxPid
    /\ exit = report
    /\ exit' = NoPid
    /\ Launch([caps EXCEPT ![exit] = 0], IF owner = exit THEN NoPid ELSE owner)
    /\ UNCHANGED <<sent, answers>>

\* send_service_message: refused without an owner, by a dead owner, or by a full queue.
CanSend == owner # NoPid /\ owner \in LivePids(procs) /\ Len(queue[owner]) < MsgDepth

syscall_send_service_ipc(c, b) ==
    /\ CanSend
    /\ queue' = [queue EXCEPT ![owner] = Append(@, [from |-> c, body |-> b])]
    /\ sent' = sent \cup {<<c, b>>}
    /\ UNCHANGED <<procs, next_pid, caps, owner, report, exit, answers>>
send_refused == ~CanSend /\ UNCHANGED echoVars

syscall_receive_ipc(c) ==
    /\ queue[c] # <<>>
    /\ queue' = [queue EXCEPT ![c] = Tail(@)]
    /\ answers' = answers \cup {[to |-> c, got |-> Head(queue[c]).body]}
    /\ UNCHANGED <<procs, next_pid, caps, owner, report, exit, sent>>

\* Mutant: the answer goes to the process that runs the dispatch.
ReplyToCaller(request, c) == c

\* The reply goes to whoever sent the request that was at the head of the queue.
ReplyTo(request, c) == request.from

\* dispatch_echo_request: sent to the owner, received by the launched service, echoed,
\* the capability to answer granted once more, answered, received by the caller.
dispatch_echo_request(c, b) ==
    LET q1 == [queue EXCEPT ![owner] = Append(@, [from |-> c, body |-> b])]
        request == Head(q1[report])
        q2 == [q1 EXCEPT ![report] = Tail(@)]
        granted == Held(caps) < MaxCaps
        to == ReplyTo(request, c)
        q3 == [q2 EXCEPT ![to] = Append(@, [from |-> report, body |-> request.body])]
    IN /\ CanSend /\ report # NoPid
       /\ sent' = sent \cup {<<c, b>>}
       /\ caps' = IF granted THEN [caps EXCEPT ![report] = @ + 1] ELSE caps
       /\ IF ~granted \/ Len(q2[to]) = MsgDepth
          THEN queue' = q2 /\ UNCHANGED answers
          ELSE IF q3[c] = <<>> THEN queue' = q3 /\ UNCHANGED answers
          ELSE /\ queue' = [q3 EXCEPT ![c] = Tail(@)]
               /\ answers' = answers \cup {[to |-> c, got |-> Head(q3[c]).body]}
       /\ UNCHANGED <<procs, next_pid, owner, report, exit>>

EchoNext ==
    \/ launch_mock_manifest_service
    \/ crash
    \/ recover_mock_manifest_service_crash
    \/ \E c \in Callers, b \in Bodies : syscall_send_service_ipc(c, b)
    \/ send_refused
    \/ \E c \in Callers : syscall_receive_ipc(c)
    \/ \E c \in Callers, b \in Bodies : dispatch_echo_request(c, b)

EchoSpec == EchoInit /\ [][EchoNext]_echoVars

-----------------------------------------------------------------------------
\* The echo service never hands one process the payload of another: what a caller gets
\* back it has sent itself, also when requests of several callers are queued.
NoCrossTalk == \A a \in answers : <<a.to, a.got>> \in sent

\* The endpoint belongs to the service of the current report or to nobody, and once a
\* crash has been recovered from, its owner is alive.
EndpointFollowsService ==
    /\ owner # NoPid => owner = report
    /\ owner # NoPid /\ exit = NoPid => owner \in LivePids(procs)

\* The echo service never hands one process the payload of another, also when requests
\* of several callers are queued and the service crashes in between, and its endpoint
\* belongs to the service of the current report, alive once a crash was recovered from.
EchoSound == NoCrossTalk /\ EndpointFollowsService

-----------------------------------------------------------------------------
(* The proof, for any callers, payloads, queue depth and table sizes. What *)
(* makes it go through is where a message may lie: with a service only     *)
(* requests as they were sent, with a caller only bodies it sent itself.   *)

Requests(S) == {m \in [from : Callers, body : Bodies] : <<m.from, m.body>> \in S}
RepliesTo(c, S) == {m \in [from : Nat, body : Bodies] : <<c, m.body>> \in S}

InQueues(qs, ps, S) ==
    /\ DOMAIN qs = Callers \cup DOMAIN ps
    /\ \A p \in DOMAIN ps : qs[p] \in Seq(Requests(S))
    /\ \A c \in Callers : qs[c] \in Seq(RepliesTo(c, S))
Owned(ps, own, rep, ex) ==
    /\ own \in {NoPid, rep} /\ ex \in {NoPid, rep}
    /\ rep # NoPid => rep \in DOMAIN ps
    /\ own # NoPid /\ ex = NoPid => ps[own] # "zombie"
Numbered(ps, n) == n \in 1 .. MaxPid + 2 /\ DOMAIN ps \subseteq 1 .. n - 1

\* The inductive invariant.
EchoInv ==
    /\ Numbered(procs, next_pid)
    /\ sent \subseteq Callers \X Bodies
    /\ InQueues(queue, procs, sent)
    /\ Owned(procs, owner, report, exit)
    /\ NoCrossTalk

\* More that was sent is no harm to what lies in a queue.
LEMMA QueuesKeep ==
  ASSUME NEW S, NEW T, S \subseteq T,
         NEW ps, NEW qs, InQueues(qs, ps, S)
  PROVE  InQueues(qs, ps, T)
<1>1. ASSUME NEW A, NEW B, A \subseteq B PROVE Seq(A) \subseteq Seq(B)
  BY <1>1
<1>2. Requests(S) \subseteq Requests(T)
  BY DEF Requests
<1>3. ASSUME NEW c PROVE RepliesTo(c, S) \subseteq RepliesTo(c, T)
  BY DEF RepliesTo
<1> QED
  BY <1>1, <1>2, <1>3 DEF InQueues

\* A new process has a queue of its own, with nothing in it.
LEMMA QueuesGrow ==
  ASSUME NEW ps, NEW qs, NEW S, InQueues(qs, ps, S), NEW p, p \notin Callers, NEW kind
  PROVE  InQueues(With(qs, p, <<>>), With(ps, p, kind), S)
<1>1. \A X : <<>> \in Seq(X)
  OBVIOUS
<1> QED
  BY <1>1 DEF InQueues, With

\* What may be put into a queue, and what is left of it when its head is taken.
LEMMA ServiceQueueSet ==
  ASSUME NEW ps, NEW qs, NEW S, InQueues(qs, ps, S), DOMAIN ps \cap Callers = {},
         NEW p \in DOMAIN ps, NEW q \in Seq(Requests(S))
  PROVE  InQueues([qs EXCEPT ![p] = q], ps, S)
  BY DEF InQueues

LEMMA CallerQueueSet ==
  ASSUME NEW ps, NEW qs, NEW S, InQueues(qs, ps, S), DOMAIN ps \cap Callers = {},
         NEW c \in Callers, NEW q \in Seq(RepliesTo(c, S))
  PROVE  InQueues([qs EXCEPT ![c] = q], ps, S)
  BY DEF InQueues

\* An answer made of what its reader has sent leaves NoCrossTalk as it was.
AllSentBy(as, S) == \A a \in as : <<a.to, a.got>> \in S

LEMMA OwnAnswer ==
  ASSUME NEW as, NEW T, AllSentBy(as, T), NEW c, NEW m, <<c, m>> \in T
  PROVE  AllSentBy(as \cup {[to |-> c, got |-> m]}, T)
<1> DEFINE new == [to |-> c, got |-> m]
<1>1. <<new.to, new.got>> \in T
  OBVIOUS
<1> QED
  BY <1>1, Zenon DEF AllSentBy

LEMMA EchoStarts == EchoInit => EchoInv
<1> SUFFICES ASSUME EchoInit PROVE EchoInv
  OBVIOUS
<1>1. Numbered(procs, next_pid)
  BY EchoAssumption DEF EchoInit, Numbered
<1>2. InQueues(queue, procs, sent)
  BY DEF EchoInit, InQueues
<1> QED
  BY <1>1, <1>2 DEF EchoInit, EchoInv, Owned, NoCrossTalk

\* Launch, from an endpoint nobody owns, and with no exit report left behind it.
LEMMA LaunchKeeps ==
  ASSUME EchoInv, next_pid <= MaxPid, NEW cs, Launch(cs, NoPid)
  PROVE  /\ Numbered(procs', next_pid')
         /\ InQueues(queue', procs', sent)
         /\ Owned(procs', owner', report', NoPid)
<1> DEFINE sup == next_pid
           svc == next_pid + 1
           ps1 == With(procs, sup, "supervisor")
           ps2 == With(ps1, svc, "service")
           qs1 == With(queue, sup, <<>>)
           qs2 == With(qs1, svc, <<>>)
<1>1. /\ next_pid \in 1 .. MaxPid /\ MaxPid \in Nat
      /\ sup \notin Callers /\ svc \notin Callers
      /\ DOMAIN procs \subseteq 1 .. next_pid - 1
  BY EchoAssumption DEF EchoInv, Numbered
<1>2. InQueues(queue, procs, sent) /\ Owned(procs, owner, report, exit)
  BY DEF EchoInv
<1>3. InQueues(qs1, ps1, sent)
  BY <1>1, <1>2, QueuesGrow
<1>4. InQueues(qs2, ps2, sent)
  BY <1>1, <1>3, QueuesGrow
<1>5. \/ procs' = procs /\ next_pid' = next_pid /\ queue' = queue /\ owner' = NoPid /\ report' = report
      \/ procs' = ps1 /\ next_pid' = next_pid + 1 /\ queue' = qs1 /\ owner' = NoPid /\ report' = report
      \/ /\ procs' = ps2 /\ next_pid' = next_pid + 2 /\ queue' = qs2
         /\ \/ owner' = NoPid /\ report' = report
            \/ owner' = svc /\ report' = svc
  BY DEF Launch
<1>6. /\ Numbered(procs, next_pid) /\ Numbered(ps1, next_pid + 1) /\ Numbered(ps2, next_pid + 2)
  BY <1>1 DEF Numbered, With
<1>7. /\ DOMAIN procs \subseteq DOMAIN ps1 /\ DOMAIN ps1 \subseteq DOMAIN ps2
      /\ svc \in DOMAIN ps2 /\ ps2[svc] = "service"
  BY DEF With
<1>8. report # NoPid => report \in DOMAIN procs
  BY <1>2 DEF Owned
<1>9. Numbered(procs', next_pid') /\ InQueues(queue', procs', sent)
  BY <1>2, <1>3, <1>4, <1>5, <1>6
<1>10. Owned(procs', owner', report', NoPid)
  BY <1>5, <1>7, <1>8 DEF Owned
<1> QED
  BY <1>9, <1>10

LEMMA DispatchKeeps ==
  ASSUME EchoInv, NEW c \in Callers, NEW b \in Bodies, dispatch_echo_request(c, b)
  PROVE  EchoInv'
<1> DEFINE q1 == [queue EXCEPT ![owner] = Append(@, [from |-> c, body |-> b])]
           request == Head(q1[report])
           q2 == [q1 EXCEPT ![report] = Tail(@)]
           to == request.from
           q3 == [q2 EXCEPT ![to] = Append(@, [from |-> report, body |-> request.body])]
           q4 == [q3 EXCEPT ![c] = Tail(@)]
<1>1. /\ Numbered(procs, next_pid) /\ sent \subseteq Callers \X Bodies
      /\ InQueues(queue, procs, sent) /\ Owned(procs, owner, report, exit) /\ NoCrossTalk
  BY DEF EchoInv
<1>2. /\ owner = report /\ owner \in DOMAIN procs /\ owner \in Nat
      /\ DOMAIN procs \cap Callers = {}
  <2>1. owner # NoPid /\ owner \in DOMAIN procs
    BY Zenon DEF dispatch_echo_request, CanSend, LivePids
  <2>2. owner = report
    BY <1>1, <2>1 DEF Owned
  <2>3. DOMAIN procs \subseteq 1 .. next_pid - 1 /\ next_pid \in 1 .. MaxPid + 2
    BY <1>1 DEF Numbered
  <2>4. owner \in Nat /\ DOMAIN procs \cap Callers = {}
    BY <2>1, <2>3, EchoAssumption, SMTT(30)
  <2> QED BY <2>1, <2>2, <2>4, Zenon
<1>3. /\ sent' = sent \cup {<<c, b>>}
      /\ UNCHANGED <<procs, next_pid, owner, report, exit>>
      /\ \/ queue' = q2 /\ answers' = answers
         \/ queue' = q3 /\ answers' = answers
         \/ /\ q3[c] # <<>> /\ queue' = q4
            /\ answers' = answers \cup {[to |-> c, got |-> Head(q3[c]).body]}
  BY ZenonT(30) DEF dispatch_echo_request, ReplyTo
<1>4. InQueues(queue, procs, sent')
  BY <1>1, <1>3, QueuesKeep, ZenonT(30)
<1>5. [from |-> c, body |-> b] \in Requests(sent')
  BY <1>3, Zenon DEF Requests
<1>6. /\ InQueues(q1, procs, sent') /\ q1[report] # <<>>
      /\ q1[report] \in Seq(Requests(sent'))
  <2>1. queue[owner] \in Seq(Requests(sent')) /\ owner \in DOMAIN queue
    BY <1>2, <1>4 DEF InQueues
  <2>2. /\ Append(queue[owner], [from |-> c, body |-> b]) \in Seq(Requests(sent'))
        /\ Append(queue[owner], [from |-> c, body |-> b]) # <<>>
    BY <1>5, <2>1
  <2>3. q1[report] = Append(queue[owner], [from |-> c, body |-> b])
    BY <1>2, <2>1
  <2>4. InQueues(q1, procs, sent')
    BY <1>2, <1>4, <2>2, ServiceQueueSet, Zenon
  <2> QED BY <2>2, <2>3, <2>4, Zenon
<1>7. request \in Requests(sent') /\ InQueues(q2, procs, sent')
  <2> HIDE DEF q1
  <2>1. request \in Requests(sent') /\ Tail(q1[report]) \in Seq(Requests(sent'))
    BY <1>6
  <2>2. InQueues(q2, procs, sent')
    BY <1>2, <1>6, <2>1, ServiceQueueSet, ZenonT(30)
  <2> QED BY <2>1, <2>2
<1>8. /\ to \in Callers
      /\ [from |-> report, body |-> request.body] \in RepliesTo(to, sent')
  BY <1>2, <1>7 DEF Requests, RepliesTo
<1>9. InQueues(q3, procs, sent')
  <2> HIDE DEF q2, to, request
  <2> QED BY <1>2, <1>7, <1>8 DEF InQueues
<1>10. ASSUME q3[c] # <<>>
       PROVE  InQueues(q4, procs, sent') /\ <<c, Head(q3[c]).body>> \in sent'
  <2> HIDE DEF q3
  <2>1. q3[c] \in Seq(RepliesTo(c, sent'))
    BY <1>9 DEF InQueues
  <2>2. Head(q3[c]) \in RepliesTo(c, sent') /\ Tail(q3[c]) \in Seq(RepliesTo(c, sent'))
    BY <1>10, <2>1
  <2> QED BY <1>2, <1>9, <2>2 DEF InQueues, RepliesTo
<1>11. InQueues(queue', procs, sent')
  <2> HIDE DEF q2, q3, q4
  <2> QED BY <1>3, <1>7, <1>9, <1>10
<1>12. NoCrossTalk'
  <2> HIDE DEF q2, q3, q4
  <2>1. AllSentBy(answers, sent')
    BY <1>1, <1>3, Zenon DEF NoCrossTalk, AllSentBy
  <2>2. CASE answers' = answers
    BY <2>1, <2>2, Zenon DEF NoCrossTalk, AllSentBy
  <2>3. CASE q3[c] # <<>> /\ answers' = answers \cup {[to |-> c, got |-> Head(q3[c]).body]}
    <3>1. <<c, Head(q3[c]).body>> \in sent'
      BY <1>10, <2>3
    <3>2. AllSentBy(answers \cup {[to |-> c, got |-> Head(q3[c]).body]}, sent')
      BY <2>1, <3>1, OwnAnswer
    <3> QED BY <2>3, <3>2, Zenon DEF NoCrossTalk, AllSentBy
  <2> QED BY <1>3, <2>2, <2>3
<1>13. sent' \subseteq Callers \X Bodies
  <2>1. <<c, b>> \in Callers \X Bodies
    OBVIOUS
  <2>2. sent \subseteq Callers \X Bodies /\ sent' = sent \cup {<<c, b>>}
    BY <1>1, <1>3, Zenon
  <2> QED BY <2>1, <2>2
<1>14. Numbered(procs', next_pid') /\ Owned(procs', owner', report', exit')
  BY <1>1, <1>3, ZenonT(30)
<1>15. InQueues(queue', procs', sent')
  BY <1>3, <1>11, Zenon
<1> QED
  BY <1>12, <1>13, <1>14, <1>15 DEF EchoInv

LEMMA EchoSteps == EchoInv /\ [EchoNext]_echoVars => EchoInv'
<1> SUFFICES ASSUME EchoInv, [EchoNext]_echoVars PROVE EchoInv'
  OBVIOUS
<1>1. /\ Numbered(procs, next_pid) /\ sent \subseteq Callers \X Bodies
      /\ InQueues(queue, procs, sent) /\ Owned(procs, owner, report, exit) /\ NoCrossTalk
  BY DEF EchoInv
<1>2. CASE launch_mock_manifest_service
  <2>1. owner = NoPid /\ exit = NoPid
    BY <1>1, <1>2 DEF Owned, launch_mock_manifest_service
  <2>2. /\ next_pid <= MaxPid /\ Launch(caps, NoPid)
        /\ UNCHANGED <<exit, sent, answers>>
    BY <1>2, <2>1 DEF launch_mock_manifest_service
  <2>3. /\ Numbered(procs', next_pid') /\ InQueues(queue', procs', sent)
        /\ Owned(procs', owner', report', NoPid)
    BY <2>2, LaunchKeeps
  <2> QED BY <1>1, <2>1, <2>2, <2>3 DEF EchoInv, NoCrossTalk
<1>3. CASE crash
  <2>1. /\ report \in DOMAIN procs /\ exit' = report /\ report # NoPid
        /\ procs' = [procs EXCEPT ![report] = "zombie"]
        /\ queue' = [queue EXCEPT ![report] = <<>>]
        /\ UNCHANGED <<next_pid, owner, report, sent, answers>>
    BY <1>3 DEF crash, LivePids
  <2>2. DOMAIN procs' = DOMAIN procs /\ DOMAIN procs \cap Callers = {}
    BY <1>1, <2>1, EchoAssumption DEF Numbered
  <2>3. \A X : <<>> \in Seq(X)
    OBVIOUS
  <2>4. InQueues(queue', procs', sent')
    BY <1>1, <2>1, <2>2, <2>3 DEF InQueues
  <2>5. Owned(procs', owner', report', exit')
    BY <1>1, <2>1, <2>2 DEF Owned
  <2> QED BY <1>1, <2>1, <2>2, <2>4, <2>5 DEF EchoInv, NoCrossTalk, Numbered
<1>4. CASE recover_mock_manifest_service_crash
  <2>1. (IF owner = exit THEN NoPid ELSE owner) = NoPid
    BY <1>1, <1>4 DEF Owned, recover_mock_manifest_service_crash
  <2>2. /\ next_pid <= MaxPid /\ Launch([caps EXCEPT ![exit] = 0], NoPid)
        /\ exit' = NoPid /\ UNCHANGED <<sent, answers>>
    BY <1>4, <2>1 DEF recover_mock_manifest_service_crash
  <2>3. /\ Numbered(procs', next_pid') /\ InQueues(queue', procs', sent)
        /\ Owned(procs', owner', report', NoPid)
    BY <2>2, LaunchKeeps
  <2> QED BY <1>1, <2>2, <2>3 DEF EchoInv, NoCrossTalk
<1>5. ASSUME NEW c \in Callers, NEW b \in Bodies, syscall_send_service_ipc(c, b)
      PROVE  EchoInv'
  <2>1. /\ owner \in DOMAIN procs
        /\ queue' = [queue EXCEPT ![owner] = Append(@, [from |-> c, body |-> b])]
        /\ sent' = sent \cup {<<c, b>>}
        /\ UNCHANGED <<procs, next_pid, owner, report, exit, answers>>
    BY <1>5 DEF syscall_send_service_ipc, CanSend, LivePids
  <2>2. DOMAIN procs \cap Callers = {}
    BY <1>1, EchoAssumption DEF Numbered
  <2>3. InQueues(queue, procs, sent')
    BY <1>1, <2>1, QueuesKeep
  <2>4. [from |-> c, body |-> b] \in Requests(sent')
    BY <2>1 DEF Requests
  <2>5. InQueues(queue', procs', sent')
    <3>1. queue[owner] \in Seq(Requests(sent'))
      BY <2>1, <2>3, Zenon DEF InQueues
    <3>2. Append(queue[owner], [from |-> c, body |-> b]) \in Seq(Requests(sent'))
      BY <2>4, <3>1
    <3>3. InQueues(queue', procs, sent')
      BY <2>1, <2>2, <2>3, <3>2, ServiceQueueSet, Zenon
    <3> QED BY <2>1, <3>3
  <2>6. sent' \subseteq Callers \X Bodies
    <3>1. <<c, b>> \in Callers \X Bodies
      OBVIOUS
    <3>2. sent \subseteq Callers \X Bodies /\ sent' = sent \cup {<<c, b>>}
      BY <1>1, <2>1
    <3> QED BY <3>1, <3>2
  <2> QED BY <1>1, <2>1, <2>5, <2>6 DEF EchoInv, NoCrossTalk
<1>6. ASSUME NEW c \in Callers, syscall_receive_ipc(c)
      PROVE  EchoInv'
  <2>1. /\ queue[c] # <<>> /\ queue' = [queue EXCEPT ![c] = Tail(@)]
        /\ answers' = answers \cup {[to |-> c, got |-> Head(queue[c]).body]}
        /\ UNCHANGED <<procs, next_pid, owner, report, exit, sent>>
    BY <1>6 DEF syscall_receive_ipc
  <2>2. DOMAIN procs \cap Callers = {}
    BY <1>1, EchoAssumption DEF Numbered
  <2>3. queue[c] \in Seq(RepliesTo(c, sent))
    BY <1>1 DEF InQueues
  <2>4. Head(queue[c]) \in RepliesTo(c, sent) /\ Tail(queue[c]) \in Seq(RepliesTo(c, sent))
    BY <2>1, <2>3
  <2>5. InQueues(queue', procs', sent')
    <3>1. InQueues(queue', procs, sent)
      BY <1>1, <2>1, <2>2, <2>4, CallerQueueSet, Zenon
    <3> QED BY <2>1, <3>1
  <2>6. NoCrossTalk'
    <3>1. <<c, Head(queue[c]).body>> \in sent
      BY <2>4 DEF RepliesTo
    <3>2. AllSentBy(answers, sent)
      BY <1>1, Zenon DEF NoCrossTalk, AllSentBy
    <3>3. AllSentBy(answers \cup {[to |-> c, got |-> Head(queue[c]).body]}, sent)
      BY <3>1, <3>2, OwnAnswer
    <3> QED BY <2>1, <3>3, Zenon DEF NoCrossTalk, AllSentBy
  <2> QED BY <1>1, <2>1, <2>5, <2>6 DEF EchoInv
<1>7. CASE UNCHANGED echoVars
  BY <1>7 DEF EchoInv, echoVars, NoCrossTalk
<1> QED
  BY <1>2, <1>3, <1>4, <1>5, <1>6, <1>7, DispatchKeeps DEF EchoNext, send_refused

\* For any set of callers and payloads, any depth of the queues and size of the tables,
\* and any number of crashes and recoveries in between: dispatch_echo_request and the
\* receive call hand a process only what it has sent itself, and the endpoint belongs to
\* the service of the current report, alive once its crash was recovered from.
THEOREM EchoStaysSound == EchoSpec => []EchoSound
<1>1. EchoInv => EchoSound
  <2> SUFFICES ASSUME EchoInv PROVE EchoSound
    OBVIOUS
  <2>1. owner # NoPid => owner = report /\ owner \in DOMAIN procs
    BY DEF EchoInv, Owned
  <2> QED BY <2>1 DEF EchoInv, Owned, EchoSound, EndpointFollowsService, LivePids
<1> QED
  BY <1>1, EchoStarts, EchoSteps, PTL DEF EchoSpec
=============================================================================
