------------------------------- MODULE CliMutate -------------------------------
(***************************************************************************)
(* One mutation of each client, from the command line or a hook, to the    *)
(* daemon over its hook socket: finding or spawning the daemon, delivering *)
(* the frame, the accept loop and its permits, the work gate, the reply,   *)
(* the drain at shutdown, the successor, and the in-process fallback.      *)
(*                                                                         *)
(* Sources: cli/hook_client.rs, main.rs, daemon/spawn.rs,                  *)
(* daemon/singleton.rs, daemon/ipc_server.rs, daemon/hook_runtime.rs.      *)
(*                                                                         *)
(* Daemons are numbered by process.  A connection is named by its client,  *)
(* which makes only one.  What a mutation does to the store is StoreHeal's *)
(* subject: here it runs, is refused, or fails.                            *)
(***************************************************************************)
EXTENDS Integers, FiniteSets

CONSTANTS
  Client,      \* processes with one mutation to send
  Required,    \* those whose repository sets daemon_required
  MaxDaemons,  \* bound on the daemons ever spawned
  Permits      \* MAX_HOOK_CONNECTIONS

Daemon == 1..MaxDaemons
Nobody == 0

ASSUME ClientAssumption ==
  /\ Required \subseteq Client
  /\ MaxDaemons \in Nat
  /\ Permits \in Nat \ {0}

VARIABLES
  dpc,        \* where each daemon process stands
  singleton,  \* holder of the daemon's lock
  sock,       \* the daemon whose listener the socket's path names
  gate,       \* its work gate: "open", a drain "waiting" in it, or "quiesced"
  peer,       \* the daemon at the other end of each client's connection
  handler,    \* where that connection's handler stands
  frame,      \* the request on the wire, or its answer
  answer,     \* the reply the handler has computed
  cpc,        \* where each client stands
  told,       \* the result of call_cli_mutation
  ran,        \* who ran the mutation
  late        \* history: clients whose request entered a quiesced gate

daemons == <<dpc, singleton, sock, gate>>
wires   == <<peer, handler, frame, answer>>
clients == <<cpc, told>>
vars    == <<daemons, wires, clients, ran, late>>

DaemonPCs == {"unborn", "born", "locked", "serving", "stopping", "draining",
              "closing", "unlinked", "released", "gone"}
Handlers  == {"none", "backlog", "permit", "reading", "gate", "dispatch",
              "running", "answering", "dropped"}

\* The client's end of the connection is open.
Connected == {"send", "await"}

TypeOK ==
  /\ dpc \in [Daemon -> DaemonPCs]
  /\ singleton \in Daemon \cup {Nobody}
  /\ sock \in Daemon \cup {Nobody}
  /\ gate \in [Daemon -> {"open", "waiting", "quiesced"}]
  /\ peer \in [Client -> Daemon \cup {Nobody}]
  /\ handler \in [Client -> Handlers]
  /\ frame \in [Client -> {"none", "partial", "whole", "read", "answered"}]
  /\ answer \in [Client -> {"none", "ok", "refused", "failed"}]
  /\ cpc \in [Client -> {"start", "spawned", "connect", "send", "await", "local", "end"}]
  /\ told \in [Client -> {"waiting", "done", "undetermined", "unstarted"}]
  /\ ran \in [Client -> {"nobody", "daemon", "caller"}]
  /\ late \subseteq Client
  /\ \A c \in Client : handler[c] # "none" => peer[c] \in Daemon

Init ==
  /\ dpc = [d \in Daemon |-> "unborn"]
  /\ singleton = Nobody /\ sock = Nobody
  /\ gate = [d \in Daemon |-> "open"]
  /\ peer = [c \in Client |-> Nobody]
  /\ handler = [c \in Client |-> "none"]
  /\ frame = [c \in Client |-> "none"]
  /\ answer = [c \in Client |-> "none"]
  /\ cpc = [c \in Client |-> "start"]
  /\ told = [c \in Client |-> "waiting"]
  /\ ran = [c \in Client |-> "nobody"]
  /\ late = {}

\* Handlers at work between entering the gate and the end of the reply.
Executing(d) ==
  {c \in Client : peer[c] = d /\ handler[c] \in {"dispatch", "running", "answering"}}

\* Connections that hold one of the daemon's permits.
Admitted(d) ==
  {c \in Client : peer[c] = d /\ handler[c] \in {"reading", "gate", "dispatch", "running", "answering"}}

\* The path exists and a listener is behind it.
Reachable == sock # Nobody /\ dpc[sock] \in {"serving", "stopping"}

-----------------------------------------------------------------------------
(* The client.                                                              *)

Conclude(c, result, pc) ==
  /\ told' = [told EXCEPT ![c] = result]
  /\ cpc' = [cpc EXCEPT ![c] = pc]

\* Unstarted: run in process, or skip where the daemon is required.
NotStarted(c) == Conclude(c, "unstarted", IF c \in Required THEN "end" ELSE "local")

\* ensure_daemon_running: the socket answers, at once or after a spawn.
DaemonFound(c) ==
  /\ cpc[c] \in {"start", "spawned"}
  /\ Reachable
  /\ cpc' = [cpc EXCEPT ![c] = "connect"]
  /\ UNCHANGED <<daemons, wires, told, ran, late>>

SpawnDaemon(c) ==
  /\ cpc[c] = "start"
  /\ ~ Reachable
  /\ \E d \in Daemon :
       /\ dpc[d] = "unborn"
       /\ \A e \in Daemon : e < d => dpc[e] # "unborn"
       /\ dpc' = [dpc EXCEPT ![d] = "born"]
  /\ cpc' = [cpc EXCEPT ![c] = "spawned"]
  /\ UNCHANGED <<singleton, sock, gate, wires, told, ran, late>>

\* The spawn failed or is forbidden, or the last retry found nothing.
NoDaemon(c) ==
  /\ cpc[c] \in {"start", "spawned"}
  /\ ~ Reachable
  /\ NotStarted(c)
  /\ UNCHANGED <<daemons, wires, ran, late>>

\* Mutant: the connection is taken for granted once the daemon was found.
ConnectBlindly(c) ==
  /\ cpc[c] = "connect"
  /\ peer' = [peer EXCEPT ![c] = sock]
  /\ handler' = [handler EXCEPT ![c] = "backlog"]
  /\ cpc' = [cpc EXCEPT ![c] = "send"]
  /\ UNCHANGED <<daemons, frame, answer, told, ran, late>>

\* UnixStream::connect, into the listener's backlog.
Connect(c) ==
  /\ cpc[c] = "connect"
  /\ Reachable
  /\ peer' = [peer EXCEPT ![c] = sock]
  /\ handler' = [handler EXCEPT ![c] = "backlog"]
  /\ cpc' = [cpc EXCEPT ![c] = "send"]
  /\ UNCHANGED <<daemons, frame, answer, told, ran, late>>

ConnectRefused(c) ==
  /\ cpc[c] = "connect"
  /\ ~ Reachable
  /\ NotStarted(c)
  /\ UNCHANGED <<daemons, wires, ran, late>>

\* send_request: part of the frame, or the rest of it, is in the socket.
SendPart(c) ==
  /\ cpc[c] = "send"
  /\ frame[c] = "none" /\ handler[c] # "dropped"
  /\ frame' = [frame EXCEPT ![c] = "partial"]
  /\ UNCHANGED <<daemons, peer, handler, answer, clients, ran, late>>

Delivered(c) ==
  /\ cpc[c] = "send"
  /\ handler[c] # "dropped"
  /\ frame' = [frame EXCEPT ![c] = "whole"]
  /\ cpc' = [cpc EXCEPT ![c] = "await"]
  /\ UNCHANGED <<daemons, peer, handler, answer, told, ran, late>>

\* A timeout or an error before the last byte.
SendFails(c) ==
  /\ cpc[c] = "send"
  /\ NotStarted(c)
  /\ UNCHANGED <<daemons, wires, ran, late>>

\* A result, a refusal, or the code of a method that had been dispatched.
AnswerRead(c) ==
  /\ cpc[c] = "await"
  /\ frame[c] = "answered"
  /\ CASE answer[c] = "ok"      -> Conclude(c, "done", "end")
       [] answer[c] = "refused" -> NotStarted(c)
       [] OTHER                 -> Conclude(c, "undetermined", "end")
  /\ UNCHANGED <<daemons, wires, ran, late>>

\* Mutant: silence after the delivery licenses the fallback.
AnswerLostRetried(c) ==
  /\ cpc[c] = "await"
  /\ NotStarted(c)
  /\ UNCHANGED <<daemons, wires, ran, late>>

\* No answer in time, a closed connection, an answer that does not decode.
AnswerLost(c) ==
  /\ cpc[c] = "await"
  /\ Conclude(c, "undetermined", "end")
  /\ UNCHANGED <<daemons, wires, ran, late>>

\* The fallback under acquire_direct_cli, which may also fail.
RunDirectly(c) ==
  /\ cpc[c] = "local"
  /\ cpc' = [cpc EXCEPT ![c] = "end"]
  /\ ran' \in {ran, [ran EXCEPT ![c] = "caller"]}
  /\ UNCHANGED <<daemons, wires, told, late>>

-----------------------------------------------------------------------------
(* A connection in the daemon.                                              *)

\* The accept branch of the select; it then waits for a permit, deaf to
\* shutdown.
Accept(c) ==
  /\ handler[c] = "backlog"
  /\ \A b \in Client : handler[b] = "permit" => peer[b] # peer[c]
  /\ handler' = [handler EXCEPT ![c] = "permit"]
  /\ UNCHANGED <<daemons, peer, frame, answer, clients, ran, late>>

TakePermit(c) ==
  /\ handler[c] = "permit"
  /\ Cardinality(Admitted(peer[c])) < Permits
  /\ handler' = [handler EXCEPT ![c] = "reading"]
  /\ UNCHANGED <<daemons, peer, frame, answer, clients, ran, late>>

\* Both read_exact calls returned.
ReadFrame(c) ==
  /\ handler[c] = "reading"
  /\ frame[c] = "whole"
  /\ frame' = [frame EXCEPT ![c] = "read"]
  /\ handler' = [handler EXCEPT ![c] = "gate"]
  /\ UNCHANGED <<daemons, peer, answer, clients, ran, late>>

\* Mutant: a frame cut short is waited for although its sender has gone.
ReadAbortsUnlessBegun(c) ==
  /\ handler[c] = "reading"
  /\ cpc[c] \notin Connected
  /\ frame[c] \notin {"whole", "partial"}
  /\ handler' = [handler EXCEPT ![c] = "dropped"]
  /\ UNCHANGED <<daemons, peer, frame, answer, clients, ran, late>>

\* The peer dropped its stream before a whole frame.
ReadAborts(c) ==
  /\ handler[c] = "reading"
  /\ cpc[c] \notin Connected
  /\ frame[c] # "whole"
  /\ handler' = [handler EXCEPT ![c] = "dropped"]
  /\ UNCHANGED <<daemons, peer, frame, answer, clients, ran, late>>

\* work_gate.enter(): behind a drain that waits, with any other reader.
EnterGate(c) ==
  /\ handler[c] = "gate"
  /\ gate[peer[c]] # "waiting"
  /\ handler' = [handler EXCEPT ![c] = "dispatch"]
  /\ late' = IF gate[peer[c]] = "quiesced" THEN late \cup {c} ELSE late
  /\ UNCHANGED <<daemons, peer, frame, answer, clients, ran>>

\* A malformed request, a repository that is not served, a validation of the
\* store: nothing was written.
Refuse(c) ==
  /\ handler[c] = "dispatch"
  /\ answer' = [answer EXCEPT ![c] = "refused"]
  /\ handler' = [handler EXCEPT ![c] = "answering"]
  /\ UNCHANGED <<daemons, peer, frame, clients, ran, late>>

Run(c) ==
  /\ handler[c] = "dispatch"
  /\ ran' = [ran EXCEPT ![c] = "daemon"]
  /\ handler' = [handler EXCEPT ![c] = "running"]
  /\ UNCHANGED <<daemons, peer, frame, answer, clients, late>>

Finish(c) ==
  /\ handler[c] = "running"
  /\ \E a \in {"ok", "failed"} : answer' = [answer EXCEPT ![c] = a]
  /\ handler' = [handler EXCEPT ![c] = "answering"]
  /\ UNCHANGED <<daemons, peer, frame, clients, ran, late>>

\* The reply is on the wire, and the next frame is waited for.
Reply(c) ==
  /\ handler[c] = "answering"
  /\ cpc[c] \in Connected
  /\ frame' = [frame EXCEPT ![c] = "answered"]
  /\ handler' = [handler EXCEPT ![c] = "reading"]
  /\ UNCHANGED <<daemons, peer, answer, clients, ran, late>>

ReplyFails(c) ==
  /\ handler[c] = "answering"
  /\ cpc[c] \notin Connected
  /\ handler' = [handler EXCEPT ![c] = "dropped"]
  /\ UNCHANGED <<daemons, peer, frame, answer, clients, ran, late>>

-----------------------------------------------------------------------------
(* The daemon's life.                                                       *)

\* The connections of these handlers are closed.
Drop(d, stages) ==
  handler' = [c \in Client |-> IF peer[c] = d /\ handler[c] \in stages
                               THEN "dropped" ELSE handler[c]]

Alive == DaemonPCs \ {"unborn", "gone"}

\* The end of the process. A blocking write may still finish, unanswered.
Exit(d) ==
  /\ dpc' = [dpc EXCEPT ![d] = "gone"]
  /\ singleton' = IF singleton = d THEN Nobody ELSE singleton
  /\ Drop(d, Handlers \ {"none"})

Acquire(d) ==
  /\ dpc[d] = "born"
  /\ singleton = Nobody
  /\ singleton' = d
  /\ dpc' = [dpc EXCEPT ![d] = "locked"]
  /\ UNCHANGED <<sock, gate, wires, clients, ran, late>>

AlreadyHeld(d) ==
  /\ dpc[d] = "born"
  /\ singleton # Nobody
  /\ dpc' = [dpc EXCEPT ![d] = "gone"]
  /\ UNCHANGED <<singleton, sock, gate, wires, clients, ran, late>>

\* bind_socket_0600: the rename replaces whatever the path named.
Bind(d) ==
  /\ dpc[d] = "locked"
  /\ sock' = d
  /\ dpc' = [dpc EXCEPT ![d] = "serving"]
  /\ UNCHANGED <<singleton, gate, wires, clients, ran, late>>

BindFails(d) ==
  /\ dpc[d] = "locked"
  /\ Exit(d)
  /\ UNCHANGED <<sock, gate, peer, frame, answer, clients, ran, late>>

\* Mutant: the singleton is given up when the shutdown begins.
StopReleasing(d) ==
  /\ dpc[d] = "serving"
  /\ dpc' = [dpc EXCEPT ![d] = "stopping"]
  /\ singleton' = Nobody
  /\ UNCHANGED <<sock, gate, wires, clients, ran, late>>

\* SIGTERM, or the executable was replaced: the token is cancelled.
Stop(d) ==
  /\ dpc[d] = "serving"
  /\ dpc' = [dpc EXCEPT ![d] = "stopping"]
  /\ UNCHANGED <<singleton, sock, gate, wires, clients, ran, late>>

\* The accept loop is back at its select and returns. Its listener goes, and
\* the connections nobody accepted with it; the drain waits in the gate.
StopAccepting(d) ==
  /\ dpc[d] = "stopping"
  /\ \A c \in Client : handler[c] = "permit" => peer[c] # d
  /\ dpc' = [dpc EXCEPT ![d] = "draining"]
  /\ gate' = [gate EXCEPT ![d] = "waiting"]
  /\ Drop(d, {"backlog"})
  /\ UNCHANGED <<singleton, sock, peer, frame, answer, clients, ran, late>>

\* Mutant: the gate is left before the reply is written.
QuiescedUnanswered(d) ==
  /\ dpc[d] = "draining"
  /\ \A c \in Executing(d) : handler[c] = "answering"
  /\ dpc' = [dpc EXCEPT ![d] = "closing"]
  /\ gate' = [gate EXCEPT ![d] = "quiesced"]
  /\ UNCHANGED <<singleton, sock, wires, clients, ran, late>>

\* gate.quiesced(): taken exclusively and let go at once.
Quiesced(d) ==
  /\ dpc[d] = "draining"
  /\ Executing(d) = {}
  /\ dpc' = [dpc EXCEPT ![d] = "closing"]
  /\ gate' = [gate EXCEPT ![d] = "quiesced"]
  /\ UNCHANGED <<singleton, sock, wires, clients, ran, late>>

\* WORK_DRAIN_GRACE: the waiting drain is dropped out of the gate.
WorkGraceOver(d) ==
  /\ dpc[d] = "draining"
  /\ Executing(d) # {}
  /\ dpc' = [dpc EXCEPT ![d] = "closing"]
  /\ gate' = [gate EXCEPT ![d] = "open"]
  /\ UNCHANGED <<singleton, sock, wires, clients, ran, late>>

\* The tracker is empty, or SHUTDOWN_DRAIN_GRACE is over: unlink_sockets.
Unlink(d) ==
  /\ dpc[d] = "closing"
  /\ dpc' = [dpc EXCEPT ![d] = "unlinked"]
  /\ sock' = Nobody
  /\ UNCHANGED <<singleton, gate, wires, clients, ran, late>>

\* drop(guard)
Release(d) ==
  /\ dpc[d] = "unlinked"
  /\ dpc' = [dpc EXCEPT ![d] = "released"]
  /\ singleton' = Nobody
  /\ UNCHANGED <<sock, gate, wires, clients, ran, late>>

\* The runtime drops what was abandoned.
RuntimeDrops(d) ==
  /\ dpc[d] = "released"
  /\ Exit(d)
  /\ UNCHANGED <<sock, gate, peer, frame, answer, clients, ran, late>>

\* A second signal unlinks whatever the path names and exits.
SecondSignal(d) ==
  /\ dpc[d] \in {"stopping", "draining", "closing", "unlinked", "released"}
  /\ Exit(d)
  /\ sock' = Nobody
  /\ UNCHANGED <<gate, peer, frame, answer, clients, ran, late>>

\* The process is killed; its socket's path stays behind.
Crash(d) ==
  /\ dpc[d] \in Alive
  /\ Exit(d)
  /\ UNCHANGED <<sock, gate, peer, frame, answer, clients, ran, late>>

GiveUp(c) == SendFails(c) \/ AnswerLost(c)

ClientStep(c) ==
  \/ DaemonFound(c) \/ SpawnDaemon(c) \/ NoDaemon(c)
  \/ Connect(c) \/ ConnectRefused(c)
  \/ SendPart(c) \/ Delivered(c) \/ GiveUp(c) \/ AnswerRead(c)
  \/ RunDirectly(c)

HandlerStep(c) ==
  \/ TakePermit(c) \/ ReadFrame(c) \/ ReadAborts(c) \/ EnterGate(c)
  \/ Refuse(c) \/ Run(c) \/ Finish(c) \/ Reply(c) \/ ReplyFails(c)

ShutdownStep(d) ==
  \/ StopAccepting(d) \/ Quiesced(d) \/ WorkGraceOver(d)
  \/ Unlink(d) \/ Release(d) \/ RuntimeDrops(d)

Next ==
  \/ \E c \in Client : ClientStep(c) \/ Accept(c) \/ HandlerStep(c)
  \/ \E d \in Daemon :
       \/ Acquire(d) \/ AlreadyHeld(d) \/ Bind(d) \/ BindFails(d)
       \/ Stop(d) \/ ShutdownStep(d) \/ SecondSignal(d) \/ Crash(d)

Spec == Init /\ [][Next]_vars

\* A client's deadline passes, a handler and a shutdown under way go on; the
\* select that sees the cancelled token takes that branch in the end. Nobody has
\* to send, to spawn, to stop or to signal.
FairSpec ==
  /\ Spec
  /\ \A c \in Client : WF_vars(GiveUp(c)) /\ WF_vars(HandlerStep(c))
  /\ \A d \in Daemon : WF_vars(ShutdownStep(d))

-----------------------------------------------------------------------------
(* Properties.                                                              *)

\* A mutation runs at most once, in the daemon or in its caller, and the caller
\* runs it only when the daemon has not and never will: crashes, lost answers,
\* half-sent frames, retiring daemons and their successors included
\* (hook_client::MutationFailure, main::run).
Outcome == INSTANCE MutationOutcome WITH ran <- ran, told <- told
RunsAtMostOnce == Outcome!Spec

\* A request that entered the gate before the drain found it empty is finished and
\* answered before the sockets go, unless the work's own grace was over
\* (hook_runtime::WorkGate: "shutdown has to wait for the answer too").
DrainWaitsForAnswers ==
  [][\A d \in Daemon :
       Unlink(d) /\ gate[d] = "quiesced" => Executing(d) \subseteq late]_vars

\* The socket of a serving daemon goes only with that daemon, or at the hand of
\* a predecessor that was signalled twice: a graceful shutdown never unlinks its
\* successor's socket (ipc_server::serve under the lock of singleton).
SocketIsOwn ==
  [][\A d \in Daemon :
       dpc[d] = "serving" /\ sock = d /\ sock' # d
       => \E e \in Daemon : SecondSignal(e)]_vars

\* A shutdown that began ends, although the accept loop may be waiting for a
\* permit that a silent client holds (ipc_server::hook_accept_loop).
ShutdownEnds == \A d \in Daemon : dpc[d] = "stopping" ~> dpc[d] = "gone"

=============================================================================
