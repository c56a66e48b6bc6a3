---------------------------- MODULE CliMutateProofs ----------------------------
(***************************************************************************)
(* Proofs about CliMutate, for any number of clients, daemons and permits: *)
(* the socket protocol implements MutationOutcome, a drain waits for the   *)
(* answers, and a graceful shutdown leaves its successor's socket alone.   *)
(***************************************************************************)
EXTENDS CliMutate, TLAPS

USE DEF Nobody, Connected

-----------------------------------------------------------------------------
(* Typing.                                                                  *)

LEMMA NobodyIsNoDaemon == Nobody \notin Daemon
  BY DEF Daemon

\* What leaves and what enters a state concerns one client's result and pc.
LEMMA ConcludeTyped ==
  ASSUME TypeOK, NEW c \in Client, NEW result \in {"done", "undetermined", "unstarted"},
         NEW p \in {"local", "end"}, Conclude(c, result, p)
  PROVE  /\ told' \in [Client -> {"waiting", "done", "undetermined", "unstarted"}]
         /\ cpc' \in [Client -> {"start", "spawned", "connect", "send", "await", "local", "end"}]
  BY DEF TypeOK, Conclude

LEMMA NotStartedTyped ==
  ASSUME TypeOK, NEW c \in Client, NotStarted(c)
  PROVE  /\ told' \in [Client -> {"waiting", "done", "undetermined", "unstarted"}]
         /\ cpc' \in [Client -> {"start", "spawned", "connect", "send", "await", "local", "end"}]
  BY ConcludeTyped DEF NotStarted

LEMMA ExitTyped ==
  ASSUME TypeOK, NEW d \in Daemon, Exit(d)
  PROVE  /\ dpc' \in [Daemon -> DaemonPCs]
         /\ singleton' \in Daemon \cup {Nobody}
         /\ handler' \in [Client -> Handlers]
         /\ \A c \in Client : handler'[c] # "none" => handler[c] # "none"
  BY DEF TypeOK, Exit, Drop, DaemonPCs, Handlers

\* Every variable of the daemon protocol keeps its type (CliMutate's handlers).
THEOREM ProtocolTyping == Spec => []TypeOK
<1>1. Init => TypeOK
  BY DEF Init, TypeOK, DaemonPCs, Handlers
<1>2. TypeOK /\ [Next]_vars => TypeOK'
  <2> SUFFICES ASSUME TypeOK, [Next]_vars PROVE TypeOK'
    OBVIOUS
  <2> USE DEF DaemonPCs, Handlers
  <2>1. ASSUME NEW c \in Client, ClientStep(c) PROVE TypeOK'
    <3>1. CASE DaemonFound(c)
      BY <3>1 DEF DaemonFound, TypeOK, daemons, wires
    <3>2. CASE SpawnDaemon(c)
      BY <3>2 DEF SpawnDaemon, TypeOK, wires
    <3>3. CASE NoDaemon(c) \/ ConnectRefused(c) \/ SendFails(c)
      BY <3>3, NotStartedTyped DEF NoDaemon, ConnectRefused, SendFails, TypeOK, daemons, wires
    <3>4. CASE Connect(c)
      BY <3>4 DEF Connect, Reachable, TypeOK, daemons
    <3>5. CASE SendPart(c) \/ Delivered(c)
      BY <3>5 DEF SendPart, Delivered, TypeOK, daemons, clients
    <3>6. CASE AnswerRead(c)
      <4>1. told' \in [Client -> {"waiting", "done", "undetermined", "unstarted"}]
            /\ cpc' \in [Client -> {"start", "spawned", "connect", "send", "await", "local", "end"}]
        <5>1. CASE answer[c] = "refused"
          BY <3>6, <5>1, NotStartedTyped DEF AnswerRead
        <5>2. CASE answer[c] # "refused"
          BY <3>6, <5>2, ConcludeTyped DEF AnswerRead
        <5> QED BY <5>1, <5>2
      <4> QED BY <3>6, <4>1 DEF AnswerRead, TypeOK, daemons, wires
    <3>7. CASE AnswerLost(c)
      BY <3>7, ConcludeTyped DEF AnswerLost, TypeOK, daemons, wires
    <3>8. CASE RunDirectly(c)
      BY <3>8 DEF RunDirectly, TypeOK, daemons, wires
    <3> QED BY <2>1, <3>1, <3>2, <3>3, <3>4, <3>5, <3>6, <3>7, <3>8 DEF ClientStep, GiveUp
  <2>2. ASSUME NEW c \in Client, Accept(c) \/ HandlerStep(c) PROVE TypeOK'
    <3>1. CASE Accept(c) \/ TakePermit(c) \/ ReadFrame(c) \/ ReadAborts(c)
      BY <3>1 DEF Accept, TakePermit, ReadFrame, ReadAborts, TypeOK, daemons, clients
    <3>2. CASE EnterGate(c) \/ Refuse(c) \/ Run(c) \/ Finish(c)
      BY <3>2 DEF EnterGate, Refuse, Run, Finish, TypeOK, daemons, clients
    <3>3. CASE Reply(c) \/ ReplyFails(c)
      BY <3>3 DEF Reply, ReplyFails, TypeOK, daemons, clients
    <3> QED BY <2>2, <3>1, <3>2, <3>3 DEF HandlerStep
  <2>3. ASSUME NEW d \in Daemon,
               Acquire(d) \/ AlreadyHeld(d) \/ Bind(d) \/ Stop(d)
               \/ Quiesced(d) \/ WorkGraceOver(d) \/ Unlink(d) \/ Release(d)
        PROVE  TypeOK'
    BY <2>3 DEF Acquire, AlreadyHeld, Bind, Stop, Quiesced, WorkGraceOver, Unlink, Release,
                TypeOK, wires, clients
  <2>4. ASSUME NEW d \in Daemon, StopAccepting(d) PROVE TypeOK'
    BY <2>4 DEF StopAccepting, Drop, TypeOK, clients
  <2>5. ASSUME NEW d \in Daemon, BindFails(d) \/ RuntimeDrops(d) \/ SecondSignal(d) \/ Crash(d)
        PROVE  TypeOK'
    <3>1. Exit(d)
      BY <2>5 DEF BindFails, RuntimeDrops, SecondSignal, Crash
    <3> QED BY <2>5, <3>1, ExitTyped
            DEF BindFails, RuntimeDrops, SecondSignal, Crash, TypeOK, clients
  <2>6. CASE UNCHANGED vars
    BY <2>6 DEF vars, daemons, wires, clients, TypeOK
  <2> QED BY <2>1, <2>2, <2>3, <2>4, <2>5, <2>6 DEF Next, ShutdownStep
<1> QED BY <1>1, <1>2, PTL DEF Spec

-----------------------------------------------------------------------------
(* The fate of a mutation.                                                  *)

Waiting == {"start", "spawned", "connect", "send", "await"}

\* What the state of a client's connection says about who may have run its
\* mutation, who still may, and what the client has concluded.
Fate(c) ==
  /\ told[c] = "waiting" <=> cpc[c] \in Waiting
  /\ cpc[c] \in {"start", "spawned", "connect"} => handler[c] = "none" /\ frame[c] = "none"
  /\ cpc[c] = "send" => frame[c] \in {"none", "partial"}
  /\ cpc[c] = "local" => told[c] = "unstarted" /\ ran[c] = "nobody"
  /\ frame[c] \in {"none", "partial", "whole"} => ran[c] # "daemon"
  /\ frame[c] \in {"whole", "read"} => told[c] # "unstarted"
  /\ handler[c] \in {"gate", "dispatch"} => frame[c] = "read" /\ ran[c] = "nobody"
  /\ handler[c] \in {"running", "answering"} => frame[c] = "read"
  /\ handler[c] = "running" => ran[c] = "daemon"
  /\ handler[c] = "answering" \/ frame[c] = "answered" =>
       /\ answer[c] = "ok" => ran[c] = "daemon"
       /\ answer[c] = "refused" => ran[c] # "daemon"
  /\ ran[c] = "caller" => told[c] = "unstarted"
  /\ told[c] = "unstarted" => ran[c] # "daemon"
  /\ told[c] = "done" => ran[c] = "daemon"

Fates == \A c \in Client : Fate(c)

\* A step that touches nothing of a client leaves its fate.
LEMMA FateKept ==
  ASSUME NEW c \in Client, Fate(c),
         cpc'[c] = cpc[c], told'[c] = told[c], ran'[c] = ran[c],
         frame'[c] = frame[c], answer'[c] = answer[c],
         handler'[c] \in {handler[c], "dropped"},
         handler'[c] = "dropped" => handler[c] # "none"
  PROVE  Fate(c)'
  BY DEF Fate, Waiting

\* A client that concludes "unstarted" did so before its frame was whole, or
\* because a refusal was on the wire.
LEMMA UnstartedFate ==
  ASSUME TypeOK, NEW c \in Client, Fate(c), NotStarted(c), cpc[c] \in Waiting,
         \/ frame[c] \in {"none", "partial"}
         \/ frame[c] = "answered" /\ answer[c] = "refused",
         UNCHANGED <<peer, handler, frame, answer, ran>>
  PROVE  Fate(c)'
  <1>1. told'[c] = "unstarted" /\ cpc'[c] \in {"local", "end"}
    BY DEF NotStarted, Conclude, TypeOK
  <1>2. ran[c] = "nobody"
    BY DEF Fate, TypeOK
  <1>3. handler[c] \notin {"gate", "dispatch", "running", "answering"}
    BY DEF Fate
  <1> QED BY <1>1, <1>2, <1>3 DEF Fate, Waiting

\* Another client's conclusion is none of this one's.
LEMMA ConcludeOther ==
  ASSUME NEW c \in Client, NEW b \in Client, b # c, NEW result, NEW p, Conclude(c, result, p),
         TypeOK
  PROVE  told'[b] = told[b] /\ cpc'[b] = cpc[b]
  BY DEF Conclude, TypeOK

\* The end of a daemon drops connections and nothing else.
LEMMA DropOnly ==
  ASSUME TypeOK, NEW d \in Daemon, NEW stages, "none" \notin stages, Drop(d, stages),
         NEW c \in Client
  PROVE  /\ handler'[c] \in {handler[c], "dropped"}
         /\ handler'[c] = "dropped" => handler[c] # "none"
  BY DEF Drop, TypeOK

\* Every step keeps every client's fate.
LEMMA FateStep == TypeOK /\ Fates /\ [Next]_vars => Fates'
<1> SUFFICES ASSUME TypeOK, Fates, [Next]_vars, NEW b \in Client PROVE Fate(b)'
  BY DEF Fates
<1>0. Fate(b)
  BY DEF Fates
<1>1. ASSUME NEW c \in Client, NoDaemon(c) \/ ConnectRefused(c) \/ SendFails(c)
      PROVE  Fate(b)'
  <2>1. UNCHANGED <<peer, handler, frame, answer, ran>>
    BY <1>1 DEF NoDaemon, ConnectRefused, SendFails, wires
  <2>2. CASE b = c
    <3>1. cpc[c] \in {"start", "spawned", "connect", "send"} /\ NotStarted(c)
      BY <1>1 DEF NoDaemon, ConnectRefused, SendFails
    <3>2. frame[c] \in {"none", "partial"}
      BY <1>0, <2>2, <3>1 DEF Fate
    <3> QED BY <1>0, <2>1, <2>2, <3>1, <3>2, UnstartedFate DEF Waiting
  <2>3. CASE b # c
    <3>1. told'[b] = told[b] /\ cpc'[b] = cpc[b]
      BY <1>1, <2>3, ConcludeOther DEF NoDaemon, ConnectRefused, SendFails, NotStarted
    <3> QED BY <1>0, <2>1, <3>1, FateKept
  <2> QED BY <2>2, <2>3
<1>2. ASSUME NEW c \in Client, AnswerRead(c) \/ AnswerLost(c)
      PROVE  Fate(b)'
  <2>1. UNCHANGED <<peer, handler, frame, answer, ran>> /\ cpc[c] = "await"
    BY <1>2 DEF AnswerRead, AnswerLost, wires
  <2>2. \/ NotStarted(c) /\ frame[c] = "answered" /\ answer[c] = "refused"
        \/ Conclude(c, "done", "end") /\ frame[c] = "answered" /\ answer[c] = "ok"
        \/ Conclude(c, "undetermined", "end")
    BY <1>2 DEF AnswerRead, AnswerLost
  <2>3. CASE b # c
    <3>1. told'[b] = told[b] /\ cpc'[b] = cpc[b]
      BY <2>2, <2>3, ConcludeOther DEF NotStarted
    <3> QED BY <1>0, <2>1, <3>1, FateKept
  <2>4. CASE b = c /\ NotStarted(c) /\ frame[c] = "answered" /\ answer[c] = "refused"
    BY <1>0, <2>1, <2>4, UnstartedFate DEF Waiting
  <2>5. CASE b = c /\ (\/ Conclude(c, "done", "end") /\ frame[c] = "answered" /\ answer[c] = "ok"
                      \/ Conclude(c, "undetermined", "end"))
    <3>1. told'[c] \in {"done", "undetermined"} /\ cpc'[c] = "end"
      BY <2>5 DEF Conclude, TypeOK
    <3>2. told'[c] = "done" => ran[c] = "daemon"
      BY <1>0, <2>5 DEF Conclude, TypeOK, Fate
    <3> QED BY <1>0, <2>1, <2>5, <3>1, <3>2 DEF Fate, Waiting
  <2> QED BY <2>2, <2>3, <2>4, <2>5
<1>3. ASSUME NEW c \in Client,
             DaemonFound(c) \/ SpawnDaemon(c) \/ Connect(c) \/ SendPart(c) \/ Delivered(c)
             \/ RunDirectly(c)
      PROVE  Fate(b)'
  <2>1. CASE b # c
    <3>1. /\ cpc'[b] = cpc[b] /\ told'[b] = told[b] /\ ran'[b] = ran[b]
          /\ frame'[b] = frame[b] /\ answer'[b] = answer[b] /\ handler'[b] = handler[b]
      BY <1>3, <2>1 DEF DaemonFound, SpawnDaemon, Connect, SendPart, Delivered, RunDirectly,
                        TypeOK, wires, clients
    <3> QED BY <1>0, <3>1, FateKept DEF Fate
  <2>2. CASE b = c /\ (DaemonFound(c) \/ SpawnDaemon(c))
    BY <1>0, <2>2 DEF DaemonFound, SpawnDaemon, Fate, Waiting, TypeOK, wires
  <2>3. CASE b = c /\ Connect(c)
    BY <1>0, <2>3 DEF Connect, Fate, Waiting, TypeOK
  <2>4. CASE b = c /\ (SendPart(c) \/ Delivered(c))
    BY <1>0, <2>4 DEF SendPart, Delivered, Fate, Waiting, TypeOK, clients
  <2>5. CASE b = c /\ RunDirectly(c)
    BY <1>0, <2>5 DEF RunDirectly, Fate, Waiting, TypeOK, wires
  <2> QED BY <1>3, <2>1, <2>2, <2>3, <2>4, <2>5
<1>4. ASSUME NEW c \in Client, Accept(c) \/ HandlerStep(c)
      PROVE  Fate(b)'
  <2>0. UNCHANGED <<peer, cpc, told>>
    BY <1>4 DEF Accept, HandlerStep, TakePermit, ReadFrame, ReadAborts, EnterGate, Refuse,
                Run, Finish, Reply, ReplyFails, clients
  <2>1. CASE b # c
    <3>1. /\ ran'[b] = ran[b] /\ frame'[b] = frame[b]
          /\ answer'[b] = answer[b] /\ handler'[b] = handler[b]
      BY <1>4, <2>1 DEF Accept, HandlerStep, TakePermit, ReadFrame, ReadAborts, EnterGate,
                        Refuse, Run, Finish, Reply, ReplyFails, TypeOK
    <3> QED BY <1>0, <2>0, <3>1, FateKept DEF Fate
  <2>2. CASE b = c /\ (Accept(c) \/ TakePermit(c) \/ ReadAborts(c) \/ ReplyFails(c))
    BY <1>0, <2>0, <2>2 DEF Accept, TakePermit, ReadAborts, ReplyFails, Fate, Waiting, TypeOK
  <2>3. CASE b = c /\ (ReadFrame(c) \/ EnterGate(c))
    BY <1>0, <2>0, <2>3 DEF ReadFrame, EnterGate, Fate, Waiting, TypeOK
  <2>4. CASE b = c /\ (Refuse(c) \/ Run(c) \/ Finish(c))
    BY <1>0, <2>0, <2>4 DEF Refuse, Run, Finish, Fate, Waiting, TypeOK
  <2>5. CASE b = c /\ Reply(c)
    BY <1>0, <2>0, <2>5 DEF Reply, Fate, Waiting, TypeOK
  <2> QED BY <1>4, <2>1, <2>2, <2>3, <2>4, <2>5 DEF HandlerStep
<1>5. ASSUME NEW d \in Daemon,
             Acquire(d) \/ AlreadyHeld(d) \/ Bind(d) \/ Stop(d)
             \/ Quiesced(d) \/ WorkGraceOver(d) \/ Unlink(d) \/ Release(d)
      PROVE  Fate(b)'
  <2>1. UNCHANGED <<wires, clients, ran>>
    BY <1>5 DEF Acquire, AlreadyHeld, Bind, Stop, Quiesced, WorkGraceOver, Unlink, Release
  <2> QED BY <1>0, <2>1, FateKept DEF wires, clients, Fate
<1>6. ASSUME NEW d \in Daemon,
             StopAccepting(d) \/ BindFails(d) \/ RuntimeDrops(d) \/ SecondSignal(d) \/ Crash(d)
      PROVE  Fate(b)'
  <2>1. UNCHANGED <<peer, frame, answer, clients, ran>>
    BY <1>6 DEF StopAccepting, BindFails, RuntimeDrops, SecondSignal, Crash
  <2>2. Drop(d, {"backlog"}) \/ Drop(d, Handlers \ {"none"})
    BY <1>6 DEF StopAccepting, BindFails, RuntimeDrops, SecondSignal, Crash, Exit
  <2>3. handler'[b] \in {handler[b], "dropped"} /\ (handler'[b] = "dropped" => handler[b] # "none")
    BY <2>2, DropOnly
  <2> QED BY <1>0, <2>1, <2>3, FateKept DEF clients
<1>7. CASE UNCHANGED vars
  BY <1>0, <1>7, FateKept DEF vars, daemons, wires, clients, Fate
<1> QED BY <1>1, <1>2, <1>3, <1>4, <1>5, <1>6, <1>7 DEF Next, ClientStep, GiveUp, ShutdownStep

\* What a client has concluded always agrees with what may still happen.
THEOREM MutationFate == Spec => []Fates
<1>1. Init => Fates
  BY DEF Init, Fates, Fate, Waiting
<1>2. TypeOK /\ Fates /\ [Next]_vars => Fates'
  BY FateStep
<1> QED BY <1>1, <1>2, ProtocolTyping, PTL DEF Spec

-----------------------------------------------------------------------------
(* The socket protocol implements MutationOutcome.                          *)

\* Every step of the protocol is a step of the promise, or none.
LEMMA OutcomeStep ==
  TypeOK /\ Fates /\ [Next]_vars => [Outcome!Next]_<<ran, told>>
<1> SUFFICES ASSUME TypeOK, Fates, [Next]_vars
             PROVE  Outcome!Next \/ UNCHANGED <<ran, told>>
  OBVIOUS
<1>1. ASSUME NEW c \in Client, Fate(c), NotStarted(c), UNCHANGED ran, cpc[c] \in Waiting,
             \/ frame[c] \in {"none", "partial"}
             \/ frame[c] = "answered" /\ answer[c] = "refused"
      PROVE  Outcome!Unstarted(c)
  <2>1. told[c] = "waiting" /\ ran[c] = "nobody"
    BY <1>1 DEF Fate, TypeOK
  <2> QED BY <1>1, <2>1 DEF NotStarted, Conclude, Outcome!Unstarted
<1>2. ASSUME NEW c \in Client, ClientStep(c)
      PROVE  Outcome!Next \/ UNCHANGED <<ran, told>>
  <2>0. Fate(c)
    BY DEF Fates
  <2>1. CASE NoDaemon(c) \/ ConnectRefused(c) \/ SendFails(c)
    <3>1. NotStarted(c) /\ UNCHANGED ran /\ cpc[c] \in Waiting /\ frame[c] \in {"none", "partial"}
      BY <2>0, <2>1 DEF NoDaemon, ConnectRefused, SendFails, Fate, Waiting
    <3> QED BY <1>1, <2>0, <3>1 DEF Outcome!Next
  <2>2. CASE AnswerRead(c) /\ answer[c] = "refused"
    <3>1. NotStarted(c) /\ UNCHANGED ran /\ cpc[c] \in Waiting /\ frame[c] = "answered"
      BY <2>2 DEF AnswerRead, Waiting
    <3> QED BY <1>1, <2>0, <2>2, <3>1 DEF Outcome!Next
  <2>3. CASE AnswerRead(c) /\ answer[c] = "ok"
    <3>1. Conclude(c, "done", "end") /\ UNCHANGED ran /\ cpc[c] = "await" /\ frame[c] = "answered"
      BY <2>3 DEF AnswerRead
    <3>2. told[c] = "waiting" /\ ran[c] = "daemon"
      BY <2>0, <2>3, <3>1 DEF Fate, Waiting
    <3>3. Outcome!Answered(c)
      BY <3>1, <3>2 DEF Conclude, Outcome!Answered
    <3> QED BY <3>3 DEF Outcome!Next
  <2>4. CASE AnswerLost(c) \/ (AnswerRead(c) /\ answer[c] \notin {"ok", "refused"})
    <3>1. Conclude(c, "undetermined", "end") /\ UNCHANGED ran /\ cpc[c] = "await"
      BY <2>4 DEF AnswerRead, AnswerLost
    <3>2. told[c] = "waiting"
      BY <2>0, <3>1 DEF Fate, Waiting
    <3>3. Outcome!Undetermined(c)
      BY <3>1, <3>2 DEF Conclude, Outcome!Undetermined
    <3> QED BY <3>3 DEF Outcome!Next
  <2>5. CASE RunDirectly(c)
    <3>1. CASE ran' = ran
      BY <2>5, <3>1 DEF RunDirectly
    <3>2. CASE ran' = [ran EXCEPT ![c] = "caller"]
      <4>1. told[c] = "unstarted" /\ ran[c] = "nobody"
        BY <2>0, <2>5 DEF RunDirectly, Fate
      <4>2. Outcome!CallerRuns(c)
        BY <2>5, <3>2, <4>1 DEF RunDirectly, Outcome!CallerRuns
      <4> QED BY <4>2 DEF Outcome!Next
    <3> QED BY <2>5, <3>1, <3>2 DEF RunDirectly
  <2>6. CASE DaemonFound(c) \/ SpawnDaemon(c) \/ Connect(c) \/ SendPart(c) \/ Delivered(c)
    BY <2>6 DEF DaemonFound, SpawnDaemon, Connect, SendPart, Delivered, clients
  <2> QED BY <1>2, <2>1, <2>2, <2>3, <2>4, <2>5, <2>6 DEF ClientStep, GiveUp
<1>3. ASSUME NEW c \in Client, Accept(c) \/ HandlerStep(c)
      PROVE  Outcome!Next \/ UNCHANGED <<ran, told>>
  <2>0. Fate(c)
    BY DEF Fates
  <2>1. CASE Run(c)
    <3>1. ran[c] = "nobody" /\ told[c] \in {"waiting", "undetermined"}
      <4>1. ran[c] = "nobody" /\ frame[c] = "read"
        BY <2>0, <2>1 DEF Run, Fate
      <4>2. told[c] \notin {"unstarted", "done"}
        BY <2>0, <4>1 DEF Fate
      <4> QED BY <4>1, <4>2 DEF TypeOK
    <3>2. Outcome!DaemonRuns(c)
      BY <2>1, <3>1 DEF Run, clients, Outcome!DaemonRuns
    <3> QED BY <3>2 DEF Outcome!Next
  <2>2. CASE ~ Run(c)
    BY <1>3, <2>2 DEF Accept, HandlerStep, TakePermit, ReadFrame, ReadAborts, EnterGate,
                      Refuse, Finish, Reply, ReplyFails, clients
  <2> QED BY <2>1, <2>2
<1>4. ASSUME NEW d \in Daemon,
             \/ Acquire(d) \/ AlreadyHeld(d) \/ Bind(d) \/ BindFails(d)
             \/ Stop(d) \/ ShutdownStep(d) \/ SecondSignal(d) \/ Crash(d)
      PROVE  UNCHANGED <<ran, told>>
  BY <1>4 DEF Acquire, AlreadyHeld, Bind, BindFails, Stop, ShutdownStep, StopAccepting, Quiesced,
              WorkGraceOver, Unlink, Release, RuntimeDrops, SecondSignal, Crash, clients
<1>5. CASE UNCHANGED vars
  BY <1>5 DEF vars, clients
<1> QED BY <1>2, <1>3, <1>4, <1>5 DEF Next

\* A mutation runs at most once, and its caller runs it only when the daemon has
\* not and never will (MutationFailure), for any clients and daemons.
THEOREM ImplementsOutcome == Spec => RunsAtMostOnce
<1>1. Init => Outcome!Init
  BY DEF Init, Outcome!Init
<1>2. TypeOK /\ Fates /\ [Next]_vars => [Outcome!Next]_<<ran, told>>
  BY OutcomeStep
<1> QED BY <1>1, <1>2, ProtocolTyping, MutationFate, PTL DEF Spec, RunsAtMostOnce, Outcome!Spec

-----------------------------------------------------------------------------
(* The drain.                                                               *)

\* What executes behind a quiesced gate entered it after the drain had left.
LateOnly ==
  \A d \in Daemon : gate[d] = "quiesced" => Executing(d) \subseteq late

\* A client that connects had no handler.
LEMMA LateOnlyStep == TypeOK /\ Fates /\ LateOnly /\ [Next]_vars => LateOnly'
<1> SUFFICES ASSUME TypeOK, Fates, LateOnly, [Next]_vars,
                    NEW d \in Daemon, gate'[d] = "quiesced", NEW b \in Client,
                    peer'[b] = d, handler'[b] \in {"dispatch", "running", "answering"}
             PROVE  b \in late'
  BY DEF LateOnly, Executing
<1> DEFINE Working == {"dispatch", "running", "answering"}
<1>0. gate[d] = "quiesced" /\ peer[b] = d /\ handler[b] \in Working => b \in late
  BY DEF LateOnly, Executing
<1>1. ASSUME gate[d] = "quiesced", peer[b] = d, handler[b] \in Working, late \subseteq late'
      PROVE  b \in late'
  BY <1>0, <1>1
<1>2. ASSUME NEW c \in Client, ClientStep(c) PROVE b \in late'
  <2>1. gate'[d] = gate[d] /\ late' = late
    BY <1>2 DEF ClientStep, GiveUp, DaemonFound, SpawnDaemon, NoDaemon, Connect, ConnectRefused,
                SendPart, Delivered, SendFails, AnswerRead, AnswerLost, RunDirectly, daemons
  <2>2. CASE Connect(c)
    BY <1>1, <2>1, <2>2 DEF Connect, TypeOK
  <2>3. CASE ~ Connect(c)
    <3>1. UNCHANGED <<peer, handler>>
      BY <1>2, <2>3 DEF ClientStep, GiveUp, DaemonFound, SpawnDaemon, NoDaemon, ConnectRefused,
                        SendPart, Delivered, SendFails, AnswerRead, AnswerLost, RunDirectly, wires
    <3> QED BY <1>1, <2>1, <3>1
  <2> QED BY <2>2, <2>3
<1>3. ASSUME NEW c \in Client, Accept(c) \/ HandlerStep(c) PROVE b \in late'
  <2>1. UNCHANGED <<gate, peer>> /\ late \subseteq late'
    BY <1>3 DEF Accept, HandlerStep, TakePermit, ReadFrame, ReadAborts, EnterGate, Refuse,
                Run, Finish, Reply, ReplyFails, daemons
  <2>2. CASE b = c /\ EnterGate(c)
    BY <2>1, <2>2 DEF EnterGate
  <2>3. CASE b # c \/ ~ EnterGate(c)
    <3>1. handler[b] \in Working
      BY <1>3, <2>3 DEF Accept, HandlerStep, TakePermit, ReadFrame, ReadAborts, EnterGate, Refuse,
                        Run, Finish, Reply, ReplyFails, TypeOK
    <3> QED BY <1>1, <2>1, <3>1
  <2> QED BY <2>2, <2>3
<1>4. ASSUME NEW e \in Daemon,
             Acquire(e) \/ AlreadyHeld(e) \/ Bind(e) \/ Stop(e) \/ WorkGraceOver(e)
             \/ Unlink(e) \/ Release(e) \/ Quiesced(e)
      PROVE  b \in late'
  <2>1. UNCHANGED <<peer, handler, late>>
    BY <1>4 DEF Acquire, AlreadyHeld, Bind, Stop, WorkGraceOver, Unlink, Release, Quiesced, wires
  <2>2. CASE e = d /\ Quiesced(e)
    BY <2>1, <2>2 DEF Quiesced, Executing
  <2>3. CASE e # d \/ ~ Quiesced(e)
    <3>1. gate[d] = "quiesced"
      BY <1>4, <2>3 DEF Acquire, AlreadyHeld, Bind, Stop, WorkGraceOver, Unlink, Release, Quiesced,
                        TypeOK
    <3> QED BY <1>1, <2>1, <3>1
  <2> QED BY <2>2, <2>3
<1>5. ASSUME NEW e \in Daemon,
             StopAccepting(e) \/ BindFails(e) \/ RuntimeDrops(e) \/ SecondSignal(e) \/ Crash(e)
      PROVE  b \in late'
  <2>1. UNCHANGED <<peer, late>>
    BY <1>5 DEF StopAccepting, BindFails, RuntimeDrops, SecondSignal, Crash
  <2>2. Drop(e, {"backlog"}) \/ Drop(e, Handlers \ {"none"})
    BY <1>5 DEF StopAccepting, BindFails, RuntimeDrops, SecondSignal, Crash, Exit
  <2>3. handler[b] \in Working
    BY <2>2, DropOnly
  <2>4. gate[d] = "quiesced"
    BY <1>5 DEF StopAccepting, BindFails, RuntimeDrops, SecondSignal, Crash, TypeOK
  <2> QED BY <1>1, <2>1, <2>3, <2>4
<1>6. CASE UNCHANGED vars
  BY <1>1, <1>6 DEF vars, daemons, wires
<1> QED BY <1>2, <1>3, <1>4, <1>5, <1>6 DEF Next, ShutdownStep

\* The sockets go while a request executes only if it came too late for the
\* drain, or the drain ran out of time (WorkGate, drain_in_flight_work).
THEOREM AnswersAwaited == Spec => DrainWaitsForAnswers
<1>1. Init => LateOnly
  BY DEF Init, LateOnly
<1>2. TypeOK /\ Fates /\ LateOnly /\ [Next]_vars => LateOnly'
  BY LateOnlyStep
<1>3. LateOnly => \A d \in Daemon : Unlink(d) /\ gate[d] = "quiesced" => Executing(d) \subseteq late
  BY DEF LateOnly
<1> QED BY <1>1, <1>2, <1>3, ProtocolTyping, MutationFate, PTL DEF Spec, DrainWaitsForAnswers

-----------------------------------------------------------------------------
(* The singleton and the socket.                                            *)

Holding == {"locked", "serving", "stopping", "draining", "closing", "unlinked"}

\* A daemon is between its lock and its release exactly when it holds the lock.
Singleton == \A d \in Daemon : dpc[d] \in Holding <=> singleton = d

LEMMA SingletonStep == TypeOK /\ Singleton /\ [Next]_vars => Singleton'
<1> SUFFICES ASSUME TypeOK, Singleton, [Next]_vars, NEW d \in Daemon
             PROVE  dpc'[d] \in Holding <=> singleton' = d
  BY DEF Singleton
<1> USE DEF Holding
<1>0. dpc[d] \in Holding <=> singleton = d
  BY DEF Singleton
<1>1. CASE UNCHANGED <<dpc, singleton>>
  BY <1>0, <1>1
<1>2. ASSUME NEW c \in Client, SpawnDaemon(c) PROVE dpc'[d] \in Holding <=> singleton' = d
  BY <1>0, <1>2 DEF SpawnDaemon, TypeOK
<1>3. ASSUME NEW c \in Client, ClientStep(c) \/ Accept(c) \/ HandlerStep(c), ~ SpawnDaemon(c)
      PROVE  UNCHANGED <<dpc, singleton>>
  BY <1>3 DEF ClientStep, GiveUp, DaemonFound, NoDaemon, Connect, ConnectRefused, SendPart, Delivered,
              SendFails, AnswerRead, AnswerLost, RunDirectly, Accept, HandlerStep, TakePermit, ReadFrame,
              ReadAborts, EnterGate, Refuse, Run, Finish, Reply, ReplyFails, daemons
<1>4. ASSUME NEW e \in Daemon, Acquire(e) \/ AlreadyHeld(e)
      PROVE  dpc'[d] \in Holding <=> singleton' = d
  BY <1>0, <1>4, NobodyIsNoDaemon DEF Acquire, AlreadyHeld, TypeOK
<1>5. ASSUME NEW e \in Daemon,
             Bind(e) \/ Stop(e) \/ StopAccepting(e) \/ Quiesced(e) \/ WorkGraceOver(e) \/ Unlink(e)
      PROVE  dpc'[d] \in Holding <=> singleton' = d
  BY <1>0, <1>5 DEF Bind, Stop, StopAccepting, Quiesced, WorkGraceOver, Unlink, TypeOK
<1>6. ASSUME NEW e \in Daemon, Release(e)
      PROVE  dpc'[d] \in Holding <=> singleton' = d
  <2>1. singleton = e
    BY <1>6 DEF Release, Singleton
  <2> QED BY <1>0, <1>6, <2>1, NobodyIsNoDaemon DEF Release, TypeOK
<1>7. ASSUME NEW e \in Daemon, BindFails(e) \/ RuntimeDrops(e) \/ SecondSignal(e) \/ Crash(e)
      PROVE  dpc'[d] \in Holding <=> singleton' = d
  <2>1. Exit(e)
    BY <1>7 DEF BindFails, RuntimeDrops, SecondSignal, Crash
  <2> QED BY <1>0, <2>1, NobodyIsNoDaemon DEF Exit, TypeOK
<1>8. CASE UNCHANGED vars
  BY <1>1, <1>8 DEF vars, daemons
<1> QED BY <1>1, <1>2, <1>3, <1>4, <1>5, <1>6, <1>7, <1>8 DEF Next, ShutdownStep

\* At most one daemon serves, and it holds the singleton (singleton.rs).
THEOREM OneDaemon == Spec => []Singleton
<1>1. Init => Singleton
  BY NobodyIsNoDaemon DEF Init, Singleton, Holding
<1>2. TypeOK /\ Singleton /\ [Next]_vars => Singleton'
  BY SingletonStep
<1> QED BY <1>1, <1>2, ProtocolTyping, PTL DEF Spec

LEMMA SocketStep ==
  ASSUME TypeOK, Singleton, [Next]_vars, NEW d \in Daemon,
         dpc[d] = "serving", sock = d, sock' # d
  PROVE  \E e \in Daemon : SecondSignal(e)
<1>1. singleton = d
  BY DEF Singleton, Holding
<1>2. ASSUME NEW e \in Daemon, Bind(e) \/ Unlink(e) PROVE FALSE
  <2>1. dpc[e] \in {"locked", "closing"} /\ singleton = e
    BY <1>2 DEF Bind, Unlink, Singleton, Holding
  <2> QED BY <1>1, <2>1
<1>3. ASSUME NEW c \in Client, ClientStep(c) \/ Accept(c) \/ HandlerStep(c) PROVE sock' = sock
  BY <1>3 DEF ClientStep, GiveUp, DaemonFound, SpawnDaemon, NoDaemon, Connect, ConnectRefused, SendPart,
              Delivered, SendFails, AnswerRead, AnswerLost, RunDirectly, Accept, HandlerStep, TakePermit,
              ReadFrame, ReadAborts, EnterGate, Refuse, Run, Finish, Reply, ReplyFails, daemons
<1>4. ASSUME NEW e \in Daemon,
             Acquire(e) \/ AlreadyHeld(e) \/ BindFails(e) \/ Stop(e) \/ StopAccepting(e) \/ Quiesced(e)
             \/ WorkGraceOver(e) \/ Release(e) \/ RuntimeDrops(e) \/ Crash(e)
      PROVE  sock' = sock
  BY <1>4 DEF Acquire, AlreadyHeld, BindFails, Stop, StopAccepting, Quiesced, WorkGraceOver, Release,
              RuntimeDrops, Crash
<1>5. CASE UNCHANGED vars
  BY <1>5 DEF vars, daemons
<1> QED BY <1>2, <1>3, <1>4, <1>5 DEF Next, ShutdownStep

\* A shutdown unlinks its socket before it gives up the singleton, so a
\* successor's socket is never what it unlinks (serve, run_daemon).
THEOREM SocketHandover == Spec => SocketIsOwn
<1>1. TypeOK /\ Singleton /\ [Next]_vars
      => [\A d \in Daemon : dpc[d] = "serving" /\ sock = d /\ sock' # d
                            => \E e \in Daemon : SecondSignal(e)]_vars
  BY SocketStep
<1> QED BY <1>1, ProtocolTyping, OneDaemon, PTL DEF Spec, SocketIsOwn

=============================================================================
