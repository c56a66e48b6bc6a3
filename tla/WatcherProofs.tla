----------------------------- MODULE WatcherProofs -----------------------------
(***************************************************************************)
(* Proofs about Watcher: typing, that no change falls between the queues,  *)
(* that the watcher keeps its promise, and that with stages which are      *)
(* emptied every document the loop knows of is indexed or passed over by a *)
(* full pass because it does not look newer, for any paths, any            *)
(* capacities of the two channels and of the pending requests.             *)
(***************************************************************************)
EXTENDS Watcher, FiniteSetTheorems, TLAPS

-----------------------------------------------------------------------------
(* Lemmas about the queues and the bounded requests.                        *)

\* What is in a queue is in it after an element was appended, and so is that one.
LEMMA AppendKeeps ==
  ASSUME NEW S, NEW q \in Seq(S), NEW x \in S
  PROVE  /\ Append(q, x) \in Seq(S)
         /\ Len(Append(q, x)) = Len(q) + 1
         /\ InSeq(x, Append(q, x))
         /\ \A y : InSeq(y, q) => InSeq(y, Append(q, x))
         /\ \A y : InSeq(y, Append(q, x)) => y = x \/ InSeq(y, q)
<1> DEFINE r == Append(q, x)
<1>1. /\ r \in Seq(S)
      /\ Len(r) = Len(q) + 1
      /\ DOMAIN r = 1..(Len(q) + 1)
      /\ DOMAIN q = 1..Len(q)
      /\ r[Len(q) + 1] = x
      /\ \A i \in 1..Len(q) : r[i] = q[i]
      /\ Len(q) \in Nat
  OBVIOUS
<1>2. InSeq(x, r)
  BY <1>1 DEF InSeq
<1>3. \A y : InSeq(y, q) => InSeq(y, r)
  BY <1>1 DEF InSeq
<1>4. \A y : InSeq(y, r) => y = x \/ InSeq(y, q)
  BY <1>1 DEF InSeq
<1> QED
  BY <1>1, <1>2, <1>3, <1>4

\* What is in a queue is its head or stays in its tail.
LEMMA TailKeeps ==
  ASSUME NEW S, NEW q \in Seq(S), q # <<>>
  PROVE  /\ Head(q) \in S
         /\ Tail(q) \in Seq(S)
         /\ Len(Tail(q)) = Len(q) - 1
         /\ InSeq(Head(q), q)
         /\ \A y : InSeq(y, q) => y = Head(q) \/ InSeq(y, Tail(q))
         /\ \A y : InSeq(y, Tail(q)) => InSeq(y, q)
<1> DEFINE r == Tail(q)
<1>1. /\ Head(q) \in S
      /\ r \in Seq(S)
      /\ Len(r) = Len(q) - 1
      /\ DOMAIN q = 1..Len(q)
      /\ DOMAIN r = 1..(Len(q) - 1)
      /\ Head(q) = q[1]
      /\ Len(q) \in Nat \ {0}
      /\ \A i \in 1..(Len(q) - 1) : r[i] = q[i + 1]
  OBVIOUS
<1>2. InSeq(Head(q), q)
  BY <1>1 DEF InSeq
<1>3. \A y : InSeq(y, q) => y = Head(q) \/ InSeq(y, r)
  <2> SUFFICES ASSUME NEW y, NEW i \in DOMAIN q, q[i] = y, i # 1
               PROVE  InSeq(y, r)
    BY <1>1 DEF InSeq
  <2>1. i - 1 \in DOMAIN r /\ r[i - 1] = q[i]
    BY <1>1
  <2> QED
    BY <2>1 DEF InSeq
<1>4. \A y : InSeq(y, r) => InSeq(y, q)
  <2> SUFFICES ASSUME NEW y, NEW i \in DOMAIN r, r[i] = y
               PROVE  InSeq(y, q)
    BY DEF InSeq
  <2>1. i + 1 \in DOMAIN q /\ q[i + 1] = y
    BY <1>1
  <2> QED
    BY <2>1 DEF InSeq
<1> QED
  BY <1>1, <1>2, <1>3, <1>4

\* A request of documents or memory.
Request(req) ==
  /\ req \in [full : BOOLEAN, paths : SUBSET Path]
  /\ Cardinality(req.paths) <= MaxPending
  /\ req.full => req.paths = {}

\* A request that notes a path covers it and all it covered, and stays bounded.
LEMMA NotedCovers ==
  ASSUME NEW req, NEW p \in Path, Request(req)
  PROVE  /\ Request(Noted(req, p))
         /\ Noted(req, p).full \/ p \in Noted(req, p).paths
         /\ req.full => Noted(req, p).full
         /\ Noted(req, p).full \/ req.paths \subseteq Noted(req, p).paths
         /\ Noted(req, p).paths \subseteq req.paths \cup {p}
         /\ Noted(req, p) # Idle
<1>1. CASE req.full \/ p \in req.paths
  BY <1>1 DEF Noted, Request, Idle
<1>2. CASE ~(req.full \/ p \in req.paths) /\ Cardinality(req.paths) = MaxPending
  <2>1. Noted(req, p) = Full
    BY <1>2 DEF Noted
  <2>2. Cardinality({}) = 0
    BY FS_EmptySet
  <2> QED
    BY <1>2, <2>1, <2>2, WatcherAssumption DEF Full, Idle, Request, WatcherAssumption
<1>3. CASE ~(req.full \/ p \in req.paths) /\ Cardinality(req.paths) # MaxPending
  <2>1. Noted(req, p) = [req EXCEPT !.paths = @ \cup {p}]
    BY <1>3 DEF Noted
  <2>2. IsFiniteSet(req.paths)
    BY FS_Subset, WatcherAssumption DEF Request, WatcherAssumption
  <2>3. /\ Cardinality(req.paths) \in Nat
        /\ Cardinality(req.paths \cup {p}) = Cardinality(req.paths) + 1
    BY <1>3, <2>2, FS_AddElement, FS_CardinalityType
  <2>4. Cardinality(req.paths \cup {p}) <= MaxPending
    BY <1>3, <2>3, WatcherAssumption DEF Request, WatcherAssumption
  <2> QED
    BY <1>3, <2>1, <2>4 DEF Request, Idle
<1> QED
  BY <1>1, <1>2, <1>3

\* The code batch that notes a path stays bounded, and what it loses is rescanned.
LEMMA CodeNotedCovers ==
  ASSUME NEW p \in Path, batch \subseteq Path, Cardinality(batch) <= MaxPending
  PROVE  /\ CodeNoted(p) \subseteq Path
         /\ Cardinality(CodeNoted(p)) <= MaxPending
         /\ CodeOverflows(p) \/ batch \cup {p} \subseteq CodeNoted(p)
         /\ CodeOverflows(p) \in BOOLEAN
<1>1. CASE p \in batch
  BY <1>1 DEF CodeNoted, CodeOverflows
<1>2. CASE CodeOverflows(p)
  <2>1. CodeNoted(p) = {}
    BY <1>2 DEF CodeNoted, CodeOverflows
  <2>2. Cardinality({}) = 0
    BY FS_EmptySet
  <2> QED
    BY <1>2, <2>1, <2>2, WatcherAssumption DEF WatcherAssumption, CodeOverflows
<1>3. CASE p \notin batch /\ ~CodeOverflows(p)
  <2>1. CodeNoted(p) = batch \cup {p}
    BY <1>3 DEF CodeNoted
  <2>2. IsFiniteSet(batch)
    BY FS_Subset, WatcherAssumption DEF WatcherAssumption
  <2>3. /\ Cardinality(batch) \in Nat
        /\ Cardinality(batch \cup {p}) = Cardinality(batch) + 1
    BY <1>3, <2>2, FS_AddElement, FS_CardinalityType
  <2>4. Cardinality(batch \cup {p}) <= MaxPending
    BY <1>3, <2>3, WatcherAssumption DEF CodeOverflows, WatcherAssumption
  <2> QED
    BY <1>3, <2>1, <2>4 DEF CodeOverflows
<1> QED
  BY <1>1, <1>2, <1>3

-----------------------------------------------------------------------------
(* Typing.                                                                  *)

LEMMA InitTyping == Init => TypeOK
<1> SUFFICES ASSUME Init PROVE TypeOK
  OBVIOUS
<1>1. <<>> \in Seq(Path) /\ <<>> \in Seq(Path \cup {Root}) /\ Len(<<>>) = 0
  OBVIOUS
<1>2. Cardinality({}) = 0
  BY FS_EmptySet
<1>3. Cardinality({}) <= MaxPending /\ 0 <= Capacity /\ 0 <= InjectCapacity
  BY <1>2, WatcherAssumption DEF WatcherAssumption
<1>4. /\ request \in [Requests -> [full : BOOLEAN, paths : SUBSET Path]]
      /\ \A r \in Requests :
           /\ Cardinality(request[r].paths) <= MaxPending
           /\ request[r].full => request[r].paths = {}
  BY <1>3 DEF Init, Idle
<1>5. stale \in [Sink -> SUBSET Path] /\ forsaken \in [Sink -> SUBSET Path]
  BY DEF Init
<1>6. /\ channel \in Seq(Path) /\ Len(channel) <= Capacity
      /\ injected \in Seq(Path \cup {Root}) /\ Len(injected) <= InjectCapacity
      /\ batch \subseteq Path /\ Cardinality(batch) <= MaxPending
  BY <1>1, <1>3 DEF Init
<1> QED
  BY <1>4, <1>5, <1>6 DEF Init, TypeOK, NoPath, PCs

\* What the actions write into stale and forsaken is a set of paths per index.
LEMMA PassTyping ==
  ASSUME TypeOK
  PROVE  /\ \A P : \A s \in Sink : Indexed(s, P) \in [Sink -> SUBSET Path]
         /\ \A P : \A s \in Sink : Recovered(s, P) \in [Sink -> SUBSET Path]
         /\ \A s \in Sink, P \in SUBSET Path : GivesUp(s, P) \in [Sink -> SUBSET Path]
         /\ \A P \in SUBSET Doc, full \in BOOLEAN : DocsRead(P, full) =>
              stale' \in [Sink -> SUBSET Path] /\ hidden' \subseteq Doc /\ known' \subseteq Doc
         /\ \A s \in Sink : stale[s] \subseteq Path
         /\ \A req : Asked(req) \subseteq Doc
<1>1. \A P \in SUBSET Doc, full \in BOOLEAN : DocsRead(P, full) =>
        stale' \in [Sink -> SUBSET Path] /\ hidden' \subseteq Doc /\ known' \subseteq Doc
  BY DEF TypeOK, DocsRead, Sink
<1>2. \A req : Asked(req) \subseteq Doc
  BY DEF Asked
<1> QED
  BY <1>1, <1>2 DEF TypeOK, Indexed, Recovered, GivesUp

\* Requests are well formed, and Idle and Full are.
LEMMA RequestTyping ==
  ASSUME TypeOK
  PROVE  /\ \A r \in Requests : Request(request[r])
         /\ Request(Idle) /\ Request(Full)
         /\ request \in [Requests -> [full : BOOLEAN, paths : SUBSET Path]]
         /\ DOMAIN request = Requests
<1>1. Cardinality({}) = 0
  BY FS_EmptySet
<1>2. Request(Idle) /\ Request(Full)
  BY <1>1, WatcherAssumption DEF WatcherAssumption, Request, Idle, Full
<1> QED
  BY <1>2 DEF TypeOK, Request

\* A map of well-formed requests has the type of the variable.
LEMMA RequestMap ==
  ASSUME request' \in [Requests -> [full : BOOLEAN, paths : SUBSET Path]],
         \A r \in Requests : Request(request'[r])
  PROVE  \A r \in Requests :
           /\ Cardinality(request'[r].paths) <= MaxPending
           /\ request'[r].full => request'[r].paths = {}
BY DEF Request

LEMMA CodeReadTyping ==
  ASSUME TypeOK, NEW P, NEW U, CodeRead(P, U)
  PROVE  /\ stale' \in [Sink -> SUBSET Path]
         /\ forsaken' \in [Sink -> SUBSET Path]
<1>1. "code" \in Sink /\ stale["code"] \in SUBSET Path /\ forsaken["code"] \in SUBSET Path
  BY DEF TypeOK, Sink
<1>2. stale' \in [Sink -> SUBSET Path]
  BY <1>1, PassTyping DEF CodeRead
<1>3. (forsaken["code"] \ P) \cup (U \cap stale["code"]) \in SUBSET Path
  BY <1>1
<1>4. forsaken' \in [Sink -> SUBSET Path]
  BY <1>1, <1>3 DEF CodeRead, TypeOK
<1> QED
  BY <1>2, <1>4

\* Passes and phases keep the types.
LEMMA CodeTyping == TypeOK /\ CodePhase => TypeOK'
<1> SUFFICES ASSUME TypeOK, CodePhase PROVE TypeOK'
  OBVIOUS
<1>1. Cardinality({}) = 0
  BY FS_EmptySet
<1>2. /\ stale' \in [Sink -> SUBSET Path]
      /\ forsaken' \in [Sink -> SUBSET Path]
      /\ codeOpen' \in BOOLEAN
      /\ pc' \in PCs
      /\ batch' = {} \/ batch' = batch
  <2>1. CASE recovering /\ codeEnabled /\ RescanCode("docs") /\ UNCHANGED batch
    BY <2>1, CodeReadTyping DEF RescanCode, PCs
  <2>2. CASE recovering /\ ~codeEnabled /\ pc' = "docs" /\ UNCHANGED <<index, batch>>
    BY <2>2 DEF TypeOK, PCs, index
  <2>3. CASE ~recovering /\ FlushCode
    BY <2>3, CodeReadTyping DEF FlushCode, TypeOK, PCs
  <2> QED
    BY <2>1, <2>2, <2>3 DEF CodePhase
<1>3. Cardinality({}) <= MaxPending
  BY <1>1, WatcherAssumption DEF WatcherAssumption
<1>4. batch' \subseteq Path /\ Cardinality(batch') <= MaxPending
  BY <1>2, <1>3 DEF TypeOK
<1>5. UNCHANGED <<hidden, known>>
  BY DEF CodePhase, RescanCode, FlushCode, index
<1> QED
  BY <1>2, <1>4, <1>5 DEF CodePhase, TypeOK, world, queue, timers

LEMMA DocsTyping == TypeOK /\ DocsPhase => TypeOK'
<1> SUFFICES ASSUME TypeOK, DocsPhase PROVE TypeOK'
  OBVIOUS
<1>1. /\ stale' \in [Sink -> SUBSET Path]
      /\ hidden' \subseteq Doc /\ known' \subseteq Doc
      /\ forsaken' \in [Sink -> SUBSET Path]
      /\ docsCooling' \in BOOLEAN
      /\ request' \in [Requests -> [full : BOOLEAN, paths : SUBSET Path]]
      /\ \A r \in Requests : Request(request'[r])
  <2>1. CASE FlushDocs
    <3>1. stale' \in [Sink -> SUBSET Path] /\ hidden' \subseteq Doc /\ known' \subseteq Doc
      <4>1. CASE request["doc"] = Idle
        BY <2>1, <4>1 DEF FlushDocs, TypeOK
      <4>2. CASE request["doc"] # Idle
        <5>1. Asked(request["doc"]) \in SUBSET Doc /\ request["doc"].full \in BOOLEAN
          BY PassTyping DEF TypeOK, Requests
        <5> QED
          BY <2>1, <4>2, <5>1, PassTyping DEF FlushDocs, DocsPass
      <4> QED
        BY <4>1, <4>2
    <3>2. forsaken' \in [Sink -> SUBSET Path]
      BY <2>1, <3>1 DEF FlushDocs, TypeOK, Sink
    <3>3. /\ request' \in [Requests -> [full : BOOLEAN, paths : SUBSET Path]]
          /\ \A r \in Requests : Request(request'[r])
      BY <2>1, RequestTyping DEF FlushDocs, Requests, Request, Idle
    <3> QED
      BY <2>1, <3>1, <3>2, <3>3 DEF FlushDocs
  <2>2. CASE FlushDocsFails
    <3>1. PICK P \in SUBSET Asked(request["doc"]) : DocsRead(P, request["doc"].full)
      BY <2>2 DEF FlushDocsFails, DocsPassFails
    <3>2. P \in SUBSET Doc /\ request["doc"].full \in BOOLEAN
      BY PassTyping DEF TypeOK, Requests
    <3>3. stale' \in [Sink -> SUBSET Path] /\ hidden' \subseteq Doc /\ known' \subseteq Doc
      BY <3>1, <3>2, PassTyping
    <3>4. forsaken' \in [Sink -> SUBSET Path] /\ docsCooling' \in BOOLEAN
      BY <2>2 DEF FlushDocsFails, TypeOK
    <3> QED
      BY <2>2, <3>3, <3>4, RequestTyping DEF FlushDocsFails
  <2>3. CASE UNCHANGED <<stale, hidden, known, request, docsCooling, forsaken>>
    BY <2>3, RequestTyping DEF TypeOK
  <2> QED
    BY <2>1, <2>2, <2>3 DEF DocsPhase
<1>2. pc' \in PCs
  BY DEF DocsPhase, PCs
<1> QED
  BY <1>1, <1>2, RequestMap DEF DocsPhase, TypeOK, world, queue

LEMMA MemoryTyping == TypeOK /\ MemoryPhase => TypeOK'
<1> SUFFICES ASSUME TypeOK, MemoryPhase PROVE TypeOK'
  OBVIOUS
<1>1. stale' \in [Sink -> SUBSET Path] /\ forsaken' \in [Sink -> SUBSET Path]
  <2>1. CASE MemoryPass
    BY <2>1, PassTyping DEF MemoryPass, TypeOK, Sink
  <2>2. CASE UNCHANGED <<stale, forsaken>>
    BY <2>2 DEF TypeOK
  <2> QED
    BY <2>1, <2>2 DEF MemoryPhase
<1>2. /\ request' \in [Requests -> [full : BOOLEAN, paths : SUBSET Path]]
      /\ \A r \in Requests : Request(request'[r])
  BY RequestTyping DEF MemoryPhase, Requests, Request, Idle
<1>3. pc' \in PCs /\ cooling' \in BOOLEAN /\ recovering' \in BOOLEAN
  BY DEF MemoryPhase, PCs, TypeOK
<1> QED
  BY <1>1, <1>2, <1>3, RequestMap DEF MemoryPhase, TypeOK, world, queue

LEMMA RebuildTyping == TypeOK /\ Rebuild => TypeOK'
<1> SUFFICES ASSUME TypeOK, Rebuild PROVE TypeOK'
  OBVIOUS
<1>1. CASE RebuildDocs
  <2>1. stale' \in [Sink -> SUBSET Path] /\ hidden' \subseteq Doc /\ known' \subseteq Doc
    <3>1. PICK P \in SUBSET Asked(Full) : DocsRead(P, TRUE)
      BY <1>1 DEF RebuildDocs, DocsPass, DocsPassFails, Full
    <3>2. P \in SUBSET Doc
      BY PassTyping
    <3> QED
      BY <3>1, <3>2, PassTyping
  <2>2. stale'["doc"] \subseteq Path /\ stale'["memory"] \subseteq Path
    BY <2>1 DEF Sink
  <2>3. forsaken' \in [Sink -> SUBSET Path]
    BY <1>1, <2>2, PassTyping DEF RebuildDocs, TypeOK, Sink
  <2> QED
    BY <1>1, <2>1, <2>3 DEF RebuildDocs, TypeOK, PCs, world, queue, asked, timers
<1>2. CASE RebuildMemory
  BY <1>2, PassTyping
     DEF RebuildMemory, MemoryPass, TypeOK, PCs, Sink, world, queue, asked, timers
<1>3. CASE RebuildCode
  BY <1>3, CodeReadTyping DEF RebuildCode, RescanCode, TypeOK, PCs, world, queue, asked, timers
<1> QED
  BY <1>1, <1>2, <1>3 DEF Rebuild

LEMMA ReceiveTyping == TypeOK /\ Receive => TypeOK'
<1> SUFFICES ASSUME TypeOK, Receive PROVE TypeOK'
  OBVIOUS
<1> DEFINE p == Head(channel)
<1>1. p \in Path /\ channel' \in Seq(Path) /\ Len(channel') <= Capacity
  <2>1. channel \in Seq(Path) /\ channel # <<>> /\ Len(channel) \in Nat
    BY DEF TypeOK, Receive
  <2>2. p \in Path /\ Tail(channel) \in Seq(Path) /\ Len(Tail(channel)) = Len(channel) - 1
    BY <2>1, TailKeeps
  <2> QED
    BY <2>1, <2>2, WatcherAssumption DEF TypeOK, Receive, WatcherAssumption
<1>2. /\ request' \in [Requests -> [full : BOOLEAN, paths : SUBSET Path]]
      /\ \A r \in Requests : Request(request'[r])
  <2>1. Request(Noted(request["doc"], p)) /\ Request(Noted(request["memory"], p))
    BY <1>1, NotedCovers, RequestTyping DEF Requests
  <2> QED
    BY <2>1, RequestTyping DEF Receive, Requests, Request
<1>3. batch' \subseteq Path /\ Cardinality(batch') <= MaxPending
  BY <1>1, CodeNotedCovers DEF TypeOK, Receive
<1>4. rescan' \in BOOLEAN /\ missed' \in BOOLEAN
  BY DEF Receive
<1> QED
  BY <1>1, <1>2, <1>3, <1>4, RequestMap DEF Receive, TypeOK, world, timers, index, ctl

LEMMA LoopTyping == TypeOK /\ Loop => TypeOK'
<1> SUFFICES ASSUME TypeOK, Loop PROVE TypeOK'
  OBVIOUS
<1>1. CASE Receive
  BY <1>1, ReceiveTyping
<1>2. CASE ReceiveInjected
  <2>1. /\ Head(injected) \in Path
        /\ injected' \in Seq(Path \cup {Root}) /\ Len(injected') <= InjectCapacity
    <3>1. /\ injected \in Seq(Path \cup {Root}) /\ injected # <<>>
          /\ Len(injected) \in Nat /\ Head(injected) # Root
      BY <1>2 DEF TypeOK, ReceiveInjected
    <3>2. /\ Head(injected) \in Path \cup {Root}
          /\ Tail(injected) \in Seq(Path \cup {Root})
          /\ Len(Tail(injected)) = Len(injected) - 1
      BY <3>1, TailKeeps
    <3> QED
      BY <1>2, <3>1, <3>2, WatcherAssumption DEF TypeOK, ReceiveInjected, WatcherAssumption
  <2>2. batch' \subseteq Path /\ Cardinality(batch') <= MaxPending /\ rescan' \in BOOLEAN
    BY <1>2, <2>1, CodeNotedCovers DEF TypeOK, ReceiveInjected
  <2> QED
    BY <1>2, <2>1, <2>2 DEF ReceiveInjected, TypeOK, world, timers, index, ctl
<1>3. CASE ReceiveRebuild
  <2>1. injected' \in Seq(Path \cup {Root}) /\ Len(injected') <= InjectCapacity
    <3>1. /\ injected \in Seq(Path \cup {Root}) /\ injected # <<>>
          /\ Len(injected) \in Nat
      BY <1>3 DEF TypeOK, ReceiveRebuild
    <3>2. /\ Tail(injected) \in Seq(Path \cup {Root})
          /\ Len(Tail(injected)) = Len(injected) - 1
      BY <3>1, TailKeeps
    <3> QED
      BY <1>3, <3>1, <3>2, WatcherAssumption DEF TypeOK, ReceiveRebuild, WatcherAssumption
  <2> QED
    BY <1>3, <2>1 DEF ReceiveRebuild, TypeOK, PCs, world, asked, timers, index
<1>4. CASE BeginFlush
  <2>1. CASE recovering'
    <3>1. /\ request' \in [Requests -> [full : BOOLEAN, paths : SUBSET Path]]
          /\ \A r \in Requests : Request(request'[r])
      BY <1>4, <2>1, RequestTyping DEF BeginFlush, Request
    <3>2. Cardinality({}) <= MaxPending
      BY FS_EmptySet, WatcherAssumption DEF WatcherAssumption
    <3>3. batch' \subseteq Path /\ Cardinality(batch') <= MaxPending /\ rescan' \in BOOLEAN
      BY <1>4, <2>1, <3>2 DEF BeginFlush, Recovery
    <3> QED
      BY <1>4, <3>1, <3>3, RequestMap
         DEF BeginFlush, Recovery, TypeOK, PCs, world, queue, timers, index
  <2>2. CASE ~recovering'
    BY <1>4, <2>2 DEF BeginFlush, Recovery, TypeOK, PCs, world, queue, timers, index, asked
  <2> QED
    BY <2>1, <2>2
<1>5. CASE Flush
  BY <1>5, CodeTyping, DocsTyping, MemoryTyping DEF Flush
<1>6. CASE Rebuild
  BY <1>6, RebuildTyping
<1> QED
  BY <1>1, <1>2, <1>3, <1>4, <1>5, <1>6 DEF Loop

LEMMA OutsideTyping ==
  TypeOK /\ (World \/ Debouncer \/ RecoveryDue \/ DocRetryDue) => TypeOK'
<1> SUFFICES ASSUME TypeOK, World \/ Debouncer \/ RecoveryDue \/ DocRetryDue
             PROVE  TypeOK'
  OBVIOUS
<1>1. ASSUME NEW p \in Path, Edit(p) PROVE TypeOK'
  <2>1. stale' \in [Sink -> SUBSET Path] /\ forsaken' \in [Sink -> SUBSET Path]
    BY <1>1 DEF Edit, TypeOK
  <2>2. hidden' \subseteq Doc
    BY <1>1 DEF Edit, TypeOK
  <2> QED
    BY <1>1, <2>1, <2>2 DEF Edit, Happens, TypeOK, asked, timers, ctl
<1>2. ASSUME NEW p \in Code, Inject(p) PROVE TypeOK'
  <2>1. p \in Path \cup {Root}
    BY DEF Path
  <2>2. injected' \in Seq(Path \cup {Root}) /\ Len(injected') <= InjectCapacity
    BY <1>2, <2>1, AppendKeeps, WatcherAssumption DEF TypeOK, Inject, WatcherAssumption
  <2> QED
    BY <1>2, <2>2 DEF Inject, Happens, TypeOK, asked, timers, index, ctl
<1>3. CASE Heal
  <2>1. injected' \in Seq(Path \cup {Root}) /\ Len(injected') <= InjectCapacity
    <3>1. injected \in Seq(Path \cup {Root}) /\ Len(injected) \in Nat
      BY DEF TypeOK
    <3>2. /\ Append(injected, Root) \in Seq(Path \cup {Root})
          /\ Len(Append(injected, Root)) = Len(injected) + 1
      BY <3>1, AppendKeeps
    <3>3. \/ Len(injected) < InjectCapacity /\ injected' = Append(injected, Root)
          \/ injected' = injected
      BY <1>3 DEF Heal
    <3> QED
      BY <3>1, <3>2, <3>3, WatcherAssumption DEF TypeOK, WatcherAssumption
  <2>2. stale' \in [Sink -> SUBSET Path] /\ forsaken' \in [Sink -> SUBSET Path]
    BY <1>3 DEF TypeOK, Heal, Path
  <2> QED
    BY <1>3, <2>1, <2>2 DEF Heal, Happens, TypeOK, asked, timers, ctl
<1>4. ASSUME NEW p \in Path, Reject(p) PROVE TypeOK'
  BY <1>4 DEF Reject, TypeOK, world, asked, timers, index, ctl
<1>5. ASSUME NEW p \in Path, Send(p) PROVE TypeOK'
  <2>1. channel' \in Seq(Path) /\ Len(channel') <= Capacity
    BY <1>5, AppendKeeps, WatcherAssumption DEF TypeOK, Send, WatcherAssumption
  <2> QED
    BY <1>5, <2>1 DEF Send, TypeOK, world, asked, timers, index, ctl
<1>6. ASSUME NEW p \in Path, SendFails(p) PROVE TypeOK'
  BY <1>6 DEF SendFails, TypeOK, world, asked, timers, index, ctl
<1>7. CASE StoreMissed
  BY <1>7 DEF StoreMissed, TypeOK, NoPath, world, asked, timers, index, ctl
<1>8. CASE RecoveryDue \/ DocRetryDue
  BY <1>8 DEF RecoveryDue, DocRetryDue, TypeOK, world, queue, asked, index, ctl
<1> QED
  BY <1>1, <1>2, <1>3, <1>4, <1>5, <1>6, <1>7, <1>8 DEF World, Debouncer

\* Every variable of the watcher keeps its type; the channels and the pending
\* requests stay within their capacities (MAX_PENDING_PATHS, mpsc::channel).
THEOREM WatcherTyping == Spec => []TypeOK
<1>1. Init => TypeOK
  BY InitTyping
<1>2. TypeOK /\ [Next]_vars => TypeOK'
  <2>1. TypeOK /\ UNCHANGED vars => TypeOK'
    BY DEF vars, TypeOK, world, queue, asked, timers, index, ctl
  <2> QED
    BY <2>1, LoopTyping, OutsideTyping DEF Next
<1> QED
  BY <1>1, <1>2, PTL DEF Spec

-----------------------------------------------------------------------------
(* No change falls between the queues.                                      *)

\* An index misses only files that belong to it.
StaleIsRouted == \A s \in Sink : stale[s] \subseteq Routed(s)

\* A rebuild is signalled or under way only after a heal.
RebuildAfterHeal == RebuildAhead({"hDocs", "hMemory", "hCode"}) => healed

\* The inductive invariant: where a stale file waits says nothing unless the file
\* is one its index takes, and documents are left only where
\* they do not look newer than their rows, or after a heal.
IInv == TypeOK /\ NothingDropsOut /\ StaleIsRouted /\ RebuildAfterHeal

\* What stands for path q in index s.
Stands(s, q) ==
  \/ InFlight(q)
  \/ s = "doc" /\ (DocRequested(q) \/ RebuildAhead({"hDocs"}))
  \/ s = "memory" /\ (IsPending("memory") \/ RebuildAhead({"hDocs", "hMemory"}))
  \/ s = "code" /\ (\/ q \in batch \/ InSeq(q, injected)
                    \/ pc = "code" /\ recovering
                    \/ RebuildAhead({"hDocs", "hMemory", "hCode"}))

LEMMA DueStands == \A s \in Sink : Due(s) = {q \in stale[s] : Stands(s, q)}
BY DEF Due, Stands

\* The first half of NothingDropsOut, path by path.
Covered ==
  \A s \in Sink : \A q \in stale[s] : Stands(s, q) \/ q \in forsaken[s]

LEMMA CoveredIsEnough ==
  /\ NothingDropsOut <=> Covered /\ (~healed => forsaken["doc"] \subseteq hidden)
  /\ NothingDropsOut' <=> Covered' /\ (~healed' => forsaken'["doc"] \subseteq hidden')
<1>1. NothingDropsOut <=> Covered /\ (~healed => forsaken["doc"] \subseteq hidden)
  BY DueStands DEF NothingDropsOut, Covered
<1>2. NothingDropsOut' <=> Covered' /\ (~healed' => forsaken'["doc"] \subseteq hidden')
  BY DEF NothingDropsOut, Covered, Due, Stands
<1> QED
  BY <1>1, <1>2

\* A step that takes nothing from what stands for a file keeps the invariant.
LEMMA StandsKept ==
  ASSUME Covered,
         UNCHANGED <<stale, forsaken>>,
         \A s \in Sink : \A q \in stale[s] : Stands(s, q) => Stands(s, q)'
  PROVE  Covered'
BY DEF Covered

LEMMA InitCovered == Init => NothingDropsOut /\ StaleIsRouted /\ RebuildAfterHeal
<1> SUFFICES ASSUME Init PROVE NothingDropsOut /\ StaleIsRouted /\ RebuildAfterHeal
  OBVIOUS
<1>1. Covered /\ StaleIsRouted /\ forsaken["doc"] = {}
  BY DEF Init, Covered, StaleIsRouted, Sink
<1>2. RebuildAfterHeal
  BY DEF Init, RebuildAfterHeal, RebuildAhead, InSeq
<1> QED
  BY <1>1, <1>2, CoveredIsEnough

\* What the debouncer and the clocks do keeps what stands for every stale file.
LEMMA DebouncerCovers ==
  ASSUME IInv, Debouncer \/ RecoveryDue \/ DocRetryDue
  PROVE  Covered' /\ UNCHANGED <<stale, hidden, forsaken, healed, injected, pc, codeEnabled>>
<1>0. Covered
  BY CoveredIsEnough DEF IInv
<1>1. ASSUME NEW p \in Path, Reject(p) PROVE Covered'
  <2>1. ASSUME NEW s \in Sink, NEW q \in stale[s], Stands(s, q) PROVE Stands(s, q)'
    <3>1. q # p
      BY <1>1, <2>1 DEF Reject, Relevant, IInv, StaleIsRouted
    <3> QED
      BY <1>1, <2>1, <3>1
         DEF Reject, Stands, InFlight, DocRequested, IsPending, RebuildAhead, asked, ctl
  <2> QED
    BY <1>0, <1>1, <2>1, StandsKept DEF Reject, index
<1>2. ASSUME NEW p \in Path, Send(p) PROVE Covered'
  <2>1. /\ InSeq(p, channel')
        /\ \A y : InSeq(y, channel) => InSeq(y, channel')
    BY <1>2, AppendKeeps DEF Send, IInv, TypeOK
  <2>2. ASSUME NEW s \in Sink, NEW q \in stale[s], Stands(s, q) PROVE Stands(s, q)'
    BY <1>2, <2>1, <2>2
       DEF Send, Stands, InFlight, DocRequested, IsPending, RebuildAhead, asked, ctl
  <2> QED
    BY <1>0, <1>2, <2>2, StandsKept DEF Send, index
<1>3. ASSUME NEW p \in Path, SendFails(p) PROVE Covered'
  <2>1. ASSUME NEW s \in Sink, NEW q \in stale[s], Stands(s, q) PROVE Stands(s, q)'
    <3>1. q \in Path /\ q # NoPath
      BY <2>1, WatcherAssumption DEF IInv, TypeOK, NoPath, WatcherAssumption
    <3> QED
      BY <1>3, <2>1, <3>1
         DEF SendFails, Stands, InFlight, DocRequested, IsPending, RebuildAhead, asked, ctl
  <2> QED
    BY <1>0, <1>3, <2>1, StandsKept DEF SendFails, index
<1>4. ASSUME StoreMissed PROVE Covered'
  BY <1>4 DEF StoreMissed, Covered, Stands, InFlight
<1>5. ASSUME RecoveryDue \/ DocRetryDue PROVE Covered'
  <2>1. ASSUME NEW s \in Sink, NEW q \in stale[s], Stands(s, q) PROVE Stands(s, q)'
    BY <1>5, <2>1 DEF RecoveryDue, DocRetryDue, Stands, InFlight, DocRequested,
                      IsPending, RebuildAhead, asked, ctl, queue
  <2> QED
    BY <1>0, <1>5, <2>1, StandsKept DEF RecoveryDue, DocRetryDue, index
<1>6. UNCHANGED <<stale, hidden, forsaken, healed, injected, pc, codeEnabled>>
  BY DEF Debouncer, Reject, Send, SendFails, StoreMissed, RecoveryDue, DocRetryDue,
         world, queue, index, ctl
<1> QED
  BY <1>1, <1>2, <1>3, <1>4, <1>5, <1>6 DEF Debouncer

\* Edits, injections and heals.
LEMMA WorldCovers ==
  ASSUME IInv, World
  PROVE  NothingDropsOut' /\ StaleIsRouted' /\ RebuildAfterHeal'
<1>0. Covered /\ (~healed => forsaken["doc"] \subseteq hidden)
  BY CoveredIsEnough DEF IInv
<1>1. ASSUME NEW p \in Path, Edit(p)
      PROVE  NothingDropsOut' /\ StaleIsRouted' /\ RebuildAfterHeal'
  <2>1. Covered'
    <3>1. ASSUME NEW s \in Sink, NEW q \in stale'[s]
          PROVE  Stands(s, q)' \/ q \in forsaken'[s]
      <4>1. q = p \/ q \in stale[s]
        BY <1>1, <3>1 DEF Edit
      <4>2. CASE q = p
        BY <1>1, <4>2 DEF Edit, Stands, InFlight
      <4>3. CASE q # p /\ q \in stale[s] /\ q \in forsaken[s]
        BY <1>1, <4>3 DEF Edit
      <4>4. CASE q \in stale[s] /\ Stands(s, q)
        BY <1>1, <4>4
           DEF Edit, Stands, InFlight, DocRequested, IsPending, RebuildAhead, asked, ctl
      <4> QED
        BY <1>0, <4>1, <4>2, <4>3, <4>4 DEF Covered
    <3> QED
      BY <3>1 DEF Covered
  <2>2. StaleIsRouted'
    BY <1>1 DEF Edit, StaleIsRouted, IInv, Routed
  <2>3. RebuildAfterHeal'
    BY <1>1 DEF Edit, RebuildAfterHeal, RebuildAhead, IInv, ctl
  <2>4. ~healed' => forsaken'["doc"] \subseteq hidden'
    <3>1. forsaken'["doc"] = forsaken["doc"] \ {p} /\ hidden \ {p} \subseteq hidden'
      BY <1>1 DEF Edit, Sink
    <3>2. healed' = healed
      BY <1>1 DEF Edit
    <3> QED
      BY <1>0, <3>1, <3>2
  <2> QED
    BY <2>1, <2>2, <2>3, <2>4, CoveredIsEnough
<1>2. ASSUME NEW p \in Code, Inject(p)
      PROVE  NothingDropsOut' /\ StaleIsRouted' /\ RebuildAfterHeal'
  <2>1. /\ \A y : InSeq(y, injected) => InSeq(y, injected')
        /\ \A y : InSeq(y, injected') => y = p \/ InSeq(y, injected)
    <3>1. p \in Path \cup {Root} /\ injected \in Seq(Path \cup {Root})
      BY DEF Path, IInv, TypeOK
    <3> QED
      BY <1>2, <3>1, AppendKeeps DEF Inject
  <2>2. ASSUME NEW s \in Sink, NEW q \in stale[s], Stands(s, q) PROVE Stands(s, q)'
    BY <1>2, <2>1, <2>2
       DEF Inject, Stands, InFlight, DocRequested, IsPending, RebuildAhead, asked, ctl
  <2>3. Covered'
    BY <1>0, <1>2, <2>2, StandsKept DEF Inject, index
  <2>4. RebuildAfterHeal'
    <3>1. p # Root
      BY WatcherAssumption DEF WatcherAssumption, Path
    <3> QED
      BY <1>2, <2>1, <3>1 DEF Inject, RebuildAfterHeal, RebuildAhead, IInv, ctl
  <2>5. StaleIsRouted' /\ (~healed' => forsaken'["doc"] \subseteq hidden')
    BY <1>0, <1>2 DEF Inject, StaleIsRouted, IInv, Routed, index
  <2> QED
    BY <2>3, <2>4, <2>5, CoveredIsEnough
<1>3. ASSUME Heal PROVE NothingDropsOut' /\ StaleIsRouted' /\ RebuildAfterHeal'
  <2>1. Covered'
    <3>1. ASSUME NEW s \in Sink, NEW q \in stale'[s]
          PROVE  Stands(s, q)' \/ q \in forsaken'[s]
      <4>1. CASE injected' = Append(injected, Root) /\ UNCHANGED forsaken
        <5>1. /\ InSeq(Root, injected')
              /\ \A y : InSeq(y, injected) => InSeq(y, injected')
          <6>1. Root \in Path \cup {Root} /\ injected \in Seq(Path \cup {Root})
            BY DEF IInv, TypeOK
          <6> QED
            BY <4>1, <6>1, AppendKeeps
        <5> QED
          BY <5>1 DEF Stands, RebuildAhead, Sink
      <4>2. CASE /\ forsaken' = [forsaken EXCEPT !["doc"] = Doc, !["memory"] = Memory]
                 /\ UNCHANGED injected
        <5>1. CASE s = "code"
          <6>1. q \in stale[s]
            BY <1>3, <5>1 DEF Heal, Sink, IInv, TypeOK
          <6>2. CASE q \in forsaken[s]
            BY <4>2, <5>1, <6>2 DEF IInv, TypeOK, Sink
          <6>3. CASE Stands(s, q)
            BY <1>3, <4>2, <6>3 DEF Heal, Stands, InFlight, DocRequested, IsPending,
                                    RebuildAhead, asked, ctl
          <6> QED
            BY <1>0, <6>1, <6>2, <6>3 DEF Covered
        <5>2. CASE s # "code"
          BY <1>3, <3>1, <4>2, <5>2 DEF Heal, IInv, TypeOK, Sink
        <5> QED
          BY <5>1, <5>2
      <4> QED
        BY <1>3, <4>1, <4>2 DEF Heal
    <3> QED
      BY <3>1 DEF Covered
  <2>2. StaleIsRouted'
    BY <1>3 DEF Heal, StaleIsRouted, IInv, Routed, Sink, TypeOK
  <2>3. healed' /\ RebuildAfterHeal'
    BY <1>3 DEF Heal, RebuildAfterHeal
  <2> QED
    BY <2>1, <2>2, <2>3, CoveredIsEnough
<1> QED
  BY <1>1, <1>2, <1>3 DEF World

\* Taking an event from a queue: what it stood for is in a request, or a rescan is.
LEMMA ReceiveCovers ==
  ASSUME IInv, Receive
  PROVE  Covered'
<1> DEFINE p == Head(channel)
<1>0. Covered
  BY CoveredIsEnough DEF IInv
<1>1. p \in Path /\ (\A y : InSeq(y, channel) => y = p \/ InSeq(y, channel'))
  BY TailKeeps DEF IInv, TypeOK, Receive
<1>2. /\ p \in Doc => \/ request'["doc"].full
                      \/ request["doc"].paths \cup {p} \subseteq request'["doc"].paths
      /\ p \in Memory => request'["memory"].full \/ p \in request'["memory"].paths
      /\ \A r \in Requests :
           /\ request[r].full => request'[r].full
           /\ request'[r].full \/ request[r].paths \subseteq request'[r].paths
  <2>1. /\ Noted(request["doc"], p).full \/ p \in Noted(request["doc"], p).paths
        /\ request["doc"].full => Noted(request["doc"], p).full
        /\ \/ Noted(request["doc"], p).full
           \/ request["doc"].paths \subseteq Noted(request["doc"], p).paths
    BY <1>1, NotedCovers, RequestTyping DEF IInv, Requests
  <2>2. /\ Noted(request["memory"], p).full \/ p \in Noted(request["memory"], p).paths
        /\ request["memory"].full => Noted(request["memory"], p).full
        /\ \/ Noted(request["memory"], p).full
           \/ request["memory"].paths \subseteq Noted(request["memory"], p).paths
    BY <1>1, NotedCovers, RequestTyping DEF IInv, Requests
  <2> QED
    BY <2>1, <2>2 DEF Receive, Requests
<1>3. p \in Routed("code") => rescan' \/ batch \cup {p} \subseteq batch'
  BY <1>1, CodeNotedCovers DEF Receive, IInv, TypeOK
<1>4. /\ missed \/ rescan => rescan'
      /\ p \notin Routed("code") => batch' = batch
  BY DEF Receive
<1>5. ASSUME NEW s \in Sink, NEW q \in stale[s], Stands(s, q) PROVE Stands(s, q)'
  <2>1. CASE InFlight(q)
    <3>1. CASE q = p
      <4>1. p \in Routed(s)
        BY <1>5, <3>1 DEF IInv, StaleIsRouted
      <4>2. CASE s = "doc"
        BY <1>2, <3>1, <4>1, <4>2 DEF Stands, DocRequested, Routed
      <4>3. CASE s = "memory"
        BY <1>2, <3>1, <4>1, <4>3 DEF Stands, IsPending, Routed
      <4>4. CASE s = "code"
        BY <1>3, <3>1, <4>1, <4>4 DEF Stands, InFlight
      <4> QED
        BY <4>2, <4>3, <4>4 DEF Sink
    <3>2. CASE q # p
      BY <1>1, <1>4, <2>1, <3>2 DEF Receive, Stands, InFlight
    <3> QED
      BY <3>1, <3>2
  <2>2. CASE s = "doc" /\ DocRequested(q)
    BY <1>2, <2>2 DEF Stands, DocRequested, Requests
  <2>3. CASE s = "memory" /\ IsPending("memory")
    BY <1>2, <2>3 DEF Stands, IsPending, Requests
  <2>4. CASE s = "code" /\ q \in batch
    BY <1>3, <1>4, <2>4 DEF Stands, InFlight
  <2>5. CASE \/ s = "doc" /\ RebuildAhead({"hDocs"})
             \/ s = "memory" /\ RebuildAhead({"hDocs", "hMemory"})
             \/ s = "code" /\ (\/ InSeq(q, injected)
                               \/ pc = "code" /\ recovering
                               \/ RebuildAhead({"hDocs", "hMemory", "hCode"}))
    BY <2>5 DEF Receive, Stands, RebuildAhead, ctl
  <2> QED
    BY <1>5, <2>1, <2>2, <2>3, <2>4, <2>5 DEF Stands
<1> QED
  BY <1>0, <1>5, StandsKept DEF Receive, index

LEMMA ReceiveInjectedCovers ==
  ASSUME IInv, ReceiveInjected \/ ReceiveRebuild
  PROVE  Covered' /\ RebuildAfterHeal'
<1> DEFINE p == Head(injected)
<1>0. Covered
  BY CoveredIsEnough DEF IInv
<1>1. /\ p \in Path \cup {Root} /\ InSeq(p, injected)
      /\ \A y : InSeq(y, injected) => y = p \/ InSeq(y, injected')
      /\ \A y : InSeq(y, injected') => InSeq(y, injected)
  <2>1. injected \in Seq(Path \cup {Root}) /\ injected # <<>> /\ injected' = Tail(injected)
    BY DEF IInv, TypeOK, ReceiveInjected, ReceiveRebuild
  <2> QED
    BY <2>1, TailKeeps
<1>2. ASSUME ReceiveInjected, NEW s \in Sink, NEW q \in stale[s], Stands(s, q)
      PROVE  Stands(s, q)'
  <2>1. p \in Path /\ p # Root
    BY <1>1, <1>2 DEF ReceiveInjected
  <2>2. codeEnabled => rescan' \/ batch \cup {p} \subseteq batch'
    BY <1>2, <2>1, CodeNotedCovers DEF ReceiveInjected, IInv, TypeOK
  <2>3. rescan => rescan'
    BY <1>2 DEF ReceiveInjected
  <2>4. s = "code" => codeEnabled
    BY <1>2 DEF IInv, StaleIsRouted, Routed
  <2>5. UNCHANGED <<raw, dropping, channel, missed, request, pc, recovering>>
    BY <1>2 DEF ReceiveInjected, ctl
  <2>6. InFlight(q) => InFlight(q)'
    BY <2>3, <2>5 DEF InFlight
  <2>7. \A pcs : RebuildAhead(pcs) => RebuildAhead(pcs)'
    BY <1>1, <2>1, <2>5 DEF RebuildAhead
  <2>8. CASE s = "code"
    <3>1. InSeq(q, injected) \/ q \in batch =>
            q \in batch' \/ InSeq(q, injected') \/ InFlight(q)'
      <4>1. rescan' => InFlight(q)'
        BY DEF InFlight
      <4>2. batch \subseteq batch' \/ rescan'
        BY <2>2, <2>4, <2>8
      <4>3. q = p => q \in batch' \/ rescan'
        BY <2>2, <2>4, <2>8
      <4> QED
        BY <1>1, <4>1, <4>2, <4>3
    <3> QED
      BY <1>2, <2>5, <2>6, <2>7, <2>8, <3>1 DEF Stands
  <2>9. CASE s # "code"
    BY <1>2, <2>5, <2>6, <2>7, <2>9 DEF Stands, DocRequested, IsPending
  <2> QED
    BY <2>8, <2>9
<1>3. ASSUME ReceiveRebuild, NEW s \in Sink, NEW q \in stale[s], Stands(s, q)
      PROVE  Stands(s, q)'
  BY <1>3 DEF ReceiveRebuild, Stands, RebuildAhead, Sink
<1>4. Covered'
  BY <1>0, <1>2, <1>3, StandsKept DEF ReceiveInjected, ReceiveRebuild, index
<1>5. RebuildAfterHeal'
  <2>1. CASE ReceiveInjected
    BY <1>1, <2>1 DEF ReceiveInjected, RebuildAfterHeal, RebuildAhead, IInv, world, ctl
  <2>2. CASE ReceiveRebuild
    <3>1. healed
      BY <1>1, <2>2 DEF ReceiveRebuild, RebuildAfterHeal, RebuildAhead, IInv
    <3> QED
      BY <2>2, <3>1 DEF ReceiveRebuild, RebuildAfterHeal, world
  <2> QED
    BY <2>1, <2>2
<1> QED
  BY <1>4, <1>5

LEMMA BeginFlushCovers ==
  ASSUME IInv, BeginFlush
  PROVE  Covered'
<1>0. Covered
  BY CoveredIsEnough DEF IInv
<1>1. ASSUME NEW s \in Sink, NEW q \in stale[s], Stands(s, q) PROVE Stands(s, q)'
  <2>1. CASE recovering'
    <3>1. request'["doc"].full /\ request'["memory"].full /\ pc' = "code"
      BY <2>1 DEF BeginFlush, Full, Requests
    <3> QED
      BY <2>1, <3>1 DEF Stands, DocRequested, IsPending, Sink
  <2>2. CASE ~recovering'
    <3>1. ~(pc = "code" /\ recovering) /\ pc = "select" /\ UNCHANGED <<asked, queue>>
      BY <2>2 DEF BeginFlush
    <3> QED
      BY <1>1, <3>1 DEF Stands, InFlight, DocRequested, IsPending, RebuildAhead, asked, queue
  <2> QED
    BY <2>1, <2>2
<1> QED
  BY <1>0, <1>1, StandsKept DEF BeginFlush, index

\* A code mutation over files P leaves of them only what it gives up.
LEMMA CodeReadLeaves ==
  ASSUME TypeOK, NEW P, NEW U \in SUBSET P, CodeRead(P, U)
  PROVE  /\ \A q \in stale'["code"] :
              \/ q \in forsaken'["code"]
              \/ q \notin P /\ q \notin forsaken["code"]
         /\ stale'["code"] \subseteq stale["code"]
         /\ \A s \in Sink \ {"code"} : stale'[s] = stale[s] /\ forsaken'[s] = forsaken[s]
<1>1. /\ stale'["code"] = stale["code"] \ (P \ U)
      /\ forsaken'["code"] = (forsaken["code"] \ P) \cup (U \cap stale["code"])
      /\ \A s \in Sink \ {"code"} : stale'[s] = stale[s] /\ forsaken'[s] = forsaken[s]
  BY DEF CodeRead, Indexed, TypeOK, Sink
<1> QED
  BY <1>1

\* A rescan of the code leaves nothing stale, or gives up what is.
LEMMA RescanCovers ==
  ASSUME IInv, NEW next, RescanCode(next)
  PROVE  /\ \A q \in stale'["code"] : q \in forsaken'["code"]
         /\ stale'["code"] \subseteq stale["code"]
         /\ \A s \in Sink \ {"code"} : stale'[s] = stale[s] /\ forsaken'[s] = forsaken[s]
<1>1. stale["code"] \subseteq Code /\ "code" \in Sink /\ TypeOK
  BY DEF IInv, StaleIsRouted, Routed, Sink
<1>2. PICK U \in SUBSET Code : CodeRead(Code, U)
  BY DEF RescanCode
<1> QED
  BY <1>1, <1>2, CodeReadLeaves

LEMMA CodeCovers ==
  ASSUME IInv, CodePhase
  PROVE  /\ Covered'
         /\ \A s \in Sink : stale'[s] \subseteq stale[s]
         /\ forsaken'["doc"] = forsaken["doc"] /\ UNCHANGED <<hidden, healed>>
<1>0. Covered
  BY CoveredIsEnough DEF IInv
<1>1. /\ \A s \in Sink \ {"code"} : stale'[s] = stale[s] /\ forsaken'[s] = forsaken[s]
      /\ stale'["code"] \subseteq stale["code"]
      /\ \A q \in stale'["code"] :
           \/ q \in forsaken'["code"]
           \/ ~recovering /\ q \notin batch /\ q \notin forsaken["code"]
  <2>1. CASE recovering /\ codeEnabled /\ RescanCode("docs")
    BY <2>1, RescanCovers
  <2>2. CASE recovering /\ ~codeEnabled /\ UNCHANGED index
    <3>1. stale["code"] = {}
      BY <2>2 DEF IInv, StaleIsRouted, Routed, Sink
    <3> QED
      BY <2>2, <3>1 DEF index
  <2>3. CASE ~recovering /\ FlushCode
    <3>1. PICK U \in SUBSET batch : CodeRead(batch, U)
      BY <2>3 DEF FlushCode
    <3> QED
      BY <2>3, <3>1, CodeReadLeaves DEF IInv
  <2> QED
    BY <2>1, <2>2, <2>3 DEF CodePhase
<1>2. ASSUME NEW s \in Sink, NEW q \in stale'[s] PROVE Stands(s, q)' \/ q \in forsaken'[s]
  <2>1. CASE s = "code"
    <3>1. CASE q \in forsaken'["code"]
      BY <2>1, <3>1
    <3>2. CASE ~recovering /\ q \notin batch /\ q \notin forsaken["code"] /\ q \in stale["code"]
      <4>1. Stands(s, q)
        BY <1>0, <2>1, <3>2 DEF Covered
      <4> QED
        BY <2>1, <3>2, <4>1 DEF CodePhase, Stands, InFlight, RebuildAhead, queue
    <3> QED
      BY <1>1, <1>2, <2>1, <3>1, <3>2
  <2>2. CASE s # "code"
    <3>1. q \in stale[s] /\ forsaken'[s] = forsaken[s]
      BY <1>1, <1>2, <2>2
    <3>2. Stands(s, q) => Stands(s, q)'
      BY <2>2 DEF CodePhase, Stands, InFlight, DocRequested, IsPending, RebuildAhead, queue
    <3> QED
      BY <1>0, <3>1, <3>2 DEF Covered
  <2> QED
    BY <2>1, <2>2
<1>3. UNCHANGED <<hidden, healed>>
  BY DEF CodePhase, RescanCode, FlushCode, index, world
<1> QED
  BY <1>1, <1>2, <1>3 DEF Covered, Sink

\* What a document pass leaves stale.
LEMMA DocsReadLeaves ==
  ASSUME TypeOK, NEW P, NEW full \in BOOLEAN, DocsRead(P, full)
  PROVE  /\ stale'["doc"] = stale["doc"] \ (IF full THEN P \ hidden ELSE P)
         /\ hidden' = hidden \ (IF full THEN P \ hidden ELSE P)
         /\ stale'["code"] = stale["code"]
         /\ stale'["memory"] \subseteq stale["memory"]
         /\ ~full => stale'["memory"] = stale["memory"]
BY DEF DocsRead, TypeOK, Sink

\* A full pass that ends well leaves only documents that do not look newer.
LEMMA FlushDocsLeaves ==
  ASSUME IInv, FlushDocs
  PROVE  /\ stale'["doc"] \subseteq stale["doc"]
         /\ request["doc"].full => stale'["doc"] \subseteq hidden'
         /\ ~request["doc"].full => /\ stale'["doc"] = stale["doc"] \ Asked(request["doc"])
                                   /\ hidden' = hidden \ Asked(request["doc"])
         /\ stale'["code"] = stale["code"]
         /\ stale'["memory"] \subseteq stale["memory"]
         /\ ~request["doc"].full => stale'["memory"] = stale["memory"]
<1>1. request["doc"] \in [full : BOOLEAN, paths : SUBSET Path] /\ stale["doc"] \subseteq Doc
  BY DEF IInv, TypeOK, Requests, StaleIsRouted, Routed, Sink
<1>2. CASE request["doc"] = Idle
  BY <1>2 DEF FlushDocs, Asked, Idle
<1>3. CASE request["doc"] # Idle
  <2>1. DocsRead(Asked(request["doc"]), request["doc"].full)
    BY <1>3 DEF FlushDocs, DocsPass
  <2>2. request["doc"].full => Asked(request["doc"]) = Doc
    BY DEF Asked
  <2> QED
    BY <1>1, <2>1, <2>2, DocsReadLeaves DEF IInv
<1> QED
  BY <1>2, <1>3

\* A document pass, whatever its end, leaves of the documents passed over those it
\* does not read, and they look no newer than before.
LEMMA DocsReadPassesOver ==
  ASSUME TypeOK, NEW P, NEW full \in BOOLEAN, DocsRead(P, full),
         forsaken["doc"] \subseteq hidden
  PROVE  forsaken["doc"] \cap stale'["doc"] \subseteq hidden'
BY DocsReadLeaves

LEMMA DocsCovers ==
  ASSUME IInv, DocsPhase
  PROVE  /\ Covered'
         /\ \A s \in Sink : stale'[s] \subseteq stale[s]
         /\ ~healed' => forsaken'["doc"] \subseteq hidden'
<1>0. Covered /\ (~healed => forsaken["doc"] \subseteq hidden) /\ stale["doc"] \subseteq Doc
  BY CoveredIsEnough DEF IInv, StaleIsRouted, Routed, Sink
<1>1. UNCHANGED <<queue, batch, rescan, recovering, healed>> /\ pc = "docs" /\ pc' = "memory"
  BY DEF DocsPhase, world
<1>2. \A q : InFlight(q) => InFlight(q)'
  BY <1>1 DEF InFlight, queue
<1>3. \A s \in Sink : \A q : Stands(s, q) =>
        \/ InFlight(q)
        \/ s = "doc" /\ (DocRequested(q) \/ InSeq(Root, injected))
        \/ s = "memory" /\ (IsPending("memory") \/ InSeq(Root, injected))
        \/ s = "code" /\ (q \in batch \/ InSeq(q, injected) \/ InSeq(Root, injected))
  BY <1>1 DEF Stands, RebuildAhead
<1>4. /\ \A q : InSeq(q, injected) => InSeq(q, injected')
      /\ \A pcs : InSeq(Root, injected) => RebuildAhead(pcs)'
  BY <1>1 DEF queue, RebuildAhead
<1>5. CASE FlushDocs
  <2>1. /\ stale'["doc"] \subseteq stale["doc"]
        /\ request["doc"].full => stale'["doc"] \subseteq hidden'
        /\ ~request["doc"].full => /\ stale'["doc"] = stale["doc"] \ Asked(request["doc"])
                                  /\ hidden' = hidden \ Asked(request["doc"])
        /\ stale'["code"] = stale["code"]
        /\ stale'["memory"] \subseteq stale["memory"]
        /\ ~request["doc"].full => stale'["memory"] = stale["memory"]
    BY <1>5, FlushDocsLeaves
  <2>2. /\ forsaken'["doc"] = IF request["doc"].full THEN stale'["doc"]
                             ELSE forsaken["doc"] \ Asked(request["doc"])
        /\ forsaken'["code"] = forsaken["code"]
        /\ forsaken'["memory"] =
             IF request["doc"].full THEN stale'["memory"] ELSE forsaken["memory"]
    BY <1>5 DEF FlushDocs, IInv, TypeOK, Sink
  <2>3. ~request["doc"].full => request'["memory"] = request["memory"]
    BY <1>5 DEF FlushDocs, IInv, TypeOK, Requests
  <2>4. ASSUME NEW s \in Sink, NEW q \in stale'[s] PROVE Stands(s, q)' \/ q \in forsaken'[s]
    <3>1. q \in stale[s]
      BY <2>1, <2>4 DEF Sink
    <3>2. Stands(s, q) \/ q \in forsaken[s]
      BY <1>0, <3>1 DEF Covered
    <3>3. CASE s = "doc"
      <4>1. CASE request["doc"].full
        BY <2>2, <2>4, <3>3, <4>1
      <4>2. CASE ~request["doc"].full
        <5>1. q \notin Asked(request["doc"]) /\ q \in Doc
          BY <1>0, <2>1, <2>4, <3>1, <3>3, <4>2
        <5>2. ~DocRequested(q)
          BY <4>2, <5>1 DEF DocRequested, Asked
        <5> QED
          BY <1>2, <1>3, <1>4, <2>2, <3>2, <3>3, <4>2, <5>1, <5>2 DEF Stands
      <4> QED
        BY <4>1, <4>2
    <3>4. CASE s = "memory"
      <4>1. CASE request["doc"].full
        BY <2>2, <2>4, <3>4, <4>1
      <4>2. CASE ~request["doc"].full
        <5>1. IsPending("memory") => IsPending("memory")'
          BY <2>3, <4>2 DEF IsPending
        <5> QED
          BY <1>2, <1>3, <1>4, <2>2, <3>2, <3>4, <4>2, <5>1 DEF Stands
      <4> QED
        BY <4>1, <4>2
    <3>5. CASE s = "code"
      BY <1>1, <1>2, <1>3, <1>4, <2>2, <3>2, <3>5 DEF Stands
    <3> QED
      BY <3>3, <3>4, <3>5 DEF Sink
  <2>5. ~healed' => forsaken'["doc"] \subseteq hidden'
    BY <1>0, <1>1, <2>1, <2>2
  <2> QED
    BY <2>1, <2>2, <2>4, <2>5 DEF Covered, Sink
<1>6. CASE /\ request' = request
           /\ \A s \in Sink : forsaken[s] \cap stale'[s] \subseteq forsaken'[s]
           /\ \A s \in Sink : stale'[s] \subseteq stale[s]
           /\ ~healed' => forsaken'["doc"] \subseteq hidden'
  <2>1. ASSUME NEW s \in Sink, NEW q \in stale'[s] PROVE Stands(s, q)' \/ q \in forsaken'[s]
    <3>1. Stands(s, q) \/ q \in forsaken'[s]
      BY <1>0, <1>6, <2>1 DEF Covered
    <3>2. /\ DocRequested(q) => DocRequested(q)'
          /\ IsPending("memory") => IsPending("memory")'
      BY <1>6 DEF DocRequested, IsPending
    <3> QED
      BY <1>1, <1>2, <1>3, <1>4, <3>1, <3>2 DEF Stands
  <2> QED
    BY <1>6, <2>1 DEF Covered
<1>7. ASSUME FlushDocsFails
      PROVE  /\ request' = request
             /\ \A s \in Sink : forsaken[s] \cap stale'[s] \subseteq forsaken'[s]
             /\ \A s \in Sink : stale'[s] \subseteq stale[s]
             /\ ~healed' => forsaken'["doc"] \subseteq hidden'
  <2>1. PICK P \in SUBSET Asked(request["doc"]) : DocsRead(P, request["doc"].full)
    BY <1>7 DEF FlushDocsFails, DocsPassFails
  <2>2. request["doc"].full \in BOOLEAN /\ TypeOK
    BY DEF IInv, TypeOK, Requests
  <2>3. /\ request' = request
        /\ \A s \in Sink : forsaken'[s] = forsaken[s] \cap stale'[s]
    BY <1>7 DEF FlushDocsFails
  <2>4. ~healed' => forsaken'["doc"] \subseteq hidden'
    BY <1>0, <1>1, <2>1, <2>2, <2>3, DocsReadPassesOver DEF Sink
  <2>5. \A s \in Sink : stale'[s] \subseteq stale[s]
    BY <2>1, <2>2, DocsReadLeaves DEF Sink
  <2> QED
    BY <2>3, <2>4, <2>5
<1>8. ASSUME UNCHANGED <<stale, hidden, known, request, docsCooling, forsaken>>
      PROVE  /\ request' = request
             /\ \A s \in Sink : forsaken[s] \cap stale'[s] \subseteq forsaken'[s]
             /\ \A s \in Sink : stale'[s] \subseteq stale[s]
             /\ ~healed' => forsaken'["doc"] \subseteq hidden'
  BY <1>0, <1>1, <1>8
<1> QED
  BY <1>5, <1>6, <1>7, <1>8 DEF DocsPhase

\* A memory pass leaves nothing stale, or gives up what is.
LEMMA MemoryLeaves ==
  ASSUME IInv, MemoryPass
  PROVE  /\ stale'["memory"] \subseteq stale["memory"]
         /\ \A q \in stale'["memory"] : q \in forsaken'["memory"]
         /\ \A s \in Sink \ {"memory"} : stale'[s] = stale[s] /\ forsaken'[s] = forsaken[s]
<1>1. stale["memory"] \subseteq Memory /\ "memory" \in Sink
  BY DEF IInv, StaleIsRouted, Routed, Sink
<1> QED
  BY <1>1 DEF MemoryPass, Indexed, Recovered, GivesUp, IInv, TypeOK

LEMMA MemoryCovers ==
  ASSUME IInv, MemoryPhase
  PROVE  /\ Covered'
         /\ \A s \in Sink : stale'[s] \subseteq stale[s]
         /\ forsaken'["doc"] = forsaken["doc"] /\ UNCHANGED <<hidden, healed>>
<1>0. Covered /\ "memory" \in Sink
  BY CoveredIsEnough DEF IInv, Sink
<1>1. UNCHANGED <<queue, batch, rescan, hidden, healed>> /\ pc = "memory" /\ pc' = "select"
  BY DEF MemoryPhase, world
<1>2. request'["doc"] = request["doc"]
  BY DEF MemoryPhase, IInv, TypeOK, Requests
<1>3. /\ stale'["memory"] \subseteq stale["memory"]
      /\ \A q \in stale'["memory"] : q \in forsaken'["memory"] \/ ~IsPending("memory")
      /\ ~IsPending("memory") => forsaken'["memory"] = forsaken["memory"]
      /\ \A s \in Sink \ {"memory"} : stale'[s] = stale[s] /\ forsaken'[s] = forsaken[s]
  BY MemoryLeaves DEF MemoryPhase
<1>4. ASSUME NEW s \in Sink, NEW q \in stale'[s] PROVE Stands(s, q)' \/ q \in forsaken'[s]
  <2>1. CASE s = "memory" /\ q \in forsaken'["memory"]
    BY <2>1
  <2>2. CASE s # "memory" \/ ~IsPending("memory")
    <3>1. q \in stale[s] /\ forsaken'[s] = forsaken[s]
      BY <1>3, <1>4, <2>2
    <3>2. Stands(s, q) \/ q \in forsaken[s]
      BY <1>0, <3>1 DEF Covered
    <3>3. Stands(s, q) => Stands(s, q)'
      BY <1>1, <1>2, <2>2 DEF Stands, InFlight, DocRequested, RebuildAhead, queue
    <3> QED
      BY <3>1, <3>2, <3>3
  <2> QED
    BY <1>3, <1>4, <2>1, <2>2
<1> QED
  BY <1>0, <1>1, <1>3, <1>4 DEF Covered, Sink

LEMMA RebuildCovers ==
  ASSUME IInv, Rebuild
  PROVE  /\ Covered' /\ healed
         /\ \A s \in Sink : stale'[s] \subseteq stale[s]
<1>0. Covered /\ stale["doc"] \subseteq Doc
  BY CoveredIsEnough DEF IInv, StaleIsRouted, Routed, Sink
<1>1. healed
  BY DEF Rebuild, RebuildDocs, RebuildMemory, RebuildCode, IInv, RebuildAfterHeal, RebuildAhead
<1>2. UNCHANGED <<queue, batch, request, rescan, recovering>>
  BY DEF Rebuild, RebuildDocs, RebuildMemory, RebuildCode, asked
<1>3. /\ \A q : InFlight(q) => InFlight(q)'
      /\ \A q : DocRequested(q) => DocRequested(q)'
      /\ \A r : IsPending(r) => IsPending(r)'
      /\ \A q : InSeq(q, injected) => InSeq(q, injected')
  BY <1>2 DEF InFlight, DocRequested, IsPending, queue
<1>4. CASE RebuildDocs
  <2>1. PICK P \in SUBSET Asked(Full) :
          /\ DocsRead(P, TRUE)
          /\ \/ pc' = "hCode"
                /\ forsaken' = [forsaken EXCEPT !["doc"] = stale'["doc"],
                                                !["memory"] = stale'["memory"]]
             \/ pc' = "hMemory" /\ forsaken' = GivesUp("doc", stale'["doc"])
    BY <1>4 DEF RebuildDocs, DocsPass, DocsPassFails, Asked, Full
  <2>2. /\ stale'["doc"] \subseteq stale["doc"]
        /\ stale'["code"] = stale["code"]
        /\ stale'["memory"] \subseteq stale["memory"]
    BY <2>1, DocsReadLeaves DEF IInv
  <2>3. ASSUME NEW s \in Sink, NEW q \in stale'[s] PROVE Stands(s, q)' \/ q \in forsaken'[s]
    <3>1. CASE s = "doc"
      <4>1. CASE forsaken' = [forsaken EXCEPT !["doc"] = stale'["doc"],
                                              !["memory"] = stale'["memory"]]
        BY <2>3, <3>1, <4>1 DEF IInv, TypeOK, Sink
      <4>2. CASE forsaken' = GivesUp("doc", stale'["doc"])
        BY <2>3, <3>1, <4>2 DEF GivesUp, IInv, TypeOK, Sink
      <4> QED
        BY <2>1, <4>1, <4>2
    <3>2. CASE s = "memory"
      <4>1. CASE forsaken' = [forsaken EXCEPT !["doc"] = stale'["doc"],
                                              !["memory"] = stale'["memory"]]
        BY <2>3, <3>2, <4>1 DEF IInv, TypeOK, Sink
      <4>2. CASE pc' = "hMemory"
        BY <3>2, <4>2 DEF Stands, RebuildAhead
      <4> QED
        BY <2>1, <4>1, <4>2
    <3>3. CASE s = "code"
      BY <2>1, <3>3 DEF Stands, RebuildAhead
    <3> QED
      BY <3>1, <3>2, <3>3 DEF Sink
  <2> QED
    BY <1>1, <2>2, <2>3 DEF Covered, Sink
<1>5. CASE RebuildMemory
  <2>1. ASSUME NEW s \in Sink, NEW q \in stale'[s] PROVE Stands(s, q)' \/ q \in forsaken'[s]
    <3>1. CASE s = "doc"
      <4>1. q \in stale[s] /\ forsaken'[s] = forsaken[s]
        BY <1>5, <2>1, <3>1, MemoryLeaves DEF RebuildMemory
      <4>2. Stands(s, q) => Stands(s, q)'
        BY <1>3, <1>5, <3>1 DEF RebuildMemory, Stands, RebuildAhead
      <4> QED
        BY <1>0, <4>1, <4>2 DEF Covered
    <3>2. CASE s = "memory"
      BY <1>5, <2>1, <3>2, MemoryLeaves DEF RebuildMemory
    <3>3. CASE s = "code"
      BY <1>5, <3>3 DEF RebuildMemory, Stands, RebuildAhead
    <3> QED
      BY <3>1, <3>2, <3>3 DEF Sink
  <2> QED
    BY <1>1, <1>5, <2>1, MemoryLeaves DEF RebuildMemory, Covered, Sink
<1>6. CASE RebuildCode
  <2>1. RescanCode("select") /\ pc = "hCode"
    BY <1>6 DEF RebuildCode
  <2>2. ASSUME NEW s \in Sink, NEW q \in stale'[s] PROVE Stands(s, q)' \/ q \in forsaken'[s]
    <3>1. CASE s = "code"
      BY <2>1, <2>2, <3>1, RescanCovers
    <3>2. CASE s # "code"
      <4>1. q \in stale[s] /\ forsaken'[s] = forsaken[s]
        BY <2>1, <2>2, <3>2, RescanCovers
      <4>2. Stands(s, q) => Stands(s, q)'
        BY <1>3, <2>1, <3>2 DEF Stands, RebuildAhead
      <4> QED
        BY <1>0, <4>1, <4>2 DEF Covered
    <3> QED
      BY <3>1, <3>2
  <2> QED
    BY <1>1, <2>1, <2>2, RescanCovers DEF Covered, Sink
<1> QED
  BY <1>4, <1>5, <1>6 DEF Rebuild

\* A step of the loop covers what is stale, makes nothing stale and gives up
\* documents only where a full pass passes over them or after a heal.
LEMMA LoopCovers ==
  ASSUME IInv, Loop
  PROVE  /\ NothingDropsOut' /\ StaleIsRouted' /\ RebuildAfterHeal'
         /\ \A s \in Sink : stale'[s] \subseteq stale[s]
         /\ UNCHANGED <<healed, codeEnabled>>
<1>0. ~healed => forsaken["doc"] \subseteq hidden
  BY CoveredIsEnough DEF IInv
<1>1. UNCHANGED <<healed, codeEnabled>>
  BY DEF Loop, Receive, ReceiveInjected, ReceiveRebuild, BeginFlush, Flush, CodePhase,
         DocsPhase, MemoryPhase, Rebuild, RebuildDocs, RebuildMemory, RebuildCode, world
<1>2. /\ Covered'
      /\ \A s \in Sink : stale'[s] \subseteq stale[s]
      /\ ~healed => forsaken'["doc"] \subseteq hidden'
      /\ RebuildAfterHeal'
  <2>1. CASE Receive
    <3>1. UNCHANGED <<stale, hidden, forsaken, injected, pc>>
      BY <2>1 DEF Receive, index, ctl
    <3> QED
      BY <1>0, <1>1, <2>1, <3>1, ReceiveCovers DEF IInv, RebuildAfterHeal, RebuildAhead
  <2>2. CASE ReceiveInjected \/ ReceiveRebuild
    <3>1. UNCHANGED <<stale, hidden, forsaken>>
      BY <2>2 DEF ReceiveInjected, ReceiveRebuild, index
    <3> QED
      BY <1>0, <2>2, <3>1, ReceiveInjectedCovers
  <2>3. CASE BeginFlush
    <3>1. UNCHANGED <<stale, hidden, forsaken, injected>> /\ pc' = "code"
      BY <2>3 DEF BeginFlush, index, queue
    <3> QED
      BY <1>0, <1>1, <2>3, <3>1, BeginFlushCovers DEF IInv, RebuildAfterHeal, RebuildAhead
  <2>4. CASE Flush
    <3>1. injected' = injected /\ pc' \in {"docs", "memory", "select"}
      BY <2>4 DEF Flush, CodePhase, RescanCode, FlushCode, DocsPhase, MemoryPhase, queue
    <3>2. RebuildAfterHeal'
      BY <1>1, <3>1 DEF IInv, RebuildAfterHeal, RebuildAhead
    <3> QED
      BY <1>0, <1>1, <2>4, <3>2, CodeCovers, DocsCovers, MemoryCovers DEF Flush
  <2>5. CASE Rebuild
    BY <1>1, <2>5, RebuildCovers DEF RebuildAfterHeal
  <2> QED
    BY <2>1, <2>2, <2>3, <2>4, <2>5 DEF Loop
<1>3. StaleIsRouted'
  BY <1>1, <1>2 DEF IInv, StaleIsRouted, Routed
<1> QED
  BY <1>1, <1>2, <1>3, CoveredIsEnough

\* The same of the debouncer and the clocks.
LEMMA AsideCovers ==
  ASSUME IInv, Debouncer \/ RecoveryDue \/ DocRetryDue
  PROVE  /\ NothingDropsOut' /\ StaleIsRouted' /\ RebuildAfterHeal'
         /\ UNCHANGED <<stale, hidden, healed>>
<1>1. Covered' /\ UNCHANGED <<stale, hidden, forsaken, healed, injected, pc, codeEnabled>>
  BY DebouncerCovers
<1>2. ~healed => forsaken["doc"] \subseteq hidden
  BY CoveredIsEnough DEF IInv
<1>3. NothingDropsOut'
  BY <1>1, <1>2, CoveredIsEnough
<1>4. StaleIsRouted' /\ RebuildAfterHeal'
  BY <1>1 DEF IInv, StaleIsRouted, Routed, RebuildAfterHeal, RebuildAhead
<1> QED
  BY <1>1, <1>3, <1>4

LEMMA IInvKept == IInv /\ [Next]_vars => IInv'
<1> SUFFICES ASSUME IInv, [Next]_vars PROVE IInv'
  OBVIOUS
<1>1. CASE Next
  BY <1>1, OutsideTyping, LoopTyping, WorldCovers, LoopCovers, AsideCovers DEF IInv, Next
<1>2. CASE UNCHANGED vars
  <2>1. TypeOK'
    BY <1>2 DEF IInv, vars, TypeOK, world, queue, asked, timers, index, ctl
  <2>2. NothingDropsOut' /\ StaleIsRouted' /\ RebuildAfterHeal'
    <3>1. Covered' /\ (~healed' => forsaken'["doc"] \subseteq hidden')
      BY <1>2, CoveredIsEnough
         DEF IInv, vars, world, queue, asked, timers, index, ctl, Covered, Stands,
             InFlight, DocRequested, IsPending, RebuildAhead
    <3>2. StaleIsRouted' /\ RebuildAfterHeal'
      BY <1>2 DEF IInv, vars, world, queue, index, ctl, StaleIsRouted, Routed,
                  RebuildAfterHeal, RebuildAhead
    <3> QED
      BY <3>1, <3>2, CoveredIsEnough
  <2> QED
    BY <2>1, <2>2 DEF IInv
<1> QED
  BY <1>1, <1>2

LEMMA IInvAlways == Spec => []IInv
<1>1. Init => IInv
  BY InitTyping, InitCovered DEF IInv
<1> QED
  BY <1>1, IInvKept, PTL DEF Spec

\* For every set of files, every capacity and every interleaving of edits, drops,
\* overflows, failures and heals, a stale file is somewhere the loop will find it,
\* or the pass that took its request left it: of documents, before a heal, only those that
\* did not look newer than their rows (run_file_watcher_inner, index_single_file).
THEOREM NoChangeIsDropped == Spec => []NothingDropsOut
<1>1. IInv => NothingDropsOut
  BY DEF IInv
<1> QED
  BY <1>1, IInvAlways, PTL

-----------------------------------------------------------------------------
(* The watcher implements its promise.                                      *)

\* Only an edit makes a document look older than its row.
LEMMA HiddenShrinks ==
  ASSUME TypeOK, Loop
  PROVE  hidden' \subseteq hidden
<1>1. CASE DocsPhase \/ RebuildDocs
  BY <1>1 DEF DocsPhase, RebuildDocs, FlushDocs, FlushDocsFails, DocsPass, DocsPassFails,
              DocsRead
<1>2. CASE ~DocsPhase /\ ~RebuildDocs
  BY <1>2 DEF Loop, Receive, ReceiveInjected, ReceiveRebuild, BeginFlush, Flush, CodePhase,
              RescanCode, FlushCode, MemoryPhase, Rebuild, RebuildMemory, RebuildCode, index
<1> QED
  BY <1>1, <1>2

\* The due map of the abstract specification.
DueMap == [s \in Sink |-> Due(s)]

LEMMA DueMapTyping ==
  /\ TypeOK => DueMap \in [Sink -> SUBSET Path] /\ \A s \in Sink : DueMap[s] \subseteq stale[s]
  /\ TypeOK' => DueMap' \in [Sink -> SUBSET Path] /\ \A s \in Sink : DueMap'[s] \subseteq stale'[s]
<1>1. \A s \in Sink : Due(s) \subseteq stale[s] /\ Due(s)' \subseteq stale'[s]
  BY DEF Due
<1>2. DueMap = [s \in Sink |-> Due(s)] /\ DueMap' = [s \in Sink |-> Due(s)']
  BY DEF DueMap
<1>3. TypeOK => stale \in [Sink -> SUBSET Path]
  BY DEF TypeOK
<1>4. TypeOK' => stale' \in [Sink -> SUBSET Path]
  BY DEF TypeOK
<1> QED
  BY <1>1, <1>2, <1>3, <1>4

\* A step that makes nothing stale and heals nothing is a pass.
LEMMA PassSimulates ==
  ASSUME IInv, IInv', healed' = healed, hidden' \subseteq hidden, \A s \in Sink : stale'[s] \subseteq stale[s]
  PROVE  Promise!Pass
<1>1. /\ stale' \in [Sink -> SUBSET Path]
      /\ DueMap' \in [Sink -> SUBSET Path]
      /\ \A s \in Sink : DueMap'[s] \subseteq stale'[s]
  BY DueMapTyping DEF IInv, TypeOK
<1>2. ~healed => stale'["doc"] \ hidden \subseteq DueMap'["doc"]
  <2>1. NothingDropsOut'
    BY DEF IInv
  <2>2. ~healed => stale'["doc"] \ hidden \subseteq Due("doc")'
    BY <2>1 DEF NothingDropsOut, Sink
  <2> QED
    BY <2>2 DEF DueMap, Sink
<1>3. \A s \in Sink :
        /\ stale'[s] \subseteq stale[s]
        /\ DueMap'[s] \subseteq stale'[s]
        /\ s = "doc" /\ ~healed => (DueMap[s] \cap stale'[s]) \ hidden \subseteq DueMap'[s]
  BY <1>1, <1>2
<1> QED
  BY <1>1, <1>3 DEF Promise!Pass, DueMap

LEMMA EditSimulates ==
  ASSUME IInv, NEW p \in Path, Edit(p)
  PROVE  Promise!Change
<1> DEFINE S == {s \in Sink : p \in Routed(s)}
<1>1. /\ S \in SUBSET Sink /\ healed' = healed
      /\ hidden' \in {hidden \ {p}, hidden, hidden \cup {p}}
  BY DEF Edit
<1>2. stale' = [s \in Sink |-> IF s \in S THEN stale[s] \cup {p} ELSE stale[s]]
  BY DEF Edit, IInv, TypeOK
<1>3. ASSUME NEW s \in Sink
      PROVE  Due(s)' = IF s \in S THEN Due(s) \cup {p} ELSE Due(s)
  <2>1. Stands(s, p)'
    BY DEF Edit, Stands, InFlight
  <2>2. \A q : q # p => (Stands(s, q) <=> Stands(s, q)')
    BY DEF Edit, Stands, InFlight, DocRequested, IsPending, RebuildAhead, asked, ctl
  <2>3. s \notin S => p \notin stale[s]
    BY DEF IInv, StaleIsRouted
  <2>4. Due(s) = {q \in stale[s] : Stands(s, q)} /\ Due(s)' = {q \in stale'[s] : Stands(s, q)'}
    BY DEF Due, Stands
  <2>5. stale'[s] = IF s \in S THEN stale[s] \cup {p} ELSE stale[s]
    BY <1>2
  <2>6. \A q : q \in Due(s)' <=> q \in (IF s \in S THEN Due(s) \cup {p} ELSE Due(s))
    BY <2>1, <2>2, <2>3, <2>4, <2>5
  <2> QED
    BY <2>6, <2>4
<1>4. DueMap' = [s \in Sink |-> IF s \in S THEN DueMap[s] \cup {p} ELSE DueMap[s]]
  BY <1>3 DEF DueMap
<1> HIDE DEF S
<1> QED
  BY <1>1, <1>2, <1>4 DEF Promise!Change, DueMap

LEMMA HealSimulates ==
  ASSUME IInv, IInv', Heal
  PROVE  Promise!Heal
<1>1. /\ stale' \in [Sink -> SUBSET Path]
      /\ DueMap' \in [Sink -> SUBSET Path]
      /\ \A s \in Sink : DueMap'[s] \subseteq stale'[s]
  BY DueMapTyping DEF IInv, TypeOK
<1>2. \A s \in Sink : stale[s] \subseteq stale'[s]
  BY DEF Heal, IInv, TypeOK, StaleIsRouted, Routed, Sink
<1>3. ASSUME NEW s \in Sink PROVE DueMap[s] \subseteq DueMap'[s]
  <2>1. \A y : InSeq(y, injected) => InSeq(y, injected')
    <3>1. Root \in Path \cup {Root} /\ injected \in Seq(Path \cup {Root})
      BY DEF IInv, TypeOK
    <3>2. \A y : InSeq(y, injected) => InSeq(y, Append(injected, Root))
      BY <3>1, AppendKeeps
    <3>3. CASE injected' = Append(injected, Root)
      BY <3>2, <3>3
    <3>4. CASE injected' = injected
      BY <3>4
    <3> QED
      BY <3>3, <3>4 DEF Heal
  <2>2. \A q : Stands(s, q) => Stands(s, q)'
    BY <2>1 DEF Heal, Stands, InFlight, DocRequested, IsPending, RebuildAhead, asked, ctl
  <2>3. Due(s) = {q \in stale[s] : Stands(s, q)} /\ Due(s)' = {q \in stale'[s] : Stands(s, q)'}
    BY DEF Due, Stands
  <2>4. Due(s) \subseteq Due(s)'
    BY <1>2, <2>2, <2>3
  <2> QED
    BY <2>4 DEF DueMap
<1>4. healed' = TRUE /\ hidden' = {}
  BY DEF Heal
<1>5. \A s \in Sink :
        /\ stale[s] \subseteq stale'[s]
        /\ DueMap[s] \subseteq DueMap'[s]
        /\ DueMap'[s] \subseteq stale'[s]
  BY <1>1, <1>2, <1>3
<1> QED
  BY <1>1, <1>4, <1>5 DEF Promise!Heal, DueMap

LEMMA StutterSimulates ==
  ASSUME UNCHANGED vars
  PROVE  UNCHANGED <<stale, DueMap, hidden, healed>>
<1>1. UNCHANGED <<stale, hidden, healed>>
  BY DEF vars, world, index
<1>2. \A s \in Sink : Due(s)' = Due(s)
  BY DEF vars, world, queue, asked, index, ctl, Due, InFlight, DocRequested, IsPending,
         RebuildAhead
<1>3. DueMap' = DueMap
  BY <1>2 DEF DueMap
<1> QED
  BY <1>1, <1>3

\* The watcher implements its promise: a change stays due until a pass indexes it,
\* and before a heal a pass leaves only documents that do not look newer than their
\* rows, whatever the capacities and whichever events are dropped (flush_doc_update,
\* deliver_change, index_single_file).
THEOREM WatcherKeepsPromise == Spec => KeepsPromise
<1>1. Init => Promise!Init
  <2> SUFFICES ASSUME Init PROVE Promise!Init
    OBVIOUS
  <2>1. \A s \in Sink : Due(s) = {}
    BY DEF Init, Due
  <2> QED
    BY <2>1 DEF Init, Promise!Init
<1>2. IInv /\ IInv' /\ [Next]_vars => [Promise!Next]_<<stale, DueMap, hidden, healed>>
  <2> SUFFICES ASSUME IInv, IInv', [Next]_vars
               PROVE  Promise!Next \/ UNCHANGED <<stale, DueMap, hidden, healed>>
    OBVIOUS
  <2>1. CASE UNCHANGED vars
    BY <2>1, StutterSimulates
  <2>2. CASE Loop
    BY <2>2, LoopCovers, HiddenShrinks, PassSimulates DEF Promise!Next, IInv
  <2>3. CASE Debouncer \/ RecoveryDue \/ DocRetryDue
    BY <2>3, AsideCovers, PassSimulates DEF Promise!Next
  <2>4. CASE World
    <3>1. ASSUME NEW p \in Path, Edit(p) PROVE Promise!Next
      BY <3>1, EditSimulates DEF Promise!Next
    <3>2. ASSUME NEW p \in Code, Inject(p) PROVE Promise!Next
      <4>1. UNCHANGED <<stale, hidden, healed>>
        BY <3>2 DEF Inject, index
      <4> QED
        BY <4>1, PassSimulates DEF Promise!Next
    <3>3. ASSUME Heal PROVE Promise!Next
      BY <3>3, HealSimulates DEF Promise!Next
    <3> QED
      BY <2>4, <3>1, <3>2, <3>3 DEF World
  <2> QED
    BY <2>1, <2>2, <2>3, <2>4 DEF Next
<1> QED
  BY <1>1, <1>2, IInvAlways, PTL DEF Spec, KeepsPromise, Promise!Spec, DueMap

-----------------------------------------------------------------------------
(* From the queues to the index.                                            *)

\* Each stage is emptied in the end: a document's event is received, a rescan begins,
\* the document request is carried out. This is all that DocsCatchUp needs of time.
EventsAreReceived == \A p \in Doc : InSeq(p, channel) ~> ~InSeq(p, channel)
RescansBegin == rescan ~> ~rescan
RequestsAreServed == (request["doc"] # Idle) ~> (request["doc"] = Idle)

Stale(p) == p \in stale["doc"]

\* A document leaves the channel only into a request that covers it.
LEMMA ReceivedIsRequested ==
  ASSUME TypeOK, [Next]_vars, NEW p \in Doc, InSeq(p, channel)
  PROVE  InSeq(p, channel)' \/ DocRequested(p)'
<1>0. p \in Path
  BY DEF Path
<1>1. CASE Receive
  <2> DEFINE q == Head(channel)
  <2>1. q \in Path /\ (p = q \/ InSeq(p, channel'))
    BY <1>1, TailKeeps DEF TypeOK, Receive
  <2>2. Noted(request["doc"], q).full \/ q \in Noted(request["doc"], q).paths
    BY <2>1, NotedCovers, RequestTyping DEF Requests
  <2>3. q \in Doc => request'["doc"] = Noted(request["doc"], q)
    BY <1>1 DEF Receive, Requests
  <2> QED
    BY <2>1, <2>2, <2>3 DEF DocRequested
<1>2. ASSUME NEW q \in Path, Send(q) PROVE InSeq(p, channel')
  BY <1>2, AppendKeeps DEF Send, TypeOK
<1>3. CASE World \/ RecoveryDue \/ DocRetryDue \/ UNCHANGED vars
  BY <1>3 DEF World, Edit, Inject, Heal, RecoveryDue, DocRetryDue, vars, queue
<1>4. CASE StoreMissed \/ \E q \in Path : Reject(q) \/ SendFails(q)
  BY <1>4 DEF StoreMissed, Reject, SendFails
<1>5. CASE ReceiveInjected \/ ReceiveRebuild \/ BeginFlush \/ Flush \/ Rebuild
  BY <1>5 DEF ReceiveInjected, ReceiveRebuild, BeginFlush, Flush, CodePhase, DocsPhase, MemoryPhase,
              Rebuild, RebuildDocs, RebuildMemory, RebuildCode, queue
<1> QED
  BY <1>1, <1>2, <1>3, <1>4, <1>5 DEF Next, Debouncer, Loop

\* A rescan that begins asks for every document.
LEMMA RescanIsRequested ==
  ASSUME TypeOK, [Next]_vars, NEW p \in Doc, rescan
  PROVE  rescan' \/ DocRequested(p)'
<1>1. CASE BeginFlush
  <2>1. CASE recovering'
    <3>1. request' = [r \in Requests |-> Full]
      BY <1>1, <2>1 DEF BeginFlush
    <3> QED
      BY <3>1 DEF DocRequested, Requests, Full
  <2>2. CASE ~recovering'
    <3>1. UNCHANGED asked
      BY <1>1, <2>2 DEF BeginFlush
    <3> QED
      BY <3>1 DEF asked
  <2> QED
    BY <2>1, <2>2
<1>2. CASE World \/ Debouncer \/ RecoveryDue \/ DocRetryDue \/ UNCHANGED vars
  BY <1>2 DEF World, Edit, Inject, Heal, Debouncer, Reject, Send, SendFails, StoreMissed,
              RecoveryDue, DocRetryDue, vars, asked
<1>3. CASE Receive \/ ReceiveInjected \/ ReceiveRebuild \/ Flush \/ Rebuild
  BY <1>3 DEF Receive, ReceiveInjected, ReceiveRebuild, Flush, CodePhase, DocsPhase, MemoryPhase,
              Rebuild, RebuildDocs, RebuildMemory, RebuildCode, asked
<1> QED
  BY <1>1, <1>2, <1>3 DEF Next, Loop

\* A request that covers a document covers it until a pass has read it: growing into
\* a full one, being put back by a failed pass and passing over a cooldown included.
LEMMA RequestedUntilRead ==
  ASSUME TypeOK, [Next]_vars, NEW p \in Doc, DocRequested(p)
  PROVE  DocRequested(p)' \/ ~Stale(p)' \/ PassedOver(p)'
<1>0. p \in Path /\ request["doc"] \in [full : BOOLEAN, paths : SUBSET Path]
  BY DEF Path, TypeOK, Requests
<1>1. CASE Receive
  <2> DEFINE q == Head(channel)
  <2>1. q \in Path
    BY <1>1, TailKeeps DEF TypeOK, Receive
  <2>2. /\ request["doc"].full => Noted(request["doc"], q).full
        /\ \/ Noted(request["doc"], q).full
           \/ request["doc"].paths \subseteq Noted(request["doc"], q).paths
    BY <2>1, NotedCovers, RequestTyping DEF Requests
  <2>3. request'["doc"] \in {request["doc"], Noted(request["doc"], q)}
    BY <1>1 DEF Receive, Requests
  <2> QED
    BY <2>2, <2>3 DEF DocRequested
<1>2. CASE BeginFlush
  BY <1>2 DEF BeginFlush, asked, DocRequested, Requests, Full
<1>3. CASE DocsPhase
  <2>1. CASE FlushDocs
    <3>1. p \in Asked(request["doc"]) /\ request["doc"] # Idle
      BY <1>0 DEF Asked, DocRequested, Idle
    <3>2. DocsRead(Asked(request["doc"]), request["doc"].full)
      BY <2>1, <3>1 DEF FlushDocs, DocsPass
    <3>3. CASE request["doc"].full
      <4>1. /\ stale'["doc"] = stale["doc"] \ (Doc \ hidden)
            /\ hidden' = hidden \ (Doc \ hidden)
        BY <3>2, <3>3, DocsReadLeaves DEF Asked
      <4>2. forsaken'["doc"] = stale'["doc"]
        BY <2>1, <3>3 DEF FlushDocs, TypeOK, Sink
      <4> QED
        BY <4>1, <4>2 DEF Stale, PassedOver
    <3>4. CASE ~request["doc"].full
      <4>1. p \notin stale'["doc"]
        BY <3>1, <3>2, <3>4, DocsReadLeaves, <1>0
      <4> QED
        BY <4>1 DEF Stale
    <3> QED
      BY <3>3, <3>4
  <2>2. CASE ~FlushDocs
    BY <1>3, <2>2 DEF DocsPhase, FlushDocsFails, DocRequested
  <2> QED
    BY <2>1, <2>2
<1>4. CASE MemoryPhase
  BY <1>4 DEF MemoryPhase, DocRequested, TypeOK, Requests
<1>5. CASE World \/ Debouncer \/ RecoveryDue \/ DocRetryDue \/ UNCHANGED vars
  BY <1>5 DEF World, Edit, Inject, Heal, Debouncer, Reject, Send, SendFails, StoreMissed,
              RecoveryDue, DocRetryDue, vars, asked, DocRequested
<1>6. CASE ReceiveInjected \/ ReceiveRebuild \/ CodePhase \/ Rebuild
  BY <1>6 DEF ReceiveInjected, ReceiveRebuild, CodePhase,
              Rebuild, RebuildDocs, RebuildMemory, RebuildCode, asked, DocRequested
<1> QED
  BY <1>1, <1>2, <1>3, <1>4, <1>5, <1>6 DEF Next, Loop, Flush

\* With stages that are emptied in the end, every document the loop knows of is
\* indexed, or passed over by a full pass to which it does not look newer: no hand-over from the channel to a request, from a rescan to a request or
\* from a request to a pass loses it, at whichever capacities (run_file_watcher_inner).
THEOREM DocsCatchUpInTheEnd ==
  Spec /\ EventsAreReceived /\ RescansBegin /\ RequestsAreServed => DocsCatchUp
<1> SUFFICES ASSUME NEW p \in Doc
             PROVE  Spec /\ EventsAreReceived /\ RescansBegin /\ RequestsAreServed
                    => ((p \in stale["doc"] /\ (InSeq(p, channel) \/ rescan \/ DocRequested(p)))
                          ~> (p \notin stale["doc"] \/ PassedOver(p)))
  BY DEF DocsCatchUp
<1> DEFINE Sent == InSeq(p, channel)
           Rescan == rescan
           Taken == DocRequested(p)
           Some == request["doc"] # Idle
           None == request["doc"] = Idle
           Known == p \in stale["doc"] /\ (InSeq(p, channel) \/ rescan \/ DocRequested(p))
           Read == p \notin stale["doc"] \/ PassedOver(p)
<1>1. TypeOK /\ [Next]_vars /\ Sent => Sent' \/ Taken'
  BY ReceivedIsRequested
<1>2. TypeOK /\ [Next]_vars /\ Rescan => Rescan' \/ Taken'
  BY RescanIsRequested
<1>3. TypeOK /\ [Next]_vars /\ Taken => Taken' \/ Read'
  BY RequestedUntilRead DEF Stale
<1>4. TypeOK /\ Taken => Some
  BY DEF DocRequested, Idle
<1>5. (Known => Sent \/ Rescan \/ Taken) /\ (None => ~Some)
  OBVIOUS
<1>6. EventsAreReceived => (Sent ~> ~Sent)
  BY DEF EventsAreReceived
<1>7. RescansBegin => (Rescan ~> ~Rescan)
  BY DEF RescansBegin
<1>8. RequestsAreServed => (Some ~> None)
  BY DEF RequestsAreServed
<1> HIDE DEF Sent, Rescan, Taken, Some, None, Known, Read
<1>9. Spec /\ EventsAreReceived /\ RescansBegin /\ RequestsAreServed => (Known ~> Read)
  BY <1>1, <1>2, <1>3, <1>4, <1>5, <1>6, <1>7, <1>8, WatcherTyping, PTL DEF Spec
<1>10. QED
  BY <1>9 DEF Known, Read

=============================================================================
