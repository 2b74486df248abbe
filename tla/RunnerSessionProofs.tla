---- MODULE RunnerSessionProofs ----
(***************************************************************************)
(* Proofs about module RunnerSession, for any number of processes and any  *)
(* amount of work: what the map of sessions says about the processes.      *)
(***************************************************************************)
EXTENDS RunnerSession, SequenceTheorems, WellFoundedInduction, TLAPS

\* The part of the type invariant that the arguments below rest on.
Types ==
    /\ life \in [Inc -> Life]
    /\ tracked \in Inc \cup {NoInc}
    /\ started \in 0..MaxStarts
    /\ loop \in LoopState
    /\ looked \subseteq 1..started

\* Processes are numbered in the order of their start.
NoneAhead == \A i \in Inc : i > started => life[i] = "none"

\* What livePID found out still holds when the process is spawned, but for a
\* terminal: only the loop itself could have spawned a process since, and a restart
\* ends the loop.
CheckHolds == loop.at = "checked" => (\A i \in Inc : ~Alive(i)) /\ term # "early"

IInv == Types /\ NoneAhead /\ CheckHolds /\ NoProcessEscapes /\ ResumesAlone

LEMMA IncIsNat == ASSUME NEW i \in Inc PROVE i \in Nat /\ i # NoInc /\ i <= MaxStarts
  BY SessionAssumption DEF Inc, NoInc

\* The loop's record as the actions build it.
LEMMA AtIsTyped ==
  ASSUME NEW i \in Inc \cup {NoInc}, NEW where \in Place
  PROVE  At(where, i) \in LoopState /\ At(where, i).at = where
  BY DEF At, LoopState, Kind

LEMMA FreeIsTyped == Free \in LoopState /\ Free.at = "free"
  BY AtIsTyped DEF Free, Place

LEMMA LockIsTyped ==
  ASSUME NEW i \in Inc \cup {NoInc}, NEW k \in Kind
  PROVE  LET l == [at |-> "lock", inc |-> i, kind |-> k]
         IN  l \in LoopState /\ l.at = "lock"
  BY DEF LoopState, Place

LEMMA InitIInv == Init => IInv
  <1> SUFFICES ASSUME Init PROVE IInv
    OBVIOUS
  <1> USE SessionAssumption DEF Init
  <1>1. Types
    BY FreeIsTyped DEF Types, Inc, NoInc, Life
  <1>2. NoneAhead /\ CheckHolds /\ NoProcessEscapes /\ ResumesAlone
    BY FreeIsTyped DEF NoneAhead, CheckHolds, NoProcessEscapes, ResumesAlone
  <1> QED BY <1>1, <1>2 DEF IInv

\* A step that touches neither the processes nor the map nor the terminal, and
\* after which the loop is typed and has not just checked, keeps the invariant.
LEMMA LoopOnly ==
  ASSUME IInv, UNCHANGED <<life, tracked, started, term, looked>>,
         \/ UNCHANGED loop
         \/ /\ loop' \in LoopState
            /\ loop'.at # "checked"
  PROVE  IInv'
  BY DEF IInv, Types, NoneAhead, CheckHolds, NoProcessEscapes, ResumesAlone, Alive

\* So does one after which no process lives that did not, while none is lost to the map.
LEMMA FewerLive ==
  ASSUME IInv, life' \in [Inc -> Life],
         \A i \in Inc : life[i] = "none" => life'[i] = "none",
         \A i \in Inc : Alive(i)' => Alive(i),
         \A i \in Inc : life'[i] \in {"up", "exited"} => tracked' = i,
         tracked' \in Inc \cup {NoInc}, UNCHANGED <<started, term, looked>>,
         UNCHANGED loop \/ loop' = Free
  PROVE  IInv'
  <1>1. Types' /\ NoneAhead'
    BY FreeIsTyped DEF IInv, Types, NoneAhead
  <1>2. CheckHolds' /\ NoProcessEscapes' /\ ResumesAlone'
    <2>1. CheckHolds' /\ NoProcessEscapes'
      BY FreeIsTyped DEF IInv, CheckHolds, NoProcessEscapes
    <2>2. ASSUME NEW i \in looked, i \in Inc, Alive(i)'
          PROVE  (\A j \in Inc : j < i => ~Alive(j)') /\ term' # "early"
      <3>1. (\A j \in Inc : j < i => ~Alive(j)) /\ term # "early"
        BY <2>2 DEF IInv, ResumesAlone
      <3> QED BY <3>1
    <2>3. looked \subseteq Inc
      BY SessionAssumption DEF IInv, Types, Inc
    <2> QED BY <2>1, <2>2, <2>3 DEF ResumesAlone
  <1> QED BY <1>1, <1>2 DEF IInv

\* A process that ends, by itself or killed, with the loop on its way or free.
LEMMA DeathKeepsIInv ==
  ASSUME IInv, NEW i \in Inc, life[i] \in {"up", "orphan"}, Dies(i),
         UNCHANGED <<tracked, started, term, looked>>, UNCHANGED loop \/ loop' = Free
  PROVE  IInv'
  <1>1. life \in [Inc -> Life] /\ life' = [life EXCEPT ![i] = IF life[i] = "up" THEN "exited" ELSE "gone"]
    BY DEF IInv, Types, Dies
  <1>2. life' \in [Inc -> Life] /\ tracked' \in Inc \cup {NoInc}
    BY <1>1 DEF Life, IInv, Types
  <1>3. ASSUME NEW j \in Inc
        PROVE  /\ (life[j] = "none" => life'[j] = "none")
               /\ (Alive(j)' => Alive(j))
               /\ (life'[j] \in {"up", "exited"} => tracked' = j)
    BY <1>1 DEF IInv, NoProcessEscapes, Alive
  <1> QED BY <1>2, <1>3, FewerLive

\* A process that is spawned is the youngest, and the only one if it was looked for.
LEMMA SpawnKeepsIInv ==
  ASSUME IInv, NEW args \in StartArgs, StartSpawns(args)
  PROVE  IInv'
  <1>1. started' = started + 1 /\ started' \in Inc /\ tracked' = started' /\ started \in Nat
    BY SessionAssumption DEF StartSpawns, IInv, Types, Inc
  <1>2. loop' \in LoopState /\ loop'.at = "launch"
    BY <1>1, AtIsTyped DEF StartSpawns, Place
  <1>3. /\ life' = [life EXCEPT ![started'] = "up"] /\ tracked = NoInc /\ term' = term
        /\ life \in [Inc -> Life]
        /\ looked' = IF Looks(args) THEN looked \cup {started'} ELSE looked
    BY DEF StartSpawns, IInv, Types
  <1>4. Types'
    BY <1>1, <1>2, <1>3, SessionAssumption DEF IInv, Types, Life, Inc
  <1>5. NoneAhead' /\ CheckHolds' /\ NoProcessEscapes'
    BY <1>1, <1>2, <1>3, IncIsNat
       DEF IInv, Types, NoneAhead, CheckHolds, NoProcessEscapes
  <1>6. ASSUME NEW i \in looked', i \in Inc, Alive(i)'
        PROVE  (\A j \in Inc : j < i => ~Alive(j)') /\ term' # "early"
    <2>1. CASE i = started'
      <3>1. i \notin looked
        BY <1>1, <2>1 DEF IInv, Types
      <3>2. Looks(args)
        BY <1>3, <1>6, <3>1
      <3>3. (\A j \in Inc : ~Alive(j)) /\ term # "early"
        BY <3>2 DEF IInv, CheckHolds, StartSpawns, MaySpawn
      <3> QED BY <1>1, <1>3, <2>1, <3>3, IncIsNat DEF Alive
    <2>2. CASE i # started'
      <3>1. i \in looked /\ Alive(i) /\ i <= started
        <4>1. i \in looked /\ Alive(i)
          BY <1>1, <1>3, <1>6, <2>2 DEF Alive
        <4> QED BY <4>1 DEF IInv, Types
      <3>2. (\A j \in Inc : j < i => ~Alive(j)) /\ term # "early"
        BY <1>6, <3>1 DEF IInv, ResumesAlone
      <3>3. \A j \in Inc : j < i => j # started'
        BY <1>1, <1>6, <3>1, IncIsNat
      <3>4. \A j \in Inc : j # started' => (Alive(j)' <=> Alive(j))
        BY <1>1, <1>3 DEF Alive
      <3> QED BY <1>3, <3>2, <3>3, <3>4
    <2> QED BY <2>1, <2>2
  <1>7. looked' \subseteq Inc
    BY <1>1, <1>3, SessionAssumption DEF IInv, Types, Inc
  <1>8. ResumesAlone'
    BY <1>6, <1>7 DEF ResumesAlone
  <1> QED BY <1>4, <1>5, <1>8 DEF IInv

LEMMA NextIInv == IInv /\ [Next]_vars => IInv'
  <1> SUFFICES ASSUME IInv, [Next]_vars PROVE IInv'
    OBVIOUS
  <1> USE DEF procVars, structVars, mapVars, threadVars, histVars
  <1>0. /\ loop \in LoopState /\ tracked \in Inc \cup {NoInc}
        /\ Free \in LoopState /\ Free.at = "free" /\ loop.inc \in Inc \cup {NoInc}
    BY FreeIsTyped DEF IInv, Types, LoopState
  <1>1. ASSUME NEW t \in Thread, Publish(t) PROVE IInv'
    BY <1>0, <1>1, LoopOnly DEF Publish, SetState, EmitState, Published
  <1>2. CASE LoopActs
    <2>1. CASE StartAgain \/ SpawnFails
      BY <1>0, <2>1, LoopOnly, AtIsTyped DEF StartAgain, SpawnFails, Place
    <2>2. CASE StartChecks
      <3>1. (\A i \in Inc : ~Alive(i)) /\ term # "early"
        BY <2>2, IncIsNat DEF StartChecks, LiveElsewhere
      <3>2. UNCHANGED <<life, tracked, started, term, looked>> /\ loop' \in LoopState
        BY <2>2, AtIsTyped DEF StartChecks, Place
      <3> QED BY <3>1, <3>2
            DEF IInv, Types, NoneAhead, CheckHolds, NoProcessEscapes, ResumesAlone, Alive
    <2>3. CASE LoopStops \/ LoopCloses
      BY <1>0, <2>3, LoopOnly, AtIsTyped DEF LoopStops, LoopCloses, Place
    <2>4. ASSUME NEW args \in StartArgs, StartSpawns(args) PROVE IInv'
      BY <2>4, SpawnKeepsIInv
    <2>5. CASE SendsPrompt \/ SetsEffort
      BY <1>0, <2>5, LoopOnly, LockIsTyped DEF SendsPrompt, SetsEffort, Kind
    <2>6. CASE TakesLock \/ Write \/ WriteFails
      <3>1. \A p \in {"write", "publish"} :
               [loop EXCEPT !.at = p] \in LoopState /\ [loop EXCEPT !.at = p].at = p
        BY <1>0 DEF LoopState, Place
      <3> QED BY <1>0, <2>6, <3>1, LoopOnly DEF TakesLock, Write, WriteFails
    <2> QED BY <1>2, <2>1, <2>2, <2>3, <2>4, <2>5, <2>6 DEF LoopActs
  <1>3. ASSUME NEW i \in Inc, AnswerWaits(i) PROVE IInv'
    BY <1>3, LoopOnly DEF AnswerWaits
  <1>4. CASE AnswerEnds
    BY <1>4, LoopOnly DEF AnswerEnds
  <1>5. CASE Reap
    BY <1>5, LoopOnly DEF Reap, ReaperLists, ReaperStops, ReaperCloses
  <1>6. ASSUME NEW i \in Inc, Stop(i) PROVE IInv'
    <2>1. CASE StopReturns(i)
      BY <1>0, <2>1, LoopOnly DEF StopReturns, Stopping
    <2>2. CASE StopKills(i) /\ life[i] = "up"
      BY <2>2, DeathKeepsIInv DEF StopKills, Stopping
    <2>3. CASE StopKills(i) /\ life[i] # "up"
      BY <1>0, <2>3, LoopOnly DEF StopKills, Stopping
    <2> QED BY <1>6, <2>1, <2>2, <2>3 DEF Stop
  <1>7. ASSUME NEW i \in Inc, Read(i) PROVE IInv'
    BY <1>7, LoopOnly DEF Read, ReadAssistant, ReadResult
  <1>8. ASSUME NEW i \in Inc, Wait(i) PROVE IInv'
    <2>0. life \in [Inc -> Life] /\ UNCHANGED <<started, term, looked, loop>>
      BY <1>8 DEF Wait, Waits, ClearsState, TellsStopped, IInv, Types
    <2>1. life' \in [Inc -> Life] /\ tracked' \in Inc \cup {NoInc}
      BY <1>0, <1>8, <2>0 DEF Wait, Waits, ClearsState, TellsStopped, Life
    <2>2. ASSUME NEW j \in Inc
          PROVE  /\ (life[j] = "none" => life'[j] = "none")
                 /\ (Alive(j)' => Alive(j))
                 /\ (life'[j] \in {"up", "exited"} => tracked' = j)
      \* The entry that leaves the map is this process's own.
      <3>1. CASE Waits(i)
        <4>1. tracked = i /\ life' = [life EXCEPT ![i] = "clear"]
          BY <3>1 DEF Waits, IInv, NoProcessEscapes
        <4> QED BY <2>0, <4>1, <3>1 DEF Waits, IInv, NoProcessEscapes, Alive
      <3>2. CASE ClearsState(i) \/ TellsStopped(i)
        BY <2>0, <3>2 DEF ClearsState, TellsStopped, IInv, NoProcessEscapes, Alive
      <3> QED BY <1>8, <3>1, <3>2 DEF Wait
    <2> QED BY <2>0, <2>1, <2>2, FewerLive
  <1>9. ASSUME NEW i \in Inc, Cli(i) PROVE IInv'
    <2>1. CASE CliExits(i)
      BY <2>1, DeathKeepsIInv DEF CliExits
    <2>2. CASE \/ CliSpeaks(i) \/ CliEndsTurn(i) \/ CliEndsOwnTurn(i)
               \/ CliStopsReading(i) \/ CliReadsOn(i)
      BY <2>2, LoopOnly DEF CliSpeaks, CliEndsTurn, CliEndsOwnTurn, CliStopsReading, CliReadsOn
    <2> QED BY <1>9, <2>1, <2>2 DEF Cli
  <1>10. CASE GetsOld
    BY <1>10, LoopOnly DEF GetsOld
  <1>11. CASE RunnerRestart
    <2>1. ASSUME NEW i \in Inc
          PROVE  /\ life'[i] \in {"orphan", "none", "gone"}
                 /\ (life[i] = "none" => life'[i] = "none")
                 /\ (life'[i] = "orphan" => life[i] \in {"up", "orphan"})
      BY <1>11 DEF RunnerRestart
    <2>2. life' \in [Inc -> Life]
      <3>1. life' = [i \in Inc |-> life'[i]]
        BY <1>11 DEF RunnerRestart
      <3> QED BY <2>1, <3>1 DEF Life
    <2>3. tracked' = NoInc /\ loop' = Free /\ UNCHANGED <<started, term, looked>>
      BY <1>11 DEF RunnerRestart
    <2> QED BY <2>1, <2>2, <2>3, FewerLive DEF Alive
  <1>12. CASE TermOpens \/ TermCloses
    \* A terminal that opens is early only if no resume has looked yet.
    <2>1. /\ UNCHANGED <<life, tracked, started, loop, looked>>
          /\ (term' = "early" => term = "early" \/ (loop.at # "checked" /\ \A i \in looked : ~Alive(i)))
      BY <1>12 DEF TermOpens, TermCloses
    <2> QED BY <2>1 DEF IInv, Types, NoneAhead, CheckHolds, NoProcessEscapes, ResumesAlone, Alive
  <1>13. CASE UNCHANGED vars
    BY <1>13, LoopOnly DEF vars
  <1> QED BY <1>1, <1>2, <1>3, <1>4, <1>5, <1>6, <1>7, <1>8, <1>9, <1>10, <1>11, <1>12, <1>13
        DEF Next

LEMMA Inductive == Spec => []IInv
  BY InitIInv, NextIInv, PTL DEF Spec

\* For any number of processes: as long as a process of this runner lives it is
\* the map's entry for its session, where stop, the reaper and StopAll find it.
THEOREM ProcessesAreTracked == Spec => []NoProcessEscapes
  <1>1. IInv => NoProcessEscapes
    BY DEF IInv
  <1> QED BY <1>1, Inductive, PTL

\* For any number of processes, restarts and terminals: livePID and the spawn are
\* far apart, and still a session that was resumed without allow_live has no older
\* process of any runner beside it, and no terminal but one opened after the look.
THEOREM ResumeIsSafe == Spec => []ResumesAlone
  <1>1. IInv => ResumesAlone
    BY DEF IInv
  <1> QED BY <1>1, Inductive, PTL
----
(***************************************************************************)
(* The types.                                                              *)
(***************************************************************************)
PubState == [inc : Inc \cup {NoInc}, state : State \cup {"stopped"}, next : {"none", "file", "event"}]
ReaperState == [at : {"free", "listed", "close", "stop"}, inc : Inc \cup {NoInc}, kind : Kind]

\* The variables but the two that are tied to each other.
PlainTypes ==
    /\ life \in [Inc -> Life] /\ stdin \in [Inc -> {"open", "full", "closed"}]
    /\ term \in {"closed", "early", "late"}
    /\ inbox \in [Inc -> Seq(Kind)]
    /\ pipe \in [Inc -> Seq(Frame)]
    /\ state \in [Inc -> State \cup {"stopped"}]
    /\ old \in BOOLEAN /\ turns \in [Inc -> Seq(Kind)]
    /\ tracked \in Inc \cup {NoInc} /\ started \in 0..MaxStarts
    /\ reaper \in ReaperState
    /\ answer \in Inc \cup {NoInc} /\ file \in Inc \cup {NoInc}
    /\ work \in 0..MaxWork
    /\ mixed \subseteq Inc /\ looked \subseteq Inc

\* The loop is in setState, or waits for the one of a start, exactly while it publishes.
LoopPublishes ==
    /\ pub \in [Thread -> PubState]
    /\ loop \in LoopState
    /\ loop.at \in {"launch", "publish"} <=> pub[Loop] # NoPub

LEMMA TypeOKParts == TypeOK <=> PlainTypes /\ LoopPublishes
  BY DEF TypeOK, PlainTypes, LoopPublishes, PubState, ReaperState

\* What a thread is about to publish, and where the reaper stands.
LEMMA PubIsTyped ==
  ASSUME NEW i \in Inc \cup {NoInc}, NEW st \in State \cup {"stopped"}
  PROVE  Pub(i, st) \in PubState /\ Pub(i, st) # NoPub /\ NoPub \in PubState
  BY DEF Pub, PubState, NoPub, State

LEMMA ReaperIsTyped ==
  ASSUME NEW i \in Inc \cup {NoInc}, NEW where \in {"free", "listed", "close", "stop"}
  PROVE  At(where, i) \in ReaperState
  BY DEF At, Kind, ReaperState

LEMMA FreeReaper == Free \in ReaperState
  BY ReaperIsTyped DEF Free

\* A queue of turns that grows or loses an end is a queue of turns.
LEMMA QueuesStay ==
  ASSUME NEW S, NEW q \in Seq(S), NEW e \in S
  PROVE  /\ Append(q, e) \in Seq(S)
         /\ q # <<>> => Tail(q) \in Seq(S) /\ Head(q) \in S
         /\ Pop(q) \in Seq(S) /\ DropLast(q) \in Seq(S)
         /\ \A n \in 0..Len(q) : SubSeq(q, 1, n) \in Seq(S)
  <1>1. ASSUME NEW n \in 0..Len(q) PROVE SubSeq(q, 1, n) \in Seq(S)
    OBVIOUS
  <1>2. q # <<>> => Len(q) - 1 \in 0..Len(q)
    OBVIOUS
  <1>3. DropLast(q) \in Seq(S)
    BY <1>1, <1>2 DEF DropLast
  <1> QED BY <1>1, <1>3 DEF Pop

\* Nothing but the loop's own record and the loop's own setState is in the tie.
LEMMA OthersPublish ==
  ASSUME LoopPublishes, UNCHANGED loop, NEW i \in Inc, NEW p \in PubState,
         pub' = [pub EXCEPT ![i] = p]
  PROVE  LoopPublishes'
  BY IncIsNat DEF LoopPublishes, Thread, Loop, NoInc

LEMMA InitTypeOK == Init => TypeOK
  <1> SUFFICES ASSUME Init PROVE TypeOK
    OBVIOUS
  <1>1. PlainTypes
    <2>1. <<>> \in Seq(Kind) /\ <<>> \in Seq(Frame)
      OBVIOUS
    <2>2. inbox \in [Inc -> Seq(Kind)] /\ pipe \in [Inc -> Seq(Frame)] /\ turns \in [Inc -> Seq(Kind)]
      BY <2>1 DEF Init
    <2>3. reaper \in ReaperState
      BY FreeReaper DEF Init
    <2>4. started \in 0..MaxStarts /\ work \in 0..MaxWork
      BY SessionAssumption DEF Init
    <2> QED BY <2>2, <2>3, <2>4 DEF Init, PlainTypes, Life, State
  <1>2. LoopPublishes
    BY PubIsTyped, FreeIsTyped DEF Init, LoopPublishes, Thread, Loop, State, NoInc
  <1> QED BY <1>1, <1>2, TypeOKParts

LEMMA NextTypeOK == TypeOK /\ [Next]_vars => TypeOK'
  <1> SUFFICES ASSUME PlainTypes, LoopPublishes, [Next]_vars PROVE PlainTypes' /\ LoopPublishes'
    BY TypeOKParts DEF TypeOK, PlainTypes, LoopPublishes, PubState, ReaperState
  <1> USE DEF procVars, structVars, mapVars, threadVars, histVars
  <1>0. /\ loop \in LoopState /\ Free \in LoopState /\ Free.at = "free" /\ NoPub \in PubState
        /\ tracked \in Inc \cup {NoInc} /\ loop.inc \in Inc \cup {NoInc}
        /\ Loop \in Thread /\ \A i \in Inc : i \in Thread /\ i # Loop
    BY FreeIsTyped, PubIsTyped, IncIsNat DEF PlainTypes, LoopPublishes, LoopState, Thread, Loop, State, NoInc
  <1>1. ASSUME NEW t \in Thread, SetState(t) PROVE PlainTypes' /\ LoopPublishes'
    <2>1. pub[t] \in PubState /\ pub[t].next = "file"
      BY <1>1 DEF SetState, LoopPublishes
    <2>2. PlainTypes'
      BY <1>1, <2>1 DEF SetState, PlainTypes, PubState
    <2>3. LoopPublishes'
      <3>1. [pub[t] EXCEPT !.next = "event"] \in PubState /\ [pub[t] EXCEPT !.next = "event"] # NoPub /\ pub[t] # NoPub
        BY <2>1 DEF PubState, NoPub
      <3>2. pub' = [pub EXCEPT ![t] = [pub[t] EXCEPT !.next = "event"]] /\ loop' = loop
        BY <1>1 DEF SetState
      <3> QED BY <3>1, <3>2 DEF LoopPublishes
    <2> QED BY <2>2, <2>3
  <1>2. ASSUME NEW t \in Thread, EmitState(t) PROVE PlainTypes' /\ LoopPublishes'
    <2>1. PlainTypes'
      BY <1>2 DEF EmitState, PlainTypes
    <2>2. LoopPublishes'
      BY <1>0, <1>2 DEF EmitState, Published, LoopPublishes
    <2> QED BY <2>1, <2>2
  <1>3. CASE LoopActs
    <2>1. CASE StartAgain
      <3>1. Pub(tracked, state[tracked]) \in PubState /\ Pub(tracked, state[tracked]) # NoPub
        BY <2>1, PubIsTyped DEF StartAgain, PlainTypes
      <3> QED BY <1>0, <2>1, <3>1, AtIsTyped DEF StartAgain, PlainTypes, LoopPublishes, Place
    <2>2. CASE StartChecks \/ SpawnFails
      BY <1>0, <2>2, AtIsTyped DEF StartChecks, SpawnFails, PlainTypes, LoopPublishes, Place
    <2>3. CASE LoopStops \/ LoopCloses
      <3>1. \A w \in {"close", "stop"}, i \in Inc \cup {NoInc} :
               At(w, i) \in LoopState /\ At(w, i).at = w
        BY <1>0, AtIsTyped DEF Place
      <3>2. PlainTypes'
        BY <2>3 DEF LoopStops, LoopCloses, Close, PlainTypes
      <3>3. LoopPublishes'
        BY <1>0, <2>3, <3>1 DEF LoopStops, LoopCloses, LoopPublishes
      <3> QED BY <3>2, <3>3
    <2>4. ASSUME NEW args \in StartArgs, StartSpawns(args) PROVE PlainTypes' /\ LoopPublishes'
      <3>1. started' = started + 1 /\ started' \in Inc /\ tracked' = started' /\ started' \in 0..MaxStarts
        BY <2>4, SessionAssumption DEF StartSpawns, PlainTypes, Inc
      <3>2. Pub(started', "idle") \in PubState /\ Pub(started', "idle") # NoPub
        BY <3>1, PubIsTyped DEF State
      <3>3. At("launch", started') \in LoopState /\ At("launch", started').at = "launch"
        BY <3>1, AtIsTyped DEF Place
      <3>4. PlainTypes'
        <4>1. work' \in 0..MaxWork
          BY <2>4, SessionAssumption DEF StartSpawns, PlainTypes, WorkLeft
        <4>2. life' \in [Inc -> Life] /\ looked' \subseteq Inc
          BY <2>4, <3>1 DEF StartSpawns, PlainTypes, Life
        <4> QED BY <2>4, <3>1, <4>1, <4>2 DEF StartSpawns, PlainTypes
      <3>5. LoopPublishes'
        BY <1>0, <2>4, <3>2, <3>3 DEF StartSpawns, LoopPublishes
      <3> QED BY <3>4, <3>5
    <2>5. CASE SendsPrompt
      <3>1. "prompt" \in Kind
        BY DEF Kind
      <3>2. PlainTypes'
        BY <2>5, SessionAssumption DEF SendsPrompt, PlainTypes, WorkLeft
      <3>3. LoopPublishes'
        BY <1>0, <2>5, <3>1, LockIsTyped DEF SendsPrompt, LoopPublishes
      <3> QED BY <3>2, <3>3
    <2>6. CASE SetsEffort
      <3>1. "command" \in Kind /\ tracked \in Inc
        BY <1>0, <2>6 DEF SetsEffort, Kind
      <3>2. Append(turns[tracked], "command") \in Seq(Kind)
        BY <3>1 DEF PlainTypes
      <3>3. PlainTypes'
        BY <2>6, <3>2, SessionAssumption DEF SetsEffort, Pushes, PlainTypes, WorkLeft
      <3>4. LoopPublishes'
        BY <1>0, <2>6, <3>1, LockIsTyped DEF SetsEffort, LoopPublishes
      <3> QED BY <3>3, <3>4
    <2>7. CASE TakesLock
      <3>1. [loop EXCEPT !.at = "write"] \in LoopState /\ [loop EXCEPT !.at = "write"].at = "write"
        BY <1>0 DEF LoopState, Place
      <3>2. \A i \in Inc : Append(turns[i], "prompt") \in Seq(Kind)
        BY DEF PlainTypes, Kind
      <3>3. PlainTypes'
        <4>1. turns' \in [Inc -> Seq(Kind)]
          <5>1. CASE loop.kind = "prompt"
            <6>1. turns' = [turns EXCEPT ![loop.inc] = Append(@, "prompt")]
              BY <2>7, <5>1 DEF TakesLock, Pushes
            <6>2. turns \in [Inc -> Seq(Kind)]
              BY DEF PlainTypes
            <6> QED BY <3>2, <6>1, <6>2
          <5>2. CASE loop.kind # "prompt"
            BY <2>7, <5>2 DEF TakesLock, PlainTypes
          <5> QED BY <5>1, <5>2
        <4> QED BY <2>7, <4>1 DEF TakesLock, PlainTypes
      <3>4. LoopPublishes'
        BY <1>0, <2>7, <3>1 DEF TakesLock, LoopPublishes
      <3> QED BY <3>3, <3>4
    <2>8. CASE Write
      <3>1. loop.kind \in Kind /\ loop.inc \in Inc \cup {NoInc}
        BY <1>0 DEF LoopState
      <3>2. \A i \in Inc : Append(inbox[i], loop.kind) \in Seq(Kind)
        BY <3>1 DEF PlainTypes
      <3>3. PlainTypes'
        BY <2>8, <3>2 DEF Write, PlainTypes
      <3>4. Pub(loop.inc, "busy") \in PubState /\ Pub(loop.inc, "busy") # NoPub
        BY <1>0, PubIsTyped DEF State
      <3>5. [loop EXCEPT !.at = "publish"] \in LoopState /\ [loop EXCEPT !.at = "publish"].at = "publish"
        BY <1>0 DEF LoopState, Place
      <3>6. CASE loop.kind = "prompt"
        BY <1>0, <2>8, <3>3, <3>4, <3>5, <3>6 DEF Write, LoopPublishes
      <3>7. CASE loop.kind # "prompt"
        BY <1>0, <2>8, <3>3, <3>7 DEF Write, LoopPublishes
      <3> QED BY <3>6, <3>7
    <2>9. CASE WriteFails
      <3>1. \A i \in Inc : DropLast(turns[i]) \in Seq(Kind)
        BY QueuesStay DEF PlainTypes, Kind
      <3> QED BY <1>0, <2>9, <3>1 DEF WriteFails, PlainTypes, LoopPublishes
    <2> QED BY <1>3, <2>1, <2>2, <2>3, <2>4, <2>5, <2>6, <2>7, <2>8, <2>9 DEF LoopActs
  <1>4. ASSUME NEW i \in Inc, AnswerWaits(i) PROVE PlainTypes' /\ LoopPublishes'
    BY <1>4 DEF AnswerWaits, PlainTypes, LoopPublishes
  <1>5. CASE AnswerEnds
    BY <1>5 DEF AnswerEnds, PlainTypes, LoopPublishes
  <1>6. CASE Reap
    <2>1. UNCHANGED <<pub, loop>>
      BY <1>6 DEF Reap, ReaperLists, ReaperStops, ReaperCloses
    <2>2. LoopPublishes'
      BY <2>1 DEF LoopPublishes
    <2>3. CASE ReaperLists \/ ReaperStops
      <3>1. reaper' \in ReaperState
        BY <1>0, <2>3, ReaperIsTyped, FreeReaper DEF ReaperLists, ReaperStops
      <3> QED BY <2>2, <2>3, <3>1 DEF ReaperLists, ReaperStops, PlainTypes
    <2>4. CASE ReaperCloses
      <3>1. reaper.inc \in Inc \cup {NoInc}
        BY DEF PlainTypes, ReaperState
      <3> QED BY <2>2, <2>4, <3>1, ReaperIsTyped DEF ReaperCloses, Close, PlainTypes
    <2> QED BY <1>6, <2>3, <2>4 DEF Reap
  <1>7. ASSUME NEW i \in Inc, Stop(i) PROVE PlainTypes' /\ LoopPublishes'
    <2>1. LoopPublishes'
      BY <1>0, <1>7 DEF Stop, StopReturns, StopKills, Stopping, LoopPublishes
    <2>2. reaper' \in ReaperState
      BY <1>7, FreeReaper DEF Stop, StopReturns, StopKills, Stopping, PlainTypes
    <2>3. CASE StopReturns(i)
      <3>1. UNCHANGED <<life, stdin, inbox, pipe, term, state, old, turns, tracked, started, answer, file,
                         work, mixed, looked>>
        BY <2>3 DEF StopReturns
      <3> QED BY <2>1, <2>2, <3>1 DEF PlainTypes
    <2>4. CASE StopKills(i)
      <3>1. UNCHANGED <<pipe, term, state, old, turns, tracked, started, answer, file, work, mixed, looked>>
        BY <2>4 DEF StopKills
      <3>2. life' \in [Inc -> Life] /\ inbox' \in [Inc -> Seq(Kind)] /\ stdin' \in [Inc -> {"open", "full", "closed"}]
        <4>1. life \in [Inc -> Life] /\ inbox \in [Inc -> Seq(Kind)] /\ stdin \in [Inc -> {"open", "full", "closed"}]
          BY DEF PlainTypes
        <4>2. CASE life[i] = "up"
          <5>1. /\ life' = [life EXCEPT ![i] = IF life[i] = "up" THEN "exited" ELSE "gone"]
                /\ inbox' = [inbox EXCEPT ![i] = <<>>] /\ stdin' = [stdin EXCEPT ![i] = "closed"]
            BY <2>4, <4>2 DEF StopKills, Dies, Close
          <5>2. "exited" \in Life /\ "gone" \in Life /\ <<>> \in Seq(Kind)
            BY DEF Life
          <5> QED BY <4>1, <5>1, <5>2
        <4>3. CASE life[i] # "up"
          BY <2>4, <4>1, <4>3 DEF StopKills
        <4> QED BY <4>2, <4>3
      <3> QED BY <2>1, <2>2, <3>1, <3>2 DEF PlainTypes
    <2> QED BY <1>7, <2>1, <2>3, <2>4 DEF Stop
  <1>8. ASSUME NEW i \in Inc, Read(i) PROVE PlainTypes' /\ LoopPublishes'
    <2>1. pipe' = [pipe EXCEPT ![i] = Tail(@)] /\ pipe[i] # <<>> /\ UNCHANGED loop
      BY <1>8 DEF Read, ReadAssistant, ReadResult, Reads
    <2>2. pipe' \in [Inc -> Seq(Frame)]
      BY <2>1 DEF PlainTypes
    <2>3. Pub(i, "busy") \in PubState /\ Pub(i, "idle") \in PubState
      BY PubIsTyped DEF State
    <2>4. CASE ReadAssistant(i)
      <3>1. LoopPublishes'
        BY <1>0, <2>1, <2>3, <2>4, OthersPublish DEF ReadAssistant, LoopPublishes
      <3> QED BY <2>2, <2>4, <3>1 DEF ReadAssistant, PlainTypes
    <2>5. CASE ReadResult(i)
      <3>1. LoopPublishes'
        BY <2>1, <2>3, <2>5, OthersPublish DEF ReadResult
      <3>2. Pop(turns[i]) \in Seq(Kind)
        BY QueuesStay DEF PlainTypes, Kind
      <3> QED BY <2>2, <2>5, <3>1, <3>2 DEF ReadResult, PlainTypes
    <2> QED BY <1>8, <2>4, <2>5 DEF Read
  <1>9. ASSUME NEW i \in Inc, Wait(i) PROVE PlainTypes' /\ LoopPublishes'
    <2>1. LoopPublishes'
      BY <1>9 DEF Wait, Waits, ClearsState, TellsStopped, LoopPublishes
    <2>2. CASE Waits(i)
      <3>1. PICK n \in 0..Len(pipe[i]) : pipe' = [pipe EXCEPT ![i] = SubSeq(@, 1, n)]
        BY <2>2 DEF Waits
      <3>2. SubSeq(pipe[i], 1, n) \in Seq(Frame)
        BY DEF PlainTypes
      <3> QED BY <2>1, <2>2, <3>1, <3>2 DEF Waits, PlainTypes, Life
    <2>3. CASE ClearsState(i) \/ TellsStopped(i)
      BY <2>1, <2>3 DEF ClearsState, TellsStopped, PlainTypes, Life
    <2> QED BY <1>9, <2>2, <2>3 DEF Wait
  <1>10. ASSUME NEW i \in Inc, Cli(i) PROVE PlainTypes' /\ LoopPublishes'
    <2>1. LoopPublishes'
      BY <1>10 DEF Cli, CliSpeaks, CliEndsTurn, CliEndsOwnTurn, CliStopsReading, CliReadsOn, CliExits,
                   LoopPublishes
    <2>2. CASE CliSpeaks(i)
      BY <2>1, <2>2 DEF CliSpeaks, PlainTypes, Frame
    <2>3. CASE CliEndsTurn(i)
      <3>1. Head(inbox[i]) \in Kind /\ Tail(inbox[i]) \in Seq(Kind)
        BY <2>3 DEF CliEndsTurn, PlainTypes
      <3>2. Append(pipe[i], Head(inbox[i])) \in Seq(Frame)
        BY <3>1 DEF PlainTypes, Frame
      <3> QED BY <2>1, <2>3, <3>1, <3>2 DEF CliEndsTurn, PlainTypes
    <2>4. CASE CliEndsOwnTurn(i)
      <3>1. Append(pipe[i], "own") \in Seq(Frame)
        BY DEF PlainTypes, Frame
      <3> QED BY <2>1, <2>4, <3>1, SessionAssumption DEF CliEndsOwnTurn, WorkLeft, PlainTypes
    <2>5. CASE CliExits(i)
      BY <2>1, <2>5 DEF CliExits, Dies, Close, PlainTypes, Life
    <2>6. CASE CliStopsReading(i) \/ CliReadsOn(i)
      <3>1. work' \in 0..MaxWork
        BY <2>6, SessionAssumption DEF CliStopsReading, CliReadsOn, WorkLeft, PlainTypes
      <3>2. stdin' \in [Inc -> {"open", "full", "closed"}]
        BY <2>6 DEF CliStopsReading, CliReadsOn, PlainTypes
      <3> QED BY <2>1, <2>6, <3>1, <3>2 DEF CliStopsReading, CliReadsOn, PlainTypes
    <2> QED BY <1>10, <2>2, <2>3, <2>4, <2>5, <2>6 DEF Cli
  <1>11. CASE GetsOld
    BY <1>11 DEF GetsOld, PlainTypes, LoopPublishes
  <1>12. CASE RunnerRestart
    <2>1. ASSUME NEW i \in Inc PROVE life'[i] \in Life
      BY <1>12 DEF RunnerRestart, PlainTypes, Life
    <2>2. life' \in [Inc -> Life]
      BY <1>12, <2>1 DEF RunnerRestart
    <2>3. PlainTypes'
      <3>1. work' \in 0..MaxWork
        BY <1>12, SessionAssumption DEF RunnerRestart, PlainTypes, WorkLeft
      <3>2. reaper' \in ReaperState
        BY <1>12, FreeReaper DEF RunnerRestart
      <3>3. /\ inbox' \in [Inc -> Seq(Kind)] /\ pipe' \in [Inc -> Seq(Frame)]
            /\ turns' \in [Inc -> Seq(Kind)]
        BY <1>12 DEF RunnerRestart
      <3> QED BY <1>12, <2>2, <3>1, <3>2, <3>3 DEF RunnerRestart, PlainTypes, State
    <2>4. LoopPublishes'
      BY <1>0, <1>12 DEF RunnerRestart, LoopPublishes
    <2> QED BY <2>3, <2>4
  <1>13. CASE TermOpens \/ TermCloses
    BY <1>13, SessionAssumption DEF TermOpens, TermCloses, WorkLeft, PlainTypes, LoopPublishes
  <1>14. CASE UNCHANGED vars
    BY <1>14 DEF vars, PlainTypes, LoopPublishes
  <1> QED BY <1>1, <1>2, <1>3, <1>4, <1>5, <1>6, <1>7, <1>8, <1>9, <1>10, <1>11, <1>12, <1>13, <1>14
        DEF Next, Publish

\* For any number of processes and any amount of work: every variable keeps its
\* type, and the loop is at "publish" exactly as long as its setState is not over.
THEOREM TypeCorrect == Spec => []TypeOK
  BY InitTypeOK, NextTypeOK, PTL DEF Spec

----
(***************************************************************************)
(* The results in a sequence of frames.                                    *)
(***************************************************************************)
\* Induction, from the least element of a set of naturals, and the folds it gives.
LEMMA Induction ==
  ASSUME NEW S, 0 \in S, \A n \in Nat : n \in S => n + 1 \in S
  PROVE  Nat \subseteq S
<1> DEFINE T == Nat \ S
           R == {ss \in Nat \X Nat : ss[1] < ss[2]}
<1> SUFFICES ASSUME T # {} PROVE FALSE
  OBVIOUS
<1>1. IsWellFoundedOn(R, Nat)
  BY NatLessThanWellFounded, SMT DEF OpToRel
<1>2. PICK x \in T : \A y \in T : ~ (<<y, x>> \in R)
  <2> HIDE DEF R
  <2> QED BY <1>1, WFMin, Zenon
<1>3. x - 1 \in Nat /\ x - 1 < x /\ (x - 1) + 1 = x
  OBVIOUS
<1> QED BY <1>2, <1>3

Steps(W, N) == [W \X (1..N) -> W]
IsFold(f, W, a, N, step) == f \in [0..N -> W] /\ f[0] = a /\ \A i \in 1..N : f[i] = step[<<f[i - 1], i>>]

\* There is a fold of any step over any number of lines.
LEMMA FoldExists ==
  ASSUME NEW W, NEW a \in W, NEW N \in Nat, NEW step \in Steps(W, N)
  PROVE  \E f : IsFold(f, W, a, N, step)
<1> USE DEF Steps
<1> DEFINE Folds(f, n) == f[0] = a /\ \A i \in 1..n : f[i] = step[<<f[i - 1], i>>]
           S == {n \in Nat : n <= N => \E f \in [0..n -> W] : Folds(f, n)}
<1>1. 0 \in S
  <2>1. Folds([i \in 0..0 |-> a], 0) /\ [i \in 0..0 |-> a] \in [0..0 -> W]
    OBVIOUS
  <2> QED BY <2>1
<1>2. ASSUME NEW n \in Nat, n \in S PROVE n + 1 \in S
  <2> SUFFICES ASSUME n + 1 <= N PROVE \E f \in [0..(n + 1) -> W] : Folds(f, n + 1)
    OBVIOUS
  <2>1. PICK f \in [0..n -> W] : Folds(f, n)
    BY <1>2
  <2> DEFINE h == [i \in 0..(n + 1) |-> IF i = n + 1 THEN step[<<f[n], n + 1>>] ELSE f[i]]
  <2>2. f[n] \in W /\ n + 1 \in 1..N
    OBVIOUS
  <2>3. h \in [0..(n + 1) -> W]
    BY <2>2
  <2>4. h[0] = a
    BY <2>1
  <2>5. ASSUME NEW i \in 1..(n + 1) PROVE h[i] = step[<<h[i - 1], i>>]
    <3>1. CASE i = n + 1
      <4>1. h[n] = f[n] /\ i - 1 = n /\ h[i] = step[<<f[n], n + 1>>]
        BY <3>1
      <4> QED BY <3>1, <4>1
    <3>2. CASE i # n + 1
      <4>1. i \in 1..n /\ h[i] = f[i] /\ h[i - 1] = f[i - 1]
        BY <3>2
      <4> QED BY <2>1, <4>1
    <3> QED BY <3>1, <3>2
  <2> HIDE DEF h
  <2> QED BY <2>3, <2>4, <2>5
<1> HIDE DEF S
<1>3. N \in S
  BY <1>1, <1>2, Induction
<1> QED BY <1>3 DEF S, IsFold


\* Induction up to a bound.
LEMMA UpTo ==
  ASSUME NEW N \in Nat, NEW S, 0 \in S, \A n \in 0..(N - 1) : n \in S => n + 1 \in S
  PROVE  \A n \in 0..N : n \in S
<1> DEFINE U == {n \in Nat : n <= N => n \in S}
<1>1. 0 \in U
  OBVIOUS
<1>2. ASSUME NEW n \in Nat, n \in U PROVE n + 1 \in U
  BY <1>2
<1> HIDE DEF U
<1>3. Nat \subseteq U
  BY <1>1, <1>2, Induction
<1> QED BY <1>3 DEF U

\* f holds, for each length, the results among the first frames of q.
Selects(f, q) ==
    /\ f[0] = <<>>
    /\ \A n \in 1..Len(q) : f[n] = IF q[n] \in Kind THEN Append(f[n - 1], q[n]) ELSE f[n - 1]

LEMMA ResultsSelect ==
  ASSUME NEW q \in Seq(Frame)
  PROVE  \E f : Selects(f, q) /\ Results(q) = f[Len(q)]
<1> DEFINE N == Len(q)
           W == Seq(Kind)
           F(f) == [n \in 0..N |-> IF n = 0 THEN <<>>
                                   ELSE IF q[n] \in Kind THEN Append(f[n - 1], q[n]) ELSE f[n - 1]]
           c == CHOOSE f : f = F(f)
           step == [p \in W \X (1..N) |-> IF q[p[2]] \in Kind THEN Append(p[1], q[p[2]]) ELSE p[1]]
<1>1. N \in Nat
  OBVIOUS
<1>2. step \in Steps(W, N)
  <2>1. ASSUME NEW p \in W \X (1..N)
        PROVE  (IF q[p[2]] \in Kind THEN Append(p[1], q[p[2]]) ELSE p[1]) \in W
    OBVIOUS
  <2> QED BY <2>1 DEF Steps
<1>3. \E f : IsFold(f, W, <<>>, N, step)
  <2>1. <<>> \in W
    OBVIOUS
  <2> HIDE DEF W, N, step
  <2> QED BY <1>1, <1>2, <2>1, FoldExists
<1>4. PICK f : IsFold(f, W, <<>>, N, step)
  BY <1>3
<1>5. f \in [0..N -> W] /\ f[0] = <<>> /\ \A i \in 1..N : f[i] = step[<<f[i - 1], i>>]
  BY <1>4, Zenon DEF IsFold
<1>6. \A i \in 1..N : f[i] = IF q[i] \in Kind THEN Append(f[i - 1], q[i]) ELSE f[i - 1]
  <2> TAKE i \in 1..N
  <2>1. i - 1 \in 0..N
    OBVIOUS
  <2>2. f[i - 1] \in W
    BY <1>5, <2>1
  <2> QED BY <1>5, <2>2
<1> HIDE DEF step, W
<1>7. f = F(f)
  <2>1. ASSUME NEW n \in 0..N PROVE f[n] = F(f)[n]
    <3>1. CASE n = 0
      BY <1>5, <3>1
    <3>2. CASE n # 0
      <4>1. n \in 1..N
        BY <1>1, <3>2
      <4> QED BY <1>6, <3>2, <4>1
    <3> QED BY <3>1, <3>2
  <2>2. f = [n \in 0..N |-> f[n]] /\ F(f) = [n \in 0..N |-> F(f)[n]]
    BY <1>5
  <2> HIDE DEF F
  <2> QED BY <2>1, <2>2
<1>8. c = F(c)
  <2> HIDE DEF F
  <2> QED BY <1>7
<1>9. Results(q) = c[N]
  BY Zenon DEF Results
<1>10. Selects(c, q)
  <2> HIDE DEF c
  <2>1. c[0] = <<>>
    BY <1>1, <1>8
  <2>2. \A n \in 1..N : c[n] = IF q[n] \in Kind THEN Append(c[n - 1], q[n]) ELSE c[n - 1]
    <3> TAKE n \in 1..N
    <3>1. n \in 0..N /\ n # 0
      BY <1>1
    <3> QED BY <1>8, <3>1
  <2> QED BY <2>1, <2>2 DEF Selects
<1> QED BY <1>9, <1>10

\* Each length of a sequence of frames has a sequence of turns.
LEMMA SelectsTurns ==
  ASSUME NEW q \in Seq(Frame), NEW f, Selects(f, q)
  PROVE  \A n \in 0..Len(q) : f[n] \in Seq(Kind)
<1> DEFINE S == {n \in 0..Len(q) : f[n] \in Seq(Kind)}
<1>0. Len(q) \in Nat /\ <<>> \in Seq(Kind)
  OBVIOUS
<1>1. 0 \in S
  <2>1. f[0] = <<>>
    BY DEF Selects
  <2>2. 0 \in 0..Len(q)
    BY <1>0
  <2> QED BY <1>0, <2>1, <2>2, Zenon
<1>2. ASSUME NEW n \in 0..(Len(q) - 1), n \in S PROVE n + 1 \in S
  <2>1. n + 1 \in 1..Len(q) /\ (n + 1) - 1 = n
    OBVIOUS
  <2>2. f[n + 1] = IF q[n + 1] \in Kind THEN Append(f[n], q[n + 1]) ELSE f[n]
    BY <2>1 DEF Selects
  <2>3. f[n] \in Seq(Kind) /\ n + 1 \in 0..Len(q)
    BY <1>0, <1>2
  <2>4. q[n + 1] \in Kind => Append(f[n], q[n + 1]) \in Seq(Kind)
    BY <2>3
  <2> QED BY <2>2, <2>3, <2>4
<1>4. \A n \in 0..Len(q) : n \in S
  <2> HIDE DEF S
  <2> QED BY <1>0, <1>1, <1>2, UpTo
<1> QED BY <1>4

\* What is appended to the second sequence comes last.
LEMMA TurnsJoin ==
  ASSUME NEW a \in Seq(Kind), NEW b \in Seq(Kind), NEW k \in Kind
  PROVE  Append(a \o b, k) = a \o Append(b, k)
<1>1. <<k>> \in Seq(Kind) /\ a \o b \in Seq(Kind)
  OBVIOUS
<1>2. Append(a \o b, k) = (a \o b) \o <<k>> /\ Append(b, k) = b \o <<k>>
  BY <1>1, AppendIsConcat
<1>3. (a \o b) \o <<k>> = a \o (b \o <<k>>)
  BY <1>1, ConcatAssociative
<1> QED BY <1>2, <1>3

\* The results of one sequence after another are those of the one, then those
\* of the other.
LEMMA ResultsJoin ==
  ASSUME NEW s \in Seq(Frame), NEW t \in Seq(Frame)
  PROVE  Results(s \o t) = Results(s) \o Results(t)
<1>1. PICK f : Selects(f, s) /\ Results(s) = f[Len(s)]
  BY ResultsSelect
<1>2. PICK g : Selects(g, t) /\ Results(t) = g[Len(t)]
  BY ResultsSelect
<1>3. PICK h : Selects(h, s \o t) /\ Results(s \o t) = h[Len(s \o t)]
  <2>1. s \o t \in Seq(Frame)
    OBVIOUS
  <2> QED BY <2>1, ResultsSelect
<1>4. /\ Len(s) \in Nat /\ Len(t) \in Nat /\ Len(s \o t) = Len(s) + Len(t)
      /\ \A n \in 1..Len(s) : (s \o t)[n] = s[n]
      /\ \A n \in 1..Len(t) : (s \o t)[Len(s) + n] = t[n]
  OBVIOUS
<1> DEFINE S == {n \in 0..Len(s) : h[n] = f[n]}
<1>5. \A n \in 0..Len(s) : n \in S
  <2>1. 0 \in S
    BY <1>1, <1>3, <1>4 DEF Selects
  <2>2. ASSUME NEW n \in 0..(Len(s) - 1), n \in S PROVE n + 1 \in S
    <3>1. n + 1 \in 1..Len(s) /\ n + 1 \in 1..Len(s \o t) /\ (n + 1) - 1 = n
      BY <1>4
    <3>2. /\ f[n + 1] = IF s[n + 1] \in Kind THEN Append(f[n], s[n + 1]) ELSE f[n]
          /\ h[n + 1] = IF (s \o t)[n + 1] \in Kind THEN Append(h[n], (s \o t)[n + 1]) ELSE h[n]
      BY <1>1, <1>3, <3>1 DEF Selects
    <3>3. (s \o t)[n + 1] = s[n + 1]
      BY <1>4, <3>1
    <3> QED BY <2>2, <3>1, <3>2, <3>3
  <2> HIDE DEF S
  <2> QED BY <1>4, <2>1, <2>2, UpTo
<1> DEFINE U == {n \in 0..Len(t) : h[Len(s) + n] = f[Len(s)] \o g[n]}
<1>6. \A n \in 0..Len(t) : n \in U
  <2>0. /\ f[Len(s)] \in Seq(Kind) /\ \A n \in 0..Len(t) : g[n] \in Seq(Kind)
        /\ h[Len(s)] = f[Len(s)]
    BY <1>1, <1>2, <1>4, <1>5, SelectsTurns
  <2>1. 0 \in U
    <3>1. g[0] = <<>>
      BY <1>2 DEF Selects
    <3>2. f[Len(s)] \o <<>> = f[Len(s)]
      BY <2>0, ConcatEmptySeq
    <3>3. Len(s) + 0 = Len(s) /\ 0 \in 0..Len(t)
      BY <1>4
    <3> QED BY <2>0, <3>1, <3>2, <3>3
  <2>2. ASSUME NEW n \in 0..(Len(t) - 1), n \in U PROVE n + 1 \in U
    <3>1. /\ n + 1 \in 1..Len(t) /\ (n + 1) - 1 = n /\ n \in 0..Len(t) /\ n + 1 \in 0..Len(t)
          /\ Len(s) + (n + 1) \in 1..Len(s \o t) /\ (Len(s) + (n + 1)) - 1 = Len(s) + n
      BY <1>4
    <3>2. /\ g[n + 1] = IF t[n + 1] \in Kind THEN Append(g[n], t[n + 1]) ELSE g[n]
          /\ h[Len(s) + (n + 1)] = IF (s \o t)[Len(s) + (n + 1)] \in Kind
                                   THEN Append(h[Len(s) + n], (s \o t)[Len(s) + (n + 1)]) ELSE h[Len(s) + n]
      BY <1>2, <1>3, <3>1 DEF Selects
    <3>3. (s \o t)[Len(s) + (n + 1)] = t[n + 1]
      BY <1>4, <3>1
    <3>4. ASSUME NEW k \in Kind PROVE Append(f[Len(s)] \o g[n], k) = f[Len(s)] \o Append(g[n], k)
      <4>1. g[n] \in Seq(Kind) /\ f[Len(s)] \in Seq(Kind)
        BY <2>0, <3>1
      <4> QED BY <4>1, TurnsJoin, Zenon
    <3> QED BY <2>2, <3>1, <3>2, <3>3, <3>4
  <2> HIDE DEF U
  <2> QED BY <1>4, <2>1, <2>2, UpTo
<1>7. /\ Results(s \o t) = h[Len(s) + Len(t)] /\ Len(t) \in 0..Len(t)
      /\ Results(s) = f[Len(s)] /\ Results(t) = g[Len(t)]
  BY <1>1, <1>2, <1>3, <1>4
<1> QED BY <1>6, <1>7

\* One frame, or none.
LEMMA ResultsOfOne ==
  ASSUME NEW e \in Frame
  PROVE  /\ Results(<<>>) = <<>>
         /\ Results(<<e>>) = IF e \in Kind THEN <<e>> ELSE <<>>
<1>1. <<>> \in Seq(Frame) /\ <<e>> \in Seq(Frame) /\ Len(<<>>) = 0 /\ Len(<<e>>) = 1
  OBVIOUS
<1>2. Results(<<>>) = <<>>
  BY <1>1, ResultsSelect DEF Selects
<1>3. PICK f : Selects(f, <<e>>) /\ Results(<<e>>) = f[1]
  BY <1>1, ResultsSelect
<1>4. f[1] = IF e \in Kind THEN Append(<<>>, e) ELSE <<>>
  <2>1. 1 \in 1..Len(<<e>>) /\ 1 - 1 = 0 /\ <<e>>[1] = e
    OBVIOUS
  <2> QED BY <1>3, <2>1 DEF Selects
<1> QED BY <1>2, <1>3, <1>4

\* What is read first, and what comes last.
LEMMA ResultsSplit ==
  ASSUME NEW q \in Seq(Frame)
  PROVE  /\ Results(q) \in Seq(Kind)
         /\ \A e \in Frame : Results(Append(q, e)) = IF e \in Kind THEN Append(Results(q), e) ELSE Results(q)
         /\ q # <<>> => Results(q) = (IF Head(q) \in Kind THEN <<Head(q)>> ELSE <<>>) \o Results(Tail(q))
<1>1. Results(q) \in Seq(Kind)
  <2>1. PICK f : Selects(f, q) /\ Results(q) = f[Len(q)]
    BY ResultsSelect
  <2> QED BY <2>1, SelectsTurns
<1>2. ASSUME NEW e \in Frame
      PROVE  Results(Append(q, e)) = IF e \in Kind THEN Append(Results(q), e) ELSE Results(q)
  <2>1. Append(q, e) = q \o <<e>> /\ <<e>> \in Seq(Frame)
    OBVIOUS
  <2>2. Results(Append(q, e)) = Results(q) \o Results(<<e>>)
    BY <2>1, ResultsJoin
  <2>3. Results(<<e>>) = IF e \in Kind THEN <<e>> ELSE <<>>
    BY ResultsOfOne
  <2>4. CASE e \in Kind
    BY <1>1, <2>2, <2>3, <2>4, AppendIsConcat
  <2>5. CASE e \notin Kind
    BY <1>1, <2>2, <2>3, <2>5
  <2> QED BY <2>4, <2>5
<1>3. CASE q # <<>>
  <2>1. Head(q) \in Frame /\ Tail(q) \in Seq(Frame) /\ <<Head(q)>> \in Seq(Frame) /\ q = <<Head(q)>> \o Tail(q)
    BY <1>3
  <2>2. Results(q) = Results(<<Head(q)>>) \o Results(Tail(q))
    BY <2>1, ResultsJoin
  <2> QED BY <1>1, <1>2, <2>1, <2>2, ResultsOfOne
<1> QED BY <1>1, <1>2, <1>3

----
(***************************************************************************)
(* Whose turn a result is.                                                 *)
(***************************************************************************)
\* A turn that is queued and not yet written.
Unwritten(i) == IF loop.inc = i /\ Pushed THEN <<loop.kind>> ELSE <<>>

\* Processes that are still to come have no queues.
NoneAheadQueues ==
    /\ tracked <= started /\ loop.inc <= started
    /\ \A i \in Inc : i > started => inbox[i] = <<>> /\ pipe[i] = <<>> /\ turns[i] = <<>>

HeadInv == TypeOK /\ IInv /\ NoneAheadQueues /\ HeadOwnsResult

LEMMA OwedIs ==
  ASSUME NEW i \in Inc
  PROVE  Owed(i) = Results(pipe[i] \o inbox[i]) \o Unwritten(i)
  BY DEF Owed, Unwritten

\* The queues, as the lemmas about results take them.
LEMMA QueueTypes ==
  ASSUME TypeOK, NEW i \in Inc
  PROVE  /\ pipe[i] \in Seq(Frame) /\ inbox[i] \in Seq(Kind) /\ inbox[i] \in Seq(Frame)
         /\ turns[i] \in Seq(Kind) /\ pipe[i] \o inbox[i] \in Seq(Frame)
         /\ Results(pipe[i] \o inbox[i]) \in Seq(Kind)
         /\ loop.kind \in Kind /\ \A k \in Kind : k \in Frame
<1>1. pipe[i] \in Seq(Frame) /\ inbox[i] \in Seq(Kind) /\ turns[i] \in Seq(Kind) /\ loop.kind \in Kind
  BY DEF TypeOK, LoopState
<1>2. \A k \in Kind : k \in Frame
  BY DEF Frame
<1>3. inbox[i] \in Seq(Frame)
  BY <1>1, <1>2
<1>4. pipe[i] \o inbox[i] \in Seq(Frame)
  BY <1>1, <1>3
<1> QED BY <1>1, <1>2, <1>3, <1>4, ResultsSplit

\* The same of frames.
LEMMA FramesJoin ==
  ASSUME NEW a \in Seq(Frame), NEW b \in Seq(Frame), NEW k \in Frame
  PROVE  Append(a \o b, k) = a \o Append(b, k)
<1>1. <<k>> \in Seq(Frame) /\ a \o b \in Seq(Frame)
  OBVIOUS
<1>2. Append(a \o b, k) = (a \o b) \o <<k>> /\ Append(b, k) = b \o <<k>>
  BY <1>1, AppendIsConcat
<1>3. (a \o b) \o <<k>> = a \o (b \o <<k>>)
  BY <1>1, ConcatAssociative
<1> QED BY <1>2, <1>3

\* What is pushed last is what a failed write takes back.
LEMMA PushTakenBack ==
  ASSUME NEW R \in Seq(Kind), NEW k \in Kind
  PROVE  R \o <<k>> = Append(R, k) /\ DropLast(R \o <<k>>) = R
<1>1. R \o <<k>> = Append(R, k)
  BY AppendIsConcat
<1>2. /\ Append(R, k) # <<>> /\ Len(Append(R, k)) - 1 = Len(R) /\ Append(R, k) \in Seq(Kind)
      /\ \A n \in 1..Len(R) : Append(R, k)[n] = R[n]
  BY AppendProperties, LenProperties
<1>3. SubSeq(Append(R, k), 1, Len(R)) = R
  BY <1>2
<1> QED BY <1>1, <1>2, <1>3 DEF DropLast

\* Nothing was queued, written, answered or read: what a process owes stays.
LEMMA OwedStays ==
  ASSUME HeadInv, NEW i \in Inc, i \notin mixed, life[i] = "up",
         turns'[i] = turns[i], pipe'[i] = pipe[i], inbox'[i] = inbox[i],
         Unwritten(i)' = Unwritten(i)
  PROVE  turns'[i] = Owed(i)'
<1>1. turns[i] = Results(pipe[i] \o inbox[i]) \o Unwritten(i)
  BY OwedIs DEF HeadInv, HeadOwnsResult
<1>2. Owed(i)' = Results(pipe'[i] \o inbox'[i]) \o Unwritten(i)'
  BY DEF Owed, Unwritten
<1> QED BY <1>1, <1>2

\* A step that leaves all queues alone, while the loop has written what it pushed.
LEMMA QueuesLeftAlone ==
  ASSUME HeadInv, UNCHANGED <<turns, pipe, inbox, tracked, started, mixed>>,
         \A i \in Inc : life'[i] = "up" => life[i] = "up",
         \/ UNCHANGED loop
         \/ (~Pushed /\ ~Pushed' /\ loop'.inc \in {loop.inc, tracked, NoInc})
  PROVE  NoneAheadQueues' /\ HeadOwnsResult'
<1>1. NoneAheadQueues'
  BY DEF HeadInv, TypeOK, NoneAheadQueues, NoInc
<1>2. ASSUME NEW i \in Inc, i \notin mixed', life'[i] = "up" PROVE turns'[i] = Owed(i)'
  <2>1. Unwritten(i)' = Unwritten(i)
    BY DEF Unwritten, Pushed
  <2>2. life[i] = "up" /\ i \notin mixed
    BY <1>2
  <2> QED BY <2>1, <2>2, OwedStays
<1> QED BY <1>1, <1>2 DEF HeadOwnsResult

LEMMA InitHead == Init => HeadInv
<1> SUFFICES ASSUME Init PROVE HeadInv
  OBVIOUS
<1>1. NoneAheadQueues
  BY DEF Init, NoneAheadQueues, NoInc, Free, At
<1>2. HeadOwnsResult
  BY DEF Init, HeadOwnsResult
<1> QED BY <1>1, <1>2, InitTypeOK, InitIInv DEF HeadInv

\* A process is spawned: nothing is queued for it.
LEMMA SpawnOwesNothing ==
  ASSUME HeadInv, NEW args \in StartArgs, StartSpawns(args)
  PROVE  NoneAheadQueues' /\ HeadOwnsResult'
<1>1. /\ started \in 0..MaxStarts /\ started' = started + 1 /\ tracked' = started + 1
      /\ life' = [life EXCEPT ![started'] = "up"] /\ life \in [Inc -> Life]
      /\ UNCHANGED <<turns, pipe, inbox, mixed>> /\ loop' = At("launch", started') /\ ~Pushed
  BY DEF StartSpawns, MaySpawn, HeadInv, TypeOK, Pushed
<1>2. NoneAheadQueues'
  BY <1>1, IncIsNat DEF HeadInv, NoneAheadQueues, At
<1>3. ~Pushed'
  BY <1>1 DEF At, Pushed
<1>4. ASSUME NEW i \in Inc, i \notin mixed', life'[i] = "up" PROVE turns'[i] = Owed(i)'
  <2>1. Unwritten(i)' = <<>> /\ Unwritten(i) = <<>>
    BY <1>1, <1>3 DEF Unwritten
  <2>2. CASE i = started'
    <3>1. i > started
      BY <1>1, <2>2
    <3>2. inbox[i] = <<>> /\ pipe[i] = <<>> /\ turns[i] = <<>>
      BY <3>1 DEF HeadInv, NoneAheadQueues
    <3>3. Owed(i)' = Results(<<>> \o <<>>) \o <<>>
      BY <1>1, <2>1, <3>2 DEF Owed, Unwritten
    <3>4. Results(<<>> \o <<>>) \o <<>> = <<>>
      <4>1. <<>> \o <<>> = <<>> /\ "prompt" \in Frame
        BY DEF Frame, Kind
      <4> QED BY <4>1, ResultsOfOne
    <3> QED BY <1>1, <3>2, <3>3, <3>4
  <2>3. CASE i # started'
    <3>1. life[i] = "up" /\ i \notin mixed
      BY <1>1, <1>4, <2>3
    <3> QED BY <1>1, <2>1, <3>1, OwedStays
  <2> QED BY <2>2, <2>3
<1> QED BY <1>2, <1>4 DEF HeadOwnsResult

\* A turn enters the queue of the process before it is written.
LEMMA PushIsOwed ==
  ASSUME HeadInv, NEW target \in Inc, NEW kind \in Kind, target <= started,
         Pushes(target, kind), ~Pushed, Pushed', loop'.inc = target, loop'.kind = kind,
         UNCHANGED <<life, pipe, inbox, tracked, started, mixed>>
  PROVE  NoneAheadQueues' /\ HeadOwnsResult'
<1>1. turns' = [turns EXCEPT ![target] = Append(@, kind)] /\ turns \in [Inc -> Seq(Kind)]
  BY DEF Pushes, HeadInv, TypeOK
<1>2. started \in Nat
  BY DEF HeadInv, TypeOK
<1>3. NoneAheadQueues'
  BY <1>1, <1>2, IncIsNat DEF HeadInv, NoneAheadQueues
<1>4. ASSUME NEW i \in Inc, i \notin mixed', life'[i] = "up" PROVE turns'[i] = Owed(i)'
  <2>1. Unwritten(i) = <<>> /\ Unwritten(i)' = IF i = target THEN <<kind>> ELSE <<>>
    BY DEF Unwritten
  <2>2. CASE i = target
    <3>1. turns[i] = Results(pipe[i] \o inbox[i]) \o <<>>
      BY <1>1, <1>4, <2>1, OwedIs DEF HeadInv, HeadOwnsResult
    <3>2. Results(pipe[i] \o inbox[i]) \in Seq(Kind)
      BY QueueTypes DEF HeadInv
    <3>3. turns[i] = Results(pipe[i] \o inbox[i])
      BY <3>1, <3>2, ConcatEmptySeq
    <3>4. turns'[i] = Append(turns[i], kind)
      BY <1>1, <1>2, <2>2
    <3>5. Owed(i)' = Results(pipe[i] \o inbox[i]) \o <<kind>>
      BY <1>1, <2>1, <2>2 DEF Owed, Unwritten
    <3> QED BY <3>2, <3>3, <3>4, <3>5, PushTakenBack
  <2>3. CASE i # target
    <3>1. turns'[i] = turns[i] /\ life[i] = "up" /\ i \notin mixed
      BY <1>1, <1>2, <1>4, <2>3
    <3> QED BY <1>1, <2>1, <2>3, <3>1, OwedStays
  <2> QED BY <2>2, <2>3
<1> QED BY <1>3, <1>4 DEF HeadOwnsResult

\* send and set_effort queue it, the one with the lock and the other before.
LEMMA QueueingIsOwed ==
  ASSUME HeadInv, SendsPrompt \/ SetsEffort \/ TakesLock
  PROVE  NoneAheadQueues' /\ HeadOwnsResult'
<1>0. /\ Free.at = "free" /\ loop \in LoopState /\ tracked \in Inc \cup {NoInc} /\ started \in Nat
      /\ tracked <= started /\ loop.inc <= started /\ "prompt" \in Kind /\ "command" \in Kind
  BY FreeIsTyped DEF HeadInv, TypeOK, NoneAheadQueues, Kind
<1>1. CASE SendsPrompt
  <2>1. ~Pushed /\ ~Pushed' /\ loop'.inc = tracked
    BY <1>0, <1>1 DEF SendsPrompt, Pushed
  <2> QED BY <1>1, <2>1, QueuesLeftAlone DEF SendsPrompt, procVars, structVars, mapVars
<1>2. CASE SetsEffort
  <2>1. ~Pushed /\ Pushed' /\ loop'.inc = tracked /\ loop'.kind = "command" /\ tracked \in Inc
    BY <1>0, <1>2 DEF SetsEffort, Pushed
  <2> QED BY <1>0, <1>2, <2>1, PushIsOwed DEF SetsEffort, procVars, mapVars
<1>3. CASE TakesLock
  <2>1. loop'.inc = loop.inc /\ loop'.kind = loop.kind /\ loop'.at = "write" /\ loop.at = "lock"
    BY <1>0, <1>3 DEF TakesLock, LoopState
  <2>2. CASE loop.kind = "prompt" /\ loop.inc \in Inc
    <3>1. ~Pushed /\ Pushed'
      BY <2>1, <2>2 DEF Pushed
    <3> QED BY <1>0, <1>3, <2>1, <2>2, <3>1, PushIsOwed
          DEF TakesLock, procVars, mapVars, histVars
  <2>3. CASE loop.kind = "prompt" /\ loop.inc \notin Inc
    <3>1. turns \in [Inc -> Seq(Kind)]
      BY DEF HeadInv, TypeOK
    <3>2. UNCHANGED <<life, pipe, inbox, tracked, started, mixed>> /\ turns' = turns
      BY <1>3, <2>3, <3>1 DEF TakesLock, Pushes, procVars, mapVars, histVars
    <3>3. NoneAheadQueues'
      BY <1>0, <2>1, <3>2 DEF HeadInv, NoneAheadQueues
    <3>4. ASSUME NEW i \in Inc, i \notin mixed', life'[i] = "up" PROVE turns'[i] = Owed(i)'
      <4>1. Unwritten(i)' = Unwritten(i)
        BY <2>1, <2>3 DEF Unwritten
      <4> QED BY <3>2, <3>4, <4>1, OwedStays
    <3> QED BY <3>3, <3>4 DEF HeadOwnsResult
  <2>4. CASE loop.kind # "prompt"
    <3>1. UNCHANGED <<life, pipe, inbox, tracked, started, mixed, turns>> /\ loop.kind = "command"
      BY <1>0, <1>3, <2>4 DEF TakesLock, procVars, mapVars, histVars, LoopState, Kind
    <3>2. NoneAheadQueues'
      BY <1>0, <2>1, <3>1 DEF HeadInv, NoneAheadQueues
    <3>3. ASSUME NEW i \in Inc, i \notin mixed', life'[i] = "up" PROVE turns'[i] = Owed(i)'
      <4>1. Unwritten(i)' = Unwritten(i)
        BY <2>1, <3>1 DEF Unwritten, Pushed
      <4> QED BY <3>1, <3>3, <4>1, OwedStays
    <3> QED BY <3>2, <3>3 DEF HeadOwnsResult
  <2> QED BY <2>2, <2>3, <2>4
<1> QED BY <1>1, <1>2, <1>3

\* Written, it is the last line of the process's input.
LEMMA WriteIsOwed ==
  ASSUME HeadInv, Write
  PROVE  NoneAheadQueues' /\ HeadOwnsResult'
<1>1. /\ Pushed /\ life[loop.inc] = "up" /\ ~Pushed' /\ loop'.inc \in {loop.inc, NoInc}
      /\ inbox' = [inbox EXCEPT ![loop.inc] = Append(@, loop.kind)]
      /\ UNCHANGED <<life, pipe, turns, tracked, started, mixed>>
  <2>1. loop \in LoopState
    BY DEF HeadInv, TypeOK
  <2>2. /\ [loop EXCEPT !.at = "publish"].at = "publish" /\ [loop EXCEPT !.at = "publish"].inc = loop.inc
        /\ Free.at = "free" /\ Free.inc = NoInc
    BY <2>1, FreeIsTyped DEF LoopState, Free, At
  <2> QED BY <2>2 DEF Write, mapVars, histVars, Pushed
<1>2. /\ inbox \in [Inc -> Seq(Kind)] /\ life \in [Inc -> Life] /\ loop.kind \in Kind
      /\ started \in Nat
  BY DEF HeadInv, TypeOK, LoopState
<1>3. NoneAheadQueues'
  <2>1. ASSUME NEW i \in Inc, i > started PROVE inbox'[i] = inbox[i]
    <3>1. life[i] = "none"
      BY <2>1 DEF HeadInv, IInv, NoneAhead
    <3> QED BY <1>1, <1>2, <3>1
  <2> QED BY <1>1, <1>2, <2>1 DEF HeadInv, NoneAheadQueues, NoInc
<1>4. ASSUME NEW i \in Inc, i \notin mixed', life'[i] = "up" PROVE turns'[i] = Owed(i)'
  <2>1. Unwritten(i)' = <<>> /\ Unwritten(i) = IF i = loop.inc THEN <<loop.kind>> ELSE <<>>
    BY <1>1 DEF Unwritten
  <2>2. CASE i = loop.inc
    <3>1. turns[i] = Results(pipe[i] \o inbox[i]) \o <<loop.kind>>
      BY <1>1, <1>4, <2>1, <2>2, OwedIs DEF HeadInv, HeadOwnsResult
    <3>2. /\ pipe[i] \in Seq(Frame) /\ inbox[i] \in Seq(Frame) /\ loop.kind \in Frame
          /\ Results(pipe[i] \o inbox[i]) \in Seq(Kind) /\ pipe[i] \o inbox[i] \in Seq(Frame)
      BY <1>2, QueueTypes DEF HeadInv
    <3>3. inbox'[i] = Append(inbox[i], loop.kind)
      BY <1>1, <1>2, <2>2
    <3>4. pipe[i] \o inbox'[i] = Append(pipe[i] \o inbox[i], loop.kind)
      <4>1. Append(pipe[i] \o inbox[i], loop.kind) = pipe[i] \o Append(inbox[i], loop.kind)
        BY <3>2, FramesJoin
      <4> QED BY <3>3, <4>1, Zenon
    <3>5. Results(pipe[i] \o inbox'[i]) = Append(Results(pipe[i] \o inbox[i]), loop.kind)
      BY <1>2, <3>2, <3>4, ResultsSplit
    <3>6. Owed(i)' = Append(Results(pipe[i] \o inbox[i]), loop.kind) \o <<>>
      BY <1>1, <2>1, <3>5 DEF Owed, Unwritten
    <3>7. Append(Results(pipe[i] \o inbox[i]), loop.kind) \in Seq(Kind)
      BY <1>2, <3>2
    <3>8. Append(Results(pipe[i] \o inbox[i]), loop.kind) \o <<>> = Append(Results(pipe[i] \o inbox[i]), loop.kind)
      BY <3>7, ConcatEmptySeq
    <3>9. turns[i] = Append(Results(pipe[i] \o inbox[i]), loop.kind)
      BY <1>2, <3>1, <3>2, PushTakenBack
    <3> QED BY <1>1, <3>6, <3>8, <3>9
  <2>3. CASE i # loop.inc
    <3>1. inbox'[i] = inbox[i] /\ life[i] = "up" /\ i \notin mixed
      BY <1>1, <1>2, <1>4, <2>3
    <3> QED BY <1>1, <2>1, <2>3, <3>1, OwedStays
  <2> QED BY <2>2, <2>3
<1> QED BY <1>3, <1>4 DEF HeadOwnsResult

\* Not written, it leaves the end of the queue again.
LEMMA FailureIsNotOwed ==
  ASSUME HeadInv, WriteFails
  PROVE  NoneAheadQueues' /\ HeadOwnsResult'
<1>1. /\ Pushed /\ ~Pushed' /\ loop' = Free /\ loop'.inc = NoInc
      /\ turns' = [turns EXCEPT ![loop.inc] = DropLast(@)]
      /\ UNCHANGED <<life, pipe, inbox, tracked, started, mixed>>
  BY FreeIsTyped DEF WriteFails, procVars, mapVars, histVars, Pushed, Free, At
<1>2. turns \in [Inc -> Seq(Kind)] /\ loop.kind \in Kind
  BY DEF HeadInv, TypeOK, LoopState
<1>3. NoneAheadQueues'
  <2>1. ASSUME NEW i \in Inc, turns[i] = <<>> PROVE turns'[i] = <<>>
    BY <1>1, <1>2, <2>1 DEF DropLast
  <2>2. started \in Nat
    BY DEF HeadInv, TypeOK
  <2> QED BY <1>1, <2>1, <2>2 DEF HeadInv, NoneAheadQueues, NoInc
<1>4. ASSUME NEW i \in Inc, i \notin mixed', life'[i] = "up" PROVE turns'[i] = Owed(i)'
  <2>1. Unwritten(i)' = <<>> /\ Unwritten(i) = IF i = loop.inc THEN <<loop.kind>> ELSE <<>>
    BY <1>1, FreeIsTyped DEF Unwritten
  <2>2. CASE i = loop.inc
    <3>1. turns[i] = Results(pipe[i] \o inbox[i]) \o <<loop.kind>>
      BY <1>1, <1>4, <2>1, <2>2, OwedIs DEF HeadInv, HeadOwnsResult
    <3>2. Results(pipe[i] \o inbox[i]) \in Seq(Kind)
      BY QueueTypes DEF HeadInv
    <3>3. turns'[i] = DropLast(turns[i])
      BY <1>1, <1>2, <2>2
    <3>4. turns'[i] = Results(pipe[i] \o inbox[i])
      BY <1>2, <3>1, <3>2, <3>3, PushTakenBack
    <3>5. Owed(i)' = Results(pipe[i] \o inbox[i]) \o <<>>
      BY <1>1, <2>1 DEF Owed, Unwritten
    <3>6. Results(pipe[i] \o inbox[i]) \o <<>> = Results(pipe[i] \o inbox[i])
      BY <3>2, ConcatEmptySeq
    <3> QED BY <3>4, <3>5, <3>6
  <2>3. CASE i # loop.inc
    <3>1. turns'[i] = turns[i] /\ life[i] = "up" /\ i \notin mixed
      BY <1>1, <1>2, <1>4, <2>3
    <3> QED BY <1>1, <2>1, <2>3, <3>1, OwedStays
  <2> QED BY <2>2, <2>3
<1> QED BY <1>3, <1>4 DEF HeadOwnsResult

\* The head of a sequence with something behind it.
LEMMA HeadTailConcat ==
  ASSUME NEW S, NEW a \in Seq(S), NEW b \in Seq(S), a # <<>>
  PROVE  a \o b # <<>> /\ Head(a \o b) = Head(a) /\ Tail(a \o b) = Tail(a) \o b
  OBVIOUS

LEMMA PopOfCons ==
  ASSUME NEW k \in Kind, NEW R \in Seq(Kind)
  PROVE  Pop(<<k>> \o R) = R
<1>1. <<k>> \o R # <<>> /\ Tail(<<k>> \o R) = R
  OBVIOUS
<1> QED BY <1>1 DEF Pop

\* An assistant frame answers nothing.
LEMMA AssistantAnswersNothing ==
  ASSUME HeadInv, NEW i \in Inc, ReadAssistant(i)
  PROVE  NoneAheadQueues' /\ HeadOwnsResult'
<1>1. /\ pipe[i] # <<>> /\ Head(pipe[i]) = "assistant" /\ pipe' = [pipe EXCEPT ![i] = Tail(@)]
      /\ UNCHANGED <<life, turns, inbox, tracked, started, mixed, loop>>
  BY DEF ReadAssistant, Reads, structVars, mapVars, histVars
<1>2. pipe \in [Inc -> Seq(Frame)]
  BY DEF HeadInv, TypeOK
<1>3. NoneAheadQueues'
  BY <1>1, <1>2 DEF HeadInv, NoneAheadQueues
<1>4. ASSUME NEW j \in Inc, j \notin mixed', life'[j] = "up" PROVE turns'[j] = Owed(j)'
  <2>1. Unwritten(j)' = Unwritten(j)
    BY <1>1 DEF Unwritten, Pushed
  <2>2. CASE j = i
    <3>1. /\ pipe[j] \in Seq(Frame) /\ inbox[j] \in Seq(Frame) /\ pipe[j] \o inbox[j] \in Seq(Frame)
          /\ pipe[j] # <<>> /\ Head(pipe[j]) \notin Kind /\ pipe'[j] = Tail(pipe[j])
          /\ "assistant" \notin Kind
      BY <1>1, <1>2, <2>2, QueueTypes DEF HeadInv, Kind
    <3>2. /\ pipe[j] \o inbox[j] # <<>> /\ Head(pipe[j] \o inbox[j]) = Head(pipe[j])
          /\ Tail(pipe[j] \o inbox[j]) = Tail(pipe[j]) \o inbox[j]
      BY <3>1, HeadTailConcat
    <3>3. Results(pipe[j] \o inbox[j]) = <<>> \o Results(Tail(pipe[j]) \o inbox[j])
      BY <3>1, <3>2, ResultsSplit
    <3>4. Results(Tail(pipe[j]) \o inbox[j]) \in Seq(Kind)
      <4>1. Tail(pipe[j]) \o inbox[j] \in Seq(Frame)
        BY <3>1
      <4> QED BY <4>1, ResultsSplit
    <3>5. Results(pipe[j] \o inbox[j]) = Results(Tail(pipe[j]) \o inbox[j])
      BY <3>3, <3>4, ConcatEmptySeq
    <3>6. turns[j] = Results(pipe[j] \o inbox[j]) \o Unwritten(j)
      BY <1>1, <1>4, OwedIs DEF HeadInv, HeadOwnsResult
    <3>7. Owed(j)' = Results(Tail(pipe[j]) \o inbox[j]) \o Unwritten(j)
      BY <1>1, <2>1, <3>1 DEF Owed, Unwritten
    <3> QED BY <1>1, <3>5, <3>6, <3>7
  <2>3. CASE j # i
    <3>1. pipe'[j] = pipe[j] /\ life[j] = "up" /\ j \notin mixed
      BY <1>1, <1>2, <1>4, <2>3
    <3> QED BY <1>1, <2>1, <3>1, OwedStays
  <2> QED BY <2>2, <2>3
<1> QED BY <1>3, <1>4 DEF HeadOwnsResult

\* A result of a written turn answers the head of the queue; one of the process's
\* own finds an empty queue, or mixes this process up.
LEMMA ResultTakesHead ==
  ASSUME HeadInv, NEW i \in Inc, ReadResult(i)
  PROVE  NoneAheadQueues' /\ HeadOwnsResult'
<1>1. /\ pipe[i] # <<>> /\ Head(pipe[i]) \in Kind \cup {"own"} /\ pipe' = [pipe EXCEPT ![i] = Tail(@)]
      /\ turns' = [turns EXCEPT ![i] = Pop(@)]
      /\ mixed' = IF Head(pipe[i]) = "own" /\ turns[i] # <<>> THEN mixed \cup {i} ELSE mixed
      /\ UNCHANGED <<life, inbox, tracked, started, loop>>
  BY DEF ReadResult, Reads, mapVars
<1>2. pipe \in [Inc -> Seq(Frame)] /\ turns \in [Inc -> Seq(Kind)]
  BY DEF HeadInv, TypeOK
<1>3. NoneAheadQueues'
  <2>1. ASSUME NEW j \in Inc, turns[j] = <<>>, pipe[j] = <<>> PROVE turns'[j] = <<>> /\ pipe'[j] = <<>>
    BY <1>1, <1>2, <2>1 DEF Pop
  <2> QED BY <1>1, <2>1 DEF HeadInv, NoneAheadQueues
<1>4. ASSUME NEW j \in Inc, j \notin mixed', life'[j] = "up" PROVE turns'[j] = Owed(j)'
  <2>1. Unwritten(j)' = Unwritten(j) /\ life[j] = "up" /\ j \notin mixed
    BY <1>1, <1>4 DEF Unwritten, Pushed
  <2>2. CASE j = i
    <3>1. /\ pipe[j] \in Seq(Frame) /\ inbox[j] \in Seq(Frame) /\ pipe[j] \o inbox[j] \in Seq(Frame)
          /\ pipe[j] # <<>> /\ pipe'[j] = Tail(pipe[j]) /\ turns'[j] = Pop(turns[j])
          /\ "own" \notin Kind
      BY <1>1, <1>2, <2>2, QueueTypes DEF HeadInv, Kind
    <3>2. /\ pipe[j] \o inbox[j] # <<>> /\ Head(pipe[j] \o inbox[j]) = Head(pipe[j])
          /\ Tail(pipe[j] \o inbox[j]) = Tail(pipe[j]) \o inbox[j]
      BY <3>1, HeadTailConcat
    <3> DEFINE T == Results(Tail(pipe[j]) \o inbox[j])
    <3>3. Results(pipe[j] \o inbox[j]) = (IF Head(pipe[j]) \in Kind THEN <<Head(pipe[j])>> ELSE <<>>) \o T
      BY <3>1, <3>2, ResultsSplit
    <3>4. T \in Seq(Kind)
      <4>1. Tail(pipe[j]) \o inbox[j] \in Seq(Frame)
        BY <3>1
      <4> QED BY <4>1, ResultsSplit
    <3>5. Unwritten(j) \in Seq(Kind)
      BY QueueTypes DEF Unwritten, HeadInv
    <3>6. turns[j] = Results(pipe[j] \o inbox[j]) \o Unwritten(j)
      BY <2>1, OwedIs DEF HeadInv, HeadOwnsResult
    <3>7. Owed(j)' = T \o Unwritten(j)
      BY <1>1, <2>1, <3>1 DEF Owed, Unwritten
    <3> HIDE DEF T
    <3>8. CASE Head(pipe[j]) \in Kind
      <4>1. turns[j] = (<<Head(pipe[j])>> \o T) \o Unwritten(j)
        BY <3>3, <3>6, <3>8
      <4>2. turns[j] = <<Head(pipe[j])>> \o (T \o Unwritten(j))
        <5>1. <<Head(pipe[j])>> \in Seq(Kind)
          BY <3>8
        <5> QED BY <3>4, <3>5, <4>1, <5>1, ConcatAssociative
      <4>3. T \o Unwritten(j) \in Seq(Kind)
        BY <3>4, <3>5
      <4>4. Pop(turns[j]) = T \o Unwritten(j)
        BY <3>8, <4>2, <4>3, PopOfCons
      <4> QED BY <3>1, <3>7, <4>4
    <3>9. CASE Head(pipe[j]) = "own"
      <4>1. turns[j] = <<>>
        BY <1>1, <1>4, <2>2, <3>9
      <4>2. turns[j] = T \o Unwritten(j)
        <5>1. Results(pipe[j] \o inbox[j]) = <<>> \o T
          BY <3>1, <3>3, <3>9
        <5>2. Results(pipe[j] \o inbox[j]) = T
          BY <3>4, <5>1, ConcatEmptySeq
        <5> QED BY <3>6, <5>2
      <4> QED BY <3>1, <3>7, <4>1, <4>2 DEF Pop
    <3> QED BY <1>1, <2>2, <3>8, <3>9
  <2>3. CASE j # i
    <3>1. pipe'[j] = pipe[j] /\ turns'[j] = turns[j]
      BY <1>1, <1>2, <2>3
    <3> QED BY <1>1, <2>1, <3>1, OwedStays
  <2> QED BY <2>2, <2>3
<1> QED BY <1>3, <1>4 DEF HeadOwnsResult

\* What the process prints: the lines it was given keep their order.
LEMMA CliKeepsOwed ==
  ASSUME HeadInv, NEW i \in Inc, CliSpeaks(i) \/ CliEndsTurn(i) \/ CliEndsOwnTurn(i)
  PROVE  NoneAheadQueues' /\ HeadOwnsResult'
<1>1. /\ UNCHANGED <<life, turns, tracked, started, mixed, loop>> /\ life[i] = "up"
      /\ \A j \in Inc : j # i => pipe'[j] = pipe[j] /\ inbox'[j] = inbox[j]
  BY DEF CliSpeaks, CliEndsTurn, CliEndsOwnTurn, structVars, mapVars, threadVars, histVars, HeadInv, TypeOK
<1>2. NoneAheadQueues'
  BY <1>1 DEF HeadInv, NoneAheadQueues, IInv, NoneAhead
<1>3. /\ pipe[i] \in Seq(Frame) /\ inbox[i] \in Seq(Frame) /\ inbox[i] \in Seq(Kind)
      /\ pipe \in [Inc -> Seq(Frame)] /\ inbox \in [Inc -> Seq(Kind)]
  BY QueueTypes DEF HeadInv, TypeOK
<1>4. Results(pipe'[i] \o inbox'[i]) = Results(pipe[i] \o inbox[i])
  <2>0. /\ Results(pipe[i]) \in Seq(Kind) /\ Results(inbox[i]) \in Seq(Kind)
        /\ Results(pipe[i] \o inbox[i]) = Results(pipe[i]) \o Results(inbox[i])
    BY <1>3, ResultsSplit, ResultsJoin
  <2>1. CASE CliSpeaks(i)
    <3>1. pipe[i] = <<>> /\ pipe'[i] = <<"assistant">> /\ inbox'[i] = inbox[i]
      BY <1>3, <2>1 DEF CliSpeaks
    <3>2. "assistant" \in Frame /\ "assistant" \notin Kind /\ <<"assistant">> \in Seq(Frame)
      BY DEF Frame, Kind
    <3>3. Results(<<"assistant">> \o inbox[i]) = Results(<<"assistant">>) \o Results(inbox[i])
      BY <1>3, <3>2, ResultsJoin
    <3>4. Results(<<"assistant">>) = <<>> /\ Results(<<>>) = <<>>
      BY <3>2, ResultsOfOne
    <3> QED BY <2>0, <3>1, <3>3, <3>4
  <2>2. CASE CliEndsTurn(i)
    <3>1. /\ inbox[i] # <<>> /\ pipe'[i] = Append(pipe[i], Head(inbox[i])) /\ inbox'[i] = Tail(inbox[i])
      BY <1>3, <2>2 DEF CliEndsTurn
    <3>2. Append(pipe[i], Head(inbox[i])) \o Tail(inbox[i]) = pipe[i] \o inbox[i]
      <4>1. <<Head(inbox[i])>> \in Seq(Frame) /\ Tail(inbox[i]) \in Seq(Frame) /\ Head(inbox[i]) \in Frame
        BY <1>3, <3>1
      <4>2. inbox[i] = <<Head(inbox[i])>> \o Tail(inbox[i])
        BY <1>3, <3>1
      <4>3. Append(pipe[i], Head(inbox[i])) = pipe[i] \o <<Head(inbox[i])>>
        BY <1>3, <4>1, AppendIsConcat
      <4>4. (pipe[i] \o <<Head(inbox[i])>>) \o Tail(inbox[i]) = pipe[i] \o (<<Head(inbox[i])>> \o Tail(inbox[i]))
        BY <1>3, <4>1, ConcatAssociative
      <4> QED BY <4>2, <4>3, <4>4
    <3> QED BY <3>1, <3>2
  <2>3. CASE CliEndsOwnTurn(i)
    <3>1. pipe'[i] = Append(pipe[i], "own") /\ inbox'[i] = inbox[i]
      BY <1>3, <2>3 DEF CliEndsOwnTurn
    <3>2. "own" \in Frame /\ "own" \notin Kind
      BY DEF Frame, Kind
    <3>3. Append(pipe[i], "own") \in Seq(Frame)
      BY <1>3, <3>2
    <3>4. Results(Append(pipe[i], "own")) = Results(pipe[i])
      BY <1>3, <3>2, ResultsSplit
    <3>5. Results(Append(pipe[i], "own") \o inbox[i]) = Results(Append(pipe[i], "own")) \o Results(inbox[i])
      BY <1>3, <3>3, ResultsJoin
    <3> QED BY <2>0, <3>1, <3>4, <3>5
  <2> QED BY <2>1, <2>2, <2>3
<1>5. ASSUME NEW j \in Inc, j \notin mixed', life'[j] = "up" PROVE turns'[j] = Owed(j)'
  <2>1. Unwritten(j)' = Unwritten(j) /\ life[j] = "up" /\ j \notin mixed
    BY <1>1, <1>5 DEF Unwritten, Pushed
  <2>2. CASE j = i
    <3>1. turns[j] = Results(pipe[j] \o inbox[j]) \o Unwritten(j)
      BY <2>1, OwedIs DEF HeadInv, HeadOwnsResult
    <3>2. Owed(j)' = Results(pipe'[j] \o inbox'[j]) \o Unwritten(j)
      BY <2>1 DEF Owed, Unwritten
    <3> QED BY <1>1, <1>4, <2>2, <3>1, <3>2
  <2>3. CASE j # i
    BY <1>1, <2>1, <2>3, OwedStays
  <2> QED BY <2>2, <2>3
<1> QED BY <1>2, <1>5 DEF HeadOwnsResult

\* A process that ends, and one whose waiter closes its pipe, owe nothing more.
LEMMA EndsOweNothing ==
  ASSUME HeadInv, NEW i \in Inc, life'[i] # "up",
         \A j \in Inc : life'[j] = "up" => life[j] = "up",
         \A j \in Inc : j # i => pipe'[j] = pipe[j] /\ inbox'[j] = inbox[j],
         pipe[i] = <<>> => pipe'[i] = <<>>, inbox[i] = <<>> => inbox'[i] = <<>>,
         UNCHANGED <<turns, started, mixed>>, tracked' \in {tracked, NoInc},
         \/ UNCHANGED loop
         \/ (~Pushed /\ ~Pushed' /\ loop'.inc \in {loop.inc, tracked, NoInc})
  PROVE  NoneAheadQueues' /\ HeadOwnsResult'
<1>1. NoneAheadQueues'
  <2>1. started \in Nat
    BY DEF HeadInv, TypeOK
  <2> QED BY <2>1 DEF HeadInv, NoneAheadQueues, NoInc
<1>2. ASSUME NEW j \in Inc, j \notin mixed', life'[j] = "up" PROVE turns'[j] = Owed(j)'
  <2>1. j # i /\ life[j] = "up" /\ j \notin mixed
    BY <1>2
  <2>2. Unwritten(j)' = Unwritten(j)
    BY DEF Unwritten, Pushed
  <2> QED BY <2>1, <2>2, OwedStays
<1> QED BY <1>1, <1>2 DEF HeadOwnsResult

\* A process that dies, by itself or killed.
LEMMA DeathOwesNothing ==
  ASSUME HeadInv, NEW i \in Inc, Dies(i), UNCHANGED <<pipe, turns, tracked, started, mixed>>,
         \/ UNCHANGED loop
         \/ (~Pushed /\ ~Pushed' /\ loop'.inc \in {loop.inc, tracked, NoInc})
  PROVE  NoneAheadQueues' /\ HeadOwnsResult'
<1>1. life \in [Inc -> Life] /\ inbox \in [Inc -> Seq(Kind)]
  BY DEF HeadInv, TypeOK
<1>2. /\ life' = [life EXCEPT ![i] = IF life[i] = "up" THEN "exited" ELSE "gone"]
      /\ inbox' = [inbox EXCEPT ![i] = <<>>]
  BY DEF Dies
<1>3. life'[i] # "up" /\ \A j \in Inc : life'[j] = "up" => life[j] = "up"
  BY <1>1, <1>2
<1>4. inbox'[i] = <<>> /\ \A j \in Inc : j # i => inbox'[j] = inbox[j]
  BY <1>1, <1>2
<1> QED BY <1>3, <1>4, EndsOweNothing

LEMMA NextHead == HeadInv /\ [Next]_vars => HeadInv'
<1> SUFFICES ASSUME HeadInv, [Next]_vars PROVE NoneAheadQueues' /\ HeadOwnsResult'
  BY NextTypeOK, NextIInv DEF HeadInv
<1> USE DEF procVars, structVars, mapVars, threadVars, histVars
<1>0. /\ \A p, q : At(p, q).at = p /\ At(p, q).inc = q /\ At(p, q).kind = "command"
      /\ Free.at = "free" /\ Free.inc = NoInc
  BY FreeIsTyped DEF At, Free
<1>1. ASSUME NEW t \in Thread, Publish(t) PROVE NoneAheadQueues' /\ HeadOwnsResult'
  <2>1. CASE SetState(t)
    BY <2>1, QueuesLeftAlone DEF SetState
  <2>2. CASE EmitState(t)
    <3>1. t = Loop => ~Pushed
      BY <2>2 DEF EmitState, HeadInv, TypeOK, NoPub, Pushed
    <3>2. t = Loop => ~Pushed'
      BY <1>0, <2>2 DEF EmitState, Published, Pushed
    <3> QED BY <1>0, <2>2, <3>1, <3>2, QueuesLeftAlone DEF EmitState, Published
  <2> QED BY <1>1, <2>1, <2>2 DEF Publish
<1>2. CASE LoopActs
  <2>1. CASE StartAgain \/ StartChecks \/ SpawnFails \/ LoopStops
    <3>1. ~Pushed /\ ~Pushed' /\ loop'.inc \in {loop.inc, tracked, NoInc}
      BY <1>0, <2>1 DEF StartAgain, StartChecks, SpawnFails, LoopStops, Pushed
    <3> QED BY <2>1, <3>1, QueuesLeftAlone DEF StartAgain, StartChecks, SpawnFails, LoopStops
  <2>2. CASE LoopCloses
    <3>1. ~Pushed /\ ~Pushed' /\ loop'.inc = loop.inc
      BY <1>0, <2>2 DEF LoopCloses, Pushed
    <3> QED BY <2>2, <3>1, QueuesLeftAlone DEF LoopCloses
  <2>3. CASE SendsPrompt \/ SetsEffort \/ TakesLock
    BY <2>3, QueueingIsOwed
  <2> QED BY <1>2, <2>1, <2>2, <2>3, SpawnOwesNothing, WriteIsOwed, FailureIsNotOwed DEF LoopActs
<1>3. ASSUME NEW i \in Inc, AnswerWaits(i) PROVE NoneAheadQueues' /\ HeadOwnsResult'
  BY <1>3, QueuesLeftAlone DEF AnswerWaits
<1>12. CASE AnswerEnds \/ TermOpens \/ TermCloses
  BY <1>12, QueuesLeftAlone DEF AnswerEnds, TermOpens, TermCloses
<1>4. CASE Reap
  BY <1>4, QueuesLeftAlone DEF Reap, ReaperLists, ReaperStops, ReaperCloses
<1>5. ASSUME NEW i \in Inc, Stop(i) PROVE NoneAheadQueues' /\ HeadOwnsResult'
  <2>1. \/ UNCHANGED loop
        \/ (~Pushed /\ ~Pushed' /\ loop'.inc \in {loop.inc, tracked, NoInc})
    BY <1>0, <1>5 DEF Stop, StopReturns, StopKills, Stopping, Pushed
  <2>2. CASE StopReturns(i)
    BY <2>1, <2>2, QueuesLeftAlone DEF StopReturns
  <2>3. CASE StopKills(i) /\ life[i] # "up"
    BY <2>1, <2>3, QueuesLeftAlone DEF StopKills
  <2>4. CASE StopKills(i) /\ life[i] = "up"
    BY <2>1, <2>4, DeathOwesNothing DEF StopKills
  <2> QED BY <1>5, <2>2, <2>3, <2>4 DEF Stop
<1>6. ASSUME NEW i \in Inc, Read(i) PROVE NoneAheadQueues' /\ HeadOwnsResult'
  BY <1>6, AssistantAnswersNothing, ResultTakesHead DEF Read
<1>7. ASSUME NEW i \in Inc, Wait(i) PROVE NoneAheadQueues' /\ HeadOwnsResult'
  <2>1. CASE Waits(i)
    <3>1. /\ life' = [life EXCEPT ![i] = "clear"] /\ tracked' = NoInc
          /\ UNCHANGED <<inbox, turns, started, mixed, loop>>
      BY <2>1 DEF Waits
    <3>2. PICK n \in 0..Len(pipe[i]) : pipe' = [pipe EXCEPT ![i] = SubSeq(@, 1, n)]
      BY <2>1 DEF Waits
    <3>3. life \in [Inc -> Life] /\ pipe \in [Inc -> Seq(Frame)]
      BY DEF HeadInv, TypeOK
    <3>4. pipe[i] = <<>> => pipe'[i] = <<>>
      BY <3>2, <3>3
    <3>5. \A j \in Inc : j # i => pipe'[j] = pipe[j] /\ inbox'[j] = inbox[j]
      BY <3>1, <3>2, <3>3
    <3>6. life'[i] # "up" /\ \A j \in Inc : life'[j] = "up" => life[j] = "up"
      BY <3>1, <3>3
    <3> QED BY <3>1, <3>4, <3>5, <3>6, EndsOweNothing
  <2>2. CASE ClearsState(i) \/ TellsStopped(i)
    <3>1. \A j \in Inc : life'[j] = "up" => life[j] = "up"
      BY <2>2 DEF ClearsState, TellsStopped, HeadInv, TypeOK
    <3> QED BY <2>2, <3>1, QueuesLeftAlone DEF ClearsState, TellsStopped
  <2> QED BY <1>7, <2>1, <2>2 DEF Wait
<1>8. ASSUME NEW i \in Inc, Cli(i) PROVE NoneAheadQueues' /\ HeadOwnsResult'
  <2>1. CASE CliStopsReading(i) \/ CliReadsOn(i)
    BY <2>1, QueuesLeftAlone DEF CliStopsReading, CliReadsOn
  <2> QED BY <1>8, <2>1, CliKeepsOwed, DeathOwesNothing DEF Cli, CliExits
<1>9. CASE GetsOld
  BY <1>9, QueuesLeftAlone DEF GetsOld
<1>10. CASE RunnerRestart
  <2>1. \A i \in Inc : life'[i] # "up" /\ inbox'[i] = <<>> /\ pipe'[i] = <<>> /\ turns'[i] = <<>>
    BY <1>10 DEF RunnerRestart
  <2>2. tracked' = NoInc /\ started' = started /\ started \in Nat
    BY <1>10 DEF RunnerRestart, HeadInv, TypeOK
  <2>3. loop'.inc = NoInc
    BY <1>0, <1>10 DEF RunnerRestart
  <2> QED BY <2>1, <2>2, <2>3 DEF NoneAheadQueues, HeadOwnsResult, NoInc
<1>11. CASE UNCHANGED vars
  BY <1>11, QueuesLeftAlone DEF vars
<1> QED BY <1>1, <1>2, <1>3, <1>4, <1>5, <1>6, <1>7, <1>8, <1>9, <1>10, <1>11, <1>12 DEF Next

\* For any number of processes and turns: through writes that fail, results that
\* come back before the write returned, a closed stdin and the end of the process,
\* the queue of a process is what it owes, so the head owns the next result.
THEOREM HeadIsOwner == Spec => []HeadOwnsResult
<1>1. HeadInv => HeadOwnsResult
  BY DEF HeadInv
<1> QED BY <1>1, InitHead, NextHead, PTL DEF Spec
====
