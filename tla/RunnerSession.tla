---- MODULE RunnerSession ----
(***************************************************************************)
(* One session of the runner through its claude processes: spawned by      *)
(* start, fed by send and set_effort, read by one goroutine, waited for by *)
(* another, stopped by the command loop or by the reaper, and started      *)
(* again.  Sessions share nothing but the command loop, the reaper and the *)
(* lock of the map, so one session id is enough; its processes are         *)
(* numbered in the order they were spawned.                                *)
(*                                                                         *)
(* setState keeps what the runner says of the session: the field the       *)
(* reaper reads, the state file Odoo reconciles against, then the event.   *)
(* Two goroutines may be in it for one process at once.                    *)
(*                                                                         *)
(* A write to a process is made under the lock of its struct and lasts as  *)
(* long as the process does not read; whoever wants the lock waits for it. *)
(*                                                                         *)
(* A person may have the session open in a terminal of their own: term is  *)
(* that process, which the runner neither starts nor stops.                *)
(***************************************************************************)
EXTENDS Naturals, Sequences, FiniteSets

CONSTANTS
    MaxStarts,      \* bound: processes
    MaxWork         \* bound: processes, turns written, turns nobody wrote, times a
                    \* process stops reading, terminals and runner crashes, together

ASSUME SessionAssumption ==
    /\ MaxStarts \in Nat \ {0} /\ MaxWork \in Nat

Inc == 1..MaxStarts
NoInc == 0
Loop == 0                       \* the command loop; the reader of i is thread i
Thread == {Loop} \cup Inc

Kind == {"prompt", "command"}   \* a person's turn, or the runner's own /effort
State == {"idle", "busy"}

VARIABLES
    \* The processes, and where the waiter of each one stands.
    life, stdin, inbox, pipe, term,
    \* The session struct of each process.
    state, old, turns,
    \* The map's entry for the session, and how many processes it had.
    tracked, started,
    \* The goroutines: what each is publishing, the command at hand, the reaper,
    \* and the process whose lock an answer to it holds, in a write that waits.
    pub, loop, reaper, answer,
    \* The state file: the process it speaks of, if it is there.
    file,
    \* History: what counts for the bound, the processes where the result of a
    \* turn nobody wrote met a queue that was not empty, and the processes that
    \* were started after a look that found nobody.
    work, mixed, looked

procVars == <<life, stdin, inbox, pipe, term>>
structVars == <<state, old, turns>>
mapVars == <<tracked, started>>
threadVars == <<pub, loop, reaper, answer>>
histVars == <<work, mixed, looked>>
vars == <<procVars, structVars, mapVars, threadVars, file, histVars>>

NoPub == [inc |-> NoInc, state |-> "idle", next |-> "none"]
Pub(i, st) == [inc |-> i, state |-> st, next |-> "file"]
At(where, i) == [at |-> where, inc |-> i, kind |-> "command"]
Free == At("free", NoInc)

Init ==
    /\ life = [i \in Inc |-> "none"] /\ stdin = [i \in Inc |-> "open"]
    /\ inbox = [i \in Inc |-> <<>>] /\ pipe = [i \in Inc |-> <<>>]
    /\ term = "closed"
    /\ state = [i \in Inc |-> "idle"] /\ old = FALSE /\ turns = [i \in Inc |-> <<>>]
    /\ tracked = NoInc /\ started = 0
    /\ pub = [t \in Thread |-> NoPub] /\ loop = Free /\ reaper = Free
    /\ answer = NoInc /\ file = NoInc
    /\ work = 0 /\ mixed = {} /\ looked = {}

WorkLeft == work < MaxWork /\ work' = work + 1

----
(***************************************************************************)
(* setState: the field and the file, then the event.                       *)
(***************************************************************************)
\* The command loop is done with its command when its setState is.
Published(t) ==
    /\ pub' = [pub EXCEPT ![t] = NoPub]
    /\ loop' = IF t = Loop THEN Free ELSE loop

SetState(t) ==
    /\ pub[t].next = "file"
    /\ state' = [state EXCEPT ![pub[t].inc] = pub[t].state]
    /\ file' = pub[t].inc
    /\ pub' = [pub EXCEPT ![t].next = "event"]
    /\ UNCHANGED <<procVars, old, turns, mapVars, loop, reaper, answer, histVars>>

EmitState(t) ==
    /\ pub[t].next = "event"
    /\ Published(t)
    /\ UNCHANGED <<procVars, structVars, mapVars, reaper, answer, file, histVars>>

----
(***************************************************************************)
(* The lock of a process's struct.  send holds it from before its push     *)
(* until after its setState, set_effort for its write.  An answer to a     *)
(* question of the process is written under it too, by the reader or by    *)
(* the reaper; one that need not wait changes nothing here.                *)
(***************************************************************************)
LoopHolds(i) ==
    loop.inc = i /\ (loop.at = "write" \/ (loop.at = "publish" /\ loop.kind = "prompt"))

LockFree(i) == ~LoopHolds(i) /\ answer # i

AnswerWaits(i) ==
    /\ answer = NoInc /\ ~LoopHolds(i)
    /\ stdin[i] = "full"
    /\ answer' = i
    /\ UNCHANGED <<procVars, structVars, mapVars, pub, loop, reaper, file, histVars>>

AnswerEnds ==
    /\ answer # NoInc /\ stdin[answer] # "full"
    /\ answer' = NoInc
    /\ UNCHANGED <<procVars, structVars, mapVars, pub, loop, reaper, file, histVars>>

----
(***************************************************************************)
(* The command loop.  A refused command changes nothing here, and neither  *)
(* does one that only passes a line or a signal to the process (set_mode,  *)
(* set_model, decide, interrupt), although its line may wait like another. *)
(***************************************************************************)

\* start of a session that is in the map, whatever became of its process.
StartAgain ==
    /\ loop = Free /\ tracked # NoInc
    /\ loop' = At("publish", tracked)
    /\ pub' = [pub EXCEPT ![Loop] = Pub(tracked, state[tracked])]
    /\ UNCHANGED <<procVars, structVars, mapVars, reaper, answer, file, histVars>>

\* What a start may ask for.  Odoo sends allow_live for a person who ticked it.
StartArgs == [resume : BOOLEAN, allow_live : BOOLEAN]
Looks(args) == args.resume /\ ~args.allow_live

Alive(i) == life[i] \in {"up", "orphan"}

\* Mutation: only the processes that a runner started are looked at.
MutLiveElsewhere == \E i \in Inc : Alive(i) /\ i # tracked
\* livePID: the processes of this session that this runner does not know, which
\* are a person's terminal and what a dead runner left behind.
LiveElsewhere == term # "closed" \/ \E i \in Inc : Alive(i) /\ i # tracked

\* The look takes up to 30 s; the refusal is the case that is not here.
StartChecks ==
    /\ loop = Free /\ tracked = NoInc /\ started < MaxStarts /\ work < MaxWork
    /\ ~LiveElsewhere
    /\ loop' = At("checked", NoInc)
    /\ UNCHANGED <<procVars, structVars, mapVars, pub, reaper, answer, file, histVars>>

\* A new session, or a resume that may be beside a live process, is not looked for.
MaySpawn(args) == loop.at = IF Looks(args) THEN "checked" ELSE "free"

\* Spawned is ready: the reader and the waiter begin after the first setState.
StartSpawns(args) ==
    /\ MaySpawn(args)
    /\ tracked = NoInc /\ started < MaxStarts /\ WorkLeft
    /\ started' = started + 1 /\ tracked' = started'
    /\ life' = [life EXCEPT ![started'] = "up"]
    /\ loop' = At("launch", started')
    /\ pub' = [pub EXCEPT ![Loop] = Pub(started', "idle")]
    /\ old' = FALSE
    /\ looked' = IF Looks(args) THEN looked \cup {started'} ELSE looked
    /\ UNCHANGED <<stdin, inbox, pipe, term, state, turns, reaper, answer, file, mixed>>

\* The directory cannot be made, or the process not be started.
SpawnFails ==
    /\ loop.at = "checked"
    /\ loop' = Free
    /\ UNCHANGED <<procVars, structVars, mapVars, pub, reaper, answer, file, histVars>>

Pushes(i, kind) == turns' = [turns EXCEPT ![i] = Append(@, kind)]

\* send waits for the lock before it queues its turn; set_effort queues first.
SendsPrompt ==
    /\ loop = Free /\ tracked # NoInc /\ WorkLeft
    /\ loop' = [at |-> "lock", inc |-> tracked, kind |-> "prompt"]
    /\ UNCHANGED <<procVars, structVars, mapVars, pub, reaper, answer, file, mixed, looked>>

SetsEffort ==
    /\ loop = Free /\ tracked # NoInc /\ WorkLeft
    /\ Pushes(tracked, "command")
    /\ loop' = [at |-> "lock", inc |-> tracked, kind |-> "command"]
    /\ UNCHANGED <<procVars, state, old, mapVars, pub, reaper, answer, file, mixed, looked>>

TakesLock ==
    /\ loop.at = "lock" /\ LockFree(loop.inc)
    /\ IF loop.kind = "prompt" THEN Pushes(loop.inc, "prompt") ELSE UNCHANGED turns
    /\ loop' = [loop EXCEPT !.at = "write"]
    /\ UNCHANGED <<procVars, state, old, mapVars, pub, reaper, answer, file, histVars>>

\* A write to a process that does not read waits, with the lock.  Only a prompt
\* makes the session busy, and counts for the reaper.
Write ==
    /\ loop.at = "write" /\ stdin[loop.inc] = "open" /\ life[loop.inc] = "up"
    /\ inbox' = [inbox EXCEPT ![loop.inc] = Append(@, loop.kind)]
    /\ IF loop.kind = "prompt"
       THEN /\ old' = FALSE
            /\ pub' = [pub EXCEPT ![Loop] = Pub(loop.inc, "busy")]
            /\ loop' = [loop EXCEPT !.at = "publish"]
       ELSE loop' = Free /\ UNCHANGED <<old, pub>>
    /\ UNCHANGED <<life, stdin, pipe, term, state, turns, mapVars, reaper, answer, file, histVars>>

DropLast(q) == IF q = <<>> THEN q ELSE SubSeq(q, 1, Len(q) - 1)

\* Mutation: the entry of a turn that was never written stays.
MutWriteFails ==
    /\ loop.at = "write" /\ stdin[loop.inc] = "closed"
    /\ loop' = Free
    /\ UNCHANGED <<procVars, structVars, mapVars, pub, reaper, answer, file, histVars>>
\* stdin is closed or its reader is gone: the push is taken back.
WriteFails ==
    /\ loop.at = "write" /\ stdin[loop.inc] = "closed"
    /\ turns' = [turns EXCEPT ![loop.inc] = DropLast(@)]
    /\ loop' = Free
    /\ UNCHANGED <<procVars, state, old, mapVars, pub, reaper, answer, file, histVars>>

----
(***************************************************************************)
(* stop, by the command loop or by the reaper: the lock, then stdin, then  *)
(* the signals.                                                            *)
(***************************************************************************)
Close(i) == stdin' = [stdin EXCEPT ![i] = "closed"]

\* Mutation: the entry leaves the map when the stop begins.
MutLoopStops ==
    /\ loop = Free /\ tracked # NoInc
    /\ tracked' = NoInc
    /\ loop' = At("close", tracked)
    /\ UNCHANGED <<procVars, structVars, started, pub, reaper, answer, file, histVars>>
LoopStops ==
    /\ loop = Free /\ tracked # NoInc
    /\ loop' = At("close", tracked)
    /\ UNCHANGED <<procVars, structVars, mapVars, pub, reaper, answer, file, histVars>>

LoopCloses ==
    /\ loop.at = "close" /\ LockFree(loop.inc)
    /\ Close(loop.inc)
    /\ loop' = At("stop", loop.inc)
    /\ UNCHANGED <<life, inbox, pipe, term, structVars, mapVars, pub, reaper, answer, file, histVars>>

\* The list of idle sessions is made under the map's lock and used without it.
ReaperLists ==
    /\ reaper = Free /\ tracked # NoInc
    /\ state[tracked] = "idle" /\ old
    /\ reaper' = At("listed", NoInc)
    /\ UNCHANGED <<procVars, structVars, mapVars, pub, loop, answer, file, histVars>>

\* By the time its turn comes the session may have another process, or none.
ReaperStops ==
    /\ reaper.at = "listed"
    /\ reaper' = IF tracked = NoInc THEN Free ELSE At("close", tracked)
    /\ UNCHANGED <<procVars, structVars, mapVars, pub, loop, answer, file, histVars>>

ReaperCloses ==
    /\ reaper.at = "close" /\ LockFree(reaper.inc)
    /\ Close(reaper.inc)
    /\ reaper' = At("stop", reaper.inc)
    /\ UNCHANGED <<life, inbox, pipe, term, structVars, mapVars, pub, loop, answer, file, histVars>>

Stopping(i) == \/ loop.at = "stop" /\ loop.inc = i /\ loop' = Free /\ UNCHANGED reaper
               \/ reaper.at = "stop" /\ reaper.inc = i /\ reaper' = Free /\ UNCHANGED loop

\* A process that nobody waits for is gone at once, and writes to it fail.
Dies(i) ==
    /\ Close(i)
    /\ life' = [life EXCEPT ![i] = IF @ = "up" THEN "exited" ELSE "gone"]
    /\ inbox' = [inbox EXCEPT ![i] = <<>>]

\* The waiter closed s.done.
StopReturns(i) ==
    /\ Stopping(i) /\ life[i] = "gone"
    /\ UNCHANGED <<procVars, structVars, mapVars, pub, answer, file, histVars>>

\* Mutation: stop waits for the process to leave, and only that.
MutStopKills(i) ==
    /\ Stopping(i) /\ life[i] \in {"exited", "clear", "tell"}
    /\ UNCHANGED <<procVars, structVars, mapVars, pub, answer, file, histVars>>
\* Five seconds, SIGTERM, five more, SIGKILL: stop does not wait for the rest.
StopKills(i) ==
    /\ Stopping(i) /\ life[i] # "gone"
    /\ IF life[i] = "up" THEN Dies(i) ELSE UNCHANGED <<life, stdin, inbox>>
    /\ UNCHANGED <<pipe, term, structVars, mapVars, pub, answer, file, histVars>>

----
(***************************************************************************)
(* The reader of a process: one frame at a time.  It ends with the pipe,   *)
(* not with the waiter: what it had buffered when Wait closed the pipe it  *)
(* still handles.                                                          *)
(***************************************************************************)
Reads(i, frames) ==
    /\ pub[i] = NoPub
    /\ ~(loop.at = "launch" /\ loop.inc = i)
    /\ pipe[i] # <<>> /\ Head(pipe[i]) \in frames
    /\ pipe' = [pipe EXCEPT ![i] = Tail(@)]

ReadAssistant(i) ==
    /\ Reads(i, {"assistant"})
    /\ pub' = IF state[i] = "busy" THEN pub ELSE [pub EXCEPT ![i] = Pub(i, "busy")]
    /\ UNCHANGED <<life, stdin, inbox, term, structVars, mapVars, loop, reaper, answer, file,
                   histVars>>

\* The head of the queue owns the result; an empty queue stays empty.
Pop(q) == IF q = <<>> THEN q ELSE Tail(q)

ReadResult(i) ==
    /\ Reads(i, Kind \cup {"own"})
    /\ mixed' = IF Head(pipe[i]) = "own" /\ turns[i] # <<>> THEN mixed \cup {i} ELSE mixed
    /\ turns' = [turns EXCEPT ![i] = Pop(@)]
    /\ old' = (old /\ tracked # i)
    /\ pub' = [pub EXCEPT ![i] = Pub(i, "idle")]
    /\ UNCHANGED <<life, stdin, inbox, term, state, mapVars, loop, reaper, answer, file,
                   work, looked>>

(***************************************************************************)
(* The waiter of a process.                                                *)
(***************************************************************************)
\* Wait returns and closes the pipe under the reader, which keeps what it has
\* buffered; the entry leaves the map.  (The field is set with it: nobody finds
\* the struct in the map any more.)
Waits(i) ==
    /\ life[i] = "exited" /\ ~(loop.at = "launch" /\ loop.inc = i)
    /\ life' = [life EXCEPT ![i] = "clear"]
    /\ tracked' = NoInc
    /\ state' = [state EXCEPT ![i] = "stopped"]
    /\ \E n \in 0..Len(pipe[i]) : pipe' = [pipe EXCEPT ![i] = SubSeq(@, 1, n)]
    /\ UNCHANGED <<stdin, inbox, term, old, turns, started, threadVars, file, histVars>>

ClearsState(i) ==
    /\ life[i] = "clear"
    /\ life' = [life EXCEPT ![i] = "tell"]
    /\ file' = NoInc
    /\ UNCHANGED <<stdin, inbox, pipe, term, structVars, mapVars, threadVars, histVars>>

TellsStopped(i) ==
    /\ life[i] = "tell"
    /\ life' = [life EXCEPT ![i] = "gone"]
    /\ UNCHANGED <<stdin, inbox, pipe, term, structVars, mapVars, threadVars, file, histVars>>

----
(***************************************************************************)
(* The claude process, time and the runner's own death.                    *)
(***************************************************************************)
\* A turn may say something before it ends (bound: one frame unread at a time).
CliSpeaks(i) ==
    /\ life[i] = "up" /\ inbox[i] # <<>> /\ pipe[i] = <<>>
    /\ pipe' = [pipe EXCEPT ![i] = <<"assistant">>]
    /\ UNCHANGED <<life, stdin, inbox, term, structVars, mapVars, threadVars, file, histVars>>

\* Lines are taken in order, and each one ends with a result.
CliEndsTurn(i) ==
    /\ life[i] = "up" /\ inbox[i] # <<>>
    /\ pipe' = [pipe EXCEPT ![i] = Append(@, Head(inbox[i]))]
    /\ inbox' = [inbox EXCEPT ![i] = Tail(@)]
    /\ UNCHANGED <<life, stdin, term, structVars, mapVars, threadVars, file, histVars>>

\* A turn nobody wrote, for a background task or a message of another session.
CliEndsOwnTurn(i) ==
    /\ life[i] = "up" /\ WorkLeft
    /\ pipe' = [pipe EXCEPT ![i] = Append(@, "own")]
    /\ UNCHANGED <<life, stdin, inbox, term, structVars, mapVars, threadVars, file, mixed, looked>>

\* It takes its time over its stdin, for ever if it likes, until the pipe is full.
CliStopsReading(i) ==
    /\ life[i] = "up" /\ stdin[i] = "open" /\ WorkLeft
    /\ stdin' = [stdin EXCEPT ![i] = "full"]
    /\ UNCHANGED <<life, inbox, pipe, term, structVars, mapVars, threadVars, file, mixed, looked>>

CliReadsOn(i) ==
    /\ stdin[i] = "full"
    /\ stdin' = [stdin EXCEPT ![i] = "open"]
    /\ UNCHANGED <<life, inbox, pipe, term, structVars, mapVars, threadVars, file, histVars>>

CliExits(i) ==
    /\ life[i] \in {"up", "orphan"}
    /\ Dies(i)
    /\ UNCHANGED <<pipe, term, structVars, mapVars, threadVars, file, histVars>>

\* A person opens and closes the session in a terminal.  "late" is one that was
\* opened after a look that the session was resumed upon, or will be.
TermOpens ==
    /\ term = "closed" /\ WorkLeft
    /\ term' = IF loop.at = "checked" \/ \E i \in looked : Alive(i) THEN "late" ELSE "early"
    /\ UNCHANGED <<life, stdin, inbox, pipe, structVars, mapVars, threadVars, file, mixed, looked>>

TermCloses ==
    /\ term # "closed"
    /\ term' = "closed"
    /\ UNCHANGED <<life, stdin, inbox, pipe, structVars, mapVars, threadVars, file, histVars>>

\* The idle limit passes since the last prompt or result: minutes, in which no
\* goroutine is in the middle of something.
GetsOld ==
    /\ tracked # NoInc /\ ~old /\ loop = Free /\ \A t \in Thread : pub[t] = NoPub
    /\ old' = TRUE
    /\ UNCHANGED <<procVars, state, turns, mapVars, threadVars, file, histVars>>

\* The runner dies, or leaves after StopAll, and is started again.  Its
\* processes lose both ends and live on for a while; OpenSpool removes the files.
RunnerRestart ==
    /\ WorkLeft
    /\ life' = [i \in Inc |-> CASE life[i] = "up" -> "orphan"
                                [] life[i] = "none" -> "none"
                                [] OTHER -> IF life[i] = "orphan" THEN "orphan" ELSE "gone"]
    /\ stdin' = [i \in Inc |-> IF life[i] = "none" THEN "open" ELSE "closed"]
    /\ inbox' = [i \in Inc |-> <<>>] /\ pipe' = [i \in Inc |-> <<>>]
    /\ turns' = [i \in Inc |-> <<>>]
    /\ state' = [i \in Inc |-> "idle"] /\ old' = FALSE
    /\ tracked' = NoInc
    /\ pub' = [t \in Thread |-> NoPub] /\ loop' = Free /\ reaper' = Free
    /\ answer' = NoInc /\ file' = NoInc
    /\ UNCHANGED <<term, started, mixed, looked>>

----
Publish(t) == SetState(t) \/ EmitState(t)
Read(i) == ReadAssistant(i) \/ ReadResult(i)
Wait(i) == Waits(i) \/ ClearsState(i) \/ TellsStopped(i)
Stop(i) == StopReturns(i) \/ StopKills(i)
LoopActs ==
    \/ StartAgain \/ StartChecks \/ SpawnFails
    \/ \E args \in StartArgs : StartSpawns(args)
    \/ SendsPrompt \/ SetsEffort \/ TakesLock \/ Write \/ WriteFails
    \/ LoopStops \/ LoopCloses
Reap == ReaperLists \/ ReaperStops \/ ReaperCloses
Cli(i) ==
    \/ CliSpeaks(i) \/ CliEndsTurn(i) \/ CliEndsOwnTurn(i)
    \/ CliStopsReading(i) \/ CliReadsOn(i) \/ CliExits(i)

Next ==
    \/ \E t \in Thread : Publish(t)
    \/ LoopActs
    \/ Reap
    \/ \E i \in Inc : AnswerWaits(i) \/ Stop(i) \/ Read(i) \/ Wait(i) \/ Cli(i)
    \/ AnswerEnds
    \/ TermOpens \/ TermCloses \/ GetsOld
    \/ RunnerRestart

\* The command loop, a stop and a waiter that are in the middle of something go
\* on, an answer is done when the process reads it, and the lock is not kept from
\* one who waits for it while others come and go (Go's mutex is fair to a waiter,
\* and a pipe that is read has room again and again).  No command has to come, and
\* nothing is assumed of the process: not that it reads, and not that it leaves.
LoopGoesOn ==
    \/ Publish(Loop) \/ TakesLock \/ Write \/ WriteFails \/ LoopCloses \/ SpawnFails
Fairness ==
    /\ SF_vars(LoopGoesOn)
    /\ WF_vars(\E i \in Inc : Stop(i))
    /\ \A i \in Inc : WF_vars(Wait(i))
    /\ SF_vars(AnswerEnds)

Spec == Init /\ [][Next]_vars /\ Fairness

----
Frame == Kind \cup {"own", "assistant"}
Life == {"none", "up", "exited", "clear", "tell", "gone", "orphan"}
Place == {"free", "checked", "launch", "lock", "write", "publish", "close", "stop"}
LoopState == [at : Place, inc : Inc \cup {NoInc}, kind : Kind]

TypeOK ==
    /\ life \in [Inc -> Life] /\ stdin \in [Inc -> {"open", "full", "closed"}]
    /\ term \in {"closed", "early", "late"}
    /\ inbox \in [Inc -> Seq(Kind)]
    /\ pipe \in [Inc -> Seq(Frame)]
    /\ state \in [Inc -> State \cup {"stopped"}]
    /\ old \in BOOLEAN /\ turns \in [Inc -> Seq(Kind)]
    /\ tracked \in Inc \cup {NoInc} /\ started \in 0..MaxStarts
    /\ pub \in [Thread -> [inc : Inc \cup {NoInc}, state : State \cup {"stopped"},
                           next : {"none", "file", "event"}]]
    /\ loop \in LoopState
    /\ loop.at \in {"launch", "publish"} <=> pub[Loop] # NoPub
    /\ reaper \in [at : {"free", "listed", "close", "stop"}, inc : Inc \cup {NoInc}, kind : Kind]
    /\ answer \in Inc \cup {NoInc} /\ file \in Inc \cup {NoInc}
    /\ work \in 0..MaxWork
    /\ mixed \subseteq Inc /\ looked \subseteq Inc

\* No live process escapes the runner: as long as it runs it is the map's entry,
\* so a stop, the reaper or StopAll can reach it, and there is only one.
NoProcessEscapes ==
    \A i \in Inc : life[i] \in {"up", "exited"} => tracked = i

\* Two processes of one session lose each other's turns.  For one that was resumed
\* after a look this holds as long as it lives, crashes of the runner included: of
\* all the processes a runner ever started for the session none that is older
\* lives, and a terminal beside it was opened after the look.  (In the time between
\* the look and the spawn, or later; nothing guards against that, and nothing is
\* said of a start that was told not to look.)
ResumesAlone ==
    \A i \in looked : Alive(i) =>
        /\ \A j \in Inc : j < i => ~Alive(j)
        /\ term # "early"

\* The turns that frames are the results of: a result names its turn.
Results(frames) ==
    LET upTo[n \in 0..Len(frames)] ==
            IF n = 0 THEN <<>>
            ELSE IF frames[n] \in Kind THEN Append(upTo[n - 1], frames[n]) ELSE upTo[n - 1]
    IN  upTo[Len(frames)]

\* The loop's turn is in the queue and not yet written.
Pushed == loop.at = "write" \/ (loop.at = "lock" /\ loop.kind = "command")

\* The turns a process still owes a result, in the order it will give them.
Owed(i) ==
    Results(pipe[i] \o inbox[i])
       \o (IF loop.inc = i /\ Pushed THEN <<loop.kind>> ELSE <<>>)

\* The head of the queue owns the next result, through failed writes, closed
\* stdins and results that come back before the write returned: the queue is what
\* the process owes.  Only a turn the process began by itself can mix them up.
HeadOwnsResult ==
    \A i \in Inc \ mixed : life[i] = "up" => turns[i] = Owed(i)

\* The command loop is in a write to a live process that does not read, or waits
\* for the lock of an answer that is.
HeldByWrite ==
    /\ loop.inc # NoInc /\ stdin[loop.inc] = "full"
    /\ loop.at = "write" \/ answer = loop.inc

\* The command loop comes back from every command, a stop of a process that does
\* not leave included: the sessions behind it in the queue are not held up.  One
\* thing alone can hold it, for as long as that process lives and does not read: a
\* write to it, which a stop waits for as well, before any of its signals.
LoopComesBack == <>[]HeldByWrite \/ []<>(loop.at = "free")
====
