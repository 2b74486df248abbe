# Verification of flight-deck.sh

Flight Deck runs Claude Code sessions for people: Odoo (or the older Python
server) is the page, a small Go program called the *runner* owns the `claude`
processes on a machine, and a Go ledger adds up what the sessions cost. This
directory holds TLA+ modules of the parts where processes, goroutines, database
transactions and files meet, TLC configurations that check them on small
instances, and TLAPS proofs of what matters most for every instance.

Paths below are relative to the repository's root, `src/` in `PROJECT.json`.
`PROJECT.json` ties every definition to the lines it models, lists the hazards of
the code, and names for every checked property a mutation of the code that
breaks it.

To check something by hand:

    tlc -workers 2 -config CommandSpool.cfg CommandSpool
    tlapm ChannelProofs.tla

## The system

    person -- page / chat / workflow --> Odoo ----cmd/*.json----> runner ---stdin---> claude
                                          |  <---events.jsonl---    |   <--stdout---    |
                                          |  <---deltas.jsonl---    |                   |
                                          |  <---state/*.json---    |              transcript
                                          |                                           |
                                          +------- follow, map, spend, messages ------+
                                                            fd serve, fd ingest --> ledger (SQLite)

| Component | State it keeps | Operations | What is hard | Module |
|---|---|---|---|---|
| Command spool (`go/runner/spool.go`, `process.go` Handle, Odoo `runner.py`, `spool.py`) | `cmd/`, `done/`, `events.jsonl`; the runner's map of handled ids; audit rows, `next_seq`, `events_offset` | submit, scan, handle, acknowledge, move, poll | A file is written inside an open transaction; what was handled is kept in memory; crash between any two of run, acknowledge, move | CommandSpool |
| Permission gate (`go/runner/control.go`, Odoo `decision.py`) | map of parked requests; decision records | ask, decide, expire, drop; create and close a record; click | Four goroutines and a person race for one answer; the log and the map are written apart | PermissionGate |
| Runner sessions (`go/runner/process.go`, `start_options.go`, `control.go`) | map of live sessions, per session state, lock and queue of turns, state file | start, send, set_effort, stop, read, wait, reap | Reader, waiter, reaper and command loop; long operations between a check and its use; a write that waits with the lock; restart with processes left behind | RunnerSession |
| Delta stream (`go/runner/delta.go`) | tracked streams with buffer, number and timer | append, tick, close, flush, drop | A timer that fired cannot be stopped; lines are written outside the lock | DeltaStream |
| Runner usage report (`go/runner/usage.go`) | none | periodic report | none | - |
| Orchestrator relay and supervisor (`orchestrator_relay.py`, `orchestrator_supervisor.py`) | requests, the gate's state, the relay's session, observations | send, notice, start, stop, gate test, gate, time limits, poll, reconcile | The page's and the cron's transactions on snapshots; commands that no rollback takes back; a process that says what it likes | Orchestrator |
| Session mirror (`session.py`, `session_spend.py`, `transcript_reader.py`) | three cursors over one transcript; turns, agents, spend | follow, map, spend, rescan, rebuild, follow button | Pieces and half lines; a file written again; the offset a click picks beside a job | SessionMirror |
| Messages between sessions (`session_message.py`, `transcript_reader.py`) | a row per message, a cursor per transcript | read a piece, join, resolve from the roster | Both ends in any order; forks that copy lines of their parent | PeerMessages, MessageJournal |
| Tasks and labels (`task.py`, `task_classifier.py`, `turn_feedback.py`, `agent_activity.py`) | labels, tasks, open turns, queued jobs | label job, Luna's job, label pass, a person's labels, Classify again, rollup | Engines that take minutes without a transaction; turns that run, end and are billed meanwhile | TaskLabels |
| Chat and workflow bridges (`chat_bridge.py`, `agent_runners.py`) | reply rows | send and wait, answer from a result or from the transcript | Only the order ties an answer to its request | ChatBridge |
| Go ledger and ingest (`go/core/ingest`, `ledger`, `activity`), server | SQLite: responses, turns, busy time, cursors | read a file's new lines, sweep, watch | Two ingesters; files that grow while they are read; forks that copy their parent | TranscriptLedger |
| Metrics, pricing, importer, rtk | none of their own | queries | none | - |
| Python ingest and runtime | snapshot cache, changed paths | the older reader of the same files | cache replaced out of order | - |
| Approval hook (`decisions.py`, `bin/fd-approve`) | decision rows | hook waits, person resolves, auto-release | check-then-update of a row, fails open | - |
| Flow hub, missions, radar, treasures, send, ssh | files and rows | edits from several processes | whole-file saves, holds that are taken over | - |

The page, themes, deployment and API schemas have no protocol of their own.

What makes each modelled component correct:

- *Spool*: every command is answered; the row of every command closes, once, with
  what the runner said; a command is not run twice without a reason; commands run
  in the order their transactions committed.
- *Gate*: one answer per request; no tool call is allowed that nobody allowed; no
  turn waits forever; the record says what happened.
- *Sessions*: every process that runs is the map's entry; a process that was resumed after a look has no
  older one beside it; a result is charged to the turn that asked for it; the command loop
  comes back, unless it is held by a write to a process that does not read.
- *Deltas*: text that was read is written, though nothing more is printed; snapshots
  can be told apart by number.
- *Orchestrator*: no text reaches a session that a person did not confirm or a rule write;
  what became of a request is final; no message waits for a test that was passed.
- *Mirror*: every turn since following began is stored, every result finds its call,
  every response is billed once, however the file was cut and read.
- *Messages*: a row names who sent and who got the message, once their transcripts
  were read, whatever the order.
- *Labels*: tasks are those the labels lead to; a person's label stays; a turn that
  caused no work is not a task; every ended turn is labelled.
- *Bridges*: an answer is the answer to that request, unless turns were lost or
  came from elsewhere; no row waits for ever.
- *Ledger*: rows, turns and busy time are those of one read of each file, however it
  was cut; the first session keeps a response; everything is read in the end.

## Modules

Every module has the same layout: constants and their assumption, variables with
what they stand for, one action per operation or, where a lock is released or a
write happens in between, one per atomic part, then fairness and the properties.
An operator `MutX` before `X` is what a plausible bug would make of it; it is not
used by the specification. An `MC` module only gives constants that a
configuration cannot write down, and symmetry.

How the modules fit together: CommandSpool shows what Odoo and the runner may rely on
of the spool (files in the order of their commits, a file that stays when its
transaction is rolled back, events in order and each applied by one committed poll).
PermissionGate, Orchestrator and ChatBridge take just that for granted: commands as a set
or queue that a rollback leaves alone, events as a sequence a poll reads and
commits or reads again. Orchestrator has the runner's gate reduced to what
PermissionGate shows of it (a call is answered once, or denied when the process
ends). TaskLabels takes the spend cursor of SessionMirror as one step.

### CommandSpool

One command from `_submit` to its closed row. Odoo's workers hold a transaction
each (`tx`): `BeginSubmit` takes the next number from the runner's row,
`WriteCommand` is the rename into `cmd/` while that transaction is open,
`CommitSubmit` or `RollbackSubmit` ends it. `BeginPoll`, `CommitPoll` and `EndPoll`
are the cron. A transaction sees its snapshot, and PostgreSQL refuses at
REPEATABLE READ to update a row another transaction changed: `_submit` and
`_poll_events` both update the runner's row, which is why they never overlap to
effect (`stale`).

The runner is `Scan`, `HandleSeen` or `HandleRun`, `EmitAck`, `FinishCommand`: the
order of `Manager.Handle` with a crash possible between any two. `seen` is the map
kept in memory, thrown away past `SeenCap`. A rename or an append may fail; both
are only logged by the code, and the model goes on as it does.

A command that expired (`expires_at`, looked at by `send` only) is one of those that
fail in `HandleRun`. Left out here: what a poll does besides acknowledgements; a file in `cmd/`
that cannot be read, which the code passes over until its next scan while later ones go first
(`spool.go:126`), and one that is no JSON, which it acknowledges without an id and moves
(`spool.go:131`). Odoo's connector renames only whole files into `cmd/`.

### PermissionGate

`AskParks` and `AskTells` are the two halves of `Manager.ask`: into the map under
its lock, then the event. `Take`, `Decide`, `Expire` and `DropPermissions` take a
request out; `Respond` writes the answer and `LogDecision` the event. Odoo applies
events in order (`ApplyEvent`), and a person clicks (`Click`), which writes the
record and submits a command in one transaction, or is rolled back after the command's
file was written (`ClickRolledBack`). Commands and events behave as CommandSpool
shows: a command may arrive though its row was rolled back, and events arrive in order.
`MCPermissionGate` gives the requests and their processes.

### RunnerSession

One session id through its processes. `loop` is where the command loop stands
(`checked`: `livePID` found nothing; `launch`: the process is up; `lock`: it waits for the lock of
the session's struct; `write`: it has the lock and writes a turn; `publish`: inside `setState`;
`close`: a stop that waits for the lock; `stop`: a stop that waits for the process), `reaper` where the
reaper stands. `pub` is a goroutine inside `setState`: the field, the file, the
event, so two may be in it at once. `Read` is the reader goroutine on a frame,
`Wait` the steps of the waiter, `Cli` what the process does. `RunnerRestart` leaves the
processes behind (`orphan`).

*Who else has the session.* `term` is a person's terminal with this session, which opens and closes
as the person likes. `LiveElsewhere` is what `livePID` reports: the terminal, or what a dead runner left
behind. A start looks only if it resumes and was not sent `allow_live` (`StartArgs`, `Looks`), which
Odoo sends for a person who ticked "Send even if open elsewhere" (`session_send.py:54-56,108`).
`StartChecks` and `StartSpawns` are two steps: a terminal may be opened between them, and nothing
looks again.

*Who has the lock.* `send` holds the lock of the struct from before its push, over the write, to the
end of its `setState`; `set_effort`, and the answer to a question of the process, over the write.
`stop` takes it before it closes stdin. A write to a process that does not read (`stdin` is `full`)
does not return, so whoever wants the lock waits behind it: `LoopHolds`, `answer`, `LockFree`. An answer,
by the reader or the reaper, is modelled only where it has to wait. While a write waits a stop does
not get as far as closing stdin, and so never to a signal.

### DeltaStream

`stream` is the map of tracked streams. `ReadText` is `append`, with its limits on
streams and buffers; `Fires` a timer that goes off and waits for the lock; `Tick`
what it finds there, which may be another block's stream under the same key;
`TickWrites` the write after the lock. `Begins` and `Step` are the goroutines
that flush: the reader and the command loop before an event, the waiter that
drops the session.

### TranscriptLedger

Claude Code is external: sessions write lines (`Writes`, half of one with
`WritesPart`), a fork copies its parent's lines (`Forks`, `CopiesLine`), some
resumes repeat earlier lines (`Replays`), old files are deleted (`Deletes`). The
server takes a batch of changed files (`IngestPaths`) or sweeps (`Sweep`), as `fd
ingest` does at any time. `Stats` is the part of `File` before the write lock, `Reads`
the transaction: where it starts, what every line does to rows, turns, busy time and
the turn's state, and the cursor. `Read` is the fold over the lines, with `Feed`
split as the code branches: `OpensTurn`, `Folded`, `GoesOn`, `Advances`. Events are lost before the server watches, or for another reason.

`InOrder` is the order of birth. Where the filesystem keeps no birth time, which Linux asks by `statx`
(`born_linux.go`), the code takes the time of the last write instead, then the path (`sweep.go:16`): a
parent that is still written to then comes after its fork, and `FirstSessionKeeps` is not claimed there.

Left out: files that are rewritten, subagents' files, two files of one session,
titles, when a turn ended, the length of a gap and the wait for a person's answer.

### Orchestrator

A worker's transaction runs at once on the snapshot it began with (`Run`), and commits or
is rolled back in a later step (`Commit`, `Abort`): what it wrote of each row is
merged, and it is refused when a row it wrote was written since (`Refused`), as
PostgreSQL does. The page's request is then run again by Odoo, until it gives up
(`GivesUp`). Each handler is an operator on a transaction's work, with every call it makes:
`Queue` and `Forward` (a message), `StartRelay` with `Tested` and `Stamped` (start
and gate test), `KeepUp` and `SuperviseRelay` (the supervisor's pass, its time limits and
back-off as `over`), `CatchUp` (what the page's look does), `PollEvents` with
`ApplyEvent` and `Reconcile`, and `Gate`, which compares a SendMessage call with
the requests handed over. Commands are written when the transaction runs, not when it
commits. The runner (`HandleStart`, `HandleTurn`, `HandleDecide`, `HandleStop`) and the
process (`Calls`, `CallsProbe`, `Exits`) are as PermissionGate and RunnerSession have them,
reduced to one session.

Left out: questions and replies, which decide nothing here; calls of other tools, which are
denied; the rotation of a relay whose context grew; errors of the roster in a page's send;
watches that fire once. A poll's events and its reconcile are one step.

### PeerMessages and MessageJournal

`Calls`, `Answers`, `Receives`, `Forks` and `Rewrites` are Claude Code. `ReadSession` is one
pass of the scan over one transcript: from its cursor, or from the top of a file that
is shorter, with `OnSend`, `OnSent`, `OnAnswered` and `OnReceived` per line and
`Resolve` for ends that nobody's transcript named. `MessageJournal` is what the rows
promise: an end goes from nobody to a session that holds the line, then only to
one that started earlier, and is right once the session that wrote it was read. There is one exception,
`Corrected`: an end which the roster of live processes (`Roster`) gave to a session before its writer stays
there, because a transcript takes an end over from a later session only (`session_message.py:243`).
The roster may name anybody for an end.
`KeepsTheJournal` is the refinement, with `ends` mapped to the ends confirmed by the
rows (`Confirmed`).

Left out: texts, times, conversations and their counts. A transcript that was cut is
read before it has outgrown its cursor.

### SessionMirror

Offsets are halves of a line, so that a cursor can be within one. `FollowTick`,
`ScanBatch`, `RescanSpend` and `RebuildAgents` are transactions that write the session's row:
each is one step that saw some whole number of lines. The follow button looks at the
file three times in its own (`StartReads`, then `StartCommits` or, when another one committed first,
`StartConflicts`). `ApplyFollowing` is the rule that switches following off
and on.

`RebuildAgents` keeps an agent of which the file has the call, or a result that no compact line comes
before, as `scan_agents` finds agents by either.

Left out: what lines say, agents of agents and workflows with their own files, titles,
times, forks, the switch that maps a session from its start. A file written
again is read before it has outgrown a cursor.

### TaskLabels

The job queue runs one job at a time: `StartLabel`, `StartPass`, `StartLuna` and
`SpendScan`, each followed by its parts (`CatchUp`, `AskFirst`, `PassAsk`, `JobAnswer`,
`JobMarks`, `JobRollup`, `CheckEnded`, or `JobFails`). `JobAnswer` commits the labels and `JobMarks`, in a
transaction of its own, the marks by which turns are checked when they end (`task.py:258-260`); a job that raises in
between leaves turns that are labelled and not marked, which no retry finds again (`unmarked`). An engine is asked on a snapshot (`Snap`) and its
answers are written on what is there later (`ApplyLabels`). A person's `PersonLabels` and
`PersonMoves` are one request each; Classify again (`StartAgain`, `AskAgain`, `AgainAnswer`,
`AgainEnds`) runs beside the queue. `Root` climbs from follow-ups to their task,
as `resolve_tasks` does, with its answer to a circle.

Left out: the engines (any answer among `Says`), review flags, tags, steers, confidence
and costs other than whether a billed call exists, "side" intents, and sessions without a
person. One session. A job is queued and started in one step, commits that follow
each other with nothing asked in between are one, and Luna always titles a task.

### ChatBridge

`Sends` is `fd_chat_send` with what it calls: the effort command, the reply row, the
prompt's command; a person's prompt is the same without a row. `Polls` reads the events on
a snapshot: `OnResult` gives each result to the oldest waiting row. `Left` is what a
commit leaves of the other open transaction: nothing, since both write the runner's row. `Handles`,
`Begins`, `Ends`, `Dies` are the runner's queue of turns. With an older runner (`carries`
is FALSE) rows only end, and `Resumes` takes the answer from the lines `Follows` has read.

Left out: the making of a session and its options, the model and the mode (they cost no
turn), what an answer says, and the workflow engine. A turn says one thing or nothing. Also left out, and
not counted by `AnswersStayNear`: the result of a turn the process began by itself, for a background task or a
message of another session, which the runner reports like any other (`start_options.go:59`) and which
answers the oldest waiting row; and a result whose event could not be appended (`spool.go:175`), after which a row
waits as it does for a lost turn. A command runs once here; how often a failed rename and an emptied map of
handled ids may run it again is bounded in CommandSpool (`RunsBoundedByMemoryLoss`).

## Runs

| Run | Checks | Result |
|---|---|---|
| command_spool | DoneMeansAcked, RunsBoundedByMemoryLoss, RowsFollowLog, FileOrderIsCommitOrder, RowsClose | hold |
| permission_gate | AnsweredAtMostOnce, AllowNeedsPerson, RunnerSettledRecordsAgree, ParkedTurnResumes | hold |
| gate_close | EveryRecordCloses | violated |
| runner_session | NoProcessEscapes, HeadOwnsResult, ResumesAlone, LoopComesBack | hold |
| delta_stream | DirtyIsDue, SeqFollowsText, TextIsWritten | hold |
| transcript_ledger | TypeOK, LedgerIsWhatWasRead, FirstSessionKeeps, RereadChangesNothing, EverythingIsRead | hold |
| orchestrator | TypeOK, LetThroughIsOnRecord, SettledStays, NoMessageMissesTheTest | hold |
| orchestrator_wait | NoneWaitsForPassedTest | violated |
| peer_messages | TypeOK, NoAnswerIsMissed, KeepsTheJournal | hold |
| session_mirror | TypeOK, NoTurnIsSkipped, ResultsAreJoined, BilledOnce | hold |
| task_labels | TypeOK, TasksFollowLabels, EmptyIsNoWork, PersonKeepsLabel, EndedIsLabelled | hold |
| chat_bridge | BridgeTypeOK, AnswersStayNear, NoWaitIsStranded | hold |

The type invariants of CommandSpool, PermissionGate, RunnerSession and DeltaStream are proved
for every instance (below) and are not checked again by a run.

What the less obvious ones say. `LetThroughIsOnRecord` is about the gate: a call is let through only
with a text that a committed request holds, though the answer is a file that a rolled back poll
leaves behind, and the process repeats itself. It does not count: see below.
`NoTurnIsSkipped` speaks of turns written since a person last
said "from here", while the file is at least as long as the cursor. `EmptyIsNoWork`
leaves out turns a person chose or classified again, and turns whose label job was stopped between the commit of the
label and that of the mark, as long as none marks them. `ResumesAlone` speaks of a process that was resumed after a
look, for as long as it lives: no process that is older lives, of those any runner ever started for the session, and
a terminal beside it was opened after that look. `LoopComesBack` says that the loop is free again and again, unless from some
time on it is in a write to a live process that does not read, or waits for the lock of an answer that is. `AnswersStayNear` bounds by how many
requests an answer can be off: no more than turns were lost, or were run without a
row; with neither it is the request's own. Turns are numbered as they are sent, and a turn whose
request was rolled back has no place among the others, since its command's number is given again: with five turns it is
run behind later ones and answers for a row after theirs. From an older runner it holds only when each
request is made after the one before it was answered: two rows made before the first prompt
was read from the transcript both get the first one's words.

### Bounds

- **command_spool** (122 000 states): two commands, two workers, one fault (a crash, a failed
  rename or a failed append), and `SeenCap = 0`, so that the map of handled ids is
  thrown away whenever it is not empty. Two commands make an order, and the race of a
  poll with a submit; two workers the two transactions that meet.
- **permission_gate** (437 000): two requests of two processes, two different
  clicks in all, one crash. Requests meet only in the reaper, which takes several
  out at once, and in the loop. *gate_close* (500) needs one request.
- **runner_session** (1 417 000): two processes, and three pieces of work among
  processes, written turns, turns nobody wrote, terminals, times a process stops reading, and
  restarts. Two processes are a start after an end, with the old reader and waiter still at
  work, or beside what a crash left behind; three pieces are a process, a write to it and a pipe that is full, or a
  process, a crash and another process.
- **delta_stream** (780 000): three keys for two streams, a buffer of one unit with
  the note that text was cut, three deltas, one event beside the turn's. Three
  deltas make a block that outlives a timer and a second block under its key.
- **transcript_ledger** (115 000): two sessions, one of which may fork from the other, two
  ingesters, and four events among written lines, forks, half lines, replays,
  deletions, lost events, failed reads, crashes and sweeps of `fd ingest`. Copied lines
  and the server's own work are free, so a fork of three lines is read in every
  cut, and three lines of one session meet a second ingester. `FirstIsFirst` takes one session
  as the first to be born; they are alike otherwise. `Slack = 0` makes every older
  line a replay.
- **orchestrator** (1 213 000): a typed text and a notice, two requests, two calls, and two
  pieces of work among clicks, notices, calls nobody asked for, exceptions and
  exits. A command is written only when all are handled (`MaxQueue = 0`, though one
  transaction may write several) and two events wait at a time beside one a
  stop adds, so a poll can read the test call and a call behind it. Two requests and two calls are a request that failed by timeout, its repetition, and
  the late call of the first. *orchestrator_wait* (25 000): one notice.
- **peer_messages** (10 000): one message from session 1 to 2, and a fork of either; one
  transcript cut; a roster that is right about the recipient and takes a fork for the sender. Rows of different messages do not touch; forks make the many
  copies of one.
- **session_mirror** (228 000): a call, a second block of its response, its result and a
  compact boundary; two clicks, one rewrite. Four lines are every cut of a call and
  its result, and of a response read in two passes.
- **task_labels** (428 000): two turns, the first a backlog turn that ended before labels
  were there, the second may run long; one act among a person's labels, Classify
  again, jobs that raise and passes without an answer. Two turns are a task and
  its follow-up, and the smallest circle.
- **chat_bridge** (2 334 000, workers exchanged): three turns, two transactions at once,
  one fault. Three turns are an answer that is shifted with another row behind it.

Deadlock is checked in command_spool, orchestrator, orchestrator_wait and task_labels;
elsewhere the system may stop, because processes end and nobody has to ask for
anything, and the bounded inputs run out.

### Fairness

- Spool: the runner's loop ticks and a supervisor restarts a dead runner (weak); a
  transaction ends (weak); the cron polls again and again (strong, because requests may
  disable it in between, and Odoo runs crons in a thread of its own).
- Gate: a goroutine that holds work goes on, also when it writes an answer: a process that asked reads its
  stdin (what a write that waits holds up is in RunnerSession); the output of a live process is read; the
  reaper's ticker passes every request's age; the cron polls. No click is
  assumed, and no process that leaves by itself, except after its stdin was closed, when
  `stop` kills it.
- Session: a stop and a waiter in the middle of something go on (weak); the loop gets the lock it
  waits for, and a write or an answer is done, when they can be again and again (strong: the lock and the pipe
  are shared with others who come and go; Go's mutex hands itself to a waiter that starves, and a pipe that is read has room). A
  write goes on only while the process reads. Nothing is assumed of the process, neither that it reads nor
  that it leaves, nor of the reader.
- Deltas: timers fire, goroutines go on with what they began.
- Ledger: the server goes on with what it began (weak) and sweeps every five minutes
  (strong: batches may come in between). Nothing of `fd ingest`.
- Orchestrator (`FairSpec`, for orchestrator_wait only): the page is open and looks, transactions end, the
  cron polls and passes, the runner handles its commands: the request waits although
  everybody does all they can.
- Labels: the cron queues the pass and the runner starts it, a started job goes on (weak);
  a spend scan is run again and again (strong: passes may be started in between, and it
  is queued with them). Nothing of persons, and engines may fail within the bound.

### What the violations say

Each is a promise of a comment, a document or a test, quoted in `PROJECT.json`
under `findings`, and a behaviour of the model that breaks it.

- *gate_close*: the process ends between the map and the event: the decision is logged
  before the request, Odoo drops it, and the record that follows stays open.
- *orchestrator_wait*: the cron queues a notice on a snapshot in which the gate is being
  tested, while the page's poll passes the test and hands over what it sees. Nothing looks for
  queued requests of a relay whose gate is good (`orchestrator_relay.py:192`).

Other disagreements the models contain, without a run of their own: a crash between running and moving
a command runs it again, whatever `Seen` says (`spool.go:146`;
`RunsBoundedByMemoryLoss` is what holds); a click that loses to the time-out leaves its own
answer in the record (`decision.py:98`); the reaper stops a session that was
sent a prompt meanwhile (`process.go:406`); a `setState` that overlaps the end writes the state
file after it was removed (`process.go:308`); an event overtakes text a timer has
taken and not written (`delta.go:212`); a read that ends inside copied history lets the next one
count a copied gap (`activity.go:512`); a write to a process that does not read keeps the command loop, and a stop,
which is what signals are for, waits for the same lock (`process.go:338`, `process.go:362`); a terminal opened after the
look of a resume is beside it (`process.go:151`); a job stopped between the label and the mark of a turn leaves
an empty turn a task (`task.py:259`, against `task.py:213-214`); a turn that ends between the label job's spend read and its
check is labelled as one without calls while its rows are unread, and stays so
until the check that follows (`task.py:233`); Classify again marks turns as running that have ended (`task.py:530`);
the gate matches a call with a request by its text, so one request may let two calls through (the page's
transaction that finds the test late began before a notice; the cron's poll hands that notice over and answers a
call of it, and its commit is refused; the answer's file stays and lets the call through, the next poll
breaks the gate, and after a new test the notice, queued still, is handed over again:
`orchestrator_relay.py:421`, `runner.py:155`; TLC shows it in 31 steps with one notice, two calls, two commands and
three events waiting, which is why no property counts them);
"the oldest waiting reply is this turn's" does not hold once a request was
rolled back after its command was written, a person typed, or a turn was lost
(`chat_bridge.py:232`).

## Proofs

From the assumption of the module on its constants and nothing else. Every safety argument is an inductive invariant (`IInv`, or named parts of one) that holds initially, is
kept by each action in a lemma of its own, and implies the property. Where a proof needs
induction over a sequence, it takes the least element of a set of naturals (`WFMin`), with the values of
a fold given by `IsFold` and found by `FoldExists`.

- **ChannelProofs** (2345 obligations), of CommandSpool and DeltaStream, the channels between Odoo and the runner
  - `TypeCorrect`: the spool's type invariant.
  - `DoneIsAcked`: `DoneMeansAcked`. Not inductive alone: `AckInv` adds that every
    remembered id was answered, since a command seen before is moved without a new
    acknowledgement for its sake, and that the command at hand is answered when it
    is about to be moved. `AnswersStay` shows that an answer is never lost.
  - `RunsAreBounded`: `RunsBoundedByMemoryLoss`. `RunsInv` says that a command which is neither
    remembered, nor at hand, nor in `done/` was run at most once per loss of
    memory: only such a command is run. It rests on `OneFilePerId`: an id has one
    file, and a transaction that has not written its file yet has none.
  - `OrderIsKept`: `FileOrderIsCommitOrder`, for any workers and faults. `OpenInv` and
    `NumbersInv`: a transaction that may still commit holds the next number, for a
    commit in between makes it stale, so what is committed already has lower ones.
    `OrderInv`: the loop takes the lowest file of its scan, and a scan that saw a file
    saw every file committed before it.
  - `RowsAreRight`: `RowsFollowLog`. `LogInv`: a commit makes the polls beside it stale,
    so a poll that commits knew every row there is, and no acknowledgement of a command
    still to be committed was read.
  - `DeltaTypeCorrect`: DeltaStream's type invariant, with the limits on streams, on lines in flight and on
    a buffer. A buffer may hold one unit more than its limit only when it is cut
    (`Sound`), and the tracked streams must be finitely many for their number to mean anything.
  - `TextIsDue`: `DirtyIsDue`, for any streams, limits and interleaving. Not
    inductive alone: `append` leaves a fired timer alone that its stream still
    holds, so `HeldIsDue` must say that such a timer still waits for the lock.
  - `NumbersFollowText`: `SeqFollowsText`. `AllAhead`: a stream is ahead of every snapshot of
    its block, in number, and in text when it has something to write; `OwnBlock`: no
    two streams have one block, also when a fired timer finds another one under its key. `TakingKeeps`
    covers every way to take a snapshot.
- **PermissionGateProofs** (808)
  - `TypeCorrect`: the type invariant.
  - `AnswersAreSingle`: `AnsweredAtMostOnce`. A request is in one place at a time: not asked, in
    the map, in the hands of one goroutine, or answered (`Fresh`, `Parked`, `Taken`, `Answered`,
    `Once`); whoever takes it out of the map is the only one to answer.
  - `NothingIsAllowedAlone`: `AllowNeedsPerson`. `AllowIsPressed` follows an "allow" from the
    answer back through the goroutine's hands and the command to a click on that request.
  - `RunnerRecordsAgree`: `RunnerSettledRecordsAgree`, from what the log holds of a request and
    what the polls have applied of it.
- **RunnerSessionProofs** (1803)
  - `TypeCorrect`: the type invariant.
  - `ProcessesAreTracked`: `NoProcessEscapes`, for any number of processes. The
    invariant adds `NoneAhead` (processes are numbered as they start).
  - `ResumeIsSafe`: `ResumesAlone`, with crashes, terminals and starts that do not look. `CheckHolds` is the heart:
    of the processes, what `livePID` found holds up to the spawn, because only the loop spawns, and a
    restart ends the loop with everything it knew; and a terminal that opens in that time is one opened after the look.
  - `HeadIsOwner`: `HeadOwnsResult`, for queues of any length. `HeadInv` adds that a process that was
    not spawned has nothing queued. The queue is what the pipes still hold of results and turns, in that
    order, then the turn not yet written; `ResultsJoin` and `ResultsSplit` say what each step, which
    moves a frame from one pipe to the next or takes the first, does to that.
- **OrchestratorProofs** (2046)
  - The invariant says of the spool that every "allow" is to a call that was made, of a text on record
    (`GoodCmd`), and of each open transaction (`TxOK`, `TxFits`), for as long as it may still commit, that
    the events it read are the first ones there, that it makes, hands over or settles only requests that
    are not settled in the committed rows, and that a gate it opens misses no message. A handler is a function
    on the transaction's work; `Fine` is what each of them keeps, and `RunKeeps` and `CommitKeeps` carry it into
    the transaction and on into the rows.
  - `LetThroughOnRecord`: `LetThroughIsOnRecord`. What the gate matches was handed over in the
    snapshot, and `Follows` says that the committed row already held that text.
  - `NoMessageMissed`: `NoMessageMissesTheTest`. The page's transaction that queues a message for a
    relay that is not ready changes the relay's row or stamps it (`StartFine`, `Marked`), so it conflicts
    with the one that passes the test. A notice does neither, which is what *orchestrator_wait* shows.
  - `SettledIsFinal`: the action property `SettledStays`: a transaction that settled another one's request
    on its snapshot wrote a row that is stale by then, and is refused.
  - `TypeCorrect`: the type invariant, with the bound on events.
- **PeerMessagesProofs** (2064)
  - `TypeCorrect`: the type invariant; its last part is the unique keys of the table. `Unique` is
    kept line by line (`SendKeeps`, `SentKeeps`, `AnsweredKeeps`, `ReceivedKeeps`), and by the
    roster (`ResolveKeeps`), through a pass over any number of lines.
  - `NoAnswerMissed`: `NoAnswerIsMissed`. `AskedInv` and `AnsweredInv`: a call that was read waits or has
    its answer, and waits no more once the answer was read; a pass keeps both because it starts with the
    calls that wait in the rows, whichever pass read them.
  - `TheJournalIsKept`: the refinement `KeepsTheJournal`. `EndsOK` ties what the rows confirm to what
    was read, and `Forth` says that no confirmed end is lost or goes to a later session. The roster may name
    anybody: `SenderFits` and `RecipientFits` say, message by message, what is shown of an end
    whose writer is not after the session the roster names, the only kind the journal promises to set right (`Corrected`).
- **MirrorAndBridgeProofs** (6317), of SessionMirror and of ChatBridge
  - `TurnsAreStored`: `NoTurnIsSkipped`, for any script, clicks and rewrites. Not inductive
    alone: `TornAtStart` says that a cursor is within a line only while nothing was read since it
    was followed from there.
  - `ResultsFindCalls`: `ResultsAreJoined`. What is stored is joined when it is stored, so
    the proof is about order: lines are read in the order of the file (`InOrder`), and a
    call that a pass stores only now has no result behind the cursor.
  - `ResponsesAreBilledOnce`: `BilledOnce`. The total is a recursive sum, about which the provers know
    nothing; `TotalFollows` says that it changes by what each response's bill changed, and rests
    on `SumExists`, which builds the sum one response at a time. `LargestOfBoth` is why reading
    lines again, or only some of them, changes no bill: the larger of two largest blocks.
  - `TypeCorrect`: SessionMirror's type invariant. `Sizes` bounds the cursors by what the session writes, and
    that only a call has an output rests on the assumption that a line answers an earlier call.
  - The bridge's invariant, `BridgeInv`, speaks of any rows and any results still to be applied (`Good`), so that
    what one result does to the rows (`StepGood`) carries through a poll (`GoodAfter`). An open poll is described
    by the rows it went through (`PollsFit`), an open request by where its row will stand
    (`SendsFit`, `NumbersFit`): after all rows, its turn not yet read.
  - `NoneStranded`: `NoWaitIsStranded`. `EnoughToCome` counts: as many rows wait as have a turn of their own that is
    lost or still to be read. A result answers one row and takes one turn off the way.
  - `AnswersAreNear`: `AnswersStayNear`. For carried answers, `InTurn` says that a row's turn
    is run before those behind the next row, and `OneEach` that rows are answered in order, by results of
    their own; counting what lies between the row and the turn then bounds how far off it is
    (`HitLater`, `HitEarlier`), by an injection from the rows into the turns that have none. For answers read from a
    transcript, `LinesFit` is the order of prompts and words, `LinesAfter` that a row's lines
    come after it was made, and `OwnWords` that, one at a time so far, the prompts of all earlier requests were read
    before a row was made: so the first prompt after it is its own (`AnswerIsOwn`).
  - `BridgeTypeCorrect`: the bridge's type invariant.
- **TaskLabelsProofs** (1936)
  - `PersonsLabelStays`: the action property `PersonKeepsLabel`, for any turns and
    engines. `Counted` ties what a request may force to its turns, `Shaped` says what a
    job can hold at each of its steps, and `UnforcedKeeps` that answers nobody forced
    leave a person's label alone.
  - `EmptyTurnsAreNoWork`: `EmptyIsNoWork`, jobs that raise between label and mark included. A turn that made no call
    carries a mark, or waits for one (`unmarked`), or the rules know it:
    `AskedIsKnown` says so of every turn an engine is being asked about and of every turn
    that waits for Luna, since the mark goes only when the turn has ended, and nothing is
    counted that was not billed (`ReadIsBilled`).
  - `TasksAreTheLabels`: `TasksFollowLabels`. `InSync`: between a pass's labels and its rollup the tasks lag
    behind, unless a job raised. The climb is a recursive function over
    any labels, circles too: `RootIs` shows that where it stops is its own task and does work, and
    `RootClimbs` that the function is there.
  - `TypeCorrect`: the type invariant; `WorkerFits` says that what a worker holds of turns has started.
- **TranscriptLedgerProofs** (4718)
  - The provers know nothing of what a read folds together, so the invariant says what it comes to without a
    fold. A line of a file is fresh, newer than all before it, or the replay of a fresh one that lies too far
    back for the read to take it (`Climbs`), and the fresh lines up to a point say what a cursor there keeps
    (`PromptIs`, `ActIs`). `FilesOK`: files climb, and a fork begins with its parent's lines. `CursorsOK`,
    `TurnsOK`, `RowsOK`, `BusyOK`: what was kept, made, stamped and counted below the cursors. One line of a
    read keeps each of these, and an induction over the lines carries them through the read.
  - `LedgerHoldsWhatWasRead`: `LedgerIsWhatWasRead`, from `RowsOK`: a response is a row as soon as one line
    of it was read, by whichever file, and has the largest output of those lines.
  - `FirstSessionIsBilled`: `FirstSessionKeeps`. `OrderOK` is about the ingesters: what a
    fork shares with a parent is read in the parent first (`ReadFirst`), or the parent is
    due before it in the same job (`Due`).
  - `RereadIsIdempotent`: `RereadChangesNothing`, for files of any length, however their reads were cut. A read
    from the top goes through the same fresh lines, and what each of them would do is already there.
  - `TypeCorrect`: the type invariant.

Only model-checked: everything under fairness (RowsClose, ParkedTurnResumes,
LoopComesBack, TextIsWritten, EverythingIsRead, EndedIsLabelled), which TLAPS cannot prove.
Every invariant and every action property of the passing runs, and the refinement, is a theorem.

## Not modelled, and why

`PROJECT.json` lists every part with its reason. In short: reports, metrics and
surfaces have no state across steps; the Python runtime is the predecessor of the
Go ledger; the page and the schemas are no protocol; the stores of the Python server
(missions, radar, treasures, hub) are single statements or whole-file saves. Planned are the
parts below. Most of the repository's lines are of these kinds: views, reports, prompts, renderers.

Hazards seen and not listed in `PROJECT.json`, which keeps those of the modelled parts:

- Runner: `start` of a session whose process just died and is still in the map is acknowledged though
  nothing runs (`go/runner/process.go:147`); `set_effort` does not count as work for the reaper
  (`go/runner/control.go:265`); a file of deltas past its limit is cut to nothing right after a
  line was written (`go/runner/delta.go:323`); a stream past the limit drops its text (`go/runner/delta.go:162`).
- Ledger: a transcript that was rewritten and has grown past its cursor (`go/core/ingest/file.go:51`).
- Python server: the snapshot assigned outside its lock (`python/flightdeck/runtime.py:217`), the set of
  changed paths cleared before they are read (`runtime.py:291`), a trigger's file saved
  whole (`hub/triggers.py:266`), liveness checked before the lock (`routers/send.py:124`), version numbers
  taken from a directory (`treasures/filestore.py:113`), a hold taken over (`missions/store.py:336`), and
  `resolve` against the auto-release of another connection (`decisions.py:275`).
- Odoo: an end of a message that the roster resolved to a session before its writer stays
  (`session_message.py:309`); the watcher's advisory lock after an exception (`follow_watcher.py:294`); a retired relay that
  keeps its name (`orchestrator_supervisor.py:366`); counts of a conversation
  (`session_message.py:250`); the map's cursor after a rewrite (`session.py:454`); the size and the
  lines a start counts (`session.py:242`); an answer taken from a transcript of which half the
  words were read (`chat_bridge.py:55`).
- Page: `onDelta` overwrites the text without looking at the number, though old lines are
  published again when the watcher restarts (`transcript_box.js`).

## Plan

What is left, the most important first:

1. **DecisionChannel**: `decisions.py` and `bin/fd-approve`, with the auto-release of another connection.
2. The reader of `deltas.jsonl`: truncation, the watcher's restart and the page's draft, composed with
   DeltaStream's numbers.
3. The relay's rotation and its replies (`orchestrator_relay.py`, `orchestrator_supervisor.py`).
4. The missions store's holds.
