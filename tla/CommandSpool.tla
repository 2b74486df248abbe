---- MODULE CommandSpool ----
(***************************************************************************)
(* The command half of the spool that Odoo and the runner share: Odoo      *)
(* writes one file per command into cmd/, the runner handles it, appends   *)
(* an acknowledgement to events.jsonl and moves the file to done/, and     *)
(* Odoo's poll closes the audit row the command was created with.          *)
(*                                                                         *)
(* Two things make this hard.  The file is renamed into cmd/ while the     *)
(* database transaction that holds the row is still open, so the runner    *)
(* may answer before the row exists, or after it was rolled back; and the  *)
(* runner keeps what it already handled in memory only.                    *)
(*                                                                         *)
(* The poll also applies other events and compares session rows with the   *)
(* state files (_reconcile): neither touches commands, and both are left   *)
(* out here.  A command that expired is one that fails (HandleRun).        *)
(*                                                                         *)
(* A file in cmd/ is whole, as the rename leaves it, and can be read.  The *)
(* code passes over one that cannot until its next scan, so later commands *)
(* would go first, and acknowledges one that is no JSON without an id.     *)
(***************************************************************************)
EXTENDS Naturals, Sequences, FiniteSets

CONSTANTS
    Cmd,            \* command ids: a fresh uuid for every call of _submit
    NoCmd,          \* no command
    Workers,        \* Odoo processes that can hold a transaction at once
    MaxFaults,      \* bound: crashes, failed renames and failed appends together
    SeenCap         \* the seen map is thrown away past this size (10000)

ASSUME SpoolAssumption ==
    /\ MaxFaults \in Nat /\ SeenCap \in Nat /\ NoCmd \notin Cmd

\* A file of the spool: the name carries both the sequence number and the id.
File == [id : Cmd, seq : Nat \ {0}]

Outcome == {"done", "failed"}

VARIABLES
    \* Odoo's database, as committed.
    nextSeq, row, offset,
    \* Odoo's open transactions.
    tx,
    \* The spool directory.
    cmdDir, doneDir, log,
    \* The runner process.
    phase, batch, cur, result, seen,
    \* History: what was run, and the faults so far.
    execs, crashes, resets, moveFails, lostAcks

odooVars == <<nextSeq, row, offset, tx>>
runnerVars == <<phase, batch, cur, result, seen>>
faults == <<crashes, resets, moveFails, lostAcks>>
vars == <<odooVars, cmdDir, doneDir, log, runnerVars, execs, faults>>

NoFile == [id |-> NoCmd, seq |-> 0]
NewTx(op, c, n, rows) == [op |-> op, cmd |-> c, seq |-> n, sees |-> rows, stale |-> FALSE]
Idle == NewTx("idle", NoCmd, 0, {})
SubmitTx == [op : {"submit", "written"}, cmd : Cmd, seq : Nat \ {0}, sees : {{}}, stale : BOOLEAN]
PollTx == [op : {"poll"}, cmd : {NoCmd}, seq : {0}, sees : SUBSET Cmd, stale : BOOLEAN]
Tx == {Idle} \cup SubmitTx \cup PollTx
Ack == [cmd : Cmd, state : Outcome]

Init ==
    /\ nextSeq = 1
    /\ row = [c \in Cmd |-> "none"]
    /\ offset = 0
    /\ tx = [w \in Workers |-> Idle]
    /\ cmdDir = {} /\ doneDir = {} /\ log = <<>>
    /\ phase = "loop" /\ batch = {} /\ cur = NoFile /\ result = "done" /\ seen = {}
    /\ execs = [c \in Cmd |-> 0]
    /\ crashes = 0 /\ resets = 0 /\ moveFails = 0 /\ lostAcks = {}

----
(***************************************************************************)
(* Odoo.  A transaction works on the snapshot it began with, and           *)
(* PostgreSQL at REPEATABLE READ refuses to update a row that another      *)
(* transaction changed since.  _submit (next_seq) and _poll_events         *)
(* (events_offset) both update the runner's row, so the commit of one      *)
(* makes every transaction open beside it stale.                           *)
(***************************************************************************)
Begin(w, t) == tx' = [tx EXCEPT ![w] = t]
Rollback(w) == tx' = [tx EXCEPT ![w] = Idle]
\* Mutation: the two updates go to different rows and never meet.
MutCommitUnchecked(w) == tx' = [tx EXCEPT ![w] = Idle]
Commit(w) ==
    /\ ~tx[w].stale
    /\ tx' = [v \in Workers |->
                 IF v = w \/ tx[v] = Idle THEN Idle ELSE [tx[v] EXCEPT !.stale = TRUE, !.sees = {}]]

\* An id nobody used: no row, no file, no open transaction, never run.
Fresh(c) ==
    /\ row[c] = "none" /\ execs[c] = 0
    /\ \A f \in cmdDir \cup doneDir : f.id # c
    /\ \A w \in Workers : tx[w].cmd # c

\* The framework retries a refused request with a new id, like a new request.
BeginSubmit(w, c) ==
    /\ tx[w] = Idle
    /\ Fresh(c)
    /\ Begin(w, NewTx("submit", c, nextSeq, {}))
    /\ UNCHANGED <<nextSeq, row, offset, cmdDir, doneDir, log, runnerVars, execs, faults>>

\* The connector renames the finished file into cmd/: the runner sees it now.
WriteCommand(w) ==
    /\ tx[w].op = "submit"
    /\ cmdDir' = cmdDir \cup {[id |-> tx[w].cmd, seq |-> tx[w].seq]}
    /\ tx' = [tx EXCEPT ![w].op = "written"]
    /\ UNCHANGED <<nextSeq, row, offset, doneDir, log, runnerVars, execs, faults>>

CommitSubmit(w) ==
    /\ tx[w].op = "written"
    /\ Commit(w)
    /\ nextSeq' = tx[w].seq + 1
    /\ row' = [row EXCEPT ![tx[w].cmd] = "queued"]
    /\ UNCHANGED <<offset, cmdDir, doneDir, log, runnerVars, execs, faults>>

\* The transaction is lost: the spool was not writable, something later in the
\* same request raised, or the database refused the update.
RollbackSubmit(w) ==
    /\ tx[w].op \in {"submit", "written"}
    /\ Rollback(w)
    /\ UNCHANGED <<nextSeq, row, offset, cmdDir, doneDir, log, runnerVars, execs, faults>>

BeginPoll(w) ==
    /\ tx[w] = Idle
    /\ Begin(w, NewTx("poll", NoCmd, 0, {c \in Cmd : row[c] # "none"}))
    /\ UNCHANGED <<nextSeq, row, offset, cmdDir, doneDir, log, runnerVars, execs, faults>>

Acks(c, from, to) == {i \in (from + 1)..to : log[i].cmd = c}
LastAck(c, from, to) ==
    log[CHOOSE i \in Acks(c, from, to) : \A j \in Acks(c, from, to) : j <= i].state

\* Every event read, in order: an ack closes the row it finds, or is dropped.
ApplyEvents(sees, from, to) ==
    [c \in Cmd |-> IF c \in sees /\ Acks(c, from, to) # {}
                   THEN LastAck(c, from, to) ELSE row[c]]

\* The events are read here, not when the transaction began: they are a file.
\* Rows and offset change together.  (Reading and committing are one step: what
\* the log gains between them is left for the next poll either way.)
CommitPoll(w) ==
    /\ tx[w].op = "poll" /\ Len(log) > offset
    /\ Commit(w)
    /\ row' = ApplyEvents(tx[w].sees, offset, Len(log))
    /\ offset' = Len(log)
    /\ UNCHANGED <<nextSeq, cmdDir, doneDir, log, runnerVars, execs, faults>>

\* Refused by the database; or nothing new was read, and nothing is written.
EndPoll(w) ==
    /\ tx[w].op = "poll"
    /\ tx[w].stale \/ Len(log) = offset
    /\ Rollback(w)
    /\ UNCHANGED <<nextSeq, row, offset, cmdDir, doneDir, log, runnerVars, execs, faults>>

----
(***************************************************************************)
(* The runner: one loop scans cmd/ and handles what it found, in file-name *)
(* order.  Running a command, acknowledging it and moving its file are     *)
(* separate steps, and the process may die between any two of them.        *)
(***************************************************************************)
FaultLeft == crashes + moveFails + Cardinality(lostAcks) < MaxFaults

Scan ==
    /\ phase = "loop" /\ batch = {}
    /\ cmdDir # {}
    /\ batch' = cmdDir
    /\ UNCHANGED <<odooVars, cmdDir, doneDir, log, phase, cur, result, seen, execs, faults>>

\* Mutation: the names are handled in the order the directory lists them.
MutIsNextUnsorted(f) == f \in batch
\* File names sort by sequence number; files of one number sort by their uuid.
IsNext(f) == f \in batch /\ \A g \in batch : f.seq <= g.seq

\* Mutation: only the file in done/ is looked for.
MutSeenByFile(f) == f \in doneDir
Seen(f) == f.id \in seen \/ f \in doneDir

\* Done: remember the id, in a map that is emptied first when it grew past its
\* cap, and move the file.  A failed rename is only logged.
Remember(c) ==
    LET full == Cardinality(seen) > SeenCap
    IN /\ seen' = IF full THEN {c} ELSE seen \cup {c}
       /\ resets' = IF full THEN resets + 1 ELSE resets

MoveFile(f) ==
    \/ /\ cmdDir' = cmdDir \ {f} /\ doneDir' = doneDir \cup {f}
       /\ UNCHANGED moveFails
    \/ /\ FaultLeft
       /\ moveFails' = moveFails + 1
       /\ UNCHANGED <<cmdDir, doneDir>>

\* Handle, for a command already handled: straight to Done.
HandleSeen(f) ==
    /\ phase = "loop" /\ IsNext(f) /\ Seen(f)
    /\ Remember(f.id) /\ MoveFile(f)
    /\ batch' = batch \ {f}
    /\ UNCHANGED <<odooVars, log, phase, cur, result, execs, crashes, lostAcks>>

\* Mutation: the file is claimed by moving it before the command is run.
MutHandleRunMovesFirst(f) ==
    /\ phase = "loop" /\ IsNext(f) /\ ~Seen(f)
    /\ cmdDir' = cmdDir \ {f} /\ doneDir' = doneDir \cup {f}
    /\ execs' = [execs EXCEPT ![f.id] = @ + 1]
    /\ cur' = f /\ result' \in Outcome /\ batch' = batch \ {f} /\ phase' = "ack"
    /\ UNCHANGED <<odooVars, log, seen, faults>>

\* Handle runs the command; how it ends is the operation's business.
HandleRun(f) ==
    /\ phase = "loop" /\ IsNext(f) /\ ~Seen(f)
    /\ execs' = [execs EXCEPT ![f.id] = @ + 1]
    /\ cur' = f
    /\ result' \in Outcome
    /\ batch' = batch \ {f}
    /\ phase' = "ack"
    /\ UNCHANGED <<odooVars, cmdDir, doneDir, log, seen, faults>>

\* Mutation: only a refused command is acknowledged.
MutEmitAckErrorsOnly ==
    /\ phase = "ack"
    /\ phase' = "move" /\ result' = "done"
    /\ log' = IF result = "failed" THEN Append(log, [cmd |-> cur.id, state |-> result]) ELSE log
    /\ UNCHANGED <<odooVars, cmdDir, doneDir, batch, cur, seen, execs, faults>>
\* Emit appends one line, and only logs when events.jsonl cannot be opened.
EmitAck ==
    /\ phase = "ack"
    /\ phase' = "move" /\ result' = "done"
    /\ \/ /\ log' = Append(log, [cmd |-> cur.id, state |-> result])
          /\ UNCHANGED lostAcks
       \/ /\ FaultLeft
          /\ lostAcks' = lostAcks \cup {cur.id}
          /\ UNCHANGED log
    /\ UNCHANGED <<odooVars, cmdDir, doneDir, batch, cur, seen, execs, crashes,
                   resets, moveFails>>
FinishCommand ==
    /\ phase = "move"
    /\ Remember(cur.id) /\ MoveFile(cur)
    /\ cur' = NoFile
    /\ phase' = "loop"
    /\ UNCHANGED <<odooVars, log, batch, result, execs, crashes, lostAcks>>

\* The process dies and is started again: the directory stays, the memory goes.
\* While it is down nothing moves but Odoo, as before its next scan.
CrashRestart ==
    /\ FaultLeft
    /\ crashes' = crashes + 1
    /\ phase' = "loop" /\ batch' = {} /\ cur' = NoFile /\ result' = "done" /\ seen' = {}
    /\ UNCHANGED <<odooVars, cmdDir, doneDir, log, execs, resets, moveFails, lostAcks>>

----
TxStep(w) ==
    \/ WriteCommand(w) \/ CommitSubmit(w) \/ RollbackSubmit(w)
    \/ BeginPoll(w) \/ CommitPoll(w) \/ EndPoll(w)
RunnerStep ==
    \/ Scan \/ EmitAck \/ FinishCommand
    \/ \E f \in batch : HandleSeen(f) \/ HandleRun(f)

Next ==
    \/ \E w \in Workers, c \in Cmd : BeginSubmit(w, c)
    \/ \E w \in Workers : TxStep(w)
    \/ RunnerStep
    \/ CrashRestart

\* The runner's loop ticks, and a supervisor restarts a dead one;
\* every transaction ends; the poll's cron has a thread of its own, so requests
\* cannot keep it from starting.
Fairness ==
    /\ WF_vars(RunnerStep)
    /\ \A w \in Workers : WF_vars(TxStep(w))
    /\ SF_vars(\E w \in Workers : BeginPoll(w))

Spec == Init /\ [][Next]_vars /\ Fairness

----
TypeOK ==
    /\ nextSeq \in Nat \ {0}
    /\ row \in [Cmd -> {"none", "queued"} \cup Outcome]
    /\ offset \in Nat
    /\ tx \in [Workers -> Tx]
    /\ cmdDir \subseteq File /\ doneDir \subseteq File
    /\ log \in Seq(Ack)
    /\ phase \in {"loop", "ack", "move"}
    /\ batch \subseteq File
    /\ cur \in File \cup {NoFile} /\ (cur = NoFile <=> phase = "loop")
    /\ result \in Outcome
    /\ seen \subseteq Cmd
    /\ execs \in [Cmd -> Nat]
    /\ crashes \in Nat /\ resets \in Nat /\ moveFails \in Nat /\ lostAcks \subseteq Cmd

\* No command leaves cmd/ unanswered: once its file is in done/, where no scan
\* looks again, its acknowledgement is in the log whatever crashed in between,
\* unless the append itself failed.
DoneMeansAcked ==
    \A f \in doneDir : f.id \in lostAcks \/ \E i \in DOMAIN log : log[i].cmd = f.id

\* What a command costs to handle: one run, and at most one more for each time
\* the runner lost its memory of what it had handled.
RunsBoundedByMemoryLoss ==
    \A c \in Cmd : execs[c] <= 1 + crashes + resets

\* Each acknowledgement reaches the row it answers, once and in order: a row says
\* what the last acknowledgement below the offset said, and is queued only when
\* there is none.  The runner often answers before the row is committed.
RowsFollowLog ==
    \A c \in Cmd : row[c] # "none" =>
        row[c] = IF Acks(c, 0, offset) = {} THEN "queued" ELSE LastAck(c, 0, offset)

\* Of the commands whose transaction committed, no two share a number, and none
\* was run while one of a lower number had never been: file order is commit order.
FileOrderIsCommitOrder ==
    \A f, g \in cmdDir \cup doneDir :
        row[f.id] # "none" /\ row[g.id] # "none" /\ f # g =>
            /\ f.seq # g.seq
            /\ f.seq < g.seq /\ execs[g.id] > 0 => execs[f.id] > 0

\* Every audit row is closed in the end, unless its acknowledgement was lost.
RowsClose == \A c \in Cmd : row[c] = "queued" ~> row[c] \in Outcome \/ c \in lostAcks
====
