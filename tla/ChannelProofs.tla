---- MODULE ChannelProofs ----
(***************************************************************************)
(* Proofs about the two channels between Odoo and the runner, CommandSpool *)
(* and DeltaStream, for any sets of commands, workers and streams and any  *)
(* limits.  The two share nothing but this module.                         *)
(***************************************************************************)
EXTENDS CommandSpool, DeltaStream, FiniteSetTheorems, WellFoundedInduction, TLAPS

----
(***************************************************************************)
(* CommandSpool, for any number of Odoo workers and any number of faults:  *)
(* what the runner remembers, runs and answers; then the order of files    *)
(* and commits, and the audit rows.                                        *)
(***************************************************************************)
\* A nonempty set of positions of a sequence has a last one.
LEMMA LastPosition ==
  ASSUME NEW n \in Nat, NEW I \in SUBSET (1..n), I # {}
  PROVE  \E i \in I : \A j \in I : j <= i
<1> DEFINE T == {n - i : i \in I}
           R == {ss \in Nat \X Nat : ss[1] < ss[2]}
<1>1. IsWellFoundedOn(R, Nat)
  BY NatLessThanWellFounded DEF OpToRel
<1>2. T \subseteq Nat /\ T # {}
  <2>1. \A i \in I : n - i \in Nat
    OBVIOUS
  <2> QED BY <2>1
<1>3. PICK x \in T : \A y \in T : ~ (<<y, x>> \in R)
  <2> HIDE DEF R, T
  <2> QED BY <1>1, <1>2, WFMin, Zenon
<1>4. ASSUME NEW y \in T PROVE x <= y
  <2>1. x \in Nat /\ y \in Nat
    BY <1>2
  <2>2. y < x => <<y, x>> \in R
    BY <2>1
  <2>3. ~ (<<y, x>> \in R)
    BY <1>3
  <2> QED BY <2>1, <2>2, <2>3
<1>5. PICK i \in I : x = n - i
  BY <1>3
<1> QED BY <1>4, <1>5

----
(***************************************************************************)
(* Types.                                                                  *)
(***************************************************************************)
LEMMA SubmitIsTyped ==
  ASSUME TypeOK, NEW w \in Workers, tx[w].op \in {"submit", "written"} PROVE tx[w] \in SubmitTx
<1>1. tx[w] \in Tx
  BY DEF TypeOK
<1>2. Idle.op = "idle" /\ \A t \in PollTx : t.op = "poll"
  BY DEF Idle, NewTx, PollTx
<1> QED BY <1>1, <1>2 DEF Tx

LEMMA NewTxIsTyped ==
  ASSUME SpoolAssumption
  PROVE  /\ \A c \in Cmd, n \in Nat \ {0} : NewTx("submit", c, n, {}) \in Tx
         /\ \A rows \in SUBSET Cmd : NewTx("poll", NoCmd, 0, rows) \in Tx
         /\ Idle \in Tx
BY DEF NewTx, Tx, SubmitTx, PollTx

LEMMA InitTypeOK == ASSUME SpoolAssumption PROVE Init => TypeOK
BY NewTxIsTyped DEF SpoolAssumption, Init, TypeOK, NoFile, Outcome, File, Ack

LEMMA CommitIsTyped ==
  ASSUME TypeOK, NEW w \in Workers, Commit(w) PROVE tx' \in [Workers -> Tx]
<1> SUFFICES ASSUME NEW v \in Workers, tx[v] # Idle, tx[v] \in Tx
             PROVE  [tx[v] EXCEPT !.stale = TRUE, !.sees = {}] \in Tx
  BY DEF Commit, TypeOK, Tx
<1>1. CASE tx[v] \in SubmitTx
  BY <1>1 DEF SubmitTx, Tx
<1>2. CASE tx[v] \in PollTx
  BY <1>2 DEF PollTx, Tx
<1> QED BY <1>1, <1>2 DEF Tx

\* Every step of Odoo keeps the types.
LEMMA OdooTypeOK ==
  ASSUME SpoolAssumption, TypeOK, NEW w \in Workers,
         (\E c \in Cmd : BeginSubmit(w, c)) \/ TxStep(w)
  PROVE  TypeOK'
<1> USE DEF TypeOK, runnerVars, faults
<1>1. ASSUME NEW c \in Cmd, BeginSubmit(w, c) PROVE TypeOK'
  BY <1>1, NewTxIsTyped DEF BeginSubmit, Begin
<1>2. CASE WriteCommand(w)
  <2>1. tx[w] \in SubmitTx
    BY <1>2, SubmitIsTyped DEF WriteCommand
  <2>2. [id |-> tx[w].cmd, seq |-> tx[w].seq] \in File
    BY <2>1 DEF File, SubmitTx
  <2>3. [tx[w] EXCEPT !.op = "written"] \in Tx
    BY <2>1 DEF SubmitTx, Tx
  <2> QED BY <1>2, <2>2, <2>3 DEF WriteCommand
<1>3. CASE CommitSubmit(w)
  <2>1. tx[w] \in SubmitTx
    BY <1>3, SubmitIsTyped DEF CommitSubmit
  <2>2. tx[w].cmd \in Cmd /\ tx[w].seq + 1 \in Nat \ {0}
    BY <2>1 DEF SubmitTx
  <2> QED BY <1>3, <2>2, CommitIsTyped DEF CommitSubmit
<1>4. CASE RollbackSubmit(w)
  BY <1>4, NewTxIsTyped DEF RollbackSubmit, Rollback
<1>5. CASE BeginPoll(w)
  BY <1>5, NewTxIsTyped DEF BeginPoll, Begin
<1>6. CASE CommitPoll(w)
  <2>1. ASSUME NEW c \in Cmd, Acks(c, offset, Len(log)) # {}
        PROVE  LastAck(c, offset, Len(log)) \in Outcome
    <3> DEFINE A == Acks(c, offset, Len(log))
    <3>1. Len(log) \in Nat /\ A \in SUBSET (1..Len(log)) /\ A # {}
      BY <2>1 DEF Acks
    <3>2. PICK i \in A : \A j \in A : j <= i
      BY <3>1, LastPosition
    <3> DEFINE k == CHOOSE i1 \in A : \A j \in A : j <= i1
    <3>3. k \in A
      BY <3>2
    <3>4. log[k] \in Ack
      BY <3>1, <3>3
    <3> QED BY <3>4 DEF LastAck, Ack
  <2>2. row' \in [Cmd -> {"none", "queued"} \cup Outcome]
    BY <1>6, <2>1 DEF CommitPoll, ApplyEvents
  <2> QED BY <1>6, <2>2, CommitIsTyped DEF CommitPoll
<1>7. CASE EndPoll(w)
  BY <1>7, NewTxIsTyped DEF EndPoll, Rollback
<1> QED BY <1>1, <1>2, <1>3, <1>4, <1>5, <1>6, <1>7 DEF TxStep

\* Every step of the runner keeps the types.
LEMMA RunnerTypeOK ==
  ASSUME SpoolAssumption, TypeOK, RunnerStep \/ CrashRestart PROVE TypeOK'
<1> USE DEF SpoolAssumption, TypeOK, Outcome, odooVars
<1>0. NoFile \notin File
  BY DEF NoFile, File
<1>1. ASSUME NEW c \in Cmd, Remember(c) PROVE seen' \subseteq Cmd /\ resets' \in Nat
  BY <1>1 DEF Remember
<1>2. ASSUME NEW f \in File, MoveFile(f)
      PROVE  cmdDir' \subseteq File /\ doneDir' \subseteq File /\ moveFails' \in Nat
  BY <1>2 DEF MoveFile
<1>3. CASE Scan
  BY <1>3 DEF Scan, faults
<1>4. ASSUME NEW f \in batch, HandleSeen(f) PROVE TypeOK'
  <2>1. f \in File /\ f.id \in Cmd
    BY DEF File
  <2> QED BY <1>1, <1>2, <1>4, <2>1 DEF HandleSeen
<1>5. ASSUME NEW f \in batch, HandleRun(f) PROVE TypeOK'
  <2>1. f \in File /\ f.id \in Cmd
    BY DEF File
  <2> QED BY <1>0, <1>5, <2>1 DEF HandleRun, faults
<1>6. CASE EmitAck
  <2>1. cur \in File /\ cur.id \in Cmd
    BY <1>6 DEF EmitAck, File
  <2>2. Append(log, [cmd |-> cur.id, state |-> result]) \in Seq(Ack)
    BY <2>1 DEF Ack
  <2> QED BY <1>6, <2>1, <2>2 DEF EmitAck
<1>7. CASE FinishCommand
  <2>1. cur \in File /\ cur.id \in Cmd
    BY <1>7 DEF FinishCommand, File
  <2> QED BY <1>1, <1>2, <1>7, <2>1 DEF FinishCommand
<1>8. CASE CrashRestart
  BY <1>8 DEF CrashRestart
<1> QED BY <1>3, <1>4, <1>5, <1>6, <1>7, <1>8 DEF RunnerStep

\* Every variable keeps its type.
THEOREM TypeCorrect == ASSUME SpoolAssumption PROVE Spec => []TypeOK
<1>1. Init => TypeOK
  BY InitTypeOK
<1>2. TypeOK /\ [Next]_vars => TypeOK'
  <2>1. TypeOK /\ UNCHANGED vars => TypeOK'
    BY DEF TypeOK, vars, odooVars, runnerVars, faults
  <2> QED BY <2>1, OdooTypeOK, RunnerTypeOK DEF Next
<1> QED BY <1>1, <1>2, PTL DEF Spec

----
(***************************************************************************)
(* No command leaves cmd/ unanswered.  A file enters done/ from two places *)
(* only, and each presupposes an earlier append: Done after Handle, and    *)
(* Done for a command already seen.                                        *)
(***************************************************************************)
Answered(c) == c \in lostAcks \/ \E i \in DOMAIN log : log[i].cmd = c

AckInv ==
    /\ DoneMeansAcked
    /\ \A c \in seen : Answered(c)
    /\ phase = "move" => Answered(cur.id)

\* The log and the record of lost lines only grow.
LEMMA AnswersStay ==
  ASSUME TypeOK, [Next]_vars, NEW c, Answered(c) PROVE Answered(c)'
<1>1. CASE UNCHANGED <<log, lostAcks>>
  BY <1>1 DEF Answered
<1>2. CASE EmitAck
  <2>1. CASE log' = Append(log, [cmd |-> cur.id, state |-> result]) /\ UNCHANGED lostAcks
    <3>1. \A i \in DOMAIN log : i \in DOMAIN log' /\ log'[i] = log[i]
      BY <2>1 DEF TypeOK
    <3> QED BY <2>1, <3>1 DEF Answered
  <2>2. CASE lostAcks' = lostAcks \cup {cur.id} /\ UNCHANGED log
    BY <2>2 DEF Answered
  <2> QED BY <1>2, <2>1, <2>2 DEF EmitAck
<1> QED
  BY <1>1, <1>2 DEF Next, TxStep, RunnerStep, BeginSubmit, WriteCommand, CommitSubmit,
     RollbackSubmit, BeginPoll, CommitPoll, EndPoll, Scan, HandleSeen, HandleRun,
     FinishCommand, CrashRestart, vars, faults

LEMMA AckInvInductive ==
  ASSUME SpoolAssumption, TypeOK, AckInv, [Next]_vars PROVE AckInv'
<1> DEFINE Kept == UNCHANGED <<doneDir, seen>> /\ (phase' = "move" => phase = "move" /\ cur' = cur)
<1>1. CASE Kept
  BY <1>1, AnswersStay DEF AckInv, DoneMeansAcked, Answered
<1>2. ASSUME NEW f \in File, Answered(f.id), Remember(f.id), MoveFile(f), phase' # "move"
      PROVE  AckInv'
  <2>1. \A c \in seen' : Answered(c)
    BY <1>2 DEF Remember, AckInv
  <2>2. \A g \in doneDir' : Answered(g.id)
    BY <1>2 DEF MoveFile, AckInv, DoneMeansAcked, Answered
  <2> QED BY <1>2, <2>1, <2>2, AnswersStay DEF AckInv, DoneMeansAcked, Answered
<1>3. ASSUME NEW f \in batch, HandleSeen(f) PROVE AckInv'
  <2>1. Answered(f.id)
    BY <1>3 DEF HandleSeen, Seen, AckInv, DoneMeansAcked, Answered
  <2> QED BY <1>2, <1>3, <2>1 DEF HandleSeen, TypeOK
<1>4. CASE EmitAck
  <2>1. Answered(cur.id)'
    <3>1. CASE log' = Append(log, [cmd |-> cur.id, state |-> result])
      <4>1. Len(log) + 1 \in DOMAIN log' /\ log'[Len(log) + 1].cmd = cur.id
        BY <3>1 DEF TypeOK
      <4> QED BY <1>4, <4>1 DEF Answered, EmitAck
    <3>2. CASE lostAcks' = lostAcks \cup {cur.id}
      BY <1>4, <3>2 DEF Answered, EmitAck
    <3> QED BY <1>4, <3>1, <3>2 DEF EmitAck
  <2> QED BY <1>4, <2>1, AnswersStay DEF EmitAck, AckInv, DoneMeansAcked, Answered
<1>5. CASE FinishCommand
  BY <1>2, <1>5 DEF FinishCommand, AckInv, TypeOK
<1>6. CASE CrashRestart
  BY <1>6, AnswersStay DEF CrashRestart, AckInv, DoneMeansAcked, Answered
<1> QED
  BY <1>1, <1>3, <1>4, <1>5, <1>6 DEF Next, TxStep, RunnerStep, BeginSubmit, WriteCommand,
     CommitSubmit, RollbackSubmit, BeginPoll, CommitPoll, EndPoll, Scan, HandleRun, vars,
     runnerVars

\* A file in done/ has its acknowledgement in the log, across every crash, failed
\* rename and forgotten map, unless appending that line failed.
THEOREM DoneIsAcked == ASSUME SpoolAssumption PROVE Spec => []DoneMeansAcked
<1>1. Init => AckInv
  BY DEF Init, AckInv, DoneMeansAcked
<1>2. TypeOK /\ AckInv /\ [Next]_vars => AckInv'
  BY AckInvInductive
<1>3. AckInv => DoneMeansAcked
  BY DEF AckInv
<1> QED BY <1>1, <1>2, <1>3, TypeCorrect, PTL DEF Spec

----
(***************************************************************************)
(* What a command costs.  Each run of a command is paid for by the memory  *)
(* the runner keeps of it (its id in seen, its file in done/, or being in  *)
(* hand) or by a loss of that memory.  The file in done/ stands for its id *)
(* because an id names one file.                                           *)
(***************************************************************************)
Files == cmdDir \cup doneDir
Submitting(w, c) == tx[w].op = "submit" /\ tx[w].cmd = c

OneFilePerId ==
    /\ batch \subseteq Files /\ (cur # NoFile => cur \in Files)
    /\ \A f, g \in Files : f.id = g.id => f = g
    /\ \A w \in Workers, f \in Files : ~Submitting(w, f.id)
    /\ \A v, w \in Workers, c \in Cmd : Submitting(v, c) /\ Submitting(w, c) => v = w

Remembered(c) == c \in seen \/ cur.id = c \/ \E f \in doneDir : f.id = c

RunsInv ==
    \A c \in Cmd :
        /\ execs[c] <= crashes + resets + 1
        /\ ~Remembered(c) => execs[c] <= crashes + resets

LEMMA OneFilePerIdInductive ==
  ASSUME SpoolAssumption, TypeOK, OneFilePerId, [Next]_vars PROVE OneFilePerId'
<1> USE DEF OneFilePerId, Files, Submitting
<1>1. ASSUME NEW w \in Workers, NEW c \in Cmd, BeginSubmit(w, c) PROVE OneFilePerId'
  <2>1. \A v \in Workers, d \in Cmd : Submitting(v, d)' => (IF v = w THEN d = c ELSE Submitting(v, d))
    BY <1>1 DEF BeginSubmit, Begin, NewTx, TypeOK
  <2>2. \A v \in Workers : ~Submitting(v, c)
    BY <1>1 DEF BeginSubmit, Fresh
  <2>3. UNCHANGED <<cmdDir, doneDir, log, runnerVars>> /\ \A f \in cmdDir \cup doneDir : f.id # c
    BY <1>1 DEF BeginSubmit, Fresh
  <2>4. \A v \in Workers, f \in Files : ~Submitting(v, f.id)'
    BY <2>1, <2>3 DEF TypeOK, File
  <2>5. \A u, v \in Workers, d \in Cmd : Submitting(u, d)' /\ Submitting(v, d)' => u = v
    BY <2>1, <2>2
  <2> QED BY <2>3, <2>4, <2>5 DEF runnerVars
<1>2. ASSUME NEW w \in Workers, WriteCommand(w) PROVE OneFilePerId'
  <2> DEFINE f == [id |-> tx[w].cmd, seq |-> tx[w].seq]
  <2>1. tx[w] \in SubmitTx /\ f.id \in Cmd
    BY <1>2, SubmitIsTyped DEF WriteCommand, SubmitTx
  <2>2. Submitting(w, f.id) /\ Files' = Files \cup {f}
    BY <1>2 DEF WriteCommand
  <2>3. \A v \in Workers, d \in Cmd : Submitting(v, d)' => v # w /\ Submitting(v, d)
    BY <1>2, <2>1 DEF WriteCommand, TypeOK, SubmitTx
  <2>4. \A g \in Files : g.id # f.id /\ g.id \in Cmd
    BY <2>2 DEF TypeOK, File
  <2> HIDE DEF f
  <2> QED BY <1>2, <2>1, <2>2, <2>3, <2>4 DEF WriteCommand, runnerVars
<1>3. ASSUME Files' = Files, \A v \in Workers, c \in Cmd : Submitting(v, c)' => Submitting(v, c),
             batch' \subseteq Files, cur' # NoFile => cur' \in Files
      PROVE  OneFilePerId'
  <2>1. \A g \in Files : g.id \in Cmd
    BY DEF TypeOK, File
  <2> QED BY <1>3, <2>1
<1>4. ASSUME NEW w \in Workers, TxStep(w), ~WriteCommand(w) PROVE OneFilePerId'
  <2>1. \A v \in Workers, c \in Cmd : Submitting(v, c)' => Submitting(v, c)
    <3>1. Idle.op = "idle"
      BY DEF Idle, NewTx
    <3>2. \A v \in Workers : tx'[v].op = "submit" => tx[v].op = "submit" /\ tx'[v].cmd = tx[v].cmd
      <4>1. CASE Commit(w)
        <5>1. ASSUME NEW v \in Workers, tx'[v] # Idle
              PROVE  tx'[v] = [tx[v] EXCEPT !.stale = TRUE, !.sees = {}] /\ tx[v] \in Tx /\ tx[v] # Idle
          BY <4>1, <5>1 DEF Commit, TypeOK
        <5>2. ASSUME NEW v \in Workers, tx'[v] # Idle
              PROVE  tx'[v].op = tx[v].op /\ tx'[v].cmd = tx[v].cmd
          BY <5>1, <5>2 DEF Tx, SubmitTx, PollTx
        <5> QED BY <3>1, <5>2
      <4>2. CASE Rollback(w)
        BY <3>1, <4>2 DEF Rollback, TypeOK
      <4>3. CASE BeginPoll(w)
        BY <4>3 DEF BeginPoll, Begin, NewTx, TypeOK
      <4> QED BY <1>4, <4>1, <4>2, <4>3 DEF TxStep, CommitSubmit, RollbackSubmit, CommitPoll, EndPoll
    <3> QED BY <3>2
  <2> QED BY <1>3, <1>4, <2>1 DEF TxStep, CommitSubmit, RollbackSubmit, BeginPoll, CommitPoll,
             EndPoll, runnerVars
<1>5. CASE RunnerStep \/ CrashRestart
  <2>1. tx' = tx
    BY <1>5 DEF RunnerStep, Scan, HandleSeen, HandleRun, EmitAck, FinishCommand, CrashRestart, odooVars
  <2>2. ASSUME NEW f \in Files, MoveFile(f) PROVE Files' = Files
    BY <2>2 DEF MoveFile
  <2>3. Files' = Files /\ batch' \subseteq Files /\ (cur' # NoFile => cur' \in Files)
    <3>1. CASE FinishCommand
      BY <2>2, <3>1 DEF FinishCommand, TypeOK
    <3>2. ASSUME NEW f \in batch, HandleSeen(f) PROVE <2>3
      BY <2>2, <3>2 DEF HandleSeen
    <3> QED BY <1>5, <3>1, <3>2 DEF RunnerStep, Scan, HandleRun, EmitAck, CrashRestart
  <2> QED BY <1>3, <2>1, <2>3
<1>6. CASE UNCHANGED vars
  BY <1>6 DEF vars, odooVars, runnerVars
<1> QED BY <1>1, <1>2, <1>4, <1>5, <1>6 DEF Next

\* A bound that held with one to spare holds once there is one more loss.
LEMMA OneMoreLoss ==
  \A n, a, b, a1, b1 \in Nat :
    a + b + 1 <= a1 + b1 /\ n <= a + b + 1 => n <= a1 + b1 /\ n <= a1 + b1 + 1
OBVIOUS

LEMMA RunsInvInductive ==
  ASSUME SpoolAssumption, TypeOK, OneFilePerId, RunsInv, [Next]_vars PROVE RunsInv'
<1> USE DEF TypeOK
<1>1. ASSUME execs' = execs, crashes' = crashes, resets' = resets,
             \A c \in Cmd : Remembered(c) => Remembered(c)'
      PROVE  RunsInv'
  BY <1>1 DEF RunsInv
<1>2. ASSUME execs' = execs, crashes + resets + 1 <= crashes' + resets',
             crashes' \in Nat, resets' \in Nat
      PROVE  RunsInv'
  <2>1. ASSUME NEW c \in Cmd
        PROVE  execs'[c] <= crashes' + resets' /\ execs'[c] <= crashes' + resets' + 1
    BY <1>2, OneMoreLoss DEF RunsInv
  <2> QED BY <2>1 DEF RunsInv
<1>3. ASSUME NEW f \in File, Remember(f.id), MoveFile(f), execs' = execs, crashes' = crashes,
             cur' = cur \/ cur = f
      PROVE  RunsInv'
  <2>1. CASE resets' = resets + 1
    BY <1>2, <1>3, <2>1
  <2>2. CASE seen' = seen \cup {f.id} /\ resets' = resets
    BY <1>1, <1>3, <2>2 DEF Remembered, MoveFile
  <2> QED BY <1>3, <2>1, <2>2 DEF Remember
<1>4. ASSUME NEW f \in batch, HandleSeen(f) PROVE RunsInv'
  BY <1>3, <1>4 DEF HandleSeen
<1>5. ASSUME NEW f \in batch, HandleRun(f) PROVE RunsInv'
  <2>1. f \in File /\ f.id \in Cmd /\ cur = NoFile
    BY <1>5 DEF HandleRun, File
  <2>2. cur.id = NoCmd
    BY <2>1 DEF NoFile
  <2>3. ~Remembered(f.id)
    <3>1. f.id \notin seen /\ f \notin doneDir
      BY <1>5 DEF HandleRun, Seen
    <3>2. \A g \in doneDir : g.id # f.id
      BY <3>1 DEF OneFilePerId, Files
    <3> QED BY <2>1, <2>2, <3>1, <3>2 DEF Remembered, SpoolAssumption
  <2>4. Remembered(f.id)' /\ \A c \in Cmd : Remembered(c) => Remembered(c)'
    BY <1>5, <2>2 DEF HandleRun, Remembered, faults, SpoolAssumption
  <2>5. execs[f.id] <= crashes + resets
    BY <2>1, <2>3 DEF RunsInv
  <2>6. ASSUME NEW c \in Cmd
        PROVE  /\ execs'[c] <= crashes + resets + 1
               /\ ~Remembered(c)' => execs'[c] <= crashes + resets
    <3>1. CASE c = f.id
      BY <1>5, <2>1, <2>4, <2>5, <3>1 DEF HandleRun
    <3>2. CASE c # f.id
      <4>1. execs'[c] = execs[c]
        BY <1>5, <3>2 DEF HandleRun
      <4> QED BY <2>4, <4>1 DEF RunsInv
    <3> QED BY <3>1, <3>2
  <2> QED BY <1>5, <2>6 DEF HandleRun, faults, RunsInv
<1>6. CASE FinishCommand
  <2>1. cur \in File
    BY <1>6 DEF FinishCommand
  <2> QED BY <1>3, <1>6, <2>1 DEF FinishCommand
<1>7. CASE CrashRestart
  BY <1>2, <1>7 DEF CrashRestart
<1>8. CASE EmitAck
  BY <1>1, <1>8 DEF EmitAck, Remembered
<1>9. CASE UNCHANGED <<execs, crashes, resets, seen, cur, doneDir>>
  BY <1>1, <1>9 DEF Remembered
<1> QED
  BY <1>4, <1>5, <1>6, <1>7, <1>8, <1>9 DEF Next, TxStep, RunnerStep, BeginSubmit,
     WriteCommand, CommitSubmit, RollbackSubmit, BeginPoll, CommitPoll, EndPoll, Scan, vars,
     runnerVars, faults

\* A command is run once, and once more at most for each crash and each time the
\* seen map was thrown away.
THEOREM RunsAreBounded == ASSUME SpoolAssumption PROVE Spec => []RunsBoundedByMemoryLoss
<1>1. Init => OneFilePerId /\ RunsInv
  <2>1. Init => \A w \in Workers : tx[w].op = "idle"
    BY DEF Init, Idle, NewTx
  <2>2. Init => OneFilePerId
    BY <2>1 DEF Init, OneFilePerId, Files, Submitting
  <2>3. Init => RunsInv
    BY DEF Init, RunsInv
  <2> QED BY <2>2, <2>3
<1>2. TypeOK /\ OneFilePerId /\ RunsInv /\ [Next]_vars => (OneFilePerId /\ RunsInv)'
  BY OneFilePerIdInductive, RunsInvInductive
<1>3. TypeOK /\ RunsInv => RunsBoundedByMemoryLoss
  BY DEF TypeOK, RunsInv, RunsBoundedByMemoryLoss
<1> QED BY <1>1, <1>2, <1>3, TypeCorrect, PTL DEF Spec
----
(***************************************************************************)
(* The order of the files.  Numbers: a transaction that may still commit   *)
(* holds the next number, so what is committed has lower ones.  Runs: the  *)
(* loop takes the lowest file of a scan, and a scan saw every file that    *)
(* was committed before the ones it took.                                  *)
(***************************************************************************)
Open(w, c) == tx[w].op \in {"submit", "written"} /\ tx[w].cmd = c
Committed(c) == row[c] # "none"
FileOf(w) == [id |-> tx[w].cmd, seq |-> tx[w].seq]

OpenInv ==
    /\ \A w \in Workers, c \in Cmd : Open(w, c) => ~Committed(c)
    /\ \A v, w \in Workers, c \in Cmd : Open(v, c) /\ Open(w, c) => v = w
    /\ \A w \in Workers : tx[w].op = "written" => FileOf(w) \in Files
    /\ \A w \in Workers : \A c \in tx[w].sees : Committed(c)

NumbersInv ==
    /\ \A w \in Workers : tx[w].op \in {"submit", "written"} =>
           tx[w].seq <= nextSeq /\ (~tx[w].stale => tx[w].seq = nextSeq)
    /\ \A f \in Files : f.seq <= nextSeq /\ (Committed(f.id) => f.seq < nextSeq)
    /\ \A f, g \in Files : Committed(f.id) /\ Committed(g.id) /\ f # g => f.seq # g.seq

RanInv ==
    /\ \A c \in seen : execs[c] > 0
    /\ \A f \in doneDir : execs[f.id] > 0
    /\ cur # NoFile => execs[cur.id] > 0
    /\ \A w \in Workers, c \in Cmd : Submitting(w, c) => execs[c] = 0

OrderInv ==
    \A f, g \in Files : Committed(f.id) /\ f.seq < g.seq =>
        /\ execs[g.id] > 0 => execs[f.id] > 0
        /\ g \in batch => f \in batch \/ execs[f.id] > 0

\* What the transactions beside a commit become.
LEMMA CommitLeaves ==
  ASSUME TypeOK, NEW w \in Workers, Commit(w), NEW v \in Workers
  PROVE  /\ ~tx[w].stale /\ tx'[w] = Idle
         /\ tx'[v] # Idle => /\ v # w /\ tx[v] # Idle
                             /\ tx'[v].op = tx[v].op /\ tx'[v].cmd = tx[v].cmd
                             /\ tx'[v].seq = tx[v].seq /\ tx'[v].stale /\ tx'[v].sees = {}
<1>1. ASSUME tx'[v] # Idle
      PROVE  tx'[v] = [tx[v] EXCEPT !.stale = TRUE, !.sees = {}] /\ tx[v] \in Tx /\ tx[v] # Idle /\ v # w
  BY <1>1 DEF Commit, TypeOK
<1>2. ASSUME tx'[v] # Idle
      PROVE  /\ tx'[v].op = tx[v].op /\ tx'[v].cmd = tx[v].cmd
             /\ tx'[v].seq = tx[v].seq /\ tx'[v].stale /\ tx'[v].sees = {}
  BY <1>1, <1>2 DEF Tx, SubmitTx, PollTx
<1>3. ~tx[w].stale /\ tx'[w] = Idle
  BY DEF Commit
<1> QED BY <1>1, <1>2, <1>3

LEMMA IdleFields == Idle.op = "idle" /\ Idle.cmd = NoCmd /\ Idle.sees = {}
BY DEF Idle, NewTx

\* Every step of the runner leaves Odoo's side and the files as they are.
LEMMA RunnerLeaves ==
  ASSUME OneFilePerId, TypeOK, RunnerStep \/ CrashRestart
  PROVE  UNCHANGED odooVars /\ Files' = Files
<1>1. ASSUME NEW f \in Files, MoveFile(f) PROVE Files' = Files
  BY <1>1 DEF MoveFile, Files
<1>2. CASE FinishCommand
  BY <1>1, <1>2 DEF FinishCommand, OneFilePerId, TypeOK
<1>3. ASSUME NEW f \in batch, HandleSeen(f) PROVE UNCHANGED odooVars /\ Files' = Files
  BY <1>1, <1>3 DEF HandleSeen, OneFilePerId
<1> QED BY <1>2, <1>3 DEF RunnerStep, Scan, HandleRun, EmitAck, CrashRestart, Files

\* A poll closes rows that are there.
LEMMA PollKeepsRows ==
  ASSUME TypeOK, OpenInv, NEW w \in Workers, CommitPoll(w), NEW c \in Cmd
  PROVE  Committed(c)' <=> Committed(c)
<1>1. CASE row'[c] = row[c]
  BY <1>1 DEF Committed
<1>2. CASE row'[c] # row[c]
  <2>1. c \in tx[w].sees /\ Acks(c, offset, Len(log)) # {} /\ row'[c] = LastAck(c, offset, Len(log))
    BY <1>2 DEF CommitPoll, ApplyEvents, TypeOK
  <2> DEFINE A == Acks(c, offset, Len(log))
  <2>2. Len(log) \in Nat /\ A \in SUBSET (1..Len(log)) /\ A # {}
    BY <2>1 DEF Acks, TypeOK
  <2>3. PICK i \in A : \A j \in A : j <= i
    BY <2>2, LastPosition
  <2> DEFINE k == CHOOSE i1 \in A : \A j \in A : j <= i1
  <2>4. k \in A
    BY <2>3
  <2>5. log[k] \in Ack
    BY <2>2, <2>4 DEF TypeOK
  <2>6. row'[c] \in Outcome
    BY <2>1, <2>5 DEF LastAck, Ack
  <2> QED BY <2>1, <2>6 DEF OpenInv, Committed, Outcome
<1> QED BY <1>1, <1>2

LEMMA OpenInvInductive ==
  ASSUME SpoolAssumption, TypeOK, OneFilePerId, OpenInv, [Next]_vars PROVE OpenInv'
<1> USE DEF OpenInv, Open
\* No transaction beside those there were, and no file less.
<1>0. ASSUME Files \subseteq Files', \A c \in Cmd : Committed(c)' <=> Committed(c),
             \A v \in Workers : tx'[v] = tx[v] \/ tx'[v] = Idle
      PROVE  OpenInv'
  <2>1. \A v \in Workers : tx[v].sees \subseteq Cmd
    BY DEF TypeOK, Tx, SubmitTx, PollTx, Idle, NewTx
  <2> QED BY <1>0, <2>1, IdleFields DEF FileOf, SpoolAssumption
<1>1. ASSUME NEW w \in Workers, NEW c \in Cmd, BeginSubmit(w, c) PROVE OpenInv'
  <2>1. \A v \in Workers : tx'[v] = IF v = w THEN NewTx("submit", c, nextSeq, {}) ELSE tx[v]
    BY <1>1 DEF BeginSubmit, Begin, TypeOK
  <2>2. ~Committed(c) /\ \A v \in Workers : tx[v].cmd # c
    BY <1>1 DEF BeginSubmit, Fresh, Committed
  <2>3. \A d \in Cmd : Committed(d)' <=> Committed(d)
    BY <1>1 DEF BeginSubmit, Committed
  <2>4. Files' = Files
    BY <1>1 DEF BeginSubmit, Files
  <2>5. \A v \in Workers : tx[v].sees \subseteq Cmd
    BY DEF TypeOK, Tx, SubmitTx, PollTx, Idle, NewTx
  <2> QED BY <2>1, <2>2, <2>3, <2>4, <2>5 DEF NewTx, FileOf
<1>2. ASSUME NEW w \in Workers, WriteCommand(w) PROVE OpenInv'
  <2>1. tx[w] \in SubmitTx /\ tx[w].op = "submit"
    BY <1>2, SubmitIsTyped DEF WriteCommand
  <2>2. \A v \in Workers : /\ v # w => tx'[v] = tx[v]
                           /\ tx'[v].cmd = tx[v].cmd /\ tx'[v].seq = tx[v].seq /\ tx'[v].sees = tx[v].sees
    BY <1>2, <2>1 DEF WriteCommand, TypeOK, SubmitTx
  <2>3. \A v \in Workers, d \in Cmd : Open(v, d)' => Open(v, d)
    BY <2>1, <2>2
  <2>4. Files' = Files \cup {FileOf(w)} /\ FileOf(w)' = FileOf(w)
    BY <1>2, <2>2 DEF WriteCommand, Files, FileOf
  <2>5. \A v \in Workers : tx'[v].op = "written" => FileOf(v)' \in Files'
    BY <2>2, <2>4 DEF FileOf
  <2>6. row' = row
    BY <1>2 DEF WriteCommand
  <2> QED BY <2>2, <2>3, <2>5, <2>6 DEF Committed
<1>3. ASSUME NEW w \in Workers, CommitSubmit(w) PROVE OpenInv'
  <2>1. tx[w] \in SubmitTx /\ tx[w].cmd \in Cmd /\ Open(w, tx[w].cmd)
    BY <1>3, SubmitIsTyped DEF CommitSubmit, SubmitTx
  <2>2. \A c \in Cmd : Committed(c)' <=> Committed(c) \/ c = tx[w].cmd
    BY <1>3, <2>1 DEF CommitSubmit, Committed, TypeOK
  <2>3. Files' = Files
    BY <1>3 DEF CommitSubmit, Files
  <2>4. \A v \in Workers, c \in Cmd : Open(v, c)' => v # w /\ Open(v, c)
    BY <1>3, CommitLeaves, IdleFields DEF CommitSubmit
  <2>5. \A v \in Workers : tx'[v].op = "written" => FileOf(v)' \in Files'
    BY <1>3, <2>3, CommitLeaves, IdleFields DEF CommitSubmit, FileOf
  <2>6. \A v \in Workers : tx'[v].sees = {}
    BY <1>3, CommitLeaves, IdleFields DEF CommitSubmit
  <2> QED BY <2>1, <2>2, <2>4, <2>5, <2>6
<1>4. ASSUME NEW w \in Workers, RollbackSubmit(w) \/ EndPoll(w) PROVE OpenInv'
  BY <1>0, <1>4 DEF RollbackSubmit, EndPoll, Rollback, Files, Committed, TypeOK
<1>5. ASSUME NEW w \in Workers, BeginPoll(w) PROVE OpenInv'
  <2> DEFINE rows == {c \in Cmd : Committed(c)}
             t == NewTx("poll", NoCmd, 0, rows)
  <2>1. tx' = [tx EXCEPT ![w] = t] /\ row' = row /\ Files' = Files
    BY <1>5 DEF BeginPoll, Begin, Committed, Files
  <2>2. t.op = "poll" /\ t.sees = rows
    BY DEF NewTx
  <2>3. \A c \in rows : Committed(c)
    OBVIOUS
  <2> HIDE DEF t, rows
  <2>4. \A v \in Workers : tx'[v] = IF v = w THEN t ELSE tx[v]
    BY <2>1 DEF TypeOK
  <2> QED BY <2>1, <2>2, <2>3, <2>4 DEF FileOf, Committed
<1>6. ASSUME NEW w \in Workers, CommitPoll(w) PROVE OpenInv'
  <2>1. Files' = Files
    BY <1>6 DEF CommitPoll, Files
  <2>2. \A v \in Workers, c \in Cmd : Open(v, c)' => Open(v, c)
    BY <1>6, CommitLeaves, IdleFields DEF CommitPoll
  <2>3. \A v \in Workers : tx'[v].op = "written" => FileOf(v)' \in Files'
    BY <1>6, <2>1, CommitLeaves, IdleFields DEF CommitPoll, FileOf
  <2>4. \A v \in Workers : tx'[v].sees = {}
    BY <1>6, CommitLeaves, IdleFields DEF CommitPoll
  <2> QED BY <1>6, <2>2, <2>3, <2>4, PollKeepsRows
<1>7. CASE RunnerStep \/ CrashRestart
  BY <1>0, <1>7, RunnerLeaves DEF odooVars, Committed
<1>8. CASE UNCHANGED vars
  BY <1>0, <1>8 DEF vars, odooVars, Committed, Files
<1> QED BY <1>1, <1>2, <1>3, <1>4, <1>5, <1>6, <1>7, <1>8 DEF Next, TxStep

LEMMA NumbersInvInductive ==
  ASSUME SpoolAssumption, TypeOK, OneFilePerId, OpenInv, NumbersInv, [Next]_vars PROVE NumbersInv'
<1> USE DEF NumbersInv
<1>a. \A f \in Files : f.id \in Cmd /\ f.seq \in Nat
  BY DEF Files, File, TypeOK
<1>b. nextSeq \in Nat
  BY DEF TypeOK
<1>0. ASSUME Files' = Files, nextSeq' = nextSeq, \A c \in Cmd : Committed(c)' <=> Committed(c),
             \A v \in Workers : tx'[v].op \in {"submit", "written"} =>
                 /\ tx[v].op \in {"submit", "written"} /\ tx'[v].seq = tx[v].seq
                 /\ tx'[v].stale \/ tx'[v].stale = tx[v].stale
      PROVE  NumbersInv'
  <2>1. \A f \in Files : Committed(f.id)' <=> Committed(f.id)
    BY <1>0, <1>a
  <2> QED BY <1>0, <2>1
<1>1. ASSUME NEW w \in Workers, NEW c \in Cmd, BeginSubmit(w, c) PROVE NumbersInv'
  <2>1. \A v \in Workers : tx'[v] = IF v = w THEN NewTx("submit", c, nextSeq, {}) ELSE tx[v]
    BY <1>1 DEF BeginSubmit, Begin, TypeOK
  <2>2. Files' = Files /\ nextSeq' = nextSeq /\ row' = row
    BY <1>1 DEF BeginSubmit, Files
  <2> QED BY <1>b, <2>1, <2>2 DEF NewTx, Committed
<1>2. ASSUME NEW w \in Workers, WriteCommand(w) PROVE NumbersInv'
  <2>1. tx[w] \in SubmitTx /\ tx[w].cmd \in Cmd /\ tx[w].op = "submit"
    BY <1>2, SubmitIsTyped DEF WriteCommand, SubmitTx
  <2>2. \A v \in Workers : /\ tx'[v].seq = tx[v].seq /\ tx'[v].stale = tx[v].stale
                           /\ tx'[v].op \in {"submit", "written"} => tx[v].op \in {"submit", "written"}
    BY <1>2, <2>1 DEF WriteCommand, TypeOK, SubmitTx
  <2>3. Files' = Files \cup {FileOf(w)} /\ row' = row /\ nextSeq' = nextSeq
    BY <1>2 DEF WriteCommand, Files, FileOf
  <2>4. FileOf(w).id = tx[w].cmd /\ FileOf(w).seq <= nextSeq
    BY <2>1 DEF FileOf
  <2>5. ~Committed(FileOf(w).id)
    BY <2>1, <2>4 DEF OpenInv, Open
  <2>6. \A c : Committed(c)' <=> Committed(c)
    BY <2>3 DEF Committed
  <2>7. \A f \in Files' : f.seq <= nextSeq /\ (Committed(f.id) => f \in Files)
    BY <2>3, <2>4, <2>5
  <2> QED BY <2>2, <2>3, <2>6, <2>7
<1>3. ASSUME NEW w \in Workers, CommitSubmit(w) PROVE NumbersInv'
  <2>1. tx[w] \in SubmitTx /\ tx[w].cmd \in Cmd /\ tx[w].op = "written" /\ ~tx[w].stale
    BY <1>3, SubmitIsTyped DEF CommitSubmit, SubmitTx, Commit
  <2>2. tx[w].seq = nextSeq /\ nextSeq' = nextSeq + 1
    BY <1>3, <2>1 DEF CommitSubmit
  <2>3. Files' = Files
    BY <1>3 DEF CommitSubmit, Files
  <2>4. \A v \in Workers : tx'[v].op \in {"submit", "written"} =>
            tx'[v].stale /\ tx[v].op \in {"submit", "written"} /\ tx'[v].seq = tx[v].seq
    BY <1>3, CommitLeaves, IdleFields DEF CommitSubmit
  <2>5. \A c \in Cmd : Committed(c)' <=> Committed(c) \/ c = tx[w].cmd
    BY <1>3, <2>1 DEF CommitSubmit, Committed, TypeOK
  \* The committed file is the only one of its id, and has the highest number.
  <2>6. FileOf(w) \in Files /\ FileOf(w).id = tx[w].cmd /\ FileOf(w).seq = nextSeq
    BY <2>1, <2>2 DEF OpenInv, FileOf
  <2>7. \A f \in Files : Committed(f.id)' <=> Committed(f.id) \/ f = FileOf(w)
    BY <1>a, <2>5, <2>6 DEF OneFilePerId
  <2>8. \A v \in Workers : tx[v].op \in {"submit", "written"} => tx[v].seq \in Nat
    BY SubmitIsTyped DEF SubmitTx
  <2>9. \A v \in Workers : tx'[v].op \in {"submit", "written"} =>
           tx'[v].seq <= nextSeq' /\ (~tx'[v].stale => tx'[v].seq = nextSeq')
    BY <1>b, <2>2, <2>4, <2>8
  <2>10. \A f \in Files : f.seq <= nextSeq' /\ (Committed(f.id)' => f.seq < nextSeq')
    BY <1>a, <1>b, <2>2
  <2>11. \A f, g \in Files : Committed(f.id)' /\ Committed(g.id)' /\ f # g => f.seq # g.seq
    BY <1>a, <1>b, <2>6, <2>7
  <2> QED BY <2>3, <2>9, <2>10, <2>11
<1>4. ASSUME NEW w \in Workers, RollbackSubmit(w) \/ EndPoll(w) \/ BeginPoll(w) PROVE NumbersInv'
  <2>1. \A v \in Workers : \/ tx'[v] = tx[v]
                           \/ tx'[v].op \notin {"submit", "written"}
    BY <1>4, IdleFields DEF RollbackSubmit, EndPoll, BeginPoll, Begin, Rollback, NewTx, TypeOK
  <2>2. Files' = Files /\ nextSeq' = nextSeq /\ row' = row
    BY <1>4 DEF RollbackSubmit, EndPoll, BeginPoll, Files
  <2> QED BY <1>0, <2>1, <2>2 DEF Committed
<1>6. ASSUME NEW w \in Workers, CommitPoll(w) PROVE NumbersInv'
  <2>1. Files' = Files /\ nextSeq' = nextSeq
    BY <1>6 DEF CommitPoll, Files
  <2>2. \A v \in Workers : tx'[v].op \in {"submit", "written"} =>
            tx'[v].stale /\ tx[v].op \in {"submit", "written"} /\ tx'[v].seq = tx[v].seq
    BY <1>6, CommitLeaves, IdleFields DEF CommitPoll
  <2> QED BY <1>0, <1>6, <2>1, <2>2, PollKeepsRows
<1>7. CASE RunnerStep \/ CrashRestart
  BY <1>0, <1>7, RunnerLeaves DEF odooVars, Committed
<1>8. CASE UNCHANGED vars
  BY <1>0, <1>8 DEF vars, odooVars, Committed, Files
<1> QED BY <1>1, <1>2, <1>3, <1>4, <1>6, <1>7, <1>8 DEF Next, TxStep

\* What the runner knows of was run, and what has no file yet was not.
LEMMA RanInvInductive ==
  ASSUME SpoolAssumption, TypeOK, OneFilePerId, RanInv, [Next]_vars PROVE RanInv'
<1> USE DEF RanInv
<1>0. ASSUME UNCHANGED <<seen, doneDir, cur, execs>>,
             \A v \in Workers, c \in Cmd : Submitting(v, c)' => Submitting(v, c) \/ execs[c] = 0
      PROVE  RanInv'
  BY <1>0
<1>1. ASSUME NEW w \in Workers, NEW c \in Cmd, BeginSubmit(w, c) PROVE RanInv'
  <2>1. \A v \in Workers : tx'[v] = IF v = w THEN NewTx("submit", c, nextSeq, {}) ELSE tx[v]
    BY <1>1 DEF BeginSubmit, Begin, TypeOK
  <2> QED BY <1>0, <1>1, <2>1 DEF BeginSubmit, Fresh, NewTx, Submitting, runnerVars
<1>2. ASSUME NEW w \in Workers, TxStep(w) PROVE RanInv'
  <2>1. \A v \in Workers, c \in Cmd : Submitting(v, c)' => Submitting(v, c)
    <3>1. CASE WriteCommand(w)
      <4>1. tx[w] \in SubmitTx
        BY <3>1, SubmitIsTyped DEF WriteCommand
      <4> QED BY <3>1, <4>1 DEF WriteCommand, TypeOK, SubmitTx, Submitting
    <3>2. CASE CommitSubmit(w) \/ CommitPoll(w)
      BY <3>2, CommitLeaves, IdleFields DEF CommitSubmit, CommitPoll, Submitting
    <3>3. CASE RollbackSubmit(w) \/ EndPoll(w) \/ BeginPoll(w)
      <4>1. \A v \in Workers : v # w => tx'[v] = tx[v]
        BY <3>3 DEF RollbackSubmit, EndPoll, BeginPoll, Begin, Rollback, TypeOK
      <4>2. tx'[w].op \notin {"submit", "written"}
        BY <3>3, IdleFields DEF RollbackSubmit, EndPoll, BeginPoll, Begin, Rollback, NewTx, TypeOK
      <4> QED BY <4>1, <4>2 DEF Submitting
    <3> QED BY <1>2, <3>1, <3>2, <3>3 DEF TxStep
  <2> QED BY <1>0, <1>2, <2>1 DEF TxStep, WriteCommand, CommitSubmit, RollbackSubmit, BeginPoll,
             CommitPoll, EndPoll, runnerVars
<1>3. ASSUME RunnerStep \/ CrashRestart, execs' = execs,
             \A c \in seen' : c \in seen \/ execs[c] > 0,
             \A f \in doneDir' : f \in doneDir \/ execs[f.id] > 0,
             cur' # NoFile => cur' = cur
      PROVE  RanInv'
  BY <1>3, RunnerLeaves DEF odooVars, Submitting
<1>4. ASSUME NEW f \in batch, HandleSeen(f) PROVE RanInv'
  <2>1. execs[f.id] > 0
    BY <1>4 DEF HandleSeen, Seen
  <2> QED BY <1>3, <1>4, <2>1 DEF HandleSeen, Remember, MoveFile, RunnerStep
<1>5. ASSUME NEW f \in batch, HandleRun(f) PROVE RanInv'
  <2>1. f.id \in Cmd /\ \A c \in Cmd : execs[c] \in Nat
    BY DEF TypeOK, File
  <2>2. \A c \in Cmd : /\ c # f.id => execs'[c] = execs[c]
                       /\ execs'[f.id] = execs[f.id] + 1
    BY <1>5, <2>1 DEF HandleRun, TypeOK
  <2>3. \A g \in doneDir : g.id \in Cmd
    BY DEF TypeOK, File
  <2>4. seen' = seen /\ seen \subseteq Cmd /\ doneDir' = doneDir /\ cur' = f /\ tx' = tx
    BY <1>5 DEF HandleRun, TypeOK, odooVars
  <2>5. \A w \in Workers : ~Submitting(w, f.id)
    BY <1>5 DEF OneFilePerId
  <2> QED BY <2>1, <2>2, <2>3, <2>4, <2>5 DEF Submitting
<1>6. CASE FinishCommand
  <2>1. execs[cur.id] > 0
    BY <1>6 DEF FinishCommand, TypeOK
  <2> QED BY <1>3, <1>6, <2>1 DEF FinishCommand, Remember, MoveFile, RunnerStep
<1>7. CASE Scan \/ EmitAck \/ CrashRestart
  BY <1>3, <1>7 DEF Scan, EmitAck, CrashRestart, RunnerStep
<1>8. CASE UNCHANGED vars
  BY <1>0, <1>8 DEF vars, odooVars, runnerVars, Submitting
<1> QED BY <1>1, <1>2, <1>4, <1>5, <1>6, <1>7, <1>8 DEF Next, RunnerStep

LEMMA OrderInvInductive ==
  ASSUME SpoolAssumption, TypeOK, OneFilePerId, OpenInv, NumbersInv, RanInv, OrderInv, [Next]_vars
  PROVE  OrderInv'
<1> USE DEF OrderInv
<1>a. \A f \in Files : f.id \in Cmd /\ f.seq \in Nat
  BY DEF Files, File, TypeOK
<1>0. ASSUME Files' = Files, execs' = execs, batch' = batch,
             \A c \in Cmd : Committed(c)' <=> Committed(c)
      PROVE  OrderInv'
  <2>1. \A f \in Files : Committed(f.id)' <=> Committed(f.id)
    BY <1>0, <1>a
  <2> QED BY <1>0, <2>1
<1>1. ASSUME NEW w \in Workers, NEW c \in Cmd, BeginSubmit(w, c) PROVE OrderInv'
  BY <1>0, <1>1 DEF BeginSubmit, Files, Committed, runnerVars
<1>2. ASSUME NEW w \in Workers, WriteCommand(w) PROVE OrderInv'
  \* The new file is no command's that committed, and was neither scanned nor run.
  <2>1. tx[w] \in SubmitTx /\ tx[w].cmd \in Cmd /\ tx[w].op = "submit"
    BY <1>2, SubmitIsTyped DEF WriteCommand, SubmitTx
  <2>2. Files' = Files \cup {FileOf(w)} /\ row' = row /\ execs' = execs /\ batch' = batch
    BY <1>2 DEF WriteCommand, Files, FileOf, runnerVars
  <2>3. FileOf(w).id = tx[w].cmd /\ Submitting(w, tx[w].cmd)
    BY <2>1 DEF FileOf, Submitting
  <2>4. ~Committed(FileOf(w).id) /\ execs[FileOf(w).id] = 0
    BY <2>1, <2>3 DEF OpenInv, Open, RanInv
  <2>5. FileOf(w) \notin batch
    BY <2>3 DEF OneFilePerId
  <2>6. \A c : Committed(c)' <=> Committed(c)
    BY <2>2 DEF Committed
  <2>7. \A g \in Files' : g \in Files \/ (execs[g.id] = 0 /\ g \notin batch)
    BY <2>2, <2>4, <2>5
  <2>8. \A f \in Files' : Committed(f.id) => f \in Files
    BY <2>2, <2>4
  <2> QED BY <2>2, <2>6, <2>7, <2>8
<1>3. ASSUME NEW w \in Workers, CommitSubmit(w) PROVE OrderInv'
  \* Nothing has a higher number than what is committed now.
  <2>1. tx[w] \in SubmitTx /\ tx[w].cmd \in Cmd /\ tx[w].op = "written" /\ ~tx[w].stale
    BY <1>3, SubmitIsTyped DEF CommitSubmit, SubmitTx, Commit
  <2>2. FileOf(w) \in Files /\ FileOf(w).id = tx[w].cmd /\ FileOf(w).seq = nextSeq
    BY <2>1 DEF OpenInv, NumbersInv, FileOf
  <2>3. \A c \in Cmd : Committed(c)' <=> Committed(c) \/ c = tx[w].cmd
    BY <1>3, <2>1 DEF CommitSubmit, Committed, TypeOK
  <2>4. \A f \in Files : Committed(f.id)' <=> Committed(f.id) \/ f = FileOf(w)
    BY <1>a, <2>2, <2>3 DEF OneFilePerId
  <2>5. \A g \in Files : ~(FileOf(w).seq < g.seq)
    BY <1>a, <2>2 DEF NumbersInv, TypeOK
  <2>6. Files' = Files /\ execs' = execs /\ batch' = batch
    BY <1>3 DEF CommitSubmit, Files, runnerVars
  <2> QED BY <2>4, <2>5, <2>6
<1>4. ASSUME NEW w \in Workers, RollbackSubmit(w) \/ EndPoll(w) \/ BeginPoll(w) PROVE OrderInv'
  BY <1>0, <1>4 DEF RollbackSubmit, EndPoll, BeginPoll, Files, Committed, runnerVars
<1>5. ASSUME NEW w \in Workers, CommitPoll(w) PROVE OrderInv'
  BY <1>0, <1>5, PollKeepsRows DEF CommitPoll, Files, runnerVars
<1>b. ASSUME RunnerStep \/ CrashRestart
      PROVE  Files' = Files /\ \A c : Committed(c)' <=> Committed(c)
  BY <1>b, RunnerLeaves DEF odooVars, Committed
<1>6. CASE Scan
  <2>1. batch' = cmdDir /\ execs' = execs
    BY <1>6 DEF Scan
  <2>2. \A f \in Files : f \in cmdDir \/ execs[f.id] > 0
    BY DEF Files, RanInv
  <2> QED BY <1>6, <1>b, <2>1, <2>2 DEF RunnerStep
<1>7. ASSUME NEW h \in batch, HandleSeen(h) PROVE OrderInv'
  <2>1. execs[h.id] > 0
    BY <1>7 DEF HandleSeen, Seen, RanInv
  <2>2. batch' = batch \ {h} /\ execs' = execs
    BY <1>7 DEF HandleSeen
  <2> QED BY <1>7, <1>b, <2>1, <2>2 DEF RunnerStep
<1>8. ASSUME NEW h \in batch, HandleRun(h) PROVE OrderInv'
  <2>1. h \in Files /\ \A f \in batch : h.seq <= f.seq
    BY <1>8 DEF HandleRun, IsNext, OneFilePerId
  <2>2. batch' = batch \ {h} /\ \A c \in Cmd : execs'[c] = IF c = h.id THEN execs[c] + 1 ELSE execs[c]
    BY <1>8 DEF HandleRun, TypeOK
  <2>3. \A f \in Files : execs[f.id] \in Nat /\ execs'[f.id] = IF f = h THEN execs[f.id] + 1 ELSE execs[f.id]
    BY <1>a, <2>1, <2>2 DEF OneFilePerId, TypeOK
  \* The lowest file of a batch finds every committed one below it run already.
  <2>4. \A f \in Files : Committed(f.id) /\ f.seq < h.seq => execs[f.id] > 0
    BY <1>8, <1>a, <2>1 DEF OneFilePerId
  <2> QED BY <1>8, <1>b, <2>2, <2>3, <2>4 DEF RunnerStep
<1>9. CASE EmitAck \/ FinishCommand
  BY <1>0, <1>9, <1>b DEF EmitAck, FinishCommand, RunnerStep
<1>10. CASE CrashRestart
  BY <1>10, <1>b DEF CrashRestart
<1>11. CASE UNCHANGED vars
  BY <1>0, <1>11 DEF vars, odooVars, runnerVars, Committed, Files
<1> QED BY <1>1, <1>2, <1>3, <1>4, <1>5, <1>6, <1>7, <1>8, <1>9, <1>10, <1>11 DEF Next, TxStep, RunnerStep

----
(***************************************************************************)
(* The rows.  A transaction that may still commit holds a command no poll  *)
(* has come across, because a poll would have made it stale; and a poll    *)
(* that may still commit sees every row there is.                          *)
(***************************************************************************)
LogInv ==
    /\ offset <= Len(log)
    /\ \A i \in DOMAIN log : execs[log[i].cmd] > 0
    /\ \A w \in Workers, c \in Cmd : Open(w, c) /\ ~tx[w].stale => Acks(c, 0, offset) = {}
    /\ \A w \in Workers : tx[w].op = "poll" /\ ~tx[w].stale => \A c \in Cmd : Committed(c) => c \in tx[w].sees

\* The last of the acknowledgements up to n that are past m is the last of all.
LEMMA LastIsLast ==
  ASSUME TypeOK, NEW c \in Cmd, NEW m \in Nat, NEW n \in Nat, m <= n, n <= Len(log)
  PROVE  /\ Acks(c, m, n) # {} => Acks(c, 0, n) # {} /\ LastAck(c, m, n) = LastAck(c, 0, n)
         /\ Acks(c, m, n) = {} => Acks(c, 0, n) = Acks(c, 0, m) /\ LastAck(c, 0, n) = LastAck(c, 0, m)
<1> DEFINE A(k) == Acks(c, k, n)
           IsLast(k, i) == i \in A(k) /\ \A j \in A(k) : j <= i
<1>1. A(m) \subseteq A(0) /\ \A i \in A(0) \ A(m) : i <= m
  BY DEF Acks
<1>2. \A i \in A(m) : i > m
  BY DEF Acks
<1>3. A(0) \in SUBSET (1..n) /\ A(m) \in SUBSET (1..n)
  BY DEF Acks
<1>4. ASSUME A(m) # {} PROVE LastAck(c, m, n) = LastAck(c, 0, n)
  <2>1. PICK i \in A(m) : \A j \in A(m) : j <= i
    BY <1>3, <1>4, LastPosition
  <2>2. i \in A(0) /\ \A j \in A(0) : j <= i
    BY <1>1, <1>2, <1>3, <2>1
  <2>3. \A k \in {0, m} : \A i1 \in A(k) : (\A j \in A(k) : j <= i1) => i1 = i
    BY <1>3, <2>1, <2>2
  <2>4. (CHOOSE i1 \in A(m) : \A j \in A(m) : j <= i1) = i
    BY <2>1, <2>3
  <2>5. (CHOOSE i1 \in A(0) : \A j \in A(0) : j <= i1) = i
    BY <2>2, <2>3
  <2> QED BY <2>4, <2>5 DEF LastAck
<1>5. ASSUME A(m) = {} PROVE Acks(c, 0, n) = Acks(c, 0, m)
  BY <1>5 DEF Acks
<1>6. A(m) # {} => A(0) # {}
  BY <1>1
<1> QED BY <1>4, <1>5, <1>6 DEF LastAck

\* What was read stays as it was when a line is added.
LEMMA ReadStays ==
  ASSUME TypeOK, offset <= Len(log), NEW c \in Cmd, NEW a, log' = Append(log, a), offset' = offset
  PROVE  /\ Acks(c, 0, offset)' = Acks(c, 0, offset)
         /\ Acks(c, 0, offset) # {} => LastAck(c, 0, offset)' = LastAck(c, 0, offset)
<1>1. \A i \in (0 + 1)..offset : log'[i] = log[i]
  BY DEF TypeOK
<1>2. Acks(c, 0, offset)' = {i \in (0 + 1)..offset : log'[i].cmd = c}
  BY DEF Acks
<1>3. Acks(c, 0, offset)' = Acks(c, 0, offset)
  BY <1>1, <1>2 DEF Acks
<1>4. ASSUME Acks(c, 0, offset) # {} PROVE LastAck(c, 0, offset)' = LastAck(c, 0, offset)
  <2> DEFINE A == Acks(c, 0, offset)
             k == CHOOSE i1 \in A : \A j \in A : j <= i1
  <2>1. A \in SUBSET (1..offset) /\ offset \in Nat
    BY DEF Acks, TypeOK
  <2>2. PICK i \in A : \A j \in A : j <= i
    BY <1>4, <2>1, LastPosition
  <2>3. k \in A
    BY <2>2
  <2>4. k \in (0 + 1)..offset
    BY <2>3 DEF Acks
  <2>5. log'[k] = log[k]
    <3> HIDE DEF k
    <3> QED BY <1>1, <2>4
  <2> QED BY <1>3, <1>4, <2>5 DEF LastAck
<1> QED BY <1>3, <1>4

LEMMA LogInvInductive ==
  ASSUME SpoolAssumption, TypeOK, OneFilePerId, OpenInv, RanInv, LogInv, RowsFollowLog, [Next]_vars
  PROVE  LogInv' /\ RowsFollowLog'
<1> USE DEF LogInv
<1>a. \A i \in DOMAIN log : log[i].cmd \in Cmd
  <2>1. \A i \in DOMAIN log : log[i] \in Ack
    BY DEF TypeOK
  <2> QED BY <2>1 DEF Ack
<1>b. \A c \in Cmd : execs[c] \in Nat
  BY DEF TypeOK
\* Runs may be added, transactions may end or become stale.
<1>0. ASSUME log' = log, offset' = offset, row' = row, \A c \in Cmd : execs'[c] > 0 \/ execs'[c] = execs[c],
             \A v \in Workers : tx'[v] = tx[v] \/ tx'[v] = Idle \/ (tx[v].op = "submit" /\ tx'[v].op = "written"
                                    /\ tx'[v].cmd = tx[v].cmd /\ tx'[v].stale = tx[v].stale)
      PROVE  LogInv' /\ RowsFollowLog'
  <2>1. \A c \in Cmd : \A n, k : Acks(c, n, k)' = Acks(c, n, k) /\ LastAck(c, n, k)' = LastAck(c, n, k)
    BY <1>0 DEF Acks, LastAck
  <2>2. RowsFollowLog'
    BY <1>0, <2>1 DEF RowsFollowLog
  <2>3. \A v \in Workers, c \in Cmd : Open(v, c)' /\ ~tx'[v].stale => Open(v, c) /\ ~tx[v].stale
    BY <1>0, IdleFields DEF Open
  <2>4. \A v \in Workers : tx'[v].op = "poll" => tx'[v] = tx[v]
    BY <1>0, IdleFields
  <2> QED BY <1>0, <1>a, <2>1, <2>2, <2>3, <2>4 DEF Committed
<1>1. ASSUME NEW w \in Workers, NEW c \in Cmd, BeginSubmit(w, c) PROVE LogInv' /\ RowsFollowLog'
  <2>1. \A v \in Workers : tx'[v] = IF v = w THEN NewTx("submit", c, nextSeq, {}) ELSE tx[v]
    BY <1>1 DEF BeginSubmit, Begin, TypeOK
  <2>2. log' = log /\ offset' = offset /\ row' = row /\ execs' = execs
    BY <1>1 DEF BeginSubmit
  <2>3. Acks(c, 0, offset) = {}
    BY <1>1 DEF BeginSubmit, Fresh, Acks, TypeOK
  <2>4. \A d \in Cmd : \A n, k : Acks(d, n, k)' = Acks(d, n, k) /\ LastAck(d, n, k)' = LastAck(d, n, k)
    BY <2>2 DEF Acks, LastAck
  <2>5. RowsFollowLog'
    BY <2>2, <2>4 DEF RowsFollowLog
  <2>6. \A v \in Workers, d \in Cmd : Open(v, d)' /\ ~tx'[v].stale => d = c \/ (Open(v, d) /\ ~tx[v].stale)
    BY <2>1 DEF Open, NewTx
  <2>7. \A v \in Workers : tx'[v].op = "poll" => tx'[v] = tx[v]
    BY <2>1 DEF NewTx
  <2> QED BY <2>2, <2>3, <2>4, <2>5, <2>6, <2>7 DEF Committed
<1>2. ASSUME NEW w \in Workers, WriteCommand(w) PROVE LogInv' /\ RowsFollowLog'
  <2>1. tx[w] \in SubmitTx /\ tx[w].op = "submit"
    BY <1>2, SubmitIsTyped DEF WriteCommand
  <2>2. \A v \in Workers : /\ v # w => tx'[v] = tx[v]
                           /\ tx'[w].op = "written" /\ tx'[w].cmd = tx[w].cmd /\ tx'[w].stale = tx[w].stale
    BY <1>2, <2>1 DEF WriteCommand, TypeOK, SubmitTx
  <2> QED BY <1>0, <1>2, <2>1, <2>2 DEF WriteCommand
<1>3. ASSUME NEW w \in Workers, CommitSubmit(w) PROVE LogInv' /\ RowsFollowLog'
  <2>1. tx[w] \in SubmitTx /\ tx[w].cmd \in Cmd /\ Open(w, tx[w].cmd) /\ ~tx[w].stale
    BY <1>3, SubmitIsTyped DEF CommitSubmit, SubmitTx, Open, Commit
  <2>2. log' = log /\ offset' = offset /\ execs' = execs /\ row' = [row EXCEPT ![tx[w].cmd] = "queued"]
    BY <1>3 DEF CommitSubmit
  <2>3. \A d \in Cmd : \A n, k : Acks(d, n, k)' = Acks(d, n, k) /\ LastAck(d, n, k)' = LastAck(d, n, k)
    BY <2>2 DEF Acks, LastAck
  <2>4. Acks(tx[w].cmd, 0, offset) = {}
    BY <2>1
  <2>5. RowsFollowLog'
    BY <2>1, <2>2, <2>3, <2>4 DEF RowsFollowLog, TypeOK
  <2>6. \A v \in Workers : tx'[v].op \in {"submit", "written", "poll"} => tx'[v].stale
    BY <1>3, CommitLeaves, IdleFields DEF CommitSubmit
  <2> QED BY <2>2, <2>5, <2>6 DEF Open
<1>4. ASSUME NEW w \in Workers, RollbackSubmit(w) \/ EndPoll(w) PROVE LogInv' /\ RowsFollowLog'
  BY <1>0, <1>4 DEF RollbackSubmit, EndPoll, Rollback, TypeOK
<1>5. ASSUME NEW w \in Workers, BeginPoll(w) PROVE LogInv' /\ RowsFollowLog'
  <2> DEFINE rows == {c \in Cmd : Committed(c)}
             t == NewTx("poll", NoCmd, 0, rows)
  <2>1. tx' = [tx EXCEPT ![w] = t]
    BY <1>5 DEF BeginPoll, Begin, Committed
  <2>2. t.op = "poll" /\ t.sees = rows
    BY DEF NewTx
  <2>3. \A c \in Cmd : Committed(c) => c \in rows
    OBVIOUS
  <2> HIDE DEF t, rows
  <2>4. \A v \in Workers : tx'[v] = IF v = w THEN t ELSE tx[v]
    BY <2>1 DEF TypeOK
  <2>5. log' = log /\ offset' = offset /\ row' = row /\ execs' = execs
    BY <1>5 DEF BeginPoll
  <2>6. \A d \in Cmd : \A n, k : Acks(d, n, k)' = Acks(d, n, k) /\ LastAck(d, n, k)' = LastAck(d, n, k)
    BY <2>5 DEF Acks, LastAck
  <2>7. RowsFollowLog'
    BY <2>5, <2>6 DEF RowsFollowLog
  <2> QED BY <2>2, <2>3, <2>4, <2>5, <2>6, <2>7 DEF Open, Committed
<1>6. ASSUME NEW w \in Workers, CommitPoll(w) PROVE LogInv' /\ RowsFollowLog'
  <2>1. /\ tx[w].op = "poll" /\ ~tx[w].stale /\ Len(log) > offset
        /\ log' = log /\ execs' = execs /\ offset' = Len(log)
        /\ row' = ApplyEvents(tx[w].sees, offset, Len(log))
    BY <1>6 DEF CommitPoll, Commit
  <2>2. \A v \in Workers : tx'[v].op \in {"submit", "written", "poll"} => tx'[v].stale
    BY <1>6, CommitLeaves, IdleFields DEF CommitPoll
  <2>3. \A d \in Cmd : \A n, k : Acks(d, n, k)' = Acks(d, n, k) /\ LastAck(d, n, k)' = LastAck(d, n, k)
    BY <2>1 DEF Acks, LastAck
  <2>4. ASSUME NEW c \in Cmd, Committed(c)'
        PROVE  row'[c] = IF Acks(c, 0, Len(log)) = {} THEN "queued" ELSE LastAck(c, 0, Len(log))
    <3>1. Committed(c) /\ c \in tx[w].sees
      BY <1>6, <2>1, <2>4, PollKeepsRows
    <3>2. row'[c] = IF Acks(c, offset, Len(log)) # {} THEN LastAck(c, offset, Len(log)) ELSE row[c]
      BY <2>1, <3>1 DEF ApplyEvents
    <3>3. offset \in Nat /\ Len(log) \in Nat
      BY DEF TypeOK
    <3>4. row[c] = IF Acks(c, 0, offset) = {} THEN "queued" ELSE LastAck(c, 0, offset)
      BY <3>1 DEF RowsFollowLog, Committed
    <3> QED BY <2>1, <3>2, <3>3, <3>4, LastIsLast
  <2>5. RowsFollowLog'
    BY <2>1, <2>3, <2>4 DEF RowsFollowLog, Committed
  <2>6. Len(log) <= Len(log)
    BY DEF TypeOK
  <2> QED BY <2>1, <2>2, <2>5, <2>6 DEF Open
<1>7. CASE EmitAck
  <2>1. log' = log \/ log' = Append(log, [cmd |-> cur.id, state |-> result])
    BY <1>7 DEF EmitAck
  <2>2. UNCHANGED <<offset, row, tx, execs>>
    BY <1>7 DEF EmitAck, odooVars
  <2>3. CASE log' = Append(log, [cmd |-> cur.id, state |-> result])
    <3>1. Len(log') = Len(log) + 1 /\ offset <= Len(log')
      BY <2>2, <2>3 DEF TypeOK
    <3>2. \A i \in DOMAIN log' : (i \in DOMAIN log /\ log'[i] = log[i]) \/ log'[i].cmd = cur.id
      BY <2>3 DEF TypeOK
    <3>3. execs[cur.id] > 0
      BY <1>7 DEF EmitAck, TypeOK, RanInv
    <3>4. \A c \in Cmd : Acks(c, 0, offset)' = Acks(c, 0, offset)
      BY <2>2, <2>3, ReadStays
    <3>5. RowsFollowLog'
      BY <2>2, <2>3, <3>4, ReadStays DEF RowsFollowLog
    <3> QED BY <2>2, <3>1, <3>2, <3>3, <3>4, <3>5 DEF Open, Committed
  <2> QED BY <1>0, <2>1, <2>2, <2>3
<1>8. ASSUME NEW f \in batch, HandleRun(f) PROVE LogInv' /\ RowsFollowLog'
  BY <1>0, <1>8, <1>b DEF HandleRun, odooVars, TypeOK
<1>9. CASE UNCHANGED <<odooVars, log, execs>>
  BY <1>0, <1>9 DEF odooVars
<1> QED
  BY <1>1, <1>2, <1>3, <1>4, <1>5, <1>6, <1>7, <1>8, <1>9 DEF Next, TxStep, RunnerStep, Scan,
     HandleSeen, FinishCommand, CrashRestart, vars

----
SpoolInv == OneFilePerId /\ OpenInv /\ NumbersInv /\ RanInv /\ OrderInv /\ LogInv /\ RowsFollowLog

LEMMA SpoolInvHolds == ASSUME SpoolAssumption PROVE Spec => []SpoolInv
<1>1. Init => SpoolInv
  <2>1. Init => \A w \in Workers : tx[w] = Idle
    BY DEF Init
  <2>2. Init => OneFilePerId /\ OpenInv /\ RanInv
    BY <2>1, IdleFields DEF Init, OneFilePerId, Files, Submitting, OpenInv, RanInv, Open
  <2>3. Init => NumbersInv /\ OrderInv
    BY <2>1, IdleFields DEF Init, Files, NumbersInv, OrderInv
  <2>4. Init => LogInv /\ RowsFollowLog
    BY <2>1, IdleFields DEF Init, LogInv, RowsFollowLog, Open
  <2> QED BY <2>2, <2>3, <2>4 DEF SpoolInv
<1>2. TypeOK /\ SpoolInv /\ [Next]_vars => SpoolInv'
  BY OneFilePerIdInductive, OpenInvInductive, NumbersInvInductive, RanInvInductive,
     OrderInvInductive, LogInvInductive DEF SpoolInv
<1> QED BY <1>1, <1>2, TypeCorrect, PTL DEF Spec

\* Commands that were committed are run in the order of their commits, for any
\* number of workers, whatever was rolled back, crashed or seen before between.
THEOREM OrderIsKept == ASSUME SpoolAssumption PROVE Spec => []FileOrderIsCommitOrder
<1>1. SpoolInv => FileOrderIsCommitOrder
  BY DEF SpoolInv, NumbersInv, OrderInv, FileOrderIsCommitOrder, Files, Committed
<1> QED BY <1>1, SpoolInvHolds, PTL

\* A row says what the last acknowledgement read says, for any number of workers,
\* though the runner may answer before the row is committed.
THEOREM RowsAreRight == ASSUME SpoolAssumption PROVE Spec => []RowsFollowLog
<1>1. SpoolInv => RowsFollowLog
  BY DEF SpoolInv
<1> QED BY <1>1, SpoolInvHolds, PTL

----
(***************************************************************************)
(* DeltaStream: text that waits to be written always has a timer that will *)
(* write it; the types, with the bound on streams and on lines in flight;  *)
(* and the numbers of a block's snapshots follow its text.                 *)
(***************************************************************************)

(***************************************************************************)
(* The timers.                                                             *)
(***************************************************************************)
\* Only what the argument rests on: the streams, which deltas number, and the
\* counts of loose timers.
StreamState == [block : Nat, text : Nat, cut : BOOLEAN, dirty : BOOLEAN, seq : Nat,
                timer : {"nil", "armed", "fired"}]
Types ==
    /\ stream \in [Key -> StreamState]
    /\ stray \in [Key -> Nat] /\ fired \in [Key -> Nat]
    /\ deltas \in Nat

\* DirtyIsDue is not inductive: append leaves a timer alone that the stream holds
\* although it fired, so the stream may hold one only as long as some tick comes.
HeldIsDue ==
    \A k \in Key : stream[k].timer = "fired" => stray[k] + fired[k] > 0

IInv == Types /\ DirtyIsDue /\ HeldIsDue

\* What the operators on one stream do to the two fields that matter.
LEMMA NoStreamIsClean ==
    NoStream \in StreamState /\ ~NoStream.dirty /\ NoStream.timer = "nil"
  BY DEF NoStream, StreamState

LEMMA NewIsTyped ==
  ASSUME NEW b \in Nat
  PROVE  /\ [NoStream EXCEPT !.block = b] \in StreamState
         /\ [NoStream EXCEPT !.block = b].timer = "nil"
  BY DEF NoStream, StreamState

LEMMA NumberedIsTyped ==
  ASSUME NEW st \in StreamState, NEW m \in Nat
  PROVE  [st EXCEPT !.seq = m, !.dirty = FALSE] \in StreamState
  BY DEF StreamState

LEMMA SnappedIsClean ==
  ASSUME NEW st \in StreamState
  PROVE  Snapped(st) \in StreamState /\ ~Snapped(st).dirty /\ Snapped(st).timer = st.timer
  <1>1. st.seq + 1 \in Nat
    BY DEF StreamState
  <1>2. Snapped(st) \in StreamState
    BY <1>1, NumberedIsTyped DEF Snapped
  <1>3. ~Snapped(st).dirty
    BY DEF Snapped, StreamState
  <1>4. Snapped(st).timer = st.timer
    BY DEF Snapped, StreamState
  <1> QED BY <1>2, <1>3, <1>4

LEMMA LongerHasTimer ==
  ASSUME NEW st \in StreamState, NEW m \in Nat
  PROVE  /\ [st EXCEPT !.text = m, !.cut = TRUE, !.dirty = TRUE] \in StreamState
         /\ [st EXCEPT !.text = m, !.cut = TRUE, !.dirty = TRUE].timer = st.timer
         /\ [st EXCEPT !.text = m, !.dirty = TRUE] \in StreamState
         /\ [st EXCEPT !.text = m, !.dirty = TRUE].timer = st.timer
  BY DEF StreamState

LEMMA TimedHasTimer ==
  ASSUME NEW st \in StreamState, NEW t \in {"nil", "armed", "fired"}
  PROVE  /\ [st EXCEPT !.timer = t] \in StreamState
         /\ [st EXCEPT !.timer = t].timer = t
  BY DEF StreamState

LEMMA GrownKeepsTimer ==
  ASSUME NEW st \in StreamState, NEW n \in Nat
  PROVE  Grown(st, n) \in StreamState /\ Grown(st, n).timer = st.timer
  <1>1. MaxBuf \in Nat /\ st.text \in Nat /\ st.text + 1 \in Nat /\ st.text + n \in Nat
    BY DeltaAssumption DEF StreamState
  <1>2. CASE st.cut
    BY <1>2 DEF Grown
  <1>3. CASE ~st.cut /\ st.text >= MaxBuf
    <2>1. Grown(st, n) = [st EXCEPT !.text = st.text + 1, !.cut = TRUE, !.dirty = TRUE]
      BY <1>3 DEF Grown
    <2>2. /\ [st EXCEPT !.text = st.text + 1, !.cut = TRUE, !.dirty = TRUE] \in StreamState
          /\ [st EXCEPT !.text = st.text + 1, !.cut = TRUE, !.dirty = TRUE].timer = st.timer
      BY <1>1, LongerHasTimer
    <2> QED BY <2>1, <2>2
  <1>4. CASE ~st.cut /\ ~(st.text >= MaxBuf) /\ n > MaxBuf - st.text
    <2>1. Grown(st, n) = [st EXCEPT !.text = MaxBuf, !.cut = TRUE, !.dirty = TRUE]
      BY <1>4 DEF Grown
    <2>2. /\ [st EXCEPT !.text = MaxBuf, !.cut = TRUE, !.dirty = TRUE] \in StreamState
          /\ [st EXCEPT !.text = MaxBuf, !.cut = TRUE, !.dirty = TRUE].timer = st.timer
      BY <1>1, LongerHasTimer
    <2> QED BY <2>1, <2>2
  <1>5. CASE ~st.cut /\ ~(st.text >= MaxBuf) /\ ~(n > MaxBuf - st.text)
    <2>1. Grown(st, n) = [st EXCEPT !.text = st.text + n, !.dirty = TRUE]
      BY <1>5 DEF Grown
    <2>2. /\ [st EXCEPT !.text = st.text + n, !.dirty = TRUE] \in StreamState
          /\ [st EXCEPT !.text = st.text + n, !.dirty = TRUE].timer = st.timer
      BY <1>1, LongerHasTimer
    <2> QED BY <2>1, <2>2
  <1> QED BY <1>2, <1>3, <1>4, <1>5

LEMMA ArmedIsHeld ==
  ASSUME NEW k \in Key, NEW st \in StreamState
  PROVE  /\ Armed(k, st) \in StreamState
         /\ Armed(k, st).timer = "armed" \/ (Armed(k, st).timer = "fired" /\ st.timer = "fired")
  <1>1. CASE st.timer = "nil"
    <2>1. Armed(k, st) = [st EXCEPT !.timer = "armed"]
      BY <1>1 DEF Armed
    <2> QED BY <2>1, TimedHasTimer
  <1>2. CASE st.timer # "nil"
    <2> DEFINE t == st.timer
    <2>1. Armed(k, st) = [st EXCEPT !.timer = t]
      BY <1>2 DEF Armed
    <2>2. t \in {"nil", "armed", "fired"} /\ t # "nil"
      BY <1>2 DEF StreamState
    <2>3. Armed(k, st) \in StreamState /\ Armed(k, st).timer = t
      <3> HIDE DEF t
      <3> QED BY <2>1, <2>2 DEF StreamState
    <2> QED BY <2>2, <2>3
  <1> QED BY <1>1, <1>2

LEMMA InitIInv == DeltaInit => IInv
  BY NoStreamIsClean DEF DeltaInit, IInv, Types, DirtyIsDue, HeldIsDue

\* A step that replaces one stream and leaves the loose timers alone.
LEMMA OneStream ==
  ASSUME IInv, NEW k \in Key, NEW st \in StreamState,
         stream' = [stream EXCEPT ![k] = st], UNCHANGED <<stray, fired>>, deltas' \in Nat,
         \/ st.timer = "armed"
         \/ st.timer = "fired" /\ stream[k].timer = "fired"
         \/ st.timer = "nil" /\ ~st.dirty
  PROVE  IInv'
  BY DEF IInv, Types, DirtyIsDue, HeldIsDue

\* A step that leaves streams and timers alone.
LEMMA NoStreamStep == IInv /\ UNCHANGED streamVars /\ deltas' \in Nat => IInv'
  BY DEF IInv, Types, DirtyIsDue, HeldIsDue, streamVars

\* A step that leaves no stream dirty and lets its timers be.
LEMMA AllClean ==
  ASSUME IInv, UNCHANGED <<stray, fired, deltas>>,
         NEW f \in [Key -> StreamState], stream' = f,
         \A k \in Key : ~f[k].dirty /\ f[k].timer \in {"nil", stream[k].timer}
  PROVE  IInv'
  BY DEF IInv, Types, DirtyIsDue, HeldIsDue

LEMMA ReadTextIsDue == \A k \in Key, n \in 1..2 : IInv /\ ReadText(k, n) => IInv'
  <1> SUFFICES ASSUME NEW k \in Key, NEW n \in 1..2, IInv, ReadText(k, n) PROVE IInv'
    OBVIOUS
  <1> DEFINE old == IF stream[k] = NoStream THEN [NoStream EXCEPT !.block = deltas'] ELSE stream[k]
             st == Grown(old, n)
  <1>0. deltas' \in Nat
    BY DEF ReadText, IInv, Types
  <1>1. CASE stream' = stream
    BY <1>0, <1>1, NoStreamStep DEF ReadText, streamVars
  <1>2. CASE stream' = [stream EXCEPT ![k] = Armed(k, st)]
    <2>1. stream[k] \in StreamState /\ n \in Nat
      BY DEF IInv, Types
    <2>2. old \in StreamState /\ (old.timer = "fired" => stream[k].timer = "fired")
      <3>1. CASE stream[k] = NoStream
        BY <1>0, <3>1, NewIsTyped
      <3> QED BY <2>1, <3>1
    <2>3. st \in StreamState /\ st.timer = old.timer
      BY <2>1, <2>2, GrownKeepsTimer
    <2>4. /\ Armed(k, st) \in StreamState
          /\ Armed(k, st).timer = "armed" \/ (Armed(k, st).timer = "fired" /\ stream[k].timer = "fired")
      BY <2>2, <2>3, ArmedIsHeld
    <2>5. UNCHANGED <<stray, fired>>
      BY DEF ReadText
    <2> QED BY <1>0, <1>2, <2>4, <2>5, OneStream
  <1> QED BY <1>1, <1>2 DEF ReadText

LEMMA TimerKeeps == \A k \in Key : IInv /\ (Fires(k) \/ Tick(k)) => IInv'
  <1> SUFFICES ASSUME NEW k \in Key, IInv, Fires(k) \/ Tick(k) PROVE IInv'
    OBVIOUS
  <1> USE DEF IInv, Types, DirtyIsDue, HeldIsDue
  <1>0. stream[k] \in StreamState /\ stray[k] \in Nat /\ fired[k] \in Nat
    OBVIOUS
  <1>1. CASE Fires(k)
    <2>1. CASE stray' = stray
      <3>1. [stream[k] EXCEPT !.timer = "fired"] \in StreamState
        BY <1>0 DEF StreamState
      <3>2. stream' = [stream EXCEPT ![k].timer = "fired"] \/ stream' = stream
        BY <1>1 DEF Fires
      <3> QED BY <1>0, <1>1, <2>1, <3>1, <3>2 DEF Fires
    <2>2. CASE stream' = stream /\ stray[k] > 0 /\ stray' = [stray EXCEPT ![k] = @ - 1]
      BY <1>0, <1>1, <2>2 DEF Fires
    <2> QED BY <1>1, <2>1, <2>2 DEF Fires
  <1>2. CASE TickFindsNone(k)
    BY <1>0, <1>2, NoStreamIsClean DEF TickFindsNone
  <1>3. CASE TickLapses(k)
    <2>1. [stream[k] EXCEPT !.timer = "nil"] \in StreamState
      BY <1>0 DEF StreamState
    <2>2. deltas' \in Nat /\ stray'[k] \in Nat /\ stray' \in [Key -> Nat] /\ fired' \in [Key -> Nat]
      BY <1>0, <1>3 DEF TickLapses, Replaced
    <2>3. stream'[k] = [stream[k] EXCEPT !.timer = "nil"] /\ stream'[k].timer = "nil" /\ ~stream'[k].dirty
      BY <1>0, <1>3 DEF TickLapses, StreamState
    <2>4. \A j \in Key \ {k} : stream'[j] = stream[j] /\ stray'[j] = stray[j] /\ fired'[j] = fired[j]
      BY <1>0, <1>3 DEF TickLapses, Replaced
    <2>5. stream' \in [Key -> StreamState]
      BY <1>0, <1>3, <2>1 DEF TickLapses
    <2> QED BY <2>2, <2>3, <2>4, <2>5
  <1>4. CASE TickFlushes(k)
    <2> DEFINE st == [Snapped(stream[k]) EXCEPT !.timer = "armed"]
    <2>1. st \in StreamState /\ st.timer = "armed"
      BY <1>0, SnappedIsClean DEF StreamState
    <2>2. deltas' \in Nat /\ stray' \in [Key -> Nat] /\ fired' \in [Key -> Nat]
      BY <1>0, <1>4 DEF TickFlushes, Replaced
    <2>3. stream' = [stream EXCEPT ![k] = st]
      BY <1>4 DEF TickFlushes
    <2>4. \A j \in Key \ {k} : stream'[j] = stream[j] /\ stray'[j] = stray[j] /\ fired'[j] = fired[j]
      BY <1>0, <1>4 DEF TickFlushes, Replaced
    <2> QED BY <2>1, <2>2, <2>3, <2>4
  <1> QED BY <1>1, <1>2, <1>3, <1>4 DEF Tick

LEMMA NextIInv == IInv /\ [DeltaNext]_deltaVars => IInv'
  <1> SUFFICES ASSUME IInv, [DeltaNext]_deltaVars PROVE IInv'
    OBVIOUS
  <1>1. ASSUME NEW k \in Key, CloseStream(k) PROVE IInv'
    BY <1>1, OneStream, NoStreamIsClean DEF CloseStream, IInv, Types
  <1>2. ASSUME NEW t \in Thread, FlushSession(t) PROVE IInv'
    <2> DEFINE f == [k \in Key |-> IF stream[k].dirty THEN Snapped(stream[k]) ELSE stream[k]]
    <2>1. \A k \in Key : f[k] \in StreamState /\ ~f[k].dirty /\ f[k].timer = stream[k].timer
      BY SnappedIsClean DEF IInv, Types
    <2>2. stream' = f /\ UNCHANGED <<stray, fired, deltas>>
      BY <1>2 DEF FlushSession
    <2> QED BY <2>1, <2>2, AllClean
  <1>3. ASSUME NEW t \in Thread, DropSession(t) PROVE IInv'
    <2> DEFINE f == [k \in Key |-> NoStream]
    <2>1. \A k \in Key : f[k] \in StreamState /\ ~f[k].dirty /\ f[k].timer = "nil"
      BY NoStreamIsClean
    <2>2. stream' = f /\ UNCHANGED <<stray, fired, deltas>>
      BY <1>3 DEF DropSession
    <2> QED BY <2>1, <2>2, AllClean
  <1>4. ASSUME NEW t \in Thread, Begins(t) \/ Emit(t) \/ WriteLine(t) PROVE IInv'
    BY <1>4, NoStreamStep DEF Begins, Emit, WriteLine, streamVars, IInv, Types
  <1>5. ASSUME NEW l \in ticking, TickWrites(l) PROVE IInv'
    BY <1>5, NoStreamStep DEF TickWrites, streamVars, IInv, Types
  <1>6. CASE UNCHANGED deltaVars
    BY <1>6, NoStreamStep DEF deltaVars, streamVars, IInv, Types
  <1> QED BY <1>1, <1>2, <1>3, <1>4, <1>5, <1>6, ReadTextIsDue, TimerKeeps DEF DeltaNext, Step

\* For any streams, limits and interleaving of the goroutines and the timers: a
\* stream with unwritten text has an armed timer, or a tick is on its way to it.
THEOREM TextIsDue == DeltaSpec => []DirtyIsDue
  <1>1. IInv => DirtyIsDue
    BY DEF IInv
  <1> QED BY <1>1, InitIInv, NextIInv, PTL DEF DeltaSpec

----
(***************************************************************************)
(* The types and the numbers.                                              *)
(***************************************************************************)
\* A tracked stream; one past the limit is cut.
Fields == [block : Block, text : Nat, cut : BOOLEAN, dirty : BOOLEAN, seq : Nat,
           timer : {"nil", "armed", "fired"}]
Sound(st) == 1 <= st.text /\ st.text <= MaxBuf + 1 /\ (st.text <= MaxBuf \/ st.cut)
Stream == {st \in Fields : Sound(st)}
Streams == [Key -> {NoStream} \cup Stream]

LEMMA NoStreamIsNone ==
    NoStream \notin Stream /\ NoStream.block = 0 /\ ~NoStream.dirty /\ NoStream.timer = "nil"
  BY DEF NoStream, Stream, Fields, Block

\* What the operators make of one stream.
LEMMA LineForIsTyped ==
  ASSUME NEW st \in Stream
  PROVE  /\ LineFor(st) \in Line
         /\ LineFor(st).block = st.block /\ LineFor(st).seq = st.seq + 1 /\ LineFor(st).text = st.text
  BY DEF Stream, Fields, Line, LineFor

LEMMA SnappedIsTyped ==
  ASSUME NEW st \in Stream
  PROVE  /\ Snapped(st) \in Stream
         /\ Snapped(st).block = st.block /\ Snapped(st).text = st.text
         /\ Snapped(st).seq = st.seq + 1 /\ ~Snapped(st).dirty
  <1>1. st \in Fields /\ st.seq + 1 \in Nat /\ Sound(st)
    BY DEF Stream, Fields
  <1>2. Snapped(st) \in Fields
    BY <1>1 DEF Snapped, Fields
  <1>3. /\ Snapped(st).block = st.block /\ Snapped(st).text = st.text
        /\ Snapped(st).seq = st.seq + 1
    BY <1>1 DEF Snapped, Fields
  <1>4. ~Snapped(st).dirty
    BY <1>1 DEF Snapped, Fields
  <1>5. st.cut => Snapped(st).cut
    BY <1>1 DEF Snapped, Fields
  <1> QED BY <1>1, <1>2, <1>3, <1>4, <1>5 DEF Stream, Sound

Timed(st, t) == [st EXCEPT !.timer = t]
LEMMA TimedIsTyped ==
  ASSUME NEW st \in Stream, NEW t \in {"nil", "armed", "fired"}
  PROVE  /\ Timed(st, t) \in Stream
         /\ Timed(st, t).block = st.block /\ Timed(st, t).text = st.text
         /\ Timed(st, t).seq = st.seq /\ (Timed(st, t).dirty <=> st.dirty)
  <1>1. st \in Fields /\ Sound(st)
    BY DEF Stream
  <1>2. Timed(st, t) \in Fields
    BY <1>1 DEF Fields, Timed
  <1>3. Timed(st, t).block = st.block /\ Timed(st, t).text = st.text /\ Timed(st, t).seq = st.seq
    BY <1>1 DEF Fields, Timed
  <1>4. (Timed(st, t).cut <=> st.cut) /\ (Timed(st, t).dirty <=> st.dirty)
    BY <1>1 DEF Fields, Timed
  <1> QED BY <1>1, <1>2, <1>3, <1>4 DEF Stream, Sound

\* st with m units of text, cut or as it was.
CutAt(st, m) == [st EXCEPT !.text = m, !.cut = TRUE, !.dirty = TRUE]
Longer(st, m) == [st EXCEPT !.text = m, !.dirty = TRUE]
LEMMA LongerIsTyped ==
  ASSUME NEW st \in Fields, NEW m \in Nat
  PROVE  /\ CutAt(st, m) \in Fields /\ CutAt(st, m).text = m /\ CutAt(st, m).cut
         /\ CutAt(st, m).block = st.block /\ CutAt(st, m).seq = st.seq
         /\ Longer(st, m) \in Fields /\ Longer(st, m).text = m
         /\ Longer(st, m).block = st.block /\ Longer(st, m).seq = st.seq
  <1>1. CutAt(st, m) \in Fields /\ Longer(st, m) \in Fields
    BY DEF Fields, CutAt, Longer
  <1>2. CutAt(st, m).cut
    BY DEF Fields, CutAt
  <1>3. /\ CutAt(st, m).text = m /\ CutAt(st, m).block = st.block /\ CutAt(st, m).seq = st.seq
        /\ Longer(st, m).text = m /\ Longer(st, m).block = st.block /\ Longer(st, m).seq = st.seq
    BY DEF Fields, CutAt, Longer
  <1> QED BY <1>1, <1>2, <1>3

\* More text: what is not cut yet grows.
Opened(b) == [NoStream EXCEPT !.block = b]
LEMMA GrownIsTyped ==
  ASSUME NEW st, NEW n \in 1..2, NEW b \in Block, st \in Stream \/ st = Opened(b)
  PROVE  /\ Grown(st, n) \in Stream
         /\ Grown(st, n).block = st.block /\ Grown(st, n).seq = st.seq
         /\ Grown(st, n) = st \/ st.text < Grown(st, n).text
  <1>1. /\ st \in Fields /\ (st.cut => st \in Stream)
        /\ st.text <= MaxBuf \/ st.cut
    <2>1. CASE st \in Stream
      BY <2>1 DEF Stream, Sound
    <2>2. CASE st = Opened(b)
      <3>1. st = [block |-> b, text |-> 0, cut |-> FALSE, dirty |-> FALSE, seq |-> 0, timer |-> "nil"]
        BY <2>2 DEF Opened, NoStream
      <3> QED BY <3>1, DeltaAssumption DEF Fields
    <2> QED BY <2>1, <2>2
  <1>2. MaxBuf \in Nat /\ st.text \in Nat /\ n \in Nat /\ n >= 1 /\ st.text + n \in Nat /\ st.text + 1 \in Nat
    BY <1>1, DeltaAssumption DEF Fields
  <1>3. CASE st.cut
    BY <1>1, <1>3 DEF Grown
  <1>4. CASE ~st.cut /\ st.text >= MaxBuf
    <2>1. Grown(st, n) = CutAt(st, st.text + 1)
      BY <1>4 DEF Grown, CutAt, Longer
    <2> DEFINE new == CutAt(st, st.text + 1)
    <2>2. /\ new \in Fields /\ new.text = st.text + 1 /\ new.cut
          /\ new.block = st.block /\ new.seq = st.seq
      BY <1>1, <1>2, LongerIsTyped
    <2>3. st.text + 1 <= MaxBuf + 1 /\ 1 <= st.text + 1 /\ st.text < st.text + 1
      BY <1>1, <1>2, <1>4
    <2> HIDE DEF new
    <2>4. new \in Stream
      BY <2>2, <2>3 DEF Stream, Sound
    <2> QED BY <2>2, <2>3, <2>4, <2>1 DEF new
  <1>5. CASE ~st.cut /\ ~(st.text >= MaxBuf) /\ n > MaxBuf - st.text
    <2>1. Grown(st, n) = CutAt(st, MaxBuf)
      BY <1>5 DEF Grown, CutAt, Longer
    <2> DEFINE new == CutAt(st, MaxBuf)
    <2>2. /\ new \in Fields /\ new.text = MaxBuf /\ new.cut
          /\ new.block = st.block /\ new.seq = st.seq
      BY <1>1, <1>2, LongerIsTyped
    <2>3. 1 <= MaxBuf /\ MaxBuf <= MaxBuf + 1 /\ st.text < MaxBuf
      BY <1>2, <1>5
    <2> HIDE DEF new
    <2>4. new \in Stream
      BY <2>2, <2>3 DEF Stream, Sound
    <2> QED BY <2>2, <2>3, <2>4, <2>1 DEF new
  <1>6. CASE ~st.cut /\ ~(st.text >= MaxBuf) /\ ~(n > MaxBuf - st.text)
    <2>1. Grown(st, n) = Longer(st, st.text + n)
      BY <1>6 DEF Grown, CutAt, Longer
    <2> DEFINE new == Longer(st, st.text + n)
    <2>2. /\ new \in Fields /\ new.text = st.text + n
          /\ new.block = st.block /\ new.seq = st.seq
      BY <1>1, <1>2, LongerIsTyped
    <2>3. 1 <= st.text + n /\ st.text + n <= MaxBuf /\ st.text + n <= MaxBuf + 1 /\ st.text < st.text + n
      BY <1>2, <1>6
    <2> HIDE DEF new
    <2>4. new \in Stream
      BY <2>2, <2>3 DEF Stream, Sound
    <2> QED BY <2>2, <2>3, <2>4, <2>1 DEF new
  <1> QED BY <1>3, <1>4, <1>5, <1>6

LEMMA ArmedIsTyped ==
  ASSUME NEW k \in Key, NEW st \in Stream
  PROVE  /\ Armed(k, st) \in Stream
         /\ Armed(k, st).block = st.block /\ Armed(k, st).text = st.text
         /\ Armed(k, st).seq = st.seq /\ (Armed(k, st).dirty <=> st.dirty)
  <1>1. st.timer \in {"nil", "armed", "fired"}
    BY DEF Stream, Fields
  <1>2. Armed(k, st) = Timed(st, "armed") \/ Armed(k, st) = Timed(st, st.timer)
    BY DEF Armed, Timed
  <1> QED BY <1>1, <1>2, TimedIsTyped

----
\* The types.  The streams tracked are finitely many, since a step tracks at most
\* one more, and only below the limit.
Bounded == IsFiniteSet(Tracked) /\ Cardinality(Tracked) <= MaxStreams
Lines ==
    /\ out \in [Thread -> Seq(Line)] /\ todo \in [Thread -> Seq(Stage)]
    /\ ticking \subseteq Line /\ taken \subseteq Line
    /\ \A t \in Thread : Len(out[t]) <= MaxStreams
Counts ==
    /\ stray \in [Key -> Nat] /\ fired \in [Key -> Nat]
    /\ printed \in [Block -> Nat] /\ wrote \in [Block -> Nat]
    /\ deltas \in 0..MaxText /\ events \in 0..MaxEvents
TInv == stream \in Streams /\ Bounded /\ Lines /\ Counts

\* The streams of a step that tracks no more of them.
Fewer == stream' \in Streams /\ (\A k \in Key : stream[k] = NoStream => stream'[k] = NoStream)
LEMMA FewerAreBounded == TInv /\ Fewer => Bounded'
  <1> SUFFICES ASSUME TInv, Fewer PROVE Bounded'
    OBVIOUS
  <1>1. Tracked' \in SUBSET Tracked
    BY DEF Tracked, Fewer
  <1>2. IsFiniteSet(Tracked) /\ Cardinality(Tracked) <= MaxStreams
    BY DEF TInv, Bounded
  <1>3. IsFiniteSet(Tracked') /\ Cardinality(Tracked') <= Cardinality(Tracked)
    BY <1>1, <1>2, FS_Subset
  <1>4. Cardinality(Tracked) \in Nat /\ Cardinality(Tracked') \in Nat /\ MaxStreams \in Nat
    BY <1>2, <1>3, FS_CardinalityType, DeltaAssumption
  <1>5. Cardinality(Tracked') <= MaxStreams
    BY <1>2, <1>3, <1>4
  <1> QED BY <1>3, <1>5 DEF Bounded

LEMMA SomeRoom ==
  ASSUME TInv, NEW k \in Key, stream[k] \in Stream
  PROVE  k \in Tracked /\ 1 <= MaxStreams
  <1>1. k \in Tracked /\ IsFiniteSet(Tracked) /\ Cardinality(Tracked) <= MaxStreams
    BY NoStreamIsNone DEF TInv, Bounded, Tracked
  <1>2. Cardinality(Tracked) \in Nat /\ Cardinality(Tracked) # 0
    BY <1>1, FS_CardinalityType, FS_EmptySet
  <1> QED BY <1>1, <1>2, DeltaAssumption

\* Only a tracked stream has text to write or a timer.
LEMMA DirtyIsTracked ==
  ASSUME TInv, NEW k \in Key, stream[k].dirty \/ stream[k].timer # "nil" \/ stream[k] # NoStream
  PROVE  stream[k] \in Stream
  BY NoStreamIsNone DEF TInv, Streams

LEMMA InitTInv == DeltaInit => TInv
  <1> SUFFICES ASSUME DeltaInit PROVE TInv
    OBVIOUS
  <1>1. stream \in Streams
    BY DEF DeltaInit, Streams
  <1>2. Tracked = {}
    BY DEF DeltaInit, Tracked
  <1>3. Bounded
    BY <1>2, FS_EmptySet, DeltaAssumption DEF Bounded
  <1>4. Lines
    BY DeltaAssumption DEF DeltaInit, Lines
  <1>5. Counts
    BY DeltaAssumption DEF DeltaInit, Counts, Block
  <1> QED BY <1>1, <1>3, <1>4, <1>5 DEF TInv

\* Text: at most one stream more.
LEMMA ReadTextStreams ==
  ASSUME TInv, NEW k \in Key, NEW n \in 1..2, ReadText(k, n), ~Refused(k)
  PROVE  \E st \in Stream :
            /\ stream' = [stream EXCEPT ![k] = st] /\ printed' = [printed EXCEPT ![st.block] = st.text]
            /\ IF stream[k] = NoStream THEN st.block = deltas' /\ st.seq = 0
               ELSE /\ st.block = stream[k].block /\ st.seq = stream[k].seq
                    /\ \/ st.text > stream[k].text
                       \/ st.text = stream[k].text /\ (st.dirty <=> stream[k].dirty)
  <1> DEFINE old == IF stream[k] = NoStream THEN Opened(deltas') ELSE stream[k]
             new == Grown(old, n)
  <1>1. deltas' \in Block
    BY DeltaAssumption DEF ReadText, TInv, Counts, Block
  <1>2. old \in Stream \/ old = Opened(deltas')
    BY DEF TInv, Streams
  <1>3. /\ new \in Stream /\ new.block = old.block /\ new.seq = old.seq
        /\ new = old \/ old.text < new.text
    BY <1>1, <1>2, GrownIsTyped
  <1>4. stream' = [stream EXCEPT ![k] = Armed(k, new)] /\ printed' = [printed EXCEPT ![new.block] = new.text]
    BY DEF ReadText, Opened
  <1> HIDE DEF new
  <1> DEFINE st == Armed(k, new)
  <1>5. /\ st \in Stream /\ st.block = new.block /\ st.text = new.text
        /\ st.seq = new.seq /\ (st.dirty <=> new.dirty)
    BY <1>3, ArmedIsTyped
  <1> HIDE DEF st
  <1>6. stream' = [stream EXCEPT ![k] = st] /\ printed' = [printed EXCEPT ![st.block] = st.text]
    BY <1>4, <1>5 DEF st
  <1>7. CASE stream[k] = NoStream
    <2>1. old.block = deltas' /\ old.seq = 0
      BY <1>7 DEF Opened, NoStream
    <2> QED BY <1>3, <1>5, <1>6, <1>7, <2>1
  <1>8. CASE stream[k] # NoStream
    <2>1. old = stream[k]
      BY <1>8
    <2>2. \/ st.text > stream[k].text
          \/ st.text = stream[k].text /\ (st.dirty <=> stream[k].dirty)
      <3>1. new.text \in Nat /\ old.text \in Nat
        BY <1>2, <1>3, <1>8, <2>1, NoStreamIsNone DEF Stream, Fields, TInv, Streams
      <3>2. CASE new = old
        BY <1>5, <2>1, <3>2
      <3>3. CASE old.text < new.text
        BY <1>5, <2>1, <3>1, <3>3
      <3> QED BY <1>3, <3>2, <3>3
    <2> QED BY <1>3, <1>5, <1>6, <1>8, <2>1, <2>2
  <1> QED BY <1>7, <1>8

LEMMA ReadTextTyped == \A k \in Key, n \in 1..2 : TInv /\ ReadText(k, n) => TInv'
  <1> SUFFICES ASSUME NEW k \in Key, NEW n \in 1..2, TInv, ReadText(k, n) PROVE TInv'
    OBVIOUS
  <1>1. Lines'
    BY DEF TInv, Lines, ReadText, writerVars
  <1>2. deltas' \in 0..MaxText
    BY DeltaAssumption DEF TInv, Counts, ReadText
  <1>3. CASE Refused(k)
    <2>1. UNCHANGED <<stream, printed>>
      BY <1>3 DEF ReadText
    <2>2. Bounded'
      BY <2>1, FewerAreBounded DEF Fewer, TInv
    <2> QED BY <1>1, <1>2, <2>1, <2>2 DEF TInv, Counts, ReadText
  <1>4. CASE ~Refused(k)
    <2>1. PICK st \in Stream : /\ stream' = [stream EXCEPT ![k] = st]
                               /\ printed' = [printed EXCEPT ![st.block] = st.text]
      BY <1>4, ReadTextStreams
    <2>2. stream' \in Streams
      BY <2>1 DEF TInv, Streams
    <2>3. st.text \in Nat /\ st.block \in Block
      BY DEF Stream, Fields
    <2>4. Counts'
      BY <1>2, <2>1, <2>3 DEF TInv, Counts, ReadText
    <2>5. Bounded'
      <3>1. CASE stream[k] # NoStream
        <4>1. Fewer
          BY <2>1, <2>2, <3>1 DEF Fewer, TInv, Streams
        <4> QED BY <4>1, FewerAreBounded
      <3>2. CASE stream[k] = NoStream
        <4>1. Tracked' = Tracked \cup {k}
          BY <2>1, NoStreamIsNone DEF Tracked, TInv, Streams
        <4>2. k \notin Tracked /\ ~(Cardinality(Tracked) >= MaxStreams)
          BY <1>4, <3>2 DEF Tracked, Refused
        <4>3. IsFiniteSet(Tracked) /\ Cardinality(Tracked) \in Nat
          BY FS_CardinalityType DEF TInv, Bounded
        <4>4. IsFiniteSet(Tracked') /\ Cardinality(Tracked') = Cardinality(Tracked) + 1
          BY <4>1, <4>2, <4>3, FS_AddElement
        <4> QED BY <4>2, <4>3, <4>4, DeltaAssumption DEF Bounded
      <3> QED BY <3>1, <3>2
    <2> QED BY <1>1, <2>2, <2>4, <2>5 DEF TInv
  <1> QED BY <1>3, <1>4

\* The lines of the streams in S, as a goroutine takes them in some order.
LEMMA TakesTyped ==
  ASSUME TInv, NEW t \in Thread, NEW S \in SUBSET Tracked, \A k \in S : stream[k].dirty,
         Takes(t, S), todo[t] # <<>>, ticking' = ticking
  PROVE  Lines'
  <1>1. \A k \in S : LineFor(stream[k]) \in Line
    BY DirtyIsTracked, LineForIsTyped DEF Tracked
  <1>2. /\ IsFiniteSet(S) /\ Cardinality(S) \in Nat /\ Cardinality(S) <= MaxStreams
    <2>1. IsFiniteSet(Tracked) /\ Cardinality(Tracked) <= MaxStreams
      BY DEF TInv, Bounded
    <2>2. IsFiniteSet(S) /\ Cardinality(S) <= Cardinality(Tracked)
      BY <2>1, FS_Subset
    <2>3. Cardinality(S) \in Nat /\ Cardinality(Tracked) \in Nat
      BY <2>1, <2>2, FS_CardinalityType
    <2> QED BY <2>1, <2>2, <2>3, DeltaAssumption
  <1>3. taken' \subseteq Line
    BY <1>1 DEF Takes, TInv, Lines
  <1>4. PICK order \in Orders(S) :
            out' = [out EXCEPT ![t] = [n \in DOMAIN order |-> LineFor(stream[order[n]])]]
    BY DEF Takes
  <1> DEFINE lines == [n \in DOMAIN order |-> LineFor(stream[order[n]])]
  <1>5. order \in [1..Cardinality(S) -> S]
    BY DEF Orders
  <1>6. lines \in [1..Cardinality(S) -> Line]
    BY <1>1, <1>5
  <1>7. lines \in Seq(Line) /\ Len(lines) = Cardinality(S)
    BY <1>2, <1>6
  <1> HIDE DEF lines
  <1>8. out' \in [Thread -> Seq(Line)] /\ \A u \in Thread : Len(out'[u]) <= MaxStreams
    BY <1>2, <1>4, <1>7 DEF TInv, Lines, lines
  <1>9. todo' \in [Thread -> Seq(Stage)]
    BY DEF Takes, TInv, Lines
  <1> QED BY <1>3, <1>8, <1>9 DEF TInv, Lines

LEMMA CloseTyped == \A k \in Key : TInv /\ CloseStream(k) => TInv'
  <1> SUFFICES ASSUME NEW k \in Key, TInv, CloseStream(k) PROVE TInv'
    OBVIOUS
  <1>1. stream[k] \in Stream
    BY DirtyIsTracked DEF CloseStream, Tracked
  <1>2. 1 <= MaxStreams /\ LineFor(stream[k]) \in Line
    BY <1>1, SomeRoom, LineForIsTyped
  <1>3. Fewer
    BY DEF CloseStream, Fewer, TInv, Streams
  <1>4. Lines'
    <2>1. CASE stream[k].dirty
      <3>1. out' = [out EXCEPT !["reader"] = <<LineFor(stream[k])>>] /\ taken' = taken \cup {LineFor(stream[k])}
        BY <2>1 DEF CloseStream
      <3>2. <<LineFor(stream[k])>> \in Seq(Line) /\ Len(<<LineFor(stream[k])>>) = 1
        BY <1>2
      <3>3. out' \in [Thread -> Seq(Line)] /\ \A t \in Thread : Len(out'[t]) <= MaxStreams
        BY <1>2, <3>1, <3>2 DEF TInv, Lines
      <3> QED BY <1>2, <3>1, <3>3 DEF TInv, Lines, CloseStream
    <2>2. CASE ~stream[k].dirty
      BY <2>2 DEF CloseStream, TInv, Lines
    <2> QED BY <2>1, <2>2
  <1>5. Counts'
    BY DEF CloseStream, TInv, Counts
  <1> QED BY <1>3, <1>4, <1>5, FewerAreBounded DEF TInv, Fewer

LEMMA FlushTyped == \A t \in Thread : TInv /\ (FlushSession(t) \/ DropSession(t)) => TInv'
  <1> SUFFICES ASSUME NEW t \in Thread, TInv, FlushSession(t) \/ DropSession(t) PROVE TInv'
    OBVIOUS
  <1> DEFINE S == Dirty(Tracked)
  <1>1. S \in SUBSET Tracked /\ \A k \in S : stream[k].dirty
    BY DEF Dirty
  <1>2. Takes(t, S) /\ todo[t] # <<>> /\ ticking' = ticking
    BY DEF FlushSession, DropSession, At
  <1>3. Lines'
    BY <1>1, <1>2, TakesTyped
  <1>4. Counts'
    BY DEF FlushSession, DropSession, TInv, Counts
  <1>5. Fewer
    <2>1. CASE FlushSession(t)
      <3>1. \A k \in Key : stream[k].dirty => Snapped(stream[k]) \in Stream
        BY DirtyIsTracked, SnappedIsTyped
      <3> QED BY <2>1, <3>1, NoStreamIsNone DEF FlushSession, Fewer, TInv, Streams
    <2>2. CASE DropSession(t)
      BY <2>2 DEF DropSession, Fewer, Streams
    <2> QED BY <2>1, <2>2
  <1> QED BY <1>3, <1>4, <1>5, FewerAreBounded DEF TInv, Fewer

LEMMA TimersTyped == \A k \in Key : TInv /\ (Fires(k) \/ Tick(k)) => TInv'
  <1> SUFFICES ASSUME NEW k \in Key, TInv, Fires(k) \/ Tick(k) PROVE TInv'
    OBVIOUS
  <1>0. stray[k] \in Nat /\ fired[k] \in Nat
    BY DEF TInv, Counts
  <1>1. Counts'
    <2>1. stray' \in [Key -> Nat]
      BY <1>0 DEF TInv, Counts, Fires, Tick, TickFindsNone, TickLapses, TickFlushes, Replaced
    <2>2. fired' \in [Key -> Nat]
      BY <1>0 DEF TInv, Counts, Fires, Tick, TickFindsNone, TickLapses, TickFlushes
    <2>3. UNCHANGED <<printed, wrote, deltas, events>>
      BY DEF Fires, Tick, TickFindsNone, TickLapses, TickFlushes
    <2> QED BY <2>1, <2>2, <2>3 DEF TInv, Counts
  <1>2. CASE stream' = stream /\ UNCHANGED <<writerVars, taken>>
    <2>1. Fewer
      BY <1>2 DEF Fewer, TInv
    <2> QED BY <1>1, <1>2, <2>1, FewerAreBounded DEF TInv, Fewer, Lines, writerVars
  <1>3. ASSUME NEW st \in Stream, stream' = [stream EXCEPT ![k] = st], stream[k] \in Stream
        PROVE  Fewer
    BY <1>3, NoStreamIsNone DEF Fewer, TInv, Streams
  <1>4. CASE Fires(k) /\ stream' # stream
    <2>1. stream[k] \in Stream
      BY <1>4, DirtyIsTracked DEF Fires
    <2>2. stream' = [stream EXCEPT ![k] = Timed(stream[k], "fired")]
      BY <1>4 DEF Fires, Timed
    <2>3. Fewer
      BY <1>3, <2>1, <2>2, TimedIsTyped
    <2>4. UNCHANGED <<writerVars, taken>>
      BY <1>4 DEF Fires
    <2> QED BY <1>1, <2>3, <2>4, FewerAreBounded DEF TInv, Fewer, Lines, writerVars
  <1>5. CASE TickLapses(k)
    <2>1. stream[k] \in Stream
      BY <1>5, DirtyIsTracked DEF TickLapses
    <2>2. stream' = [stream EXCEPT ![k] = Timed(stream[k], "nil")]
      BY <1>5 DEF TickLapses, Timed
    <2>3. Fewer
      BY <1>3, <2>1, <2>2, TimedIsTyped
    <2>4. UNCHANGED <<writerVars, taken>>
      BY <1>5 DEF TickLapses
    <2> QED BY <1>1, <2>3, <2>4, FewerAreBounded DEF TInv, Fewer, Lines, writerVars
  <1>6. CASE TickFlushes(k)
    <2>1. stream[k] \in Stream
      BY <1>6, DirtyIsTracked DEF TickFlushes
    <2>2. stream' = [stream EXCEPT ![k] = Timed(Snapped(stream[k]), "armed")]
      BY <1>6 DEF TickFlushes, Timed
    <2>3. Fewer
      BY <1>3, <2>1, <2>2, TimedIsTyped, SnappedIsTyped
    <2>4. LineFor(stream[k]) \in Line
      BY <2>1, LineForIsTyped
    <2>5. Lines'
      BY <1>6, <2>4 DEF TickFlushes, TInv, Lines
    <2> QED BY <1>1, <2>3, <2>5, FewerAreBounded DEF TInv, Fewer
  <1> QED BY <1>2, <1>4, <1>5, <1>6 DEF Fires, Tick, TickFindsNone

LEMMA NextTInv == TInv /\ [DeltaNext]_deltaVars => TInv'
  <1> SUFFICES ASSUME TInv, [DeltaNext]_deltaVars PROVE TInv'
    OBVIOUS
  <1>1. ASSUME UNCHANGED streamVars, UNCHANGED deltas, Lines', Counts' PROVE TInv'
    <2>1. Fewer
      BY <1>1 DEF streamVars, Fewer, TInv
    <2> QED BY <1>1, <2>1, FewerAreBounded DEF TInv, Fewer
  <1>2. ASSUME NEW t \in Thread, Begins(t) PROVE TInv'
    <2>1. events' \in 0..MaxEvents
      BY <1>2, DeltaAssumption DEF Begins, TInv, Counts
    <2>2. \A p \in Programs(t) : p \in Seq(Stage)
      <3>1. /\ <<"flush", "emit">> \in Seq(Stage) /\ <<"drop", "emit">> \in Seq(Stage)
            /\ <<"flush", "emit", "drop", "flush", "emit">> \in Seq(Stage)
        BY DEF Stage
      <3>2. CASE t = "reader"
        BY <3>1, <3>2 DEF Programs
      <3>3. CASE t = "loop"
        BY <3>1, <3>3 DEF Programs
      <3>4. CASE t = "waiter"
        BY <3>1, <3>4 DEF Programs
      <3> QED BY <3>2, <3>3, <3>4 DEF Thread
    <2>3. Lines'
      BY <1>2, <2>2 DEF Begins, TInv, Lines
    <2>4. Counts'
      BY <1>2, <2>1 DEF Begins, TInv, Counts, streamVars
    <2> QED BY <1>1, <1>2, <2>3, <2>4 DEF Begins
  <1>3. ASSUME NEW t \in Thread, Emit(t) PROVE TInv'
    <2>1. todo[t] # <<>> /\ todo[t] \in Seq(Stage)
      BY <1>3 DEF Emit, At, TInv, Lines
    <2>2. Lines'
      BY <1>3, <2>1 DEF Emit, TInv, Lines
    <2>3. Counts'
      BY <1>3 DEF Emit, TInv, Counts, streamVars
    <2> QED BY <1>1, <1>3, <2>2, <2>3 DEF Emit
  <1>4. ASSUME NEW l \in Line, Written(l) PROVE wrote' \in [Block -> Nat]
    BY <1>4 DEF Written, TInv, Counts, Line
  <1>5. ASSUME NEW t \in Thread, WriteLine(t) PROVE TInv'
    <2>1. out[t] \in Seq(Line) /\ out[t] # <<>> /\ Len(out[t]) <= MaxStreams
      BY <1>5 DEF WriteLine, TInv, Lines
    <2>2. Head(out[t]) \in Line /\ Tail(out[t]) \in Seq(Line) /\ Len(Tail(out[t])) <= MaxStreams
      BY <2>1, DeltaAssumption
    <2>3. Lines'
      BY <1>5, <2>2 DEF WriteLine, TInv, Lines
    <2>4. Counts'
      BY <1>4, <1>5, <2>2 DEF WriteLine, TInv, Counts, streamVars
    <2> QED BY <1>1, <1>5, <2>3, <2>4 DEF WriteLine
  <1>6. ASSUME NEW l \in ticking, TickWrites(l) PROVE TInv'
    <2>1. l \in Line
      BY DEF TInv, Lines
    <2>2. Lines'
      BY <1>6 DEF TickWrites, TInv, Lines
    <2>3. Counts'
      BY <1>4, <1>6, <2>1 DEF TickWrites, TInv, Counts, streamVars
    <2> QED BY <1>1, <1>6, <2>2, <2>3 DEF TickWrites
  <1>7. CASE UNCHANGED deltaVars
    BY <1>1, <1>7 DEF deltaVars, streamVars, writerVars, TInv, Lines, Counts
  <1> QED
    BY <1>2, <1>3, <1>5, <1>6, <1>7, CloseTyped, ReadTextTyped, FlushTyped, TimersTyped DEF DeltaNext, Step

LEMMA TInvIsTyped == TInv => DeltaTypeOK
  <1>1. ASSUME NEW st \in Stream
        PROVE  st \in [block : Block, text : 1..(MaxBuf + 1), cut : BOOLEAN, dirty : BOOLEAN,
                       seq : Nat, timer : {"nil", "armed", "fired"}]
    BY DeltaAssumption DEF Stream, Fields, Sound
  <1> QED BY <1>1 DEF TInv, Streams, Bounded, Lines, Counts, DeltaTypeOK

\* For any streams, limits and interleaving, the variables of the coalescer keep
\* their types: it never tracks more streams than its limit, a goroutine never
\* holds more lines than that, and a buffer never outgrows its own limit by more
\* than the note that it was cut.
THEOREM DeltaTypeCorrect == DeltaSpec => []DeltaTypeOK
  BY InitTInv, NextTInv, TInvIsTyped, PTL DEF DeltaSpec

----
(***************************************************************************)
(* The numbers.  A stream is ahead of every snapshot of its block, by its  *)
(* number and, when it has something to write, by its text; and no block   *)
(* is in two streams, so that nobody else numbers its snapshots.           *)
(***************************************************************************)
Ahead(st, l) ==
    l.block = st.block => l.seq <= st.seq /\ l.text <= st.text /\ (st.dirty => l.text < st.text)
AllAhead == \A k \in Key, l \in taken : stream[k] # NoStream => Ahead(stream[k], l)
OwnBlock ==
    \A j, k \in Key : stream[j] # NoStream /\ stream[k] # NoStream /\ stream[j].block = stream[k].block => j = k
OldBlocks ==
    /\ \A k \in Key : stream[k] # NoStream => stream[k].block <= deltas
    /\ \A l \in taken : l.block <= deltas
SInv == TInv /\ AllAhead /\ OwnBlock /\ OldBlocks /\ SeqFollowsText

LEMMA InitSInv == DeltaInit => SInv
  <1> SUFFICES ASSUME DeltaInit PROVE SInv
    OBVIOUS
  <1>1. taken = {} /\ \A k \in Key : stream[k] = NoStream
    BY DEF DeltaInit
  <1> QED BY <1>1, InitTInv DEF SInv, AllAhead, OwnBlock, OldBlocks, SeqFollowsText

\* A step that takes the lines of the streams in S: every stream is gone, or it
\* is as it was except for its number and its mark.
Same(k, S) ==
    /\ stream[k] \in Stream /\ stream'[k] \in Stream
    /\ stream'[k].block = stream[k].block /\ stream'[k].text = stream[k].text
    /\ IF k \in S THEN stream'[k].seq = stream[k].seq + 1 /\ ~stream'[k].dirty
       ELSE stream'[k].seq = stream[k].seq /\ (stream'[k].dirty <=> stream[k].dirty)
LEMMA TakingKeeps ==
  ASSUME SInv, TInv', deltas' = deltas,
         NEW S \in SUBSET Key, \A k \in S : stream[k].dirty,
         taken' = taken \cup {LineFor(stream[k]) : k \in S},
         \A k \in Key : stream'[k] = NoStream \/ Same(k, S)
  PROVE  SInv'
  <1>0. \A k \in Key : stream'[k] # NoStream => Same(k, S) /\ stream[k] # NoStream
    BY NoStreamIsNone DEF Same
  <1>1. \A k \in S : /\ stream[k] \in Stream /\ LineFor(stream[k]) \in Line
                     /\ LineFor(stream[k]).block = stream[k].block
                     /\ LineFor(stream[k]).seq = stream[k].seq + 1
                     /\ LineFor(stream[k]).text = stream[k].text
    BY DirtyIsTracked, LineForIsTyped DEF SInv
  <1>2. \A k \in Key : stream[k] \in Stream =>
            stream[k].seq \in Nat /\ stream[k].text \in Nat /\ stream[k].block \in Nat
    BY DEF Stream, Fields, Block
  <1>3. \A l \in taken : l.seq \in Nat /\ l.text \in Nat /\ l.block \in Nat
    BY DEF SInv, TInv, Lines, Line, Block
  <1>4. \A k \in S : stream[k] # NoStream
    BY <1>1, NoStreamIsNone
  \* A new line is after all of its block.
  <1>5. \A k \in S, l \in taken : l.block = stream[k].block => l.seq < stream[k].seq + 1 /\ l.text < stream[k].text
    <2> SUFFICES ASSUME NEW k \in S, NEW l \in taken, l.block = stream[k].block
                 PROVE  l.seq < stream[k].seq + 1 /\ l.text < stream[k].text
      OBVIOUS
    <2>1. Ahead(stream[k], l)
      BY <1>4 DEF SInv, AllAhead
    <2> QED BY <1>1, <1>2, <1>3, <2>1 DEF Ahead
  <1>6. \A j, k \in S : stream[j].block = stream[k].block => j = k
    BY <1>4 DEF SInv, OwnBlock
  <1>7. SeqFollowsText'
    <2> SUFFICES ASSUME NEW l \in taken', NEW m \in taken', l.block = m.block, l # m
                 PROVE  l.seq # m.seq /\ (l.seq < m.seq => l.text < m.text)
      BY DEF SeqFollowsText
    <2>1. CASE l \in taken /\ m \in taken
      BY <2>1 DEF SInv, SeqFollowsText
    <2>2. CASE l \in taken /\ m \notin taken
      <3>1. PICK k \in S : m = LineFor(stream[k])
        BY <2>2
      <3> QED BY <1>1, <1>2, <1>3, <1>5, <2>2, <3>1
    <2>3. CASE l \notin taken /\ m \in taken
      <3>1. PICK k \in S : l = LineFor(stream[k])
        BY <2>3
      <3> QED BY <1>1, <1>2, <1>3, <1>5, <2>3, <3>1
    <2>4. CASE l \notin taken /\ m \notin taken
      <3>1. PICK j \in S : l = LineFor(stream[j])
        BY <2>4
      <3>2. PICK k \in S : m = LineFor(stream[k])
        BY <2>4
      <3> QED BY <1>1, <1>6, <3>1, <3>2
    <2> QED BY <2>1, <2>2, <2>3, <2>4
  <1>8. AllAhead'
    <2> SUFFICES ASSUME NEW k \in Key, NEW l \in taken', stream'[k] # NoStream, l.block = stream'[k].block
                 PROVE  /\ l.seq <= stream'[k].seq /\ l.text <= stream'[k].text
                        /\ stream'[k].dirty => l.text < stream'[k].text
      BY DEF AllAhead, Ahead
    <2>1. Same(k, S) /\ stream[k] # NoStream
      BY <1>0
    <2>2. CASE l \in taken
      <3>1. Ahead(stream[k], l) /\ l.block = stream[k].block
        BY <2>1, <2>2 DEF SInv, AllAhead, Same
      <3>2. CASE k \in S
        BY <1>2, <1>3, <2>1, <2>2, <3>1, <3>2 DEF Ahead, Same
      <3>3. CASE k \notin S
        BY <1>2, <1>3, <2>1, <2>2, <3>1, <3>3 DEF Ahead, Same
      <3> QED BY <3>2, <3>3
    <2>3. CASE l \notin taken
      <3>1. PICK j \in S : l = LineFor(stream[j])
        BY <2>3
      <3>2. j = k
        BY <1>1, <1>4, <2>1, <3>1 DEF SInv, OwnBlock, Same
      <3> QED BY <1>1, <1>2, <2>1, <3>1, <3>2 DEF Same
    <2> QED BY <2>2, <2>3
  <1>9. OwnBlock'
    BY <1>0 DEF SInv, OwnBlock, Same
  <1>10. OldBlocks'
    BY <1>0, <1>1, <1>4 DEF SInv, OldBlocks, Same
  <1> QED BY <1>7, <1>8, <1>9, <1>10 DEF SInv

LEMMA ReadTextKeeps == \A k \in Key, n \in 1..2 : SInv /\ ReadText(k, n) => SInv'
  <1> SUFFICES ASSUME NEW k \in Key, NEW n \in 1..2, SInv, ReadText(k, n) PROVE SInv'
    OBVIOUS
  <1>1. TInv'
    BY ReadTextTyped DEF SInv
  <1>2. taken' = taken /\ deltas' = deltas + 1 /\ deltas \in Nat
    BY DEF ReadText, SInv, TInv, Counts
  <1>3. \A l \in taken : l.seq \in Nat /\ l.text \in Nat /\ l.block \in Nat
    BY DEF SInv, TInv, Lines, Line, Block
  <1>4. \A j \in Key : stream[j] # NoStream =>
            stream[j].seq \in Nat /\ stream[j].text \in Nat /\ stream[j].block \in Nat
    BY DirtyIsTracked DEF SInv, Stream, Fields, Block
  <1>5. SeqFollowsText'
    BY <1>2 DEF SInv, SeqFollowsText
  <1>6. \A l \in taken' : l.block <= deltas'
    BY <1>2, <1>3 DEF SInv, OldBlocks
  <1>7. CASE Refused(k)
    <2>1. stream' = stream
      BY <1>7 DEF ReadText
    <2>2. AllAhead' /\ OwnBlock'
      BY <1>2, <2>1 DEF SInv, AllAhead, OwnBlock
    <2>3. OldBlocks'
      BY <1>2, <1>4, <1>6, <2>1 DEF SInv, OldBlocks
    <2> QED BY <1>1, <1>5, <2>2, <2>3 DEF SInv
  <1>8. CASE ~Refused(k)
    <2>1. PICK st \in Stream :
            /\ stream' = [stream EXCEPT ![k] = st]
            /\ IF stream[k] = NoStream THEN st.block = deltas' /\ st.seq = 0
               ELSE /\ st.block = stream[k].block /\ st.seq = stream[k].seq
                    /\ \/ st.text > stream[k].text
                       \/ st.text = stream[k].text /\ (st.dirty <=> stream[k].dirty)
      BY <1>8, ReadTextStreams DEF SInv
    <2>2. stream'[k] = st /\ \A j \in Key \ {k} : stream'[j] = stream[j]
      BY <2>1 DEF SInv, TInv, Streams
    <2>3. st.text \in Nat /\ st.block \in Nat
      BY DEF Stream, Fields, Block
    <2>4. ASSUME NEW l \in taken PROVE Ahead(st, l)
      <3>1. CASE stream[k] = NoStream
        <4>1. l.block <= deltas /\ st.block = deltas + 1
          BY <1>2, <2>1, <3>1 DEF SInv, OldBlocks
        <4>2. l.block # st.block
          BY <1>2, <1>3, <4>1
        <4> QED BY <4>2 DEF Ahead
      <3>2. CASE stream[k] # NoStream
        <4>1. Ahead(stream[k], l)
          BY <3>2 DEF SInv, AllAhead
        <4>2. st.block = stream[k].block /\ st.seq = stream[k].seq
          BY <2>1, <3>2
        <4>3. CASE st.text > stream[k].text
          BY <1>3, <1>4, <2>3, <3>2, <4>1, <4>2, <4>3 DEF Ahead
        <4>4. CASE st.text = stream[k].text /\ (st.dirty <=> stream[k].dirty)
          BY <4>1, <4>2, <4>4 DEF Ahead
        <4> QED BY <2>1, <3>2, <4>3, <4>4
      <3> QED BY <3>1, <3>2
    <2>5. AllAhead'
      BY <1>2, <2>2, <2>4 DEF SInv, AllAhead, Ahead
    <2>6. \A j \in Key \ {k} : stream[j] # NoStream => stream[j].block # st.block
      <3>1. CASE stream[k] = NoStream
        <4>1. \A j \in Key : stream[j] # NoStream => stream[j].block <= deltas
          BY DEF SInv, OldBlocks
        <4> QED BY <1>2, <1>4, <2>1, <3>1, <4>1
      <3>2. CASE stream[k] # NoStream
        BY <2>1, <3>2 DEF SInv, OwnBlock
      <3> QED BY <3>1, <3>2
    <2>7. OwnBlock'
      BY <2>2, <2>6 DEF SInv, OwnBlock
    <2>8. st.block <= deltas'
      <3>1. CASE stream[k] = NoStream
        BY <1>2, <2>1, <3>1
      <3>2. CASE stream[k] # NoStream
        BY <1>2, <1>4, <2>1, <3>2 DEF SInv, OldBlocks
      <3> QED BY <3>1, <3>2
    <2>9. OldBlocks'
      BY <1>2, <1>4, <1>6, <2>2, <2>8 DEF SInv, OldBlocks
    <2> QED BY <1>1, <1>5, <2>5, <2>7, <2>9 DEF SInv
  <1> QED BY <1>7, <1>8

\* A step that takes no line and leaves the streams alone but for their timers.
LEMMA NothingTaken ==
  ASSUME SInv, TInv', UNCHANGED <<deltas, taken>>,
         \A k \in Key : stream'[k] = stream[k] \/ stream'[k] = NoStream \/ Same(k, {})
  PROVE  SInv'
  <1>1. \A k \in Key : stream[k] # NoStream => stream[k] \in Stream
    BY DirtyIsTracked DEF SInv
  <1>2. \A k \in Key : stream'[k] = NoStream \/ Same(k, {})
    BY <1>1 DEF Same
  <1>3. taken' = taken \cup {LineFor(stream[k]) : k \in {}}
    OBVIOUS
  <1> QED BY <1>2, <1>3, TakingKeeps

LEMMA NextSInv == SInv /\ [DeltaNext]_deltaVars => SInv'
  <1> SUFFICES ASSUME SInv, [DeltaNext]_deltaVars PROVE SInv'
    OBVIOUS
  <1>0. TInv /\ TInv'
    BY NextTInv DEF SInv
  <1>1. ASSUME NEW k \in Key, CloseStream(k) PROVE SInv'
    <2>1. stream'[k] = NoStream /\ \A j \in Key \ {k} : stream'[j] = stream[j]
      BY <1>0, <1>1 DEF CloseStream, TInv, Streams
    <2>2. CASE stream[k].dirty
      <3>1. taken' = taken \cup {LineFor(stream[j]) : j \in {k}}
        BY <1>1, <2>2 DEF CloseStream
      <3>2. \A j \in Key : stream'[j] = NoStream \/ Same(j, {k})
        BY <1>0, <2>1, DirtyIsTracked DEF Same
      <3>3. deltas' = deltas
        BY <1>1 DEF CloseStream
      <3> QED BY <1>0, <2>2, <3>1, <3>2, <3>3, TakingKeeps
    <2>3. CASE ~stream[k].dirty
      <3>1. UNCHANGED <<deltas, taken>>
        BY <1>1, <2>3 DEF CloseStream
      <3> QED BY <1>0, <2>1, <3>1, NothingTaken
    <2> QED BY <2>2, <2>3
  <1>2. ASSUME NEW t \in Thread, FlushSession(t) PROVE SInv'
    <2> DEFINE S == Dirty(Tracked)
    <2>1. taken' = taken \cup {LineFor(stream[k]) : k \in S} /\ deltas' = deltas
      BY <1>2 DEF FlushSession, Takes
    <2>2. \A k \in Key : k \in S <=> stream[k].dirty
      BY <1>0, NoStreamIsNone DEF Dirty, Tracked
    <2>3. \A k \in Key : stream'[k] = NoStream \/ Same(k, S)
      <3> SUFFICES ASSUME NEW k \in Key PROVE stream'[k] = NoStream \/ Same(k, S)
        OBVIOUS
      <3>1. stream'[k] = IF stream[k].dirty THEN Snapped(stream[k]) ELSE stream[k]
        BY <1>2 DEF FlushSession
      <3>2. CASE stream[k].dirty
        BY <1>0, <2>2, <3>1, <3>2, DirtyIsTracked, SnappedIsTyped DEF Same
      <3>3. CASE ~stream[k].dirty
        BY <1>0, <2>2, <3>1, <3>3, DirtyIsTracked DEF Same
      <3> QED BY <3>2, <3>3
    <2>4. S \subseteq Key
      BY DEF Dirty, Tracked
    <2> QED BY <1>0, <2>1, <2>2, <2>3, <2>4, TakingKeeps
  <1>3. ASSUME NEW t \in Thread, DropSession(t) PROVE SInv'
    <2> DEFINE S == Dirty(Tracked)
    <2>1. taken' = taken \cup {LineFor(stream[k]) : k \in S} /\ deltas' = deltas
      BY <1>3 DEF DropSession, Takes
    <2>2. \A k \in Key : stream'[k] = NoStream
      BY <1>3 DEF DropSession
    <2>3. S \subseteq Key /\ \A k \in S : stream[k].dirty
      BY DEF Dirty, Tracked
    <2> QED BY <1>0, <2>1, <2>2, <2>3, TakingKeeps
  <1>4. ASSUME NEW k \in Key, Fires(k) \/ TickLapses(k) PROVE SInv'
    <2>1. UNCHANGED <<deltas, taken>>
      BY <1>4 DEF Fires, TickLapses
    <2>2. CASE stream' = stream
      BY <1>0, <2>1, <2>2, NothingTaken
    <2>3. CASE stream' # stream
      <3>1. stream[k] \in Stream
        BY <1>0, <1>4, <2>3, DirtyIsTracked DEF Fires, TickLapses
      <3>2. PICK t \in {"fired", "nil"} : stream' = [stream EXCEPT ![k] = Timed(stream[k], t)]
        BY <1>4, <2>3 DEF Fires, TickLapses, Timed
      <3>3. stream'[k] = Timed(stream[k], t) /\ \A j \in Key \ {k} : stream'[j] = stream[j]
        BY <1>0, <3>2 DEF TInv, Streams
      <3>4. Same(k, {})
        BY <3>1, <3>3, TimedIsTyped DEF Same
      <3> QED BY <1>0, <2>1, <3>3, <3>4, NothingTaken
    <2> QED BY <2>2, <2>3
  <1>5. ASSUME NEW k \in Key, TickFlushes(k) PROVE SInv'
    <2>1. taken' = taken \cup {LineFor(stream[j]) : j \in {k}} /\ deltas' = deltas /\ stream[k].dirty
      BY <1>5 DEF TickFlushes
    <2>2. stream' = [stream EXCEPT ![k] = Timed(Snapped(stream[k]), "armed")]
      BY <1>5 DEF TickFlushes, Timed
    <2>3. /\ stream'[k] = Timed(Snapped(stream[k]), "armed")
          /\ \A j \in Key \ {k} : stream'[j] = stream[j]
      BY <1>0, <2>2 DEF TInv, Streams
    <2>4. stream[k] \in Stream
      BY <1>0, <2>1, DirtyIsTracked
    <2>5. Same(k, {k})
      <3>1. /\ Snapped(stream[k]) \in Stream /\ Snapped(stream[k]).block = stream[k].block
            /\ Snapped(stream[k]).text = stream[k].text
            /\ Snapped(stream[k]).seq = stream[k].seq + 1 /\ ~Snapped(stream[k]).dirty
        BY <2>4, SnappedIsTyped
      <3> DEFINE st == Timed(Snapped(stream[k]), "armed")
      <3>2. /\ st \in Stream /\ st.block = Snapped(stream[k]).block /\ st.text = Snapped(stream[k]).text
            /\ st.seq = Snapped(stream[k]).seq /\ (st.dirty <=> Snapped(stream[k]).dirty)
        BY <3>1, TimedIsTyped
      <3> HIDE DEF st
      <3>3. stream'[k] = st
        BY <2>3 DEF st
      <3> QED BY <2>4, <3>1, <3>2, <3>3 DEF Same
    <2>6. \A j \in Key : stream'[j] = NoStream \/ Same(j, {k})
      BY <1>0, <2>3, <2>5, DirtyIsTracked DEF Same
    <2> QED BY <1>0, <2>1, <2>6, TakingKeeps
  <1>6. CASE UNCHANGED <<stream, deltas, taken>>
    BY <1>0, <1>6, NothingTaken
  <1>7. ASSUME NEW t \in Thread, Begins(t) \/ Emit(t) \/ WriteLine(t) PROVE SInv'
    BY <1>6, <1>7 DEF Begins, Emit, WriteLine, streamVars
  <1>8. ASSUME NEW k \in Key, TickFindsNone(k) PROVE SInv'
    BY <1>6, <1>8 DEF TickFindsNone
  <1>9. ASSUME NEW l \in ticking, TickWrites(l) PROVE SInv'
    BY <1>6, <1>9 DEF TickWrites, streamVars
  <1>10. CASE UNCHANGED deltaVars
    BY <1>6, <1>10 DEF deltaVars, streamVars
  <1> QED
    BY <1>1, <1>2, <1>3, <1>4, <1>5, <1>7, <1>8, <1>9, <1>10, ReadTextKeeps DEF DeltaNext, Step, Tick

\* For any streams, limits and interleaving of readers, flushes and timers: two
\* snapshots of a block have different numbers, and the later one has more text.
THEOREM NumbersFollowText == DeltaSpec => []SeqFollowsText
  <1>1. SInv => SeqFollowsText
    BY DEF SInv
  <1> QED BY <1>1, InitSInv, NextSInv, PTL DEF DeltaSpec
====
