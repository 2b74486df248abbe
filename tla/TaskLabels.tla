----------------------------- MODULE TaskLabels -----------------------------
(* How a session's turns get their Type label in the Odoo client, and how the
   labelled turns add up into tasks (task.py, task_classifier.py,
   turn_feedback.py).

   The label jobs run one at a time in the job queue: the job that labels a
   live session's turns, the job that asks Luna about them, and the label pass
   of the cron.  Each reads a snapshot of the turns, asks the engines for
   minutes with no transaction open, and writes on a fresh one.  A person may
   label a turn, or ask for it to be classified again, at any moment in
   between: those run in web requests, beside the queue.

   One session, its turns numbered in the order they started.  A turn is
   `absent` until its prompt is read, then `running`, then `ended`.  `billed`
   says whether its billed rows are in the transcript, `stored` whether they
   are in the database, `own` whether the last rollup counted them (own_calls).
   Engine answers, and which stage a prompt's wording decides, are
   nondeterministic or constants; confidence, review flags, tags, steers and
   costs other than the existence of a billed call are left out. *)
EXTENDS Naturals, FiniteSets, FiniteSetsExt

CONSTANTS
    MaxTurn,     \* turns of the session
    Backlog,     \* turns that had ended before the labels were installed, their spend read
    Slow,        \* turns that may run for longer than SETTLE
    PersonTypes, \* Types a person sets
    Says,        \* the Types the engines may give each turn, among Picks
    GoOn,        \* turns whose prompt only says to go on (a rule's follow-up)
    AsksOnly,    \* turns whose Feedback only asks to explain or report
    MaxActs      \* bound: labels a person sets, Classify again requests, jobs that raised,
                 \* and passes an engine was not ready for or gave no answer in

ASSUME LabelAssumption ==
    /\ MaxTurn \in Nat \ {0}
    /\ \E n \in 0..MaxTurn : Backlog = 1..n
    /\ Slow \subseteq 1..MaxTurn
    /\ PersonTypes \subseteq {"task", "follow_up", "ask", "no_work"}
    /\ Says \in [1..MaxTurn -> SUBSET {"task", "follow_up"}]
    /\ GoOn \subseteq 1..MaxTurn
    /\ AsksOnly \subseteq 1..MaxTurn
    /\ MaxActs \in Nat

VARIABLES
    phase, settled,            \* where each turn is; running for longer than SETTLE
    billed, stored, unread,    \* its billed rows; its lines past the spend cursor
    own, lab, open, jev, task, \* the turn's row
    luna, job,                 \* the turns of each queued Luna job; the job that runs
    again,                     \* the Classify again request
    acts,                      \* what the bound counts
    forced, stale, unmarked    \* history: turns a forced pass labelled; a job raised
                               \* since the last rollup; turns whose label the label
                               \* job committed, and not their mark

world == <<phase, settled, billed>>
row == <<own, lab, open, jev, task>>
vars == <<phase, settled, billed, stored, unread, own, lab, open, jev, task,
          luna, job, again, acts, forced, stale, unmarked>>

Turn == 1..MaxTurn
Intents == {"task", "follow_up", "ask", "no_work"}
Continues == {"follow_up", "ask"}
Sources == {"none", "rule", "jev", "llm", "human"}
\* What Jev may say of a prompt, and what a turn keeps of it.
Picks == {"task", "follow_up"}
Label == [source : Sources, intent : Intents \cup {"none"},
          parent : 0..MaxTurn, titled : BOOLEAN]
Unlabelled == [source |-> "none", intent |-> "none", parent |-> 0, titled |-> FALSE]

\* What a pass reads before it asks: the rules' label, Jev's kept answer, the Type,
\* and whether Luna is asked too.
Snapshot == [rule : [Turn -> {"none", "no_work", "follow_up"}],
             jev : [Turn -> {"none", "unsure"} \cup Picks],
             intent : [Turn -> Intents \cup {"none"}], llm : BOOLEAN]
Steps == {"idle", "first", "ask", "answer", "mark", "rollup", "catch_up", "check"}
NoSnap == [llm |-> FALSE, rule |-> [t \in Turn |-> "none"], jev |-> [t \in Turn |-> "none"],
           intent |-> [t \in Turn |-> "none"]]
\* A worker: the step it is at, the turns it labels, those it only titles, and
\* the snapshot the engines were asked with.
Idle == [pc |-> "idle", kind |-> "none", turns |-> {}, titles |-> {}, snap |-> NoSnap]

TypeOK ==
    /\ phase \in [Turn -> {"absent", "running", "ended"}]
    /\ settled \subseteq Turn
    /\ {billed, stored, unread, own, open} \subseteq [Turn -> BOOLEAN]
    /\ lab \in [Turn -> Label] /\ \A t \in Turn : lab[t].parent # t
    /\ jev \in [Turn -> {"none", "unsure"} \cup Picks]
    /\ task \in [Turn -> 0..MaxTurn]
    /\ luna \subseteq SUBSET Turn
    /\ \A w \in {job, again} : /\ w.pc \in Steps
                               /\ w.turns \cup w.titles \subseteq Turn
                               /\ w.snap \in Snapshot
    /\ acts \in 0..MaxActs
    /\ forced \subseteq Turn /\ stale \in BOOLEAN /\ unmarked \subseteq Turn

Init ==
    /\ phase = [t \in Turn |-> IF t \in Backlog THEN "ended" ELSE "absent"]
    /\ settled = {}
    /\ billed = [t \in Turn |-> t \in Backlog] /\ stored = billed
    /\ unread = [t \in Turn |-> FALSE] /\ own = unread /\ open = unread
    /\ lab = [t \in Turn |-> Unlabelled]
    /\ jev = [t \in Turn |-> "none"]
    /\ task = [t \in Turn |-> 0]
    /\ luna = {} /\ job = Idle /\ again = Idle
    /\ acts = 0 /\ forced = {} /\ stale = FALSE /\ unmarked = {}

-----------------------------------------------------------------------------
(* The rollup *)

Started(p) == {t \in Turn : p[t] # "absent"}

Kind(intent) == CASE intent = "task" -> "task"
                  [] intent \in Continues -> "subtask"
                  [] intent = "no_work" -> "no_work"
                  [] OTHER -> "none"

\* One move up from turn t on the way from `start`: a turn with no work hands
\* on to the turn before it, a subtask to its parent.
Up(l, start, t) ==
    IF Kind(l[t].intent) = "no_work" /\ t # start THEN t - 1
    ELSE IF Kind(l[t].intent) = "subtask" /\ l[t].parent # 0 THEN l[t].parent ELSE t

\* The task a turn counts under: where the climb stops, or the turn itself when
\* it runs out of turns or in a circle.
Root(l, start) ==
    LET climb[k \in 0..MaxTurn] ==
            IF k = 0 THEN start
            ELSE LET t == climb[k - 1] IN IF t = 0 THEN 0 ELSE Up(l, start, t)
        top == climb[MaxTurn]
    IN  IF top # 0 /\ Up(l, start, top) = top THEN top ELSE start

\* Ties the stored rows to their turns and the turns to their tasks.
Rollup(l, rows) ==
    /\ own' = rows
    /\ task' = [t \in Turn |-> IF t \in Started(phase) THEN Root(l, t) ELSE 0]
    /\ stale' = FALSE

\* Spend read to the end of the file.
ReadSpend == stored' = billed /\ unread' = [t \in Turn |-> FALSE]

-----------------------------------------------------------------------------
(* The classifier *)

\* The session's latest task before t, else the turn before it (0 for none).
MutDefaultParent(t, intent) ==
    LET tasks == {u \in 1..t : intent[u] = "task"}
    IN  IF tasks # {} THEN Max(tasks) ELSE t - 1
DefaultParent(t, intent) ==
    LET tasks == {u \in 1..(t - 1) : intent[u] = "task"}
    IN  IF tasks # {} THEN Max(tasks) ELSE t - 1

\* A rule's label, or none: an ended (or settled) turn with no billed call is no
\* work; a prompt that says to go on follows the turn before it.
RuleIntent(t) ==
    IF ~own[t] /\ (phase[t] = "ended" \/ t \in settled) THEN "no_work"
    ELSE IF t > 1 /\ t \in GoOn THEN "follow_up" ELSE "none"

\* What one turn gets from a pass: a label (source none: no label), Jev's
\* answer, and whether every engine asked gave one.
Got(source, intent, parent, titled, said, ok) ==
    [lab |-> [source |-> source, intent |-> intent, parent |-> parent, titled |-> titled],
     jev |-> said, ok |-> ok]

\* Luna's answers for t given Jev's: no answer leaves Jev's label; one that
\* agrees with a sure Jev adds its title and parent; any other is Luna's.
LunaGives(t, said) ==
    LET held == IF said \in Picks THEN Got("jev", said, 0, FALSE, said, FALSE)
                                  ELSE Got("none", "none", 0, FALSE, said, FALSE)
        by(i) == IF said = i THEN "jev" ELSE "llm"
        tasks == {Got(by("task"), "task", 0, TRUE, said, TRUE)}
        follows == {Got(by("follow_up"), "follow_up", p, FALSE, said, TRUE) : p \in 0..(t - 1)}
    IN  {held} \cup {g \in tasks \cup follows : g.lab.intent \in Says[t]}

\* What follows an answer of Jev, just given or kept: Luna is asked about an
\* unsure one, a task's title, and a follow-up with no turn before it.
AfterJev(t, said, llm) ==
    IF said \in Picks /\ ~(llm /\ (said = "task" \/ t = 1))
    THEN {Got("jev", said, 0, FALSE, said, TRUE)}
    ELSE IF llm THEN LunaGives(t, said)
                ELSE {Got("none", "none", 0, FALSE, said, TRUE)}

\* Everything the pass may decide for one turn: the rules, then Jev's kept
\* answer, then Jev.  A turn Jev gave no answer for is not sent to Luna.
Gives(s, t) ==
    IF s.rule[t] # "none" THEN {Got("rule", s.rule[t], 0, FALSE, "none", TRUE)}
    ELSE IF s.jev[t] # "none" THEN AfterJev(t, s.jev[t], s.llm)
    ELSE {Got("none", "none", 0, FALSE, "none", FALSE)}
         \cup UNION {AfterJev(t, said, s.llm) : said \in Says[t] \cup {"unsure"}}

\* Each continuing label with no parent gets the session's latest task, by its
\* new label when it has one and the snapshot's otherwise.
WithParents(s, got) ==
    LET labelled(t) == t \in DOMAIN got /\ got[t].lab.source # "none"
        intent == [t \in Turn |-> IF labelled(t) THEN got[t].lab.intent ELSE s.intent[t]]
    IN  [t \in DOMAIN got |->
            IF labelled(t) /\ got[t].lab.intent \in Continues /\ got[t].lab.parent = 0
            THEN [got[t] EXCEPT !.lab.parent = DefaultParent(t, intent)] ELSE got[t]]

\* One decision for each of a worker's turns.
Answers(w) == [w.turns -> UNION {Gives(w.snap, t) : t \in w.turns}]
Given(w, got) == \A t \in w.turns : got[t] \in Gives(w.snap, t)

\* The label a turn ends with: a person's is kept unless the pass is forced, and
\* an engine's follow-up whose Feedback only asks becomes a question.
Retyped(l, t) == IF /\ l.source \in {"rule", "jev", "llm"} /\ l.intent = "follow_up"
                    /\ t \in AsksOnly
                 THEN [l EXCEPT !.intent = "ask"] ELSE l
MutApplied(t, got, force) == Retyped(IF got.lab.source # "none" THEN got.lab ELSE lab[t], t)
Applied(t, got, force) ==
    Retyped(IF got.lab.source # "none" /\ (lab[t].source # "human" \/ force)
            THEN got.lab ELSE lab[t], t)

\* Writes the labels and Jev's unused answers; `titled` holds the answer for each
\* turn that is only titled.
ApplyLabels(got, titled, force) ==
    /\ lab' = [t \in Turn |->
                  IF t \in DOMAIN got THEN Applied(t, got[t], force)
                  ELSE IF t \in DOMAIN titled THEN [lab[t] EXCEPT !.titled = titled[t]]
                  ELSE lab[t]]
    /\ jev' = [t \in Turn |->
                  IF t \notin DOMAIN got THEN jev[t]
                  ELSE IF got[t].lab.source # "none"
                       THEN IF lab[t].source = "human" /\ ~force THEN jev[t] ELSE got[t].jev
                  ELSE IF got[t].jev # "none" THEN got[t].jev ELSE jev[t]]

\* The snapshot; Jev is not asked again about a turn it answered for, while the
\* turn waits for Luna, unless the pass is forced.
Snap(turns, force, llm) ==
    [llm |-> llm,
     rule |-> [t \in Turn |-> IF t \in turns THEN RuleIntent(t) ELSE "none"],
     jev |-> [t \in Turn |-> IF t \in turns /\ ~force /\ lab[t].source \in {"none", "jev"}
                             THEN jev[t] ELSE "none"],
     intent |-> [t \in Turn |-> lab[t].intent]]

\* Luna is ready, or (counted by the bound) is not.
LunaReady == IF acts < MaxActs THEN BOOLEAN ELSE {TRUE}
Down(llm) == IF llm THEN 0 ELSE 1

-----------------------------------------------------------------------------
(* The session *)

\* The next prompt is read.
Starts(t) ==
    /\ phase[t] = "absent" /\ \A u \in 1..(t - 1) : phase[u] = "ended"
    /\ phase' = [phase EXCEPT ![t] = "running"]
    /\ unread' = [unread EXCEPT ![t] = TRUE]
    /\ UNCHANGED <<settled, billed, stored, row, luna, job, again, acts,
                   forced, stale, unmarked>>

\* The agent's billed lines are written.
Bills(t) ==
    /\ phase[t] = "running" /\ ~billed[t]
    /\ billed' = [billed EXCEPT ![t] = TRUE]
    /\ unread' = [unread EXCEPT ![t] = TRUE]
    /\ UNCHANGED <<phase, settled, stored, row, luna, job, again, acts,
                   forced, stale, unmarked>>

\* The turn's end is read.
Ends(t) ==
    /\ phase[t] = "running"
    /\ phase' = [phase EXCEPT ![t] = "ended"]
    /\ unread' = [unread EXCEPT ![t] = TRUE]
    /\ UNCHANGED <<settled, billed, stored, row, luna, job, again, acts,
                   forced, stale, unmarked>>

\* A running turn is older than SETTLE.
Settles(t) ==
    /\ phase[t] = "running" /\ t \in Slow \ settled
    /\ settled' = settled \cup {t}
    /\ UNCHANGED <<phase, billed, stored, unread, row, luna, job, again, acts,
                   forced, stale, unmarked>>

-----------------------------------------------------------------------------
(* The queue.  Jobs run one at a time.  The label job and the pass are queued at
   any time the follow tick or the cron comes by, at most once each, and find
   their turns when they run, so being queued and being started are one step. *)

\* A turn the label job takes: no label, no Jev answer, not tried while running.
IsNew(t) == phase[t] # "absent" /\ lab[t].source = "none" /\ jev[t] = "none" /\ ~open[t]
ToCheck == {t \in Turn : open[t] /\ phase[t] = "ended"}

\* The spend scan, a job of the same queue.
SpendScan ==
    /\ job.pc = "idle" /\ ReadSpend
    /\ UNCHANGED <<world, row, luna, job, again, acts, forced, stale, unmarked>>

At(pc, kind, turns, titles, snap) ==
    [pc |-> pc, kind |-> kind, turns |-> turns, titles |-> titles, snap |-> snap]

\* The follow tick queues the label job when there is a turn to label or to check,
\* and the job runner starts it.  It finds its new turns; an ended one needs its
\* spend read first, else the snapshot for the engines is taken at once.
StartLabel ==
    /\ job.pc = "idle"
    /\ LET new == {t \in Turn : IsNew(t)}
       IN  /\ new \cup ToCheck # {}
           /\ job' = IF new = {} THEN At("catch_up", "label", {}, {}, NoSnap)
                     ELSE IF \E t \in new : phase[t] = "ended" THEN At("first", "label", new, {}, NoSnap)
                     ELSE At("answer", "label", new, {}, Snap(new, FALSE, FALSE))
    /\ UNCHANGED <<world, stored, unread, row, luna, again, acts, forced, stale, unmarked>>

\* The cron queues the label pass and the job runner starts it.  It rolls up and
\* commits before it looks for turns.
StartPass ==
    /\ job.pc = "idle"
    /\ Rollup(lab, stored)
    /\ job' = At("ask", "pass", {}, {}, NoSnap)
    /\ UNCHANGED <<world, stored, unread, lab, open, jev, luna, again, acts, forced, unmarked>>

\* Luna's job takes the turns still without a label, or with Jev's, and ends at
\* once when there is none.
StartLuna ==
    /\ job.pc = "idle"
    /\ \E j \in luna :
        /\ luna' = luna \ {j}
        /\ LET todo == {t \in j : lab[t].source \in {"none", "jev"}}
           IN  \E llm \in LunaReady :
                /\ job' = IF todo = {} THEN Idle
                          ELSE At("answer", "luna", todo, {}, Snap(todo, FALSE, llm))
                /\ acts' = acts + Down(llm)
    /\ UNCHANGED <<world, stored, unread, row, again, forced, stale, unmarked>>

\* Read spend and roll up: before the labels for turns that ended ("first"),
\* and after them.
CatchUp ==
    /\ job.pc \in {"first", "catch_up"}
    /\ ReadSpend /\ Rollup(lab, billed)
    /\ job' = [job EXCEPT !.pc = IF job.pc = "first" THEN "ask" ELSE "check"]
    /\ UNCHANGED <<world, lab, open, jev, luna, again, acts, forced, unmarked>>

\* After that read, the label job takes the snapshot it asks the engines with.
AskFirst ==
    /\ job.pc = "ask" /\ job.kind = "label"
    /\ job' = [job EXCEPT !.pc = "answer", !.snap = Snap(job.turns, FALSE, FALSE)]
    /\ UNCHANGED <<world, stored, unread, row, luna, again, acts, forced, stale, unmarked>>

\* A turn the pass may label: ended with its own lines read, or the whole file read.
MutLinesRead(t) == phase[t] = "ended" /\ ~unread[t] /\ ~open[t]
LinesRead(t) == (phase[t] = "ended" /\ ~unread[t]) \/ \A u \in Turn : ~unread[u]

\* The label pass takes every settled turn without a label, and the tasks
\* without a title (those only when Luna is ready).
PassAsk ==
    /\ job.pc = "ask" /\ job.kind = "pass"
    /\ \E llm \in LunaReady :
        LET todo == {t \in Turn : /\ lab[t].source = "none"
                                  /\ phase[t] = "ended" \/ t \in settled
                                  /\ LinesRead(t)}
            untitled == {t \in Turn : lab[t].intent = "task" /\ ~lab[t].titled
                                        /\ lab[t].source # "none"}
        IN  /\ job' = IF todo \cup untitled = {} THEN Idle
                      ELSE At("answer", "pass", todo, IF llm THEN untitled \ todo ELSE {},
                              Snap(todo, FALSE, llm))
            /\ acts' = acts + Down(llm)
    /\ UNCHANGED <<world, stored, unread, row, luna, again, forced, stale, unmarked>>

\* What an answer costs of the bound: one when an engine asked gave none.
Spends(got) == IF \A t \in DOMAIN got : got[t].ok THEN 0 ELSE 1

\* The engines have answered: the labels are written on a fresh transaction.
\* The label job asks the rules and Jev only; the others roll up next.
JobAnswer ==
    /\ job.pc = "answer"
    /\ job' = IF job.kind = "label" THEN [job EXCEPT !.pc = "mark", !.snap = NoSnap]
              ELSE At("rollup", job.kind, {}, {}, NoSnap)
    /\ \E got \in Answers(job), titled \in [job.titles -> BOOLEAN] :
        /\ Given(job, got) /\ acts + Spends(got) <= MaxActs
        /\ acts' = acts + Spends(got)
        /\ ApplyLabels(WithParents(job.snap, got), titled, FALSE)
    /\ unmarked' = unmarked \cup {t \in job.turns : job.kind = "label" /\ lab'[t].source # "none"}
    /\ UNCHANGED <<world, stored, unread, own, open, task, luna, again, forced, stale>>

\* The turns the label job marks as labelled while running: those it could not
\* label too, so that they are checked when they end.
MutMarked == {t \in job.turns : lab[t].source # "none"}
Marked == job.turns

\* The mark is a transaction of its own: a job that raises before it leaves turns
\* that are labelled, new no more, and not to be checked.
JobMarks ==
    /\ job.pc = "mark"
    /\ open' = [t \in Turn |-> open[t] \/ t \in Marked]
    /\ unmarked' = unmarked \ job.turns
    /\ job' = [job EXCEPT !.pc = "catch_up"]
    /\ UNCHANGED <<world, stored, unread, own, lab, jev, task, luna, again, acts, forced,
                   stale>>

\* A job raised: what it committed stays, the rest is not done.
JobFails ==
    /\ job.pc # "idle" /\ acts < MaxActs
    /\ job' = Idle /\ acts' = acts + 1 /\ stale' = TRUE
    /\ UNCHANGED <<world, stored, unread, row, luna, again, forced, unmarked>>

JobRollup ==
    /\ job.pc = "rollup"
    /\ Rollup(lab, stored)
    /\ job' = Idle
    /\ UNCHANGED <<world, stored, unread, lab, open, jev, luna, again, acts,
                   forced, unmarked>>

\* Why Luna is asked about a turn the label job labelled.
NeedsLuna(l) ==
    \/ l.source = "none"
    \/ l.source = "jev" /\ l.intent = "task"
    \/ l.source = "jev" /\ l.intent \in Continues /\ l.parent = 0

\* The turns the check relabelled move to other tasks.
MutRollupMoved(moved, l) == UNCHANGED <<own, task, stale>>
RollupMoved(moved, l) ==
    IF moved # {} THEN Rollup(l, stored) ELSE UNCHANGED <<own, task, stale>>

\* The last step of the label job: an ended turn it labelled while running that
\* made no billed call is no work, and Luna is queued for the others.
CheckEnded ==
    /\ job.pc = "check"
    /\ LET empty == {t \in ToCheck : ~own[t] /\ lab[t].source # "human"}
           next == [t \in Turn |->
                       IF t \in empty THEN [Unlabelled EXCEPT !.source = "rule", !.intent = "no_work"]
                       ELSE lab[t]]
           ask == {t \in job.turns : NeedsLuna(next[t])}
       IN  /\ lab' = next
           /\ jev' = [t \in Turn |-> IF t \in empty THEN "none" ELSE jev[t]]
           /\ RollupMoved(empty, next)
           /\ luna' = luna \cup (IF ask = {} THEN {} ELSE {ask})
    /\ open' = [t \in Turn |-> open[t] /\ t \notin ToCheck]
    /\ job' = Idle
    /\ UNCHANGED <<world, stored, unread, again, acts, forced, unmarked>>

-----------------------------------------------------------------------------
(* A person *)

\* A person sets a turn's Type: the label is theirs, a continuing one keeps its
\* parent or gets the default, and the rollup runs in the same transaction.
PersonLabels(t, intent) ==
    /\ phase[t] # "absent" /\ acts < MaxActs /\ acts' = acts + 1
    /\ LET parent == IF intent \notin Continues THEN 0
                     ELSE IF lab[t].parent # 0 THEN lab[t].parent
                     ELSE DefaultParent(t, [u \in Turn |-> lab[u].intent])
           next == [lab EXCEPT ![t] = [@ EXCEPT !.source = "human", !.intent = intent,
                                                !.parent = parent]]
       IN  lab' = next /\ Rollup(next, stored)
    /\ UNCHANGED <<world, stored, unread, open, jev, luna, job, again, forced, unmarked>>

\* A person sets the task a turn continues.
PersonMoves(t, parent) ==
    /\ {phase[t], phase[parent]} \subseteq {"running", "ended"}
    /\ t # parent /\ acts < MaxActs /\ acts' = acts + 1
    /\ LET next == [lab EXCEPT ![t] = [@ EXCEPT !.source = "human", !.parent = parent]]
       IN  lab' = next /\ Rollup(next, stored)
    /\ UNCHANGED <<world, stored, unread, open, jev, luna, job, again, forced, unmarked>>

\* Classify again: spend is read and rolled up, and the engines are asked.
StartAgain(t) ==
    /\ again.pc = "idle" /\ phase[t] # "absent"
    /\ acts < MaxActs /\ acts' = acts + 1
    /\ ReadSpend /\ Rollup(lab, billed)
    /\ again' = At("ask", "again", {t}, {}, NoSnap)
    /\ UNCHANGED <<world, lab, open, jev, luna, job, forced, unmarked>>

AskAgain ==
    /\ again.pc = "ask"
    /\ \E llm \in LunaReady :
        /\ again' = [again EXCEPT !.pc = "answer", !.snap = Snap(again.turns, TRUE, llm)]
        /\ acts' = acts + Down(llm)
    /\ UNCHANGED <<world, stored, unread, row, luna, job, forced, stale, unmarked>>

\* The answers replace a person's label too.
AgainAnswer ==
    /\ again.pc = "answer"
    /\ \E got \in Answers(again), none \in [{} -> BOOLEAN] :
        /\ Given(again, got) /\ acts + Spends(got) <= MaxActs
        /\ acts' = acts + Spends(got)
        /\ ApplyLabels(WithParents(again.snap, got), none, TRUE)
    /\ forced' = forced \cup again.turns
    /\ again' = [again EXCEPT !.pc = "rollup", !.snap = NoSnap]
    /\ UNCHANGED <<world, stored, unread, own, open, task, luna, job, stale, unmarked>>

\* The rollup; a turn not ended by now is checked when it ends.
AgainEnds ==
    /\ again.pc = "rollup"
    /\ Rollup(lab, stored)
    /\ open' = [t \in Turn |-> open[t] \/ (t \in again.turns /\ phase[t] # "ended")]
    /\ again' = Idle
    /\ UNCHANGED <<world, stored, unread, lab, jev, luna, job, acts, forced, unmarked>>

-----------------------------------------------------------------------------
Next ==
    \/ \E t \in Turn : Starts(t) \/ Bills(t) \/ Ends(t) \/ Settles(t)
    \/ SpendScan \/ StartLabel \/ StartPass \/ StartLuna
    \/ CatchUp \/ AskFirst \/ PassAsk
    \/ JobAnswer \/ JobMarks \/ JobFails \/ JobRollup \/ CheckEnded
    \/ \E t \in Turn, i \in PersonTypes : PersonLabels(t, i)
    \/ \E t, p \in Turn : PersonMoves(t, p)
    \/ \E t \in Turn : StartAgain(t)
    \/ AskAgain \/ AgainAnswer \/ AgainEnds

Spec == Init /\ [][Next]_vars

\* Fairness, stated on what a step does to the queue.  The cron queues the pass
\* and the runner starts it; a spend scan that waits is run before passes queued
\* after it; a started job goes on to its next step.
PassStarts == job.pc = "idle" /\ job' = At("ask", "pass", {}, {}, NoSnap)
SpendIsRead == job.pc = "idle" /\ unread' = [t \in Turn |-> FALSE]
JobGoesOn == job.pc # "idle" /\ (job' = Idle \/ job'.pc # job.pc)
FairSpec == Spec /\ WF_job(PassStarts) /\ WF_job(JobGoesOn) /\ SF_unread(SpendIsRead)

-----------------------------------------------------------------------------
(* Properties *)

Decided(l) == <<l.source, l.intent, l.parent>>

\* A label a person set, also one set while the engines were being asked, is
\* changed by a person or by Classify again of that turn, never by a label job,
\* by the Feedback that retypes an engine's follow-up, or by the check of ended
\* turns.
PersonKeepsLabel ==
    [][\A t \in Turn : (lab[t].source = "human" /\ Decided(lab'[t]) # Decided(lab[t])) =>
            \/ acts' # acts /\ <<job, again>>' = <<job, again>>
            \/ (t \in again.turns /\ again.pc = "answer" /\ again'.pc = "rollup")]_vars

\* Between jobs and requests every labelled turn counts under the task its label
\* leads to, and that task counts under itself and is not a turn without work,
\* whatever circles the labels form: the tasks' totals are those of their turns.
\* Every path that writes a label rolls up before it is done, the check of ended
\* turns included (unless a job raised on the way).
TasksFollowLabels ==
    job.pc = "idle" /\ again.pc = "idle" /\ ~stale =>
        \A t \in Turn : lab[t].source # "none" =>
            /\ task[t] = Root(lab, t)
            /\ lab[task[t]].source # "none" => task[task[t]] = task[t]
            /\ task[t] # t => Kind(lab[task[t]].intent) # "no_work"

\* A turn labelled while it ran that ended without a billed call does not stay a
\* task or a follow-up: it is no work, or the label job still has to check it.  Two
\* kinds of turn escape: one Classify again labelled, and one whose label job was
\* stopped in the moment between its label and its mark, which no retry comes back
\* to.
EmptyIsNoWork ==
    \A t \in Turn \ (forced \cup unmarked) :
        /\ phase[t] = "ended" /\ ~billed[t] /\ ~open[t]
        /\ lab[t].source \in {"rule", "jev", "llm"}
        => lab[t].intent = "no_work"

\* Every turn that ended gets a label: by the label job, or by the pass once its
\* lines are read, however often an engine gave no answer before.
EndedIsLabelled == \A t \in Turn : phase[t] = "ended" ~> lab[t].source # "none"
=============================================================================
