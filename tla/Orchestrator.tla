---- MODULE Orchestrator ----
(***************************************************************************)
(* The relay: one runner session that sends messages to other sessions.    *)
(* A person types and confirms a message on the page, or a watch rule      *)
(* writes a notice; Flightdoo queues it, tests that the process asks       *)
(* before it sends, hands the request over as a turn, and answers the      *)
(* permission request of each SendMessage call by comparing it with the    *)
(* requests it handed over.                                                *)
(*                                                                         *)
(* The page and the cron work in database transactions of their own, on    *)
(* snapshots, and both write command files that no rollback takes back.    *)
(* The process is a language model: it may call at any time and with any   *)
(* text, whatever it was told.                                             *)
(*                                                                         *)
(* Left out: the questions of the page and replies, which decide nothing   *)
(* here; calls of other tools, which are denied and change nothing; the    *)
(* rotation of a relay whose context grew; tools, names and texts beyond   *)
(* equal or not.                                                           *)
(***************************************************************************)
EXTENDS Naturals, Sequences

CONSTANTS
    Text,           \* what can be sent
    Notices,        \* the texts a watch rule writes, one per observation
    Probe,          \* the call of the gate test, to a name nobody has
    NoText,
    Buttons,        \* those of the page in use: start, stop, poll ("Read events")
    MaxReq,         \* bound: request rows, the rolled back ones included
    MaxCalls,       \* bound: SendMessage calls
    MaxQueue,       \* bound: commands not handled when more are written
    MaxEvents,      \* bound: events not read
    MaxWork         \* bound: clicks, notices, calls of a text nobody asked for,
                    \* transactions that end in an exception, and processes that
                    \* end, all together

ASSUME OrchestratorAssumption ==
    /\ Notices \subseteq Text /\ Probe \notin Text /\ NoText \notin Text \cup {Probe}
    /\ Buttons \subseteq {"start", "stop", "poll"}
    /\ {MaxReq, MaxCalls, MaxQueue, MaxEvents, MaxWork} \subseteq Nat

Req == 1..MaxReq
Call == 1..MaxCalls
Worker == {"page", "cron"}

VARIABLES
    \* The database as committed, and each worker's open transaction.
    db, tx,
    \* What the page is asked to do until its transaction commits.
    want,
    \* The spool: commands the runner has not handled, and events that no
    \* committed poll has read.
    cmds, events,
    \* The runner: whether a process is up, whether it was given a test turn
    \* and has not made the test call, and the other calls, parked or settled.
    live, told, call,
    \* Request ids handed out (a sequence: a rollback does not return one).
    ids,
    \* History: the texts a person confirmed or a rule wrote, and what counts for
    \* the bound.
    asked, work

dbVars == <<db, tx, want, ids>>
spoolVars == <<cmds, events>>
runnerVars == <<live, told, call>>
histVars == <<asked, work>>
vars == <<dbVars, spoolVars, runnerVars, histVars>>

NoReq == [text |-> NoText, state |-> "none"]
Open == {"queued", "forwarded"}
Settled == {"sent", "denied", "failed"}

\* The rows: the relay's session, the requests, and the unique keys of the ledger.
\* The runner's row (the next number, the offset) and those of its commands show
\* in the spool: what is there was not read, or has a row that is not closed.
Database ==
    [orch : [gate : {"unchecked", "testing", "ok", "broken"}, runtime : {"stopped", "up"}, test : BOOLEAN],
     req : [Req -> [text : Text \cup {NoText}, state : {"none"} \cup Open \cup Settled]],
     observed : SUBSET Notices]

EmptyDb ==
    [orch |-> [gate |-> "unchecked", runtime |-> "stopped", test |-> FALSE],
     req |-> [r \in Req |-> NoReq], observed |-> {}]

OrchRow == 0
RunnerRow == MaxReq + 1
Row == {OrchRow, RunnerRow} \cup Req
\* What the page was asked to do, and whether it is run again.
Click(op, text) == [op |-> op, text |-> text, again |-> FALSE]
Again(c) == [c EXCEPT !.again = TRUE]
NoClick == Click("none", NoText)

\* An open transaction: its rows, those it wrote, the events it read, and the
\* rows another transaction committed since it began.
NoTx == [at |-> "none", new |-> EmptyDb, wrote |-> {}, read |-> 0, stale |-> {}]

\* Whether the row of a command exists: its transaction is the one named, which
\* is open, or it was committed, or rolled back.
Kept == "kept"
Lost == "lost"
NoCall == 0
Command(op, text, p) == [op |-> op, text |-> text, call |-> p, row |-> Kept]
Ack(c, ok) == [kind |-> "ack", op |-> c.op, row |-> c.row, ok |-> ok, call |-> NoCall]
Event(kind, p) == [kind |-> kind, op |-> "none", row |-> Lost, ok |-> TRUE, call |-> p]

Init ==
    /\ db = EmptyDb
    /\ tx = [w \in Worker |-> NoTx]
    /\ want = NoClick
    /\ cmds = <<>> /\ events = <<>>
    /\ live = FALSE /\ told = FALSE
    /\ call = [p \in Call |-> [what |-> NoText, state |-> "none"]]
    /\ ids = 0
    /\ asked = {} /\ work = 0

WorkLeft == work < MaxWork /\ work' = work + 1

----
(***************************************************************************)
(* What the handlers do to the rows: operators on the work of a            *)
(* transaction, which is the rows, the commands written so far, whether    *)
(* the relay's session was stamped as started, and what has waited past    *)
(* its time limit: requests handed over, the test, and the back-off after  *)
(* a start.                                                                *)
(***************************************************************************)
Test == OrchRow
BackOff == RunnerRow
Clock == Row
Due == {r \in Req : db.req[r].state = "forwarded"} \cup (IF db.orch.test THEN {Test} ELSE {})
Work(over) == [d |-> db, out |-> <<>>, stamped |-> FALSE, over |-> over]

\* One handler after another: Op of w.
Then(w, Op(_)) == CHOOSE u \in {Op(v) : v \in {w}} : TRUE

Lowest(S) == CHOOSE r \in S : \A q \in S : r <= q
In(w, states) == {r \in Req : w.d.req[r].state \in states}
Become(w, R, s) ==
    [w EXCEPT !.d.req = [r \in Req |-> IF r \in R THEN [@[r] EXCEPT !.state = s] ELSE @[r]]]

\* _submit: a row for each command, and its file.
SubmitAll(w, cs) == [w EXCEPT !.out = @ \o cs]
Submit(w, op, p) == SubmitAll(w, <<Command(op, NoText, p)>>)

\* _fd_forward: every request of R is handed over, in the order of their ids.
Handed(w, R) ==
    LET upTo[r \in 0..MaxReq] ==
            IF r = 0 THEN <<>>
            ELSE IF r \in R THEN Append(upTo[r - 1], Command("forward", w.d.req[r].text, NoCall)) ELSE upTo[r - 1]
    IN  upTo[MaxReq]
Forward(w, R) == Become(SubmitAll(w, Handed(w, R)), R, "forwarded")

Up(w) == w.d.orch.runtime # "stopped"
GateOk(w) == w.d.orch.gate = "ok"

\* Mutation: the test is left open.
MutSetStopped(w) ==
    Become([w EXCEPT !.d.orch.runtime = "stopped", !.d.orch.gate = "unchecked"], In(w, Open), "failed")
\* _set_runtime_state: a process that stopped takes its requests and its test.
SetStopped(w) ==
    Become([w EXCEPT !.d.orch = EmptyDb.orch], In(w, Open), "failed")

\* A test that is late breaks the gate, and what waited for it fails.
LateTest(w) ==
    IF ~w.d.orch.test \/ Test \notin w.over THEN w
    ELSE Become([w EXCEPT !.d.orch.test = FALSE, !.d.orch.gate = "broken"], In(w, {"queued"}), "failed")

\* _fd_orchestrator_catch_up: what waited too long.
CatchUp(w) == Then(w, LAMBDA v : Become(LateTest(v), In(v, {"forwarded"}) \cap v.over, "failed"))

\* fd_orchestrator_start: nothing when the process is up and its gate is not
\* known to be bad; otherwise the process, unless it is up, and the turn that
\* tests it (with a start: one command here, they are written together).  Either
\* way the session is stamped while the test runs.
\* Mutation: a start that changes nothing leaves the session alone.
MutStamped(w) == w
Stamped(w) == [w EXCEPT !.stamped = w.d.orch.gate = "testing"]
Tested(w) ==
    Submit([w EXCEPT !.d.orch = [gate |-> "testing", runtime |-> "up", test |-> TRUE], !.over = @ \ {Test}],
           IF Up(w) THEN "probe" ELSE "start", NoCall)
StartRelay(w) ==
    LET idle == Up(w) /\ w.d.orch.gate \in {"ok", "testing"}
    IN  Then(Then(IF idle THEN w ELSE Tested(w), CatchUp), Stamped)

\* A request of this text is queued, and handed over when the gate is known to
\* be good; otherwise the relay gets its chance to start.
Ready(w) == GateOk(w) /\ Up(w)
Queue(w, r, text) ==
    Then([w EXCEPT !.d.req[r] = [text |-> text, state |-> "queued"]],
         LAMBDA v : IF Ready(v) THEN Forward(v, {r}) ELSE v)

\* _fd_supervise_relay, with what is needed: a broken gate stops the process,
\* a stopped process is started, neither within the back-off.
KeepUp(w) ==
    IF BackOff \notin w.over THEN w
    ELSE IF Up(w) /\ w.d.orch.gate = "broken" THEN Submit(w, "stop", NoCall)
    ELSE IF ~Up(w) THEN StartRelay(w)
    ELSE w
SuperviseRelay(w, need) ==
    Then(IF Up(w) THEN CatchUp(w) ELSE w, LAMBDA v : IF need THEN KeepUp(v) ELSE v)

\* The requests handed over that are, exactly, this text.
\* Mutations: the text is not compared; a request that failed is found as well.
MutMatch(w, text) == In(w, {"forwarded"})
MutMatchFailed(w, text) == {r \in In(w, {"forwarded", "failed"}) : w.d.req[r].text = text}
Match(w, text) == {r \in In(w, {"forwarded"}) : w.d.req[r].text = text}

\* The permission request of a call, answered at once: the test call is denied
\* and opens the gate for all that wait; a call that is, exactly, a request
\* handed over is let through; any other is denied, and so is the request that
\* waited for it.
Gate(w, p) ==
    LET text == IF p = NoCall THEN Probe ELSE call[p].what
        with == In(w, {"forwarded"})
        match == Match(w, text)
        deny == Submit(w, "deny", p)
    IN  IF text = Probe
        THEN IF ~w.d.orch.test THEN deny
             ELSE LET v == [deny EXCEPT !.d.orch.test = FALSE]
                  IN  IF v.d.orch.gate # "testing" THEN v
                      ELSE Forward([v EXCEPT !.d.orch.gate = "ok"], In(v, {"queued"}))
        ELSE IF GateOk(w) /\ match # {} THEN Become(Submit(w, "allow", p), {Lowest(match)}, "sent")
        ELSE IF with # {} THEN Become(deny, {Lowest(with)}, "denied")
        ELSE deny

\* The runner says of a process that is up that it is idle or busy, before it
\* acknowledges a start or a turn; a refused one means there is no process.
Alive(w) == [w EXCEPT !.d.orch.runtime = "up"]
Turn == {"probe", "forward"}
Acked(w, e) ==
    IF e.ok THEN IF e.op \in Turn \cup {"start"} THEN Alive(w) ELSE w
    ELSE IF e.row = Kept /\ (e.op = "start" \/ (e.op \in Turn /\ Up(w))) THEN SetStopped(w)
    ELSE w

ApplyEvent(w, e) ==
    CASE e.kind = "ack" -> Acked(w, e)
      [] e.kind = "stopped" -> SetStopped(w)
      [] e.kind = "permission" -> Gate(w, e.call)

\* _poll_events: every event that is there, in order.
PollEvents(w) ==
    LET upTo[i \in 0..Len(events)] ==
            IF i = 0 THEN w ELSE Then(upTo[i - 1], LAMBDA v : ApplyEvent(v, events[i]))
    IN  upTo[Len(events)]

\* _reconcile: a process without a state file, and no command still queued.
Reconcile(w) ==
    IF Up(w) /\ ~live /\ w.out = <<>> /\ \A i \in 1..Len(cmds) : cmds[i].row # Kept
    THEN SetStopped(w) ELSE w

----
(***************************************************************************)
(* Transactions: PostgreSQL at REPEATABLE READ refuses the commit of one   *)
(* that updated a row another one updated since it began.                  *)
(***************************************************************************)
Wrote(old, w) ==
    {r \in Req : w.d.req[r] # old.req[r]}
        \cup (IF w.d.orch # old.orch \/ w.stamped THEN {OrchRow} ELSE {})

\* A worker's handler runs on its snapshot: its command files are there at once.
\* One that read and wrote nothing is over.  The page's is for a click.
Run(who, c, result, n) ==
    /\ tx[who] = NoTx
    /\ \E w \in {result} :
        LET wrote == Wrote(db, w) \cup (IF w.out # <<>> \/ n > 0 THEN {RunnerRow} ELSE {})
        IN  /\ w.out = <<>> \/ Len(cmds) <= MaxQueue
            /\ cmds' = cmds \o [i \in 1..Len(w.out) |-> [w.out[i] EXCEPT !.row = who]]
            /\ tx' = IF wrote = {} THEN tx
                     ELSE [tx EXCEPT ![who] = [at |-> "commit", new |-> w.d, wrote |-> wrote, read |-> n, stale |-> {}]]
            /\ want' = IF who = "cron" THEN want ELSE IF wrote = {} THEN NoClick
                        ELSE IF want = NoClick THEN c ELSE want
    /\ UNCHANGED <<db, events, runnerVars>>

Refused(who) == tx[who].wrote \cap tx[who].stale # {}

\* The rows a transaction wrote replace the committed ones.
Merged(t) ==
    [orch |-> IF OrchRow \in t.wrote THEN t.new.orch ELSE db.orch,
     req |-> [r \in Req |-> IF r \in t.wrote THEN t.new.req[r] ELSE db.req[r]],
     observed |-> db.observed \cup t.new.observed]

\* The rows of its commands, once it is over.
Closes(seq, who, row) == [i \in 1..Len(seq) |-> IF seq[i].row = who THEN [seq[i] EXCEPT !.row = row] ELSE seq[i]]

Commit(who) ==
    /\ tx[who].at = "commit" /\ ~Refused(who)
    /\ db' = Merged(tx[who])
    /\ tx' = [v \in Worker |-> IF v = who \/ tx[v] = NoTx THEN NoTx
                               ELSE [tx[v] EXCEPT !.stale = @ \cup tx[who].wrote]]
    /\ cmds' = Closes(cmds, who, Kept)
    /\ events' = Closes(SubSeq(events, tx[who].read + 1, Len(events)), who, Kept)
    /\ want' = IF who = "page" THEN NoClick ELSE want
    /\ UNCHANGED <<ids, runnerVars, histVars>>

\* The rows are rolled back, the command files stay.  A request of the page is
\* run again unless it raised (once here, up to five times by the framework);
\* an event is read again by the next poll.
Abort(who) ==
    /\ tx[who].at = "commit"
    /\ tx' = [tx EXCEPT ![who] = NoTx]
    /\ IF Refused(who) THEN UNCHANGED work ELSE WorkLeft
    /\ want' = IF who = "cron" THEN want
               ELSE IF Refused(who) /\ want # NoClick /\ ~want.again THEN Again(want) ELSE NoClick
    /\ cmds' = Closes(cmds, who, Lost) /\ events' = Closes(events, who, Lost)
    /\ UNCHANGED <<db, ids, runnerVars, asked>>

\* It may not be run again.
GivesUp ==
    /\ tx["page"] = NoTx /\ want # NoClick
    /\ want' = NoClick
    /\ UNCHANGED <<db, tx, ids, spoolVars, runnerVars, histVars>>

----
(***************************************************************************)
(* The page and the cron.                                                  *)
(***************************************************************************)
NextId == ids < MaxReq /\ ids' = ids + 1

\* A button is pressed, or the request it made before is run again.
Pressed(c) ==
    /\ want \in {NoClick, Again(c)}
    /\ IF want # NoClick THEN UNCHANGED histVars
       ELSE /\ WorkLeft
            /\ asked' = IF c.op = "send" THEN asked \cup {c.text} ELSE asked

\* fd_orchestrator_send, of a message a person confirmed.
PageSend(text, over) ==
    LET c == Click("send", text)
    IN  /\ Pressed(c) /\ NextId
        /\ Run("page", c, Then(Queue(Work(over), ids + 1, text),
                            LAMBDA w : IF Ready(w) THEN w ELSE StartRelay(w)), 0)

Button(op) == Click(op, NoText)
PageStart(over) ==
    /\ "start" \in Buttons /\ Pressed(Button("start"))
    /\ Run("page", Button("start"), StartRelay(Work(over)), 0)
    /\ UNCHANGED ids

PageStop(over) ==
    /\ "stop" \in Buttons /\ Pressed(Button("stop"))
    /\ LET w == Work(over)
       IN  Run("page", Button("stop"), Then(IF Up(w) THEN Submit(w, "stop", NoCall) ELSE w, CatchUp), 0)
    /\ UNCHANGED ids

\* The open page reads the relay's state every few seconds.
PageLook(over) ==
    /\ want = NoClick
    /\ Run("page", NoClick, CatchUp(Work(over)), 0)
    /\ UNCHANGED <<ids, histVars>>

\* The runner's events, then its state files: the cron, or the button "Read
\* events".
Polls(who, c) ==
    /\ Run(who, c, Then(PollEvents(Work({})), Reconcile), Len(events))
    /\ UNCHANGED ids
CronPolls == Polls("cron", NoClick) /\ UNCHANGED histVars
PagePolls == "poll" \in Buttons /\ Pressed(Button("poll")) /\ Polls("page", Button("poll"))

\* The supervisor's pass: a watch that is told to write to a session does so
\* for an observation that is not in the ledger, then the relay is looked after.
\* The session it writes to may not be running.
Needed(w) == Notices # {} \/ In(w, {"queued"}) # {}
CronPasses(over) ==
    /\ LET w == Work(over) IN Run("cron", NoClick, SuperviseRelay(w, Needed(w)), 0)
    /\ UNCHANGED <<ids, histVars>>

CronNotices(n, over) ==
    /\ n \notin db.observed /\ NextId
    /\ WorkLeft /\ asked' = asked \cup {n}
    /\ LET v == [Work(over) EXCEPT !.d.observed = @ \cup {n}]
           w == Then(Queue(v, ids + 1, n), LAMBDA u : IF Ready(u) THEN u ELSE SuperviseRelay(u, TRUE))
           gone == [v EXCEPT !.d.req[ids + 1] = [text |-> n, state |-> "failed"]]
       IN  \E u \in {w, gone} : Run("cron", NoClick, SuperviseRelay(u, TRUE), 0)

----
(***************************************************************************)
(* The runner and its process.                                             *)
(***************************************************************************)
Dropped == [p \in Call |-> IF call[p].state = "parked" THEN [call[p] EXCEPT !.state = "denied"] ELSE call[p]]

\* The runner takes the commands in order, and answers each one; what it
\* answers to a decision or a stop changes nothing here.
Handles(ops) == cmds # <<>> /\ Head(cmds).op \in ops /\ Len(events) < MaxEvents /\ cmds' = Tail(cmds)
Answers(ok) == events' = Append(events, Ack(Head(cmds), ok))

HandleStart ==
    /\ Handles({"start"})
    /\ \/ live' = TRUE /\ told' = TRUE /\ Answers(TRUE) /\ UNCHANGED work
       \/ ~live /\ WorkLeft /\ Answers(FALSE) /\ UNCHANGED <<live, told>>
    /\ UNCHANGED <<dbVars, call, asked>>

HandleTurn ==
    /\ Handles(Turn)
    /\ Answers(live)
    /\ told' = (told \/ (live /\ Head(cmds).op = "probe"))
    /\ UNCHANGED <<dbVars, live, call, histVars>>

\* An answer settles a call that is still parked; any other is refused.
HandleDecide ==
    /\ Handles({"allow", "deny"})
    /\ LET c == Head(cmds)
       IN  call' = [p \in Call |-> IF p = c.call /\ call[p].state = "parked"
                                   THEN [call[p] EXCEPT !.state = IF c.op = "allow" THEN "let" ELSE "denied"]
                                   ELSE call[p]]
    /\ UNCHANGED <<dbVars, events, live, told, histVars>>

\* The process is gone, by itself or because it was told to stop: its parked
\* calls are denied, and the event is written, unless the runner is gone too.
Ends(es) == live' = FALSE /\ told' = FALSE /\ call' = Dropped /\ events' = events \o es
Stopped == <<Event("stopped", NoCall)>>

Exits ==
    /\ live /\ WorkLeft /\ \E es \in {<<>>, Stopped} : Ends(es)
    /\ UNCHANGED <<dbVars, cmds, asked>>

HandleStop ==
    /\ Handles({"stop"})
    /\ Ends(IF live THEN Stopped ELSE <<>>)
    /\ UNCHANGED <<dbVars, histVars>>

\* The process calls SendMessage, with whatever text, and waits for an answer.
Calls(p, text) ==
    /\ live /\ Len(events) < MaxEvents
    /\ IF text \in asked THEN UNCHANGED work ELSE WorkLeft
    /\ call[p].state = "none" /\ \A q \in 1..(p - 1) : call[q].state # "none"
    /\ call' = [call EXCEPT ![p] = [what |-> text, state |-> "parked"]]
    /\ events' = Append(events, Event("permission", p))
    /\ UNCHANGED <<dbVars, cmds, live, told, asked>>

\* The test call, once for a test turn: it is never let through, so it is not kept.
CallsProbe ==
    /\ told /\ Len(events) < MaxEvents
    /\ told' = FALSE
    /\ events' = Append(events, Event("permission", NoCall))
    /\ UNCHANGED <<dbVars, cmds, live, call, histVars>>

PageActs(over) ==
    PageStart(over) \/ PageStop(over) \/ PageLook(over) \/ \E text \in Text \ Notices : PageSend(text, over)

Next ==
    \/ \E over \in SUBSET Due : PageActs(over)
    \/ \E over \in SUBSET (Due \cup {BackOff}) : CronPasses(over) \/ \E n \in Notices : CronNotices(n, over)
    \/ CronPolls \/ PagePolls \/ GivesUp
    \/ \E who \in Worker : Commit(who) \/ Abort(who)
    \/ HandleStart \/ HandleTurn \/ HandleDecide \/ HandleStop \/ Exits
    \/ CallsProbe \/ \E p \in Call, text \in Text : Calls(p, text)

Spec == Init /\ [][Next]_vars

\* The page is open: it looks, and its transactions end.  The cron works and the
\* runner handles its commands.  A run of the cron polls before it passes, so
\* neither keeps the other from its turn.
FairSpec ==
    /\ Spec
    /\ WF_vars(PageLook(Due)) /\ WF_vars(Commit("page") \/ Abort("page")) /\ WF_vars(GivesUp)
    /\ SF_vars(CronPolls) /\ SF_vars(CronPasses(Clock)) /\ WF_vars(Commit("cron") \/ Abort("cron"))
    /\ WF_vars(HandleStart \/ HandleTurn \/ HandleDecide \/ HandleStop)

----
TypeOK ==
    /\ db \in Database /\ db.orch.test => db.orch.gate = "testing"
    /\ \A r \in Req : db.req[r].state # "none" => r <= ids /\ db.req[r].text \in Text
    /\ \A w \in Worker : tx[w].wrote \subseteq Row /\ (Refused(w) \/ tx[w].read <= Len(events)) /\ tx[w].new \in Database
    /\ Len(events) <= MaxEvents + 1

\* Nothing is let through without a request on record: whatever the process was
\* told of by a transaction that was rolled back, and however often it asks.
OnRecord(text) == \E r \in Req : db.req[r].state # "none" /\ db.req[r].text = text
LetThroughIsOnRecord == \A p \in Call : call[p].state = "let" => OnRecord(call[p].what)

\* What became of a request is final: no late call, late test or overtaken
\* transaction changes one that was sent, denied or given up.
SettledStays == [][\A r \in Req : db.req[r].state \in Settled => db'.req[r] = db.req[r]]_vars

\* A message that waits for the gate test is not passed over: when the test is
\* passed, every one that was committed by then is handed over.
Waits(r) == db.req[r].state = "queued" /\ db.orch.gate = "ok"
NoMessageMissesTheTest == \A r \in Req : Waits(r) => db.req[r].text \in Notices

\* No request goes on waiting for a test that was passed.
NoneWaitsForPassedTest == \A r \in Req : Waits(r) ~> ~Waits(r)
====
