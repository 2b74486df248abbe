---- MODULE ChatBridge ----
(***************************************************************************)
(* A workflow asks a session and waits for its answer.  One request writes *)
(* a reply row and the command that becomes a turn; when the runner says   *)
(* that a turn is over, the oldest row that waits is taken to be that      *)
(* turn's.  Nothing but the order ties the two together: the event names   *)
(* the session, not the command.                                           *)
(*                                                                         *)
(* The runner's result carries the answer, or, from an older runner, only  *)
(* says that the turn ended, and the answer is read from the transcript    *)
(* later.  Requests and polls are transactions that meet in the runner's   *)
(* row, as in CommandSpool; a command file stays when its transaction is   *)
(* lost.                                                                   *)
(*                                                                         *)
(* One session.  Left out: its making on first use, what it is started     *)
(* with, the model and mode a request picks (they cost no turn), what an   *)
(* answer says, and the workflow engine's own waits and their time limit;  *)
(* results of turns the process began by itself, which answer a row like   *)
(* any other and shift the rows behind it; result events that could not be *)
(* appended, after which a row waits as for a lost turn; and commands run  *)
(* twice, which RunsBoundedByMemoryLoss of CommandSpool bounds.            *)
(***************************************************************************)
EXTENDS Naturals, Sequences, FiniteSets, FiniteSetsExt

CONSTANTS
    Worker,         \* requests and cron jobs at one time
    MaxTurns,       \* bound: turns sent, those of lost transactions included
    MaxWork         \* bound: commands refused, processes that end, exceptions

ASSUME BridgeAssumption == {MaxTurns, MaxWork} \subseteq Nat

Turn == 1..MaxTurns

VARIABLES
    carries,        \* whether the runner's results carry the answer
    \* The database: reply rows by the turn they were sent with, the next
    \* command's number, transcript lines read.
    wait, nextSeq, stored,
    tx,             \* open transactions
    \* The runner: commands not handled, turns in the process, whether the first
    \* one has begun; results no committed poll has read; the transcript.
    cmds, queue, begun, events, lines,
    \* History: what each turn is, the asked turns that were lost on the runner's
    \* side; and what counts for the bound.
    kind, lost, work

dbVars == <<wait, nextSeq, stored>>
spoolVars == <<cmds, events>>
sessionVars == <<queue, begun, lines>>
histVars == <<kind, lost, work>>
bridgeVars == <<carries, dbVars, tx, spoolVars, sessionVars, histVars>>

\* A row: the last line read when it was made, whether no other row was open
\* then, and the turns its answer is taken from.
Row == [state : {"none", "waiting", "ended", "answered", "expired"},
        after : Nat, alone : BOOLEAN, text : SUBSET Turn]
NoRow == [state |-> "none", after |-> 0, alone |-> FALSE, text |-> {}]
In(rows, states) == {r \in Turn : rows[r].state \in states}

\* A transaction: the rows it has written, by turn, the number after its last
\* command, and how many results it read.
NoTx == [at |-> "none", rows |-> [r \in Turn |-> NoRow], next |-> 0, read |-> 0]

BridgeInit ==
    /\ carries \in BOOLEAN
    /\ wait = [r \in Turn |-> NoRow] /\ nextSeq = 1 /\ stored = 0
    /\ tx = [w \in Worker |-> NoTx]
    /\ cmds = {} /\ queue = <<>> /\ begun = FALSE /\ events = <<>> /\ lines = <<>>
    /\ kind = <<>> /\ lost = {} /\ work = 0

WorkLeft == work < MaxWork /\ work' = work + 1

----
(***************************************************************************)
(* Requests.  Turns are numbered as they are sent.                         *)
(***************************************************************************)
Open == {"waiting", "ended"}
Waiting(rows) == [state |-> "waiting", after |-> stored, alone |-> In(rows, Open) = {}, text |-> {}]

\* The turns of one request, in order: the effort it sets first when that
\* changes, then its prompt (fd_chat_send); a person's prompt on the page has no row.
Requests == {<<"ask">>, <<"effort", "ask">>, <<"prompt">>}

Sends(w, parts) ==
    LET first == Len(kind) + 1
        new == first..(Len(kind) + Len(parts))
        asks == {t \in new : parts[t - Len(kind)] = "ask"}
    IN  /\ tx[w] = NoTx /\ Len(kind) + Len(parts) <= MaxTurns
        /\ kind' = kind \o parts
        /\ cmds' = cmds \cup {[turn |-> t, seq |-> nextSeq + t - first] : t \in new}
        /\ tx' = [tx EXCEPT ![w] = [NoTx EXCEPT
               !.at = "send", !.next = nextSeq + Len(parts),
               !.rows = [r \in Turn |-> IF r \in asks THEN Waiting(wait) ELSE NoRow]]]
        /\ UNCHANGED <<carries, dbVars, events, sessionVars, lost, work>>

----
(***************************************************************************)
(* The poll.                                                               *)
(***************************************************************************)
\* Mutation: the row is answered and left as ended.
MutAnswered(row, turns) == [row EXCEPT !.state = "ended", !.text = turns]
Answered(row, turns) == [row EXCEPT !.state = "answered", !.text = turns]
Ended(row) == [row EXCEPT !.state = "ended"]

\* A turn is over: the oldest row that waits is its own, unless it is one the
\* runner sent itself.
\* Mutation: such a turn is not told apart.
MutOnResult(rows, t) ==
    IF In(rows, {"waiting"}) = {} THEN rows
    ELSE [rows EXCEPT ![Min(In(rows, {"waiting"}))] = IF carries THEN Answered(@, {t}) ELSE Ended(@)]
OnResult(rows, t) ==
    IF kind[t] = "effort" \/ In(rows, {"waiting"}) = {} THEN rows
    ELSE [rows EXCEPT ![Min(In(rows, {"waiting"}))] = IF carries THEN Answered(@, {t}) ELSE Ended(@)]

Applied(rows, es) ==
    LET upTo[i \in 0..Len(es)] == IF i = 0 THEN rows ELSE OnResult(upTo[i - 1], es[i])
    IN  upTo[Len(es)]

Polls(w) ==
    /\ tx[w] = NoTx /\ events # <<>>
    /\ LET now == Applied(wait, events)
       IN  tx' = [tx EXCEPT ![w] = [NoTx EXCEPT
               !.at = "poll", !.next = nextSeq, !.read = Len(events),
               !.rows = [r \in Turn |-> IF now[r] # wait[r] THEN now[r] ELSE NoRow]]]
    /\ UNCHANGED <<carries, dbVars, spoolVars, sessionVars, histVars>>

\* What is left of an open transaction u when t commits: nothing, for its own
\* commit is refused.
\* Mutation: a request and a poll do not meet in one row.
MutLeft(t, u) == IF t.at = u.at THEN NoTx ELSE u
Left(t, u) == NoTx

Commit(w) ==
    /\ tx[w] # NoTx
    /\ wait' = [r \in Turn |-> IF tx[w].rows[r] # NoRow THEN tx[w].rows[r] ELSE wait[r]]
    /\ nextSeq' = tx[w].next
    /\ events' = SubSeq(events, tx[w].read + 1, Len(events))
    /\ tx' = [v \in Worker |-> IF v = w THEN NoTx ELSE Left(tx[w], tx[v])]
    /\ UNCHANGED <<carries, stored, cmds, sessionVars, histVars>>

\* Something later in the request raised.  Its turns are run all the same, as are
\* those of a refused one; a request that is tried again is a new one.
Abort(w) ==
    /\ tx[w] # NoTx /\ tx' = [tx EXCEPT ![w] = NoTx] /\ WorkLeft
    /\ UNCHANGED <<carries, dbVars, spoolVars, sessionVars, kind, lost>>

----
(***************************************************************************)
(* The runner and the session's process.                                   *)
(***************************************************************************)
IsNext(c) == c \in cmds /\ \A d \in cmds : c.seq <= d.seq
Asks(turns) == {t \in turns : kind[t] = "ask"}

Handles(c) ==
    /\ IsNext(c) /\ cmds' = cmds \ {c}
    /\ \/ queue' = Append(queue, c.turn) /\ UNCHANGED <<lost, work>>
       \/ WorkLeft /\ lost' = lost \cup Asks({c.turn}) /\ UNCHANGED queue
    /\ UNCHANGED <<carries, dbVars, tx, begun, events, lines, kind>>

\* The transcript is looked at only for the answers of an older runner.
Transcribes(new) == lines' = IF carries THEN lines ELSE lines \o new

Begins ==
    /\ queue # <<>> /\ ~begun /\ begun' = TRUE
    /\ Transcribes(<<[turn |-> Head(queue), what |-> "prompt"]>>)
    /\ UNCHANGED <<carries, dbVars, tx, spoolVars, queue, histVars>>

\* The turn is over, with something said or an error.
Ends ==
    /\ begun /\ begun' = FALSE /\ queue' = Tail(queue)
    /\ events' = Append(events, Head(queue))
    /\ \E said \in {<<>>, <<[turn |-> Head(queue), what |-> "text"]>>} : Transcribes(said)
    /\ UNCHANGED <<carries, dbVars, tx, cmds, histVars>>

\* The process is gone, with the turns it had.
Dies ==
    /\ queue # <<>> /\ WorkLeft
    /\ queue' = <<>> /\ begun' = FALSE
    /\ lost' = lost \cup Asks({queue[i] : i \in 1..Len(queue)})
    /\ UNCHANGED <<carries, dbVars, tx, spoolVars, lines, kind>>

----
(***************************************************************************)
(* The follow cron: lines, then the answers of ended turns.                *)
(***************************************************************************)
Follows ==
    /\ stored' \in (stored + 1)..Len(lines)
    /\ UNCHANGED <<carries, wait, nextSeq, tx, spoolVars, sessionVars, histVars>>

\* What was said between the first prompt after the row was made and the next
\* prompt; the runner's own turns are not prompts.
IsPrompt(line) == line.what = "prompt" /\ kind[line.turn] # "effort"
AnswerText(row) ==
    LET prompts == {i \in (row.after + 1)..stored : IsPrompt(lines[i])}
        first == Min(prompts)
        before == Min((prompts \ {first}) \cup {stored + 1})
    IN  IF prompts = {} THEN {}
        ELSE {lines[i].turn : i \in {j \in (first + 1)..(before - 1) : lines[j].what = "text"}}

\* The rows of turns that ended: answered, or given up when nothing was read in
\* time.
Resumes(late) ==
    LET now == [r \in Turn |->
            IF wait[r].state # "ended" THEN wait[r]
            ELSE IF AnswerText(wait[r]) # {} THEN Answered(wait[r], AnswerText(wait[r]))
            ELSE IF r \in late THEN [wait[r] EXCEPT !.state = "expired"] ELSE wait[r]]
    IN  /\ now # wait /\ wait' = now
        /\ UNCHANGED <<carries, nextSeq, stored, tx, spoolVars, sessionVars, histVars>>

BridgeNext ==
    \/ \E w \in Worker : Polls(w) \/ Commit(w) \/ Abort(w) \/ \E parts \in Requests : Sends(w, parts)
    \/ \E c \in cmds : Handles(c)
    \/ Begins \/ Ends \/ Dies \/ Follows
    \/ \E late \in SUBSET In(wait, {"ended"}) : Resumes(late)

BridgeSpec == BridgeInit /\ [][BridgeNext]_bridgeVars

----
BridgeTypeOK ==
    /\ wait \in [Turn -> Row] /\ nextSeq \in Nat \ {0} /\ stored \in 0..Len(lines)
    /\ \A r \in Turn : /\ wait[r].state = "answered" <=> wait[r].text # {}
                       /\ wait[r].state # "none" => kind[r] = "ask"
                       /\ wait[r].state \in {"ended", "expired"} => ~carries
    /\ \A w \in Worker : tx[w].read <= Len(events)
    /\ {c.turn : c \in cmds} \cap {queue[i] : i \in 1..Len(queue)} = {}

Rows == {r \in Turn : wait[r].state # "none"}
\* Turns that bring a result and have no row: a person's, and those of a request
\* that was rolled back or is not committed.
Rowless == {t \in 1..Len(kind) : kind[t] # "effort"} \ Rows

\* What a turn said goes to one request.  An answer that is another request's is off
\* by no more turns than were lost or have no row: it is of a later turn only when
\* turns before that one were lost, of an earlier one only when as many without a row
\* were run.  With neither it is the turn's own.  (A turn without a row has no place
\* among the others: its number was given again when its request was rolled back.)
Near(r, t) ==
    /\ Cardinality({q \in Rows : r < q /\ q <= t}) <= Cardinality({l \in lost : l < t})
    /\ t \in Rows => Cardinality({q \in Rows : t <= q /\ q < r}) <= Cardinality({f \in Rowless : f < r})
    /\ t # r => lost \cup Rowless # {}
CarriedAnswersStayNear ==
    carries => \A r \in In(wait, {"answered"}) :
        /\ \A t \in wait[r].text : Near(r, t)
        /\ \A q \in In(wait, {"answered"}) \ {r} : wait[q].text \cap wait[r].text = {}

\* From an older runner, when nothing was lost, given up or sent by others and each request
\* was made after the one before it was answered, a row gets the words of no other
\* request, although the transcript is read late and in pieces.
OneByOne == lost = {} /\ Rowless = {} /\ In(wait, {"expired"}) = {} /\ \A r \in Rows : wait[r].alone
ReadAnswersAreOwn ==
    ~carries /\ OneByOne => \A r \in In(wait, {"answered"}) : Asks(wait[r].text) \subseteq {r}

AnswersStayNear == CarriedAnswersStayNear /\ ReadAnswersAreOwn

\* No row waits for ever because its result was read before the row was there:
\* as many wait as have a turn on its way or lost one.
OnTheWay ==
    {c.turn : c \in cmds} \cup {queue[i] : i \in 1..Len(queue)} \cup {events[i] : i \in 1..Len(events)}
NoWaitIsStranded ==
    Cardinality(In(wait, {"waiting"})) <= Cardinality(lost) + Cardinality(Rows \cap OnTheWay)
====
