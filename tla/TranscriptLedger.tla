---- MODULE TranscriptLedger ----
(***************************************************************************)
(* The spend ledger of fd: Claude Code appends to transcripts, and two     *)
(* ingesters - the server with its file watcher, and `fd ingest` on the    *)
(* command line - read what is new into one SQLite file: a row for every   *)
(* billed response, the turns, and the time each session was busy.         *)
(*                                                                         *)
(* A file is read in pieces, by a cursor that is kept in the ledger with   *)
(* the state of the turn at that point.  A fork copies its parent's lines  *)
(* into a file of its own, and only the first session to bring a response  *)
(* is billed for it.  The size of a file is taken before the write lock,   *)
(* so by the time of the read the other ingester may be further.           *)
(*                                                                         *)
(* Files only grow here, a session has one file, and its subagents (whose  *)
(* busy time is kept apart) are left out.  A gap between two lines counts  *)
(* as one unit of busy time, whatever its length and whether or not the    *)
(* agent spent it waiting for a person's answer.  Titles, and when a turn  *)
(* ended, are not kept.                                                    *)
(*                                                                         *)
(* Files are ordered by their birth, which the filesystem records here.    *)
(* On one that does not the code goes by when they were last written, then *)
(* by name, and a fork may well come before its parent.                    *)
(***************************************************************************)
EXTENDS Naturals, Sequences, FiniteSets, SequencesExt

CONSTANTS
    File,           \* transcripts, and with them sessions
    NoFile,         \* no transcript
    Ingester,       \* processes that read into the ledger
    Serve,          \* the one of them that watches the files
    Slack,          \* a line this much older than the newest is a replay
    MaxEvents       \* bound: lines written (copies not counted), half lines, replays,
                    \* forks, deletions, lost events, failed reads, crashes and the
                    \* sweeps of a command, together

ASSUME LedgerAssumption ==
    /\ NoFile \notin File /\ Serve \in Ingester
    /\ Slack \in Nat /\ MaxEvents \in Nat

\* A person's prompt, a tool's result (or a notification), and lines of the
\* agent: a part of a response, the end of the turn.
Billed == {"reply", "end"}
Kind == {"prompt", "tool"} \cup Billed

\* A response is known by its first line; a prompt by its own.
Id == File \X (1..MaxEvents)
NoId == <<>>
Line == [from : File, at : 1..MaxEvents, kind : Kind, resp : 0..MaxEvents]
RespOf(l) == <<l.from, l.resp>>
PromptOf(l) == <<l.from, l.at>>

Row == [owner : File, out : 1..MaxEvents, prompt : Id \cup {NoId}]
NoRow == [owner |-> NoFile, out |-> 0, prompt |-> NoId]

VARIABLES
    \* The transcripts in the order of their creation, those deleted, their whole
    \* lines, whether a line is half written, and what a fork has still to copy.
    born, gone, text, torn, copy,
    \* The ledger: responses, the owner of each turn, busy time, cursors.
    row, turn, busy, cursor,
    \* The ingesters: the files at hand, the size taken of the first of them; what
    \* the server does, and the files its watcher saw change.
    todo, stat, job, pending,
    \* History: events so far (for the bound), files whose event or reading was lost.
    events, missed

fileVars == <<born, gone, text, torn, copy>>
ledgerVars == <<row, turn, busy, cursor>>
ingestVars == <<todo, stat, job, pending>>
histVars == <<events, missed>>
vars == <<fileVars, ledgerVars, ingestVars, histVars>>

\* What the cursor keeps of the turn.
NoAct == [last |-> 0, inTurn |-> FALSE, prompt |-> NoId, answered |-> TRUE]
NoCursor == [size |-> 0, lines |-> 0, act |-> NoAct]

Init ==
    /\ born = <<>> /\ gone = {} /\ text = [f \in File |-> <<>>]
    /\ torn = [f \in File |-> FALSE] /\ copy = [f \in File |-> <<>>]
    /\ row = [id \in Id |-> NoRow] /\ turn = [id \in Id |-> NoFile]
    /\ busy = [f \in File |-> 0] /\ cursor = [f \in File |-> NoCursor]
    /\ todo = [i \in Ingester |-> <<>>] /\ stat = [i \in Ingester |-> 0]
    /\ job = "none" /\ pending = {}
    /\ events = 0 /\ missed = {}

Born == {born[n] : n \in DOMAIN born}
Live == Born \ gone
\* In halves of a line; no file is empty, and a size of 0 stands for none.
Bytes(n) == 2 * n
Size(f) == Bytes(Len(text[f])) + IF torn[f] THEN 1 ELSE 0

Costs(n) == events + n <= MaxEvents /\ events' = events + n

----
(***************************************************************************)
(* Claude Code.                                                            *)
(***************************************************************************)
\* Every write is an event of the watcher, but for those of the server's first
\* sweep, before it watches; and one may be lost: the directory is not watched
\* yet, the queue is full.
Loses(f) == missed' = missed \cup {f} /\ UNCHANGED pending
Event(f) ==
    IF job = "start" THEN Loses(f) ELSE pending' = pending \cup {f} /\ UNCHANGED missed

\* A fork, or a resume under a new id, is a new file that begins with the history.
Forks(f, g) ==
    /\ f \notin Born /\ g \in Live
    /\ born' = Append(born, f)
    /\ text' = [text EXCEPT ![f] = <<Head(text[g])>>]
    /\ copy' = [copy EXCEPT ![f] = Tail(text[g])]
    /\ (Event(f) /\ Costs(1)) \/ (Loses(f) /\ Costs(2))
    /\ UNCHANGED <<gone, torn, ledgerVars, todo, stat, job>>

CopiesLine(f) ==
    /\ f \in Live /\ copy[f] # <<>>
    /\ text' = [text EXCEPT ![f] = Append(@, Head(copy[f]))]
    /\ copy' = [copy EXCEPT ![f] = Tail(@)]
    /\ (Event(f) /\ Costs(0)) \/ (Loses(f) /\ Costs(1))
    /\ UNCHANGED <<born, gone, torn, ledgerVars, todo, stat, job>>

NoLine == [from |-> NoFile, at |-> 0, kind |-> "none", resp |-> 0]
Newest(f) ==
    IF text[f] = <<>> THEN NoLine
    ELSE CHOOSE l \in Range(text[f]) : \A m \in Range(text[f]) : m.at <= l.at

\* A prompt is the first line; after the end of a turn the agent is silent.
MayFollow(l) ==
    CASE l = NoLine -> {"prompt"}
      [] l.kind = "end" -> {"prompt", "tool"}
      [] OTHER -> Kind

\* The lines of one response follow each other.
LineAfter(l, f, kind) ==
    [from |-> f, at |-> l.at + 1, kind |-> kind,
     resp |-> IF kind \notin Billed THEN 0
              ELSE IF l.kind = "reply" /\ l.from = f THEN l.resp ELSE l.at + 1]

Writing(f) == f \notin gone /\ copy[f] = <<>>

\* The first line makes the file.
Writes(f, kind) ==
    /\ Writing(f) /\ kind \in MayFollow(Newest(f))
    /\ born' = IF f \in Born THEN born ELSE Append(born, f)
    /\ text' = [text EXCEPT ![f] = Append(@, LineAfter(Newest(f), f, kind))]
    /\ torn' = [torn EXCEPT ![f] = FALSE]
    /\ (Event(f) /\ Costs(1)) \/ (Loses(f) /\ Costs(2))
    /\ UNCHANGED <<gone, copy, ledgerVars, todo, stat, job>>

\* A line is half written.
WritesPart(f) ==
    /\ f \in Live /\ Writing(f) /\ ~torn[f]
    /\ torn' = [torn EXCEPT ![f] = TRUE]
    /\ Event(f)
    /\ Costs(1)
    /\ UNCHANGED <<born, gone, text, copy, ledgerVars, todo, stat, job>>

\* Some resumes write an earlier stretch of the same session again.
Replays(f, n) ==
    /\ f \in Live /\ copy[f] = <<>> /\ ~torn[f]
    /\ n \in DOMAIN text[f] /\ text[f][n].at + Slack < Newest(f).at
    /\ text' = [text EXCEPT ![f] = Append(@, text[f][n])]
    /\ Event(f)
    /\ Costs(1)
    /\ UNCHANGED <<born, gone, torn, copy, ledgerVars, todo, stat, job>>

\* Old transcripts are deleted.
Deletes(f) ==
    /\ f \in Live /\ copy[f] = <<>>
    /\ gone' = gone \cup {f}
    /\ Costs(1)
    /\ UNCHANGED <<born, text, torn, copy, ledgerVars, ingestVars, missed>>

----
(***************************************************************************)
(* What one read makes of a line, in the transaction of its file.          *)
(***************************************************************************)
IsReplay(act, l) == l.at + Slack < act.last
Larger(a, b) == IF a < b THEN b ELSE a

\* Upsert: the first session to bring a response keeps it; a later line may
\* raise its output, and stamps it with the turn unless it is a replay.
Upserted(old, f, l, stamp) ==
    IF old = NoRow
    THEN [owner |-> f, out |-> l.at, prompt |-> stamp]
    ELSE [old EXCEPT !.out = Larger(@, l.at),
                     !.prompt = IF old.owner = f /\ stamp # NoId THEN stamp ELSE @]

\* A prompt joins the open turn until the agent has replied.
Joins(act, l) == act.inTurn /\ act.prompt # NoId /\ (PromptOf(l) = act.prompt \/ ~act.answered)

OpensTurn(r, f, l) ==
    LET owner == r.turn[PromptOf(l)]
    IN  [r EXCEPT !.turn[PromptOf(l)] = IF owner = NoFile THEN f ELSE owner,
                  !.copied = owner \notin {NoFile, f},
                  !.act = [last |-> l.at, inTurn |-> TRUE,
                           prompt |-> PromptOf(l), answered |-> FALSE]]

\* A prompt that joins is no turn of its own, whatever an older read made of it.
Folded(r, f, l) ==
    IF r.copied \/ PromptOf(l) = r.act.prompt THEN r
    ELSE [r EXCEPT !.turn[PromptOf(l)] = IF @ = f THEN NoFile ELSE @]

\* A notification or a hook sets the agent to work again.
GoesOn(r, l) ==
    [r EXCEPT !.act = [@ EXCEPT !.last = l.at, !.inTurn = TRUE, !.answered = TRUE]]

\* Any other line: the gap before it was work, unless it
\* belongs to copied history.
Advances(r, l, isCopy) ==
    LET act == r.act
        copied == isCopy \/ (r.copied /\ l.kind \notin Billed)
        worked == act.inTurn /\ 0 < act.last /\ act.last < l.at
                  /\ ~r.copied /\ ~copied
    IN  [r EXCEPT
            !.copied = copied,
            !.add = IF worked THEN @ + 1 ELSE @,
            !.act = [act EXCEPT
                !.last = Larger(act.last, l.at),
                !.answered = act.answered \/ l.kind \in Billed,
                !.inTurn = act.inTurn /\ ~(l.kind = "end" /\ ~copied)]]

Fed(r, f, l, isCopy) ==
    IF IsReplay(r.act, l) THEN r
    ELSE IF l.kind = "prompt"
         THEN IF Joins(r.act, l) THEN Advances(Folded(r, f, l), l, FALSE) ELSE OpensTurn(r, f, l)
    ELSE IF l.kind = "tool" /\ ~r.act.inTurn THEN GoesOn(r, l)
    ELSE Advances(r, l, isCopy)

ReadLine(r, f, l) ==
    IF l.kind \notin Billed THEN Fed(r, f, l, FALSE)
    ELSE LET old == r.row[RespOf(l)]
             stamp == IF IsReplay(r.act, l) THEN NoId ELSE r.act.prompt
         IN  Fed([r EXCEPT !.row[RespOf(l)] = Upserted(old, f, l, stamp)], f, l,
                 old.owner \notin {NoFile, f})

\* The tracker of a read: its state comes from the cursor, or is new at the top.
\* That it was in copied history is not among what the cursor keeps.
Tracker(act) == [row |-> row, turn |-> turn, add |-> 0, copied |-> FALSE, act |-> act]
\* What reading lines from + 1 to to comes to: a set of one.
Read(f, act, from, to) ==
    LET upTo[n \in from..to] ==
            IF n = from THEN {Tracker(act)} ELSE {ReadLine(r, f, text[f][n]) : r \in upTo[n - 1]}
    IN  upTo[to]

----
(***************************************************************************)
(* The ingesters.                                                          *)
(***************************************************************************)
\* Mutation: the latest file first, as by modification time.
MutInOrder(S) == Reverse(SelectSeq(born, LAMBDA f : f \in S))
InOrder(S) ==
    LET upTo[n \in 0..Len(born)] ==
            IF n = 0 THEN <<>>
            ELSE IF born[n] \in S THEN Append(upTo[n - 1], born[n]) ELSE upTo[n - 1]
    IN  upTo[Len(born)]

\* A sweep of every transcript: the server's own, every five minutes or for a new
\* directory, and the command's.
Work(i) == IF i = Serve THEN job' = "sweep" ELSE UNCHANGED job
\* Mutation: only files that were never read.
MutSweep(i) ==
    /\ todo[i] = <<>> /\ \E f \in Live : cursor[f].size = 0
    /\ todo' = [todo EXCEPT ![i] = InOrder({f \in Live : cursor[f].size = 0})] /\ Work(i)
    /\ UNCHANGED <<fileVars, ledgerVars, stat, pending, missed>>
    /\ Costs(IF i = Serve THEN 0 ELSE 1)
Sweep(i) ==
    /\ todo[i] = <<>> /\ Live # {}
    /\ todo' = [todo EXCEPT ![i] = InOrder(Live)] /\ Work(i)
    /\ UNCHANGED <<fileVars, ledgerVars, stat, pending, missed>>
    /\ Costs(IF i = Serve THEN 0 ELSE 1)

\* The watcher's batch, when no event came for a while.
IngestPaths ==
    /\ todo[Serve] = <<>> /\ pending # {}
    /\ todo' = [todo EXCEPT ![Serve] = InOrder(pending)] /\ job' = "batch"
    /\ pending' = {}
    /\ UNCHANGED <<fileVars, ledgerVars, stat, histVars>>

\* Mutation: the size taken of a file is not forgotten with it.
MutGoesTo(i, files) ==
    /\ todo' = [todo EXCEPT ![i] = files]
    /\ job' = IF i = Serve /\ files = <<>> THEN "none" ELSE job
    /\ UNCHANGED stat
\* The ingester goes on with these files.
GoesTo(i, files) ==
    /\ todo' = [todo EXCEPT ![i] = files]
    /\ job' = IF i = Serve /\ files = <<>> THEN "none" ELSE job
    /\ stat' = [stat EXCEPT ![i] = 0]

\* File, before the lock: removed and unchanged files are left alone.
Stats(i) ==
    /\ todo[i] # <<>> /\ stat[i] = 0
    /\ LET f == Head(todo[i])
       IN  IF f \in gone \/ Size(f) = cursor[f].size
           THEN GoesTo(i, Tail(todo[i]))
           ELSE stat' = [stat EXCEPT ![i] = Size(f)] /\ UNCHANGED <<todo, job>>
    /\ UNCHANGED <<fileVars, ledgerVars, pending, histVars>>

\* Mutation: the cursor is put at the size taken before the lock.
MutPutCursor(i, f, act) ==
    cursor' = [cursor EXCEPT ![f] = [size |-> stat[i], lines |-> stat[i] \div 2, act |-> act]]
PutCursor(i, f, act) ==
    cursor' = [cursor EXCEPT ![f] = [size |-> stat[i], lines |-> Len(text[f]), act |-> act]]

\* Where the read begins: at the cursor, if the size taken before the lock is
\* not behind it.
Start(i, f) == IF Bytes(cursor[f].lines) <= stat[i] THEN cursor[f].lines ELSE 0

\* Mutation: a read from the top adds to what was counted before.
MutCounted(f, from, add) == busy[f] + add
\* A read from the top recounts the session's time.
Counted(f, from, add) == IF from = 0 /\ text[f] # <<>> THEN add ELSE busy[f] + add

\* File, under the lock: rows, turns, busy time and cursor change together.
Reads(i) ==
    /\ stat[i] # 0
    /\ LET f == Head(todo[i])
           from == Start(i, f)
           act == IF from = 0 THEN NoAct ELSE cursor[f].act
       IN  IF f \in gone \/ stat[i] = cursor[f].size
           THEN UNCHANGED ledgerVars
           ELSE \E r \in Read(f, act, from, Len(text[f])) :
                /\ row' = r.row /\ turn' = r.turn
                /\ busy' = [busy EXCEPT ![f] = Counted(f, from, r.add)]
                /\ PutCursor(i, f, r.act)
    /\ GoesTo(i, Tail(todo[i]))
    /\ UNCHANGED <<fileVars, pending, histVars>>

\* The database is locked for too long, or the file cannot be read: a sweep
\* ends, a batch goes on with the next file.
Fails(i) ==
    /\ stat[i] # 0 /\ Costs(1)
    /\ missed' = missed \cup (IF i = Serve /\ job = "batch" THEN {Head(todo[i])} ELSE Range(todo[i]))
    /\ GoesTo(i, IF i = Serve /\ job = "batch" THEN Tail(todo[i]) ELSE <<>>)
    /\ UNCHANGED <<fileVars, ledgerVars, pending>>

\* A process dies; the server is started again and sweeps before it watches.
Crash(i) ==
    /\ i = Serve \/ todo[i] # <<>>
    /\ Costs(1)
    /\ todo' = [todo EXCEPT ![i] = IF i = Serve THEN InOrder(Live) ELSE <<>>]
    /\ job' = IF i # Serve THEN job ELSE IF Live = {} THEN "none" ELSE "start"
    /\ stat' = [stat EXCEPT ![i] = 0]
    /\ pending' = IF i = Serve THEN {} ELSE pending
    /\ UNCHANGED <<fileVars, ledgerVars, missed>>

----
Next ==
    \/ \E f \in File :
        \/ CopiesLine(f) \/ WritesPart(f) \/ Deletes(f)
        \/ \E g \in File : Forks(f, g)
        \/ \E kind \in Kind : Writes(f, kind)
        \/ \E n \in DOMAIN text[f] : Replays(f, n)
    \/ \E i \in Ingester : Sweep(i) \/ Stats(i) \/ Reads(i) \/ Fails(i) \/ Crash(i)
    \/ IngestPaths

\* The server goes on with what it began, and sweeps every five minutes.
Fairness ==
    /\ WF_vars(Stats(Serve) \/ Reads(Serve))
    /\ SF_vars(Sweep(Serve))

Spec == Init /\ [][Next]_vars /\ Fairness

----
\* The sessions are alike, so one of them may be taken for the first.
FirstIsFirst == born # <<>> => Head(born) = CHOOSE f \in File : TRUE

TypeOK ==
    /\ born \in Seq(File) /\ Len(born) = Cardinality(Born) /\ gone \subseteq Born
    /\ text \in [File -> Seq(Line)] /\ torn \in [File -> BOOLEAN]
    /\ copy \in [File -> Seq(Line)]
    /\ row \in [Id -> Row \cup {NoRow}] /\ turn \in [Id -> File \cup {NoFile}]
    /\ busy \in [File -> Nat]
    /\ \A f \in File :
        /\ cursor[f].size \in Nat /\ cursor[f].lines \in 0..Len(text[f])
        /\ cursor[f].act \in [last : 0..MaxEvents, inTurn : BOOLEAN,
                              prompt : Id \cup {NoId}, answered : BOOLEAN]
    /\ todo \in [Ingester -> Seq(File)]
    /\ job \in {"none", "start", "sweep", "batch"} /\ (job = "none") = (todo[Serve] = <<>>)
    /\ stat \in [Ingester -> Nat] /\ \A i \in Ingester : todo[i] = <<>> => stat[i] = 0
    /\ pending \subseteq File /\ missed \subseteq File
    /\ events \in 0..MaxEvents

Below(f) == SubSeq(text[f], 1, cursor[f].lines)
Outputs(id) ==
    UNION {{l.at : l \in {m \in Range(Below(f)) : m.kind \in Billed /\ RespOf(m) = id}} : f \in File}

\* Rows and cursors never part: a response is in the ledger exactly when a line of
\* it lies below a cursor, with the largest output of them, whichever ingester
\* read which piece, and of deleted transcripts too.
LedgerIsWhatWasRead ==
    \A id \in Id :
        IF Outputs(id) = {} THEN row[id] = NoRow
        ELSE row[id].out \in Outputs(id) /\ \A n \in Outputs(id) : n <= row[id].out

\* The first session keeps a response and a turn: whichever ingester comes first,
\* and in whatever pieces, a fork is not billed for its parent's - unless the parent
\* was deleted, or its event or its reading was lost.
FirstSessionKeeps ==
    \A f \in File \ (missed \cup gone), n \in 1..MaxEvents :
        /\ row[<<f, n>>].owner \in {f, NoFile}
        /\ turn[<<f, n>>] \in {f, NoFile}

\* The lines below the cursor are all the session's own.
Owns(f) ==
    \A l \in Range(Below(f)) :
        /\ l.kind \in Billed => row[RespOf(l)].owner = f
        /\ l.kind = "prompt" => turn[PromptOf(l)] \in {f, NoFile}

\* However a session's file was cut into reads, and however often it was read from
\* the top again by an ingester that was behind, the ledger holds what one read of
\* it gives: reading it again changes neither rows and stamps nor turns, busy
\* time and the state in the cursor.
RereadChangesNothing ==
    \A f \in File : Owns(f) =>
        \A r \in Read(f, NoAct, 0, cursor[f].lines) :
            r.row = row /\ r.turn = turn /\ r.add = busy[f] /\ r.act = cursor[f].act

\* When the sessions pause every whole line is read, lost events, failed reads and
\* crashes or not.  (The bounds make what is written finite.)
EverythingIsRead == <>[](\A f \in Live : cursor[f].lines = Len(text[f]))
====
