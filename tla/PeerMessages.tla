---- MODULE PeerMessages ----
(***************************************************************************)
(* The messages Claude sessions send each other, read from both ends.  The *)
(* transcript of the sending session holds the call and, on a later line,  *)
(* its answer, which names the message; that of the receiving session      *)
(* holds the message, under the same name.  The scan reads each transcript *)
(* from a cursor of its own, in any order and in pieces, and joins the     *)
(* ends in one row for each message.                                       *)
(*                                                                         *)
(* A pass over one session is one transaction of the only reader: it       *)
(* happens, or it leaves nothing.  A line being written is not read, so    *)
(* files grow by whole lines.  Left out: texts and times, and the          *)
(* conversations the rows are grouped in and counted by.                   *)
(***************************************************************************)
EXTENDS Naturals, Sequences, FiniteSets

CONSTANTS
    Session,        \* numbered in the order their transcripts start
    Fork,           \* those that start as a copy of another one
    Send,           \* SendMessage calls, and the messages they become
    Origin,         \* who makes each call
    Target,         \* who it is for
    SocketOf,       \* whose the sender's socket is, by the roster of live processes
    LabelOf,        \* whose the recipient's name is
    MaxRewrites     \* bound: transcripts cut short

Nobody == 0

ASSUME PeerAssumption ==
    /\ Session \subseteq Nat \ {Nobody} /\ IsFiniteSet(Session)
    /\ Fork \subseteq Session
    /\ Origin \in [Send -> Session \ Fork] /\ Target \in [Send -> Session \ Fork]
    /\ {SocketOf, LabelOf} \subseteq [Send -> Session \cup {Nobody}]
    /\ MaxRewrites \in Nat

VARIABLES
    \* The transcripts, what becomes of each call, and how often one was cut.
    file, fate, rewrites,
    \* The scan: lines read of each transcript, whether its first timestamp is
    \* known, and the rows.
    cursor, started, rows,
    \* History: which transcripts were read to hold each end of a message.
    heard

worldVars == <<file, fate, rewrites>>
scanVars == <<cursor, started, rows, heard>>
vars == <<worldVars, scanVars>>

\* An answer names the message; says that the call went to an agent of the
\* session itself; or refuses it.
Answer == {"sent", "handed", "refused"}
Line == [kind : {"call", "received"} \cup Answer, m : Send]
L(kind, m) == [kind |-> kind, m |-> m]
Holds(s, line) == \E i \in 1..Len(file[s]) : file[s][i] = line

\* A row: its ends, whether it holds the call and whether it is named by the
\* message, whether it holds the arrival, and whether the send was refused.
Row == [m : Send, sender : Session \cup {Nobody}, call : BOOLEAN, named : BOOLEAN,
        recipient : Session \cup {Nobody}, got : BOOLEAN, error : BOOLEAN]

Init ==
    /\ file = [s \in Session |-> <<>>]
    /\ fate = [m \in Send |-> "none"] /\ rewrites = 0
    /\ cursor = [s \in Session |-> 0] /\ started = {}
    /\ rows = {}
    /\ heard = [m \in Send |-> [from |-> {}, to |-> {}]]

----
(***************************************************************************)
(* The sessions.                                                           *)
(***************************************************************************)
\* A transcript that was cut is read before it grows: one that outgrew its
\* cursor first could not be told from one that only grew.
Appends(s, line) == Len(file[s]) >= cursor[s] /\ file' = [file EXCEPT ![s] = Append(@, line)]

Calls(m, answer) ==
    /\ fate[m] = "none" /\ fate' = [fate EXCEPT ![m] = answer]
    /\ Appends(Origin[m], L("call", m))
    /\ UNCHANGED <<rewrites, scanVars>>

Answers(m) ==
    /\ Holds(Origin[m], L("call", m)) /\ ~Holds(Origin[m], L(fate[m], m))
    /\ Appends(Origin[m], L(fate[m], m))
    /\ UNCHANGED <<fate, rewrites, scanVars>>

\* The message arrives, before or after its sender has the answer.
Receives(m) ==
    /\ fate[m] = "sent" /\ ~Holds(Target[m], L("received", m))
    /\ Appends(Target[m], L("received", m))
    /\ UNCHANGED <<fate, rewrites, scanVars>>

\* A session is forked: its lines are copied.
Forks(f, s) ==
    /\ f \in Fork /\ s < f /\ file[f] = <<>> /\ file[s] # <<>>
    /\ file' = [file EXCEPT ![f] = file[s]]
    /\ UNCHANGED <<fate, rewrites, scanVars>>

\* A transcript is written again without its last line.
Rewrites(s) ==
    /\ rewrites < MaxRewrites /\ rewrites' = rewrites + 1
    /\ Len(file[s]) > 1 /\ file' = [file EXCEPT ![s] = SubSeq(@, 1, Len(@) - 1)]
    /\ UNCHANGED <<fate, scanVars>>

----
(***************************************************************************)
(* The scan.                                                               *)
(***************************************************************************)
\* Of two sessions that hold the same line, the one that starts first; one
\* whose start is not known comes last.
First(known, one, other) ==
    one = other \/ other \notin known \/ (one \in known /\ one < other)

Named(R, m) == {r \in R : r.m = m /\ r.named}
Mine(R, s, m) == {r \in R : r.m = m /\ r.sender = s /\ r.call}
Pending(R, s) == {m \in Send : \E r \in Mine(R, s, m) : ~r.named /\ ~r.error}

NewSend(s, m) ==
    [m |-> m, sender |-> s, call |-> TRUE, named |-> FALSE, recipient |-> Nobody, got |-> FALSE, error |-> FALSE]
NewReceived(s, m) ==
    [m |-> m, sender |-> Nobody, call |-> FALSE, named |-> TRUE, recipient |-> s, got |-> TRUE, error |-> FALSE]

OnSend(R, s, m) == IF Mine(R, s, m) # {} THEN R ELSE R \cup {NewSend(s, m)}

\* The answer names the message: the row of the call takes the name, or goes
\* into the row that has it, whose sender it becomes unless that one is earlier.
\* Mutation: the row that was there keeps its sender.
MutOnSent(R, known, s, m) ==
    IF \E r \in Mine(R, s, m) : r.named THEN R
    ELSE IF Named(R, m) = {} THEN {IF r \in Mine(R, s, m) THEN [r EXCEPT !.named = TRUE] ELSE r : r \in R}
    ELSE {IF r.m = m /\ r.named /\ r.sender = Nobody
          THEN [r EXCEPT !.sender = s, !.call = TRUE] ELSE r : r \in R \ Mine(R, s, m)}
OnSent(R, known, s, m) ==
    IF \E r \in Mine(R, s, m) : r.named THEN R
    ELSE IF Named(R, m) = {} THEN {IF r \in Mine(R, s, m) THEN [r EXCEPT !.named = TRUE] ELSE r : r \in R}
    ELSE {IF r.m = m /\ r.named /\ (r.sender = Nobody \/ First(known, s, r.sender))
          THEN [r EXCEPT !.sender = s, !.call = TRUE] ELSE r : r \in R \ Mine(R, s, m)}

\* A call answered without a name: refused, or to an agent of the session.
OnAnswered(R, s, m, refused) ==
    LET mine == {r \in Mine(R, s, m) : ~r.named}
    IN  (R \ mine) \cup (IF refused THEN {[r EXCEPT !.error = TRUE] : r \in mine} ELSE {})

\* The arrival goes into the row of the message, whose recipient it becomes
\* unless that one is earlier.
\* Mutation: a row of the same session is looked for.
MutOnReceived(R, known, s, m) ==
    IF \E r \in Named(R, m) : r.recipient \in {s, Nobody} THEN {IF r.m = m /\ r.named THEN [r EXCEPT !.recipient = s, !.got = TRUE] ELSE r : r \in R}
    ELSE R \cup {NewReceived(s, m)}
OnReceived(R, known, s, m) ==
    IF Named(R, m) = {} THEN R \cup {NewReceived(s, m)}
    ELSE {IF r.m = m /\ r.named /\ (r.recipient = Nobody \/ First(known, s, r.recipient))
          THEN [r EXCEPT !.recipient = s, !.got = TRUE] ELSE r : r \in R}

\* One line of session s: an answer counts for a call that waits for it.
Ingest(w, known, s, line) ==
    LET m == line.m
        answered == [w EXCEPT !.waiting = @ \ {m}]
    IN  CASE line.kind = "call" ->
                 [w EXCEPT !.rows = OnSend(@, s, m), !.waiting = @ \cup {m}]
          [] line.kind = "received" -> [w EXCEPT !.rows = OnReceived(@, known, s, m)]
          [] line.kind \in Answer /\ m \notin w.waiting -> w
          [] line.kind = "sent" /\ m \in w.waiting ->
                 [answered EXCEPT !.rows = OnSent(@, known, s, m)]
          [] line.kind \in {"handed", "refused"} /\ m \in w.waiting ->
                 [answered EXCEPT !.rows = OnAnswered(@, s, m, line.kind = "refused")]

\* scan_peer_messages and _ingest: the lines after the cursor, in order, for the
\* calls that wait for an answer since an earlier pass.
\* Mutation: only answers to calls of the same pass are looked for.
MutIngested(s, lines, known) ==
    LET after[i \in 0..Len(lines)] ==
            IF i = 0 THEN [rows |-> rows, waiting |-> {}]
            ELSE Ingest(after[i - 1], known, s, lines[i])
    IN  after[Len(lines)].rows
Ingested(s, lines, known) ==
    LET after[i \in 0..Len(lines)] ==
            IF i = 0 THEN [rows |-> rows, waiting |-> Pending(rows, s)]
            ELSE Ingest(after[i - 1], known, s, lines[i])
    IN  after[Len(lines)].rows

\* The rows a pass touched: those of the calls and messages it read of.
Touched(R, s, lines) ==
    LET of == {lines[i].m : i \in 1..Len(lines)}
    IN  {r \in R : r.m \in of /\ (r.named \/ r.sender = s)}

\* _resolve_from_roster: an end nobody's transcript named, from the processes
\* that live now; which of them do is anybody's guess.
Resolve(r) ==
    [r EXCEPT !.sender = IF @ = Nobody /\ r.got THEN SocketOf[r.m] ELSE @,
              !.recipient = IF @ = Nobody /\ r.call THEN LabelOf[r.m] ELSE @]

\* _read_session: the next n lines of a transcript whose size is not its
\* cursor; all of it again when it is shorter.
ReadSession(s, n, live) ==
    LET from == IF Len(file[s]) < cursor[s] THEN 0 ELSE cursor[s]
        lines == SubSeq(file[s], from + 1, from + n)
        known == IF from = 0 THEN started \cup {s} ELSE started
        read == Ingested(s, lines, known)
        found == Touched(read, s, lines)
        resolved == {IF r.m \in live THEN Resolve(r) ELSE r : r \in found}
    IN  /\ Len(file[s]) # cursor[s] /\ from + n <= Len(file[s])
        /\ cursor' = [cursor EXCEPT ![s] = from + n]
        /\ started' = known
        /\ rows' = (read \ found) \cup resolved
        /\ heard' = [m \in Send |->
               [from |-> heard[m].from \cup (IF \E i \in 1..n : lines[i] = L("sent", m) THEN {s} ELSE {}),
                to |-> heard[m].to \cup (IF \E i \in 1..n : lines[i] = L("received", m) THEN {s} ELSE {})]]
        /\ UNCHANGED worldVars

Next ==
    \/ \E m \in Send : Answers(m) \/ Receives(m) \/ \E answer \in Answer : Calls(m, answer)
    \/ \E f \in Fork, s \in Session : Forks(f, s)
    \/ \E s \in Session : Rewrites(s)
    \/ \E s \in Session, live \in SUBSET Send : \E n \in 1..Len(file[s]) : ReadSession(s, n, live)

Spec == Init /\ [][Next]_vars

----
TypeOK ==
    /\ file \in [Session -> Seq(Line)] /\ fate \in [Send -> Answer \cup {"none"}] /\ rewrites \in 0..MaxRewrites
    /\ cursor \in [Session -> Nat] /\ started \subseteq Session /\ rows \subseteq Row
    /\ heard \in [Send -> [from : SUBSET Session, to : SUBSET Session]]
    /\ \A r, q \in rows : r.m = q.m /\ r # q => ~(r.named /\ q.named) /\ ~(r.call /\ q.call /\ r.sender = q.sender)

\* The rows keep what the journal of messages promises, in whatever order and
\* pieces the transcripts of a session and of its forks are read; an end the
\* roster gave to a session before its writer is the one that is not set right.
Confirmed(m, R) ==
    [from |-> IF \E r \in R : r.call THEN (CHOOSE r \in R : r.call).sender ELSE Nobody,
     to |-> IF \E r \in R : r.got THEN (CHOOSE r \in R : r.got).recipient ELSE Nobody]
Journal == INSTANCE MessageJournal WITH
               ends <- [m \in Send |-> Confirmed(m, Named(rows, m))],
               Roster <- [m \in Send |-> [from |-> SocketOf[m], to |-> LabelOf[m]]]
KeepsTheJournal == Journal!Spec

\* A call whose answer was read does not go on waiting for it.
Read(s, line) == \E i \in 1..cursor[s] : i <= Len(file[s]) /\ file[s][i] = line
NoAnswerIsMissed ==
    \A s \in Session, m \in Send :
        cursor[s] <= Len(file[s]) /\ (\E a \in Answer : Read(s, L(a, m))) => m \notin Pending(rows, s)
====
