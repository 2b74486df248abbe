---- MODULE PeerMessagesProofs ----
(***************************************************************************)
(* Proofs about PeerMessages, for any sessions, forks, messages, rosters   *)
(* and rewrites: the types; no answer is missed; and the rows keep what    *)
(* the journal of messages promises.                                       *)
(***************************************************************************)
EXTENDS PeerMessages, WellFoundedInduction, TLAPS

----
(***************************************************************************)
(* The invariant.                                                          *)
(***************************************************************************)
\* A roster may leave an end open or name a session too late, a fork: the
\* transcripts correct both. A session before the writer stands for good.
SenderFits(m) == SocketOf[m] = Nobody \/ Origin[m] <= SocketOf[m]
RecipientFits(m) == LabelOf[m] = Nobody \/ Target[m] <= LabelOf[m]

Types ==
    /\ file \in [Session -> Seq(Line)] /\ fate \in [Send -> Answer \cup {"none"}] /\ rewrites \in 0..MaxRewrites
    /\ cursor \in [Session -> Nat] /\ started \subseteq Session
    /\ heard \in [Send -> [from : SUBSET Session, to : SUBSET Session]]

\* What is among the first k lines of a transcript.
Among(lines, k, line) == \E i \in 1..k : i <= Len(lines) /\ lines[i] = line

\* A line is in the transcript of its writer or of a fork; an answer is the
\* one the call has, and comes after the call, never before.
Lines ==
    \A s \in Session : \A i \in 1..Len(file[s]) :
        LET line == file[s][i]
            m == line.m
        IN  /\ line.kind = "received" => Target[m] <= s
            /\ line.kind # "received" => Origin[m] <= s /\ fate[m] # "none"
            /\ line.kind \in Answer => line.kind = fate[m] /\ Among(file[s], i, L("call", m))
            /\ line.kind = "call" => \A a \in Answer : ~Among(file[s], i, L(a, m))

Cursors == \A s \in Session : cursor[s] > 0 => s \in started /\ file[s] # <<>>

Unique(R) ==
    \A r, q \in R : r.m = q.m /\ r # q => ~(r.named /\ q.named) /\ ~(r.call /\ q.call /\ r.sender = q.sender)

\* No row names an end earlier than the writer of the line, unless the roster did.
RowOK(r) ==
    /\ r.call => r.sender # Nobody
    /\ r.got => r.named /\ r.recipient # Nobody
    /\ r.error => fate[r.m] = "refused"
    /\ SenderFits(r.m) /\ r.sender # Nobody => Origin[r.m] <= r.sender
    /\ RecipientFits(r.m) /\ r.recipient # Nobody => Target[r.m] <= r.recipient

RowsOK(R) == R \subseteq Row /\ Unique(R) /\ \A r \in R : RowOK(r)

\* The rows R against H, what the transcripts read so far hold: an end that is
\* confirmed is one of its holders, and the writer once it is among them, unless
\* the roster named another one before the writer.
EndsAt(R, held, known, m) ==
    /\ \A r \in Named(R, m) : r.call => r.sender \in held.from \cap known
    /\ \A r \in Named(R, m) : r.got => r.recipient \in held.to \cap known
    /\ SenderFits(m) /\ Origin[m] \in held.from => \E r \in Named(R, m) : r.call /\ r.sender = Origin[m]
    /\ RecipientFits(m) /\ Target[m] \in held.to => \E r \in Named(R, m) : r.got /\ r.recipient = Target[m]
EndsOK(R, H, known) == \A m \in Send : EndsAt(R, H[m], known, m)

Settled == {"handed", "refused"}

\* A call that was read waits for its answer, or has it.
AskedInv ==
    \A s \in Session, m \in Send :
        Among(file[s], cursor[s], L("call", m)) => m \in Pending(rows, s) \/ s \in heard[m].from \/ fate[m] \in Settled
AnsweredInv ==
    \A s \in Session, m \in Send, a \in Answer : Among(file[s], cursor[s], L(a, m)) => m \notin Pending(rows, s)

IInv ==
    /\ Types /\ Lines /\ Cursors
    /\ RowsOK(rows) /\ EndsOK(rows, heard, started)
    /\ AskedInv /\ AnsweredInv

----
(***************************************************************************)
(* The sessions.                                                           *)
(***************************************************************************)
\* What the constants are.
LEMMA Constants ==
  /\ \A s \in Session : s \in Nat /\ s # Nobody /\ s <= s
  /\ Fork \subseteq Session /\ MaxRewrites \in Nat
  /\ \A m \in Send : Origin[m] \in Session /\ Target[m] \in Session
  /\ \A m \in Send : SocketOf[m] \in Session \cup {Nobody} /\ LabelOf[m] \in Session \cup {Nobody}
BY PeerAssumption DEF PeerAssumption

\* It holds at the start.
LEMMA InitInv == Init => IInv
<1> SUFFICES ASSUME Init PROVE IInv
  OBVIOUS
<1>1. Types
  BY Constants DEF Init, Types
<1>2. Lines /\ Cursors /\ \A s \in Session : \A line : ~Among(file[s], cursor[s], line)
  BY DEF Init, Lines, Cursors, Among
<1>3. RowsOK(rows) /\ EndsOK(rows, heard, started)
  BY DEF Init, RowsOK, Unique, EndsOK, EndsAt, Named
<1> QED BY <1>1, <1>2, <1>3 DEF IInv, AskedInv, AnsweredInv

\* The sessions leave the scan's part alone when no line before a cursor changes.
LEMMA WorldKeeps ==
  ASSUME IInv, Types', Lines', Cursors', UNCHANGED scanVars,
         \A m \in Send : fate[m] = "none" \/ fate'[m] = fate[m],
         \A s \in Session, m \in Send, kind \in {"call"} \cup Answer :
            Among(file'[s], cursor[s], L(kind, m)) => Among(file[s], cursor[s], L(kind, m))
  PROVE  IInv'
<1> USE DEF IInv, scanVars
<1>1. RowsOK(rows)'
  <2>1. \A r \in rows : r.m \in Send /\ RowOK(r)
    BY DEF RowsOK, Row
  <2>2. \A r \in rows : RowOK(r)'
    <3> TAKE r \in rows
    <3>1. r.m \in Send /\ RowOK(r)
      BY <2>1
    <3>2. r.error => fate'[r.m] = "refused"
      BY <3>1 DEF RowOK
    <3> QED BY <3>1, <3>2 DEF RowOK
  <2> QED BY <2>2 DEF RowsOK, Unique
<1>2. EndsOK(rows, heard, started)'
  BY DEF EndsOK
<1>3. AskedInv'
  <2> SUFFICES ASSUME NEW s \in Session, NEW m \in Send, Among(file'[s], cursor[s], L("call", m))
               PROVE  m \in Pending(rows, s)' \/ s \in heard'[m].from \/ fate'[m] \in Settled
    BY DEF AskedInv
  <2>1. m \in Pending(rows, s) \/ s \in heard[m].from \/ fate[m] \in Settled
    BY DEF AskedInv
  <2>2. Pending(rows, s)' = Pending(rows, s)
    BY DEF Pending, Mine
  <2> QED BY <2>1, <2>2 DEF Settled
<1>4. AnsweredInv'
  <2> SUFFICES ASSUME NEW s \in Session, NEW m \in Send, NEW a \in Answer, Among(file'[s], cursor[s], L(a, m))
               PROVE  m \notin Pending(rows, s)'
    BY DEF AnsweredInv
  <2>1. Pending(rows, s)' = Pending(rows, s)
    BY DEF Pending, Mine
  <2> QED BY <2>1 DEF AnsweredInv
<1> QED BY <1>1, <1>2, <1>3, <1>4

\* What a transcript that grew by a line holds.
LEMMA AppendIsRead ==
  ASSUME Types, NEW s \in Session, NEW line \in Line, Appends(s, line)
  PROVE  /\ file' \in [Session -> Seq(Line)]
         /\ \A t \in Session : t # s => file'[t] = file[t]
         /\ Len(file'[s]) = Len(file[s]) + 1 /\ Len(file[s]) \in Nat
         /\ \A i \in 1..Len(file[s]) : file'[s][i] = file[s][i]
         /\ file'[s][Len(file[s]) + 1] = line
         /\ Len(file[s]) >= cursor[s]
BY DEF Types, Appends

\* A line that is appended is behind every cursor, so what was read stays what it was.
LEMMA AppendKeepsSeen ==
  ASSUME Types, NEW s \in Session, NEW line \in Line, Appends(s, line),
         NEW t \in Session, NEW k \in Nat, t = s => k <= Len(file[s]), NEW x
  PROVE  Among(file'[t], k, x) = Among(file[t], k, x)
<1>1. Among(file'[t], k, x) = \E i \in 1..k : i <= Len(file'[t]) /\ file'[t][i] = x
  BY DEF Among
<1>2. CASE t # s
  BY <1>1, <1>2, AppendIsRead DEF Among
<1>3. CASE t = s
  <2>1. \A i \in 1..k : i <= Len(file'[s]) /\ i <= Len(file[s]) /\ i \in 1..Len(file[s])
    BY <1>3, AppendIsRead
  <2>2. \A i \in 1..k : file'[s][i] = file[s][i]
    BY <2>1, AppendIsRead
  <2> QED BY <1>1, <1>3, <2>1, <2>2 DEF Among
<1> QED BY <1>2, <1>3

\* A line may be appended that its writer may write now.
LEMMA AppendKeeps ==
  ASSUME IInv, NEW s \in Session, NEW line \in Line, Appends(s, line),
         fate' \in [Send -> Answer \cup {"none"}],
         UNCHANGED <<rewrites, scanVars>>,
         \A m \in Send : fate[m] = "none" \/ fate'[m] = fate[m],
         line.kind = "received" => Target[line.m] <= s,
         line.kind # "received" => Origin[line.m] <= s /\ fate'[line.m] # "none",
         line.kind \in Answer => line.kind = fate'[line.m] /\ Among(file[s], Len(file[s]), L("call", line.m)),
         line.kind = "call" => \A a \in Answer : ~Among(file[s], Len(file[s]), L(a, line.m))
  PROVE  IInv'
<1> USE DEF IInv
<1>1. Types'
  BY AppendIsRead DEF Types, scanVars
<1>2. Cursors'
  BY AppendIsRead DEF Cursors, scanVars, Types
<1>3. Lines'
  <2> SUFFICES ASSUME NEW t \in Session, NEW i \in 1..Len(file'[t])
               PROVE  LET l == file'[t][i]
                          m == l.m
                      IN  /\ l.kind = "received" => Target[m] <= t
                          /\ l.kind # "received" => Origin[m] <= t /\ fate'[m] # "none"
                          /\ l.kind \in Answer => l.kind = fate'[m] /\ Among(file'[t], i, L("call", m))
                          /\ l.kind = "call" => \A a \in Answer : ~Among(file'[t], i, L(a, m))
    BY DEF Lines
  <2>1. CASE t # s \/ i <= Len(file[s])
    <3>1. i \in 1..Len(file[t]) /\ file'[t][i] = file[t][i] /\ file[t][i] \in Line
      BY <2>1, AppendIsRead DEF Types
    <3>2. \A x : Among(file'[t], i, x) = Among(file[t], i, x)
      BY <2>1, AppendKeepsSeen
    <3>3. file[t][i].m \in Send
      BY <3>1 DEF Line
    <3>4. fate[file[t][i].m] # "none" => fate'[file[t][i].m] = fate[file[t][i].m]
      BY <3>3
    <3>5. file[t][i].kind \in Answer => file[t][i].kind # "received"
      BY DEF Answer
    <3> QED BY <3>1, <3>2, <3>4, <3>5 DEF Lines
  <2>2. CASE t = s /\ i = Len(file[s]) + 1
    <3>1. file'[t][i] = line /\ line.m \in Send
      BY <2>2, AppendIsRead DEF Line
    <3>2. \A x : Among(file'[s], Len(file[s]), x) = Among(file[s], Len(file[s]), x)
      <4>1. Len(file[s]) \in Nat /\ Len(file[s]) <= Len(file[s])
        BY AppendIsRead
      <4> QED BY <4>1, AppendKeepsSeen
    <3>3. \A x : Among(file'[s], Len(file[s]), x) => Among(file'[t], i, x)
      BY <2>2, AppendIsRead DEF Among
    <3>4. \A x : x # line => (Among(file'[t], i, x) => Among(file'[s], Len(file[s]), x))
      BY <2>2, <3>1, AppendIsRead DEF Among
    <3>5. line.kind = "call" => \A a \in Answer : L(a, line.m) # line
      BY DEF L, Answer
    <3> QED BY <2>2, <3>1, <3>2, <3>3, <3>4, <3>5
  <2> QED BY <2>1, <2>2, AppendIsRead
<1>4. \A t \in Session, m \in Send, kind \in {"call"} \cup Answer :
         Among(file'[t], cursor[t], L(kind, m)) => Among(file[t], cursor[t], L(kind, m))
  <2> TAKE t \in Session, m \in Send, kind \in {"call"} \cup Answer
  <2>1. cursor[t] \in Nat /\ (t = s => cursor[t] <= Len(file[s])) /\ cursor' = cursor
    BY AppendIsRead DEF Types, scanVars
  <2> QED BY <2>1, AppendKeepsSeen
<1> QED BY <1>1, <1>2, <1>3, <1>4, WorldKeeps

\* A call is appended.
LEMMA CallsKeeps == ASSUME IInv, NEW m \in Send, NEW answer \in Answer, Calls(m, answer) PROVE IInv'
<1>1. L("call", m) \in Line /\ L("call", m).m = m /\ L("call", m).kind = "call" /\ Origin[m] \in Session /\ Origin[m] <= Origin[m]
  BY Constants DEF L, Line
<1>2. \A a \in Answer : ~Among(file[Origin[m]], Len(file[Origin[m]]), L(a, m))
  <2> SUFFICES ASSUME NEW a \in Answer, NEW i \in 1..Len(file[Origin[m]]), file[Origin[m]][i] = L(a, m) PROVE FALSE
    BY DEF Among
  <2>1. fate[m] = "none"
    BY DEF Calls
  <2>2. L(a, m).m = m /\ L(a, m).kind = a /\ a # "received" /\ a # "none"
    BY DEF L, Answer
  <2> QED BY <1>1, <2>1, <2>2 DEF IInv, Lines
<1>3. fate' \in [Send -> Answer \cup {"none"}] /\ fate'[m] # "none" /\ \A mm \in Send : fate[mm] = "none" \/ fate'[mm] = fate[mm]
  BY DEF Calls, IInv, Types, Answer
<1>4. Appends(Origin[m], L("call", m)) /\ UNCHANGED <<rewrites, scanVars>>
  BY DEF Calls
<1>5. "call" \notin Answer /\ "call" # "received"
  BY DEF Answer
<1> QED BY <1>1, <1>2, <1>3, <1>4, <1>5, AppendKeeps

\* An answer is appended, after its call.
LEMMA AnswersKeeps == ASSUME IInv, NEW m \in Send, Answers(m) PROVE IInv'
<1>1. Origin[m] \in Session /\ Origin[m] <= Origin[m]
  BY Constants
<1>2. PICK i \in 1..Len(file[Origin[m]]) : file[Origin[m]][i] = L("call", m)
  BY DEF Answers, Holds
<1>3. fate[m] \in Answer
  <2>1. L("call", m).m = m /\ L("call", m).kind # "received"
    BY DEF L
  <2>2. fate[m] # "none"
    BY <1>1, <1>2, <2>1 DEF IInv, Lines
  <2> QED BY <2>2 DEF IInv, Types
<1>4. Among(file[Origin[m]], Len(file[Origin[m]]), L("call", m))
  BY <1>2 DEF Among
<1>5. L(fate[m], m) \in Line /\ L(fate[m], m).m = m /\ L(fate[m], m).kind = fate[m]
  BY <1>3 DEF L, Line
<1>6. Appends(Origin[m], L(fate[m], m)) /\ UNCHANGED <<rewrites, scanVars>> /\ fate' = fate
  BY DEF Answers
<1>7. fate[m] \notin {"call", "received", "none"}
  BY <1>3 DEF Answer
<1> QED BY <1>1, <1>3, <1>4, <1>5, <1>6, <1>7, AppendKeeps DEF IInv, Types

\* A message arrives.
LEMMA ReceivesKeeps == ASSUME IInv, NEW m \in Send, Receives(m) PROVE IInv'
<1>1. Target[m] \in Session /\ Target[m] <= Target[m]
  BY Constants
<1>2. L("received", m) \in Line /\ L("received", m).m = m /\ L("received", m).kind = "received"
  BY DEF L, Line
<1>3. "received" \notin Answer
  BY DEF Answer
<1>4. Appends(Target[m], L("received", m)) /\ UNCHANGED <<rewrites, scanVars>> /\ fate' = fate
  BY DEF Receives
<1> QED BY <1>1, <1>2, <1>3, <1>4, AppendKeeps DEF IInv, Types

\* A copy holds what its original does, and its session comes later.
LEMMA ForksKeeps == ASSUME IInv, NEW f \in Fork, NEW s \in Session, Forks(f, s) PROVE IInv'
<1> USE DEF IInv
<1>1. f \in Session /\ s < f /\ file[f] = <<>> /\ file[s] # <<>> /\ file' = [file EXCEPT ![f] = file[s]]
  /\ UNCHANGED <<fate, rewrites, scanVars>> /\ \A m \in Send : Origin[m] \in Nat /\ Target[m] \in Nat
  BY Constants DEF Forks
<1>2. f \in Nat /\ s \in Nat
  BY <1>1, Constants
<1>3. Types'
  BY <1>1 DEF Types, scanVars
<1>4. cursor[f] = 0
  BY <1>1 DEF Cursors, Types
<1>5. Cursors'
  BY <1>1, <1>4 DEF Cursors, Types, scanVars
<1>6. file'[f] = file[s] /\ \A t \in Session : t # f => file'[t] = file[t]
  BY <1>1 DEF Types
<1>7. Lines'
  <2> SUFFICES ASSUME NEW t \in Session, NEW i \in 1..Len(file'[t])
               PROVE  LET l == file'[t][i]
                          m == l.m
                      IN  /\ l.kind = "received" => Target[m] <= t
                          /\ l.kind # "received" => Origin[m] <= t /\ fate[m] # "none"
                          /\ l.kind \in Answer => l.kind = fate[m] /\ Among(file'[t], i, L("call", m))
                          /\ l.kind = "call" => \A a \in Answer : ~Among(file'[t], i, L(a, m))
    BY <1>1 DEF Lines
  <2>1. CASE t # f
    BY <2>1, <1>6 DEF Lines
  <2>2. CASE t = f
    <3>1. i \in 1..Len(file[s]) /\ file'[t] = file[s] /\ file'[t][i] \in Line
      BY <2>2, <1>6 DEF Types
    <3>3. file'[t][i].m \in Send
      BY <3>1 DEF Line
    <3>2. \A m \in Send : (Target[m] <= s => Target[m] <= t) /\ (Origin[m] <= s => Origin[m] <= t)
      BY <1>1, <1>2, <2>2
    <3> QED BY <3>1, <3>2, <3>3 DEF Lines
  <2> QED BY <2>1, <2>2
<1>8. \A t \in Session, m \in Send, kind \in {"call"} \cup Answer :
         Among(file'[t], cursor[t], L(kind, m)) => Among(file[t], cursor[t], L(kind, m))
  BY <1>4, <1>6 DEF Among
<1> QED BY <1>1, <1>3, <1>5, <1>7, <1>8, WorldKeeps

\* A transcript loses its last line.
LEMMA RewritesKeeps == ASSUME IInv, NEW s \in Session, Rewrites(s) PROVE IInv'
<1> USE DEF IInv
<1>1. UNCHANGED <<fate, scanVars>> /\ rewrites' \in 0..MaxRewrites /\ file' \in [Session -> Seq(Line)]
  BY Constants DEF Rewrites, Types
<1>2. \A t \in Session : t # s => file'[t] = file[t]
  BY DEF Rewrites, Types
<1>3. /\ Len(file[s]) > 1 /\ Len(file'[s]) = Len(file[s]) - 1 /\ Len(file[s]) \in Nat
      /\ \A i \in 1..Len(file'[s]) : file'[s][i] = file[s][i]
  <2>1. Len(file[s]) \in Nat /\ Len(file[s]) > 1 /\ file[s] \in Seq(Line)
    BY DEF Rewrites, Types
  <2>2. file'[s] = SubSeq(file[s], 1, Len(file[s]) - 1)
    BY DEF Rewrites, Types
  <2> QED BY <2>1, <2>2
<1>4. Types'
  BY <1>1 DEF Types, scanVars
<1>5. Cursors'
  BY <1>1, <1>2, <1>3 DEF Cursors, Types, scanVars
<1>6. \A t \in Session : \A k \in Nat : \A x : k <= Len(file'[t]) => Among(file'[t], k, x) = Among(file[t], k, x)
  <2> TAKE t \in Session
  <2> TAKE k \in Nat
  <2>1. CASE t # s
    BY <2>1, <1>2
  <2>2. CASE t = s
    <3> SUFFICES ASSUME NEW x, k <= Len(file'[s]) PROVE Among(file'[s], k, x) = Among(file[s], k, x)
      BY <2>2
    <3>1. \A i \in 1..k : i <= Len(file'[s]) /\ i <= Len(file[s]) /\ file'[s][i] = file[s][i]
      BY <1>3
    <3> QED BY <3>1 DEF Among
  <2> QED BY <2>1, <2>2
<1>7. Lines'
  <2> SUFFICES ASSUME NEW t \in Session, NEW i \in 1..Len(file'[t])
               PROVE  LET l == file'[t][i]
                          m == l.m
                      IN  /\ l.kind = "received" => Target[m] <= t
                          /\ l.kind # "received" => Origin[m] <= t /\ fate[m] # "none"
                          /\ l.kind \in Answer => l.kind = fate[m] /\ Among(file'[t], i, L("call", m))
                          /\ l.kind = "call" => \A a \in Answer : ~Among(file'[t], i, L(a, m))
    BY <1>1 DEF Lines
  <2>1. i \in 1..Len(file[t]) /\ file'[t][i] = file[t][i]
    BY <1>2, <1>3
  <2>2. \A x : Among(file'[t], i, x) = Among(file[t], i, x)
    BY <1>1, <1>6
  <2> QED BY <2>1, <2>2 DEF Lines
<1>8. \A t \in Session, m \in Send, kind \in {"call"} \cup Answer :
         Among(file'[t], cursor[t], L(kind, m)) => Among(file[t], cursor[t], L(kind, m))
  <2> TAKE t \in Session, m \in Send, kind \in {"call"} \cup Answer
  <2>1. \A i \in 1..Len(file'[t]) : i <= Len(file[t]) /\ file'[t][i] = file[t][i]
    BY <1>2, <1>3
  <2>2. \A i \in 1..cursor[t] : i <= Len(file'[t]) => i \in 1..Len(file'[t])
    BY <1>1 DEF Types
  <2> QED BY <2>1, <2>2 DEF Among
<1> QED BY <1>1, <1>4, <1>5, <1>7, <1>8, WorldKeeps

----
(***************************************************************************)
(* The scan: what one line does to the rows.                               *)
(***************************************************************************)
\* No confirmed end is lost, or goes to a later session.
Forth(R, Q) ==
    \A r \in R : r.named =>
        \E q \in Q : /\ q.m = r.m /\ q.named
                     /\ r.call => q.call /\ q.sender <= r.sender
                     /\ r.got => q.got /\ q.recipient <= r.recipient

\* A line of s about m changes rows of m, but for a call of another session
\* that waits, and leaves the rows right for what is held now, G.
Keeps(R, Q, G, known, s, m) ==
    /\ RowsOK(Q) /\ EndsOK(Q, G, known) /\ Forth(R, Q)
    /\ \A r \in Row : r.m # m \/ (~r.named /\ r.sender # s) => (r \in Q <=> r \in R)

\* Only the rows of m need a look.
LEMMA EndsByMessage ==
  ASSUME NEW R \in SUBSET Row, NEW Q \in SUBSET Row, NEW m \in Send, NEW H, NEW G, NEW known,
         EndsOK(R, H, known),
         \A r \in Row : r.m # m => (r \in Q <=> r \in R),
         \A mm \in Send : mm # m => G[mm] = H[mm],
         EndsAt(Q, G[m], known, m)
  PROVE  EndsOK(Q, G, known)
<1> SUFFICES ASSUME NEW mm \in Send, mm # m PROVE EndsAt(Q, G[mm], known, mm)
  BY DEF EndsOK
<1>1. Named(Q, mm) = Named(R, mm)
  BY DEF Named
<1>2. EndsAt(R, G[mm], known, mm)
  BY DEF EndsOK
<1> QED BY <1>1, <1>2 DEF EndsAt

\* What the one named row has to say.
LEMMA EndsOfOne ==
  ASSUME NEW Q, NEW m, NEW held, NEW known, NEW n, Named(Q, m) = {n},
         n.call => n.sender \in held.from \cap known,
         n.got => n.recipient \in held.to \cap known,
         SenderFits(m) /\ Origin[m] \in held.from => n.call /\ n.sender = Origin[m],
         RecipientFits(m) /\ Target[m] \in held.to => n.got /\ n.recipient = Target[m]
  PROVE  EndsAt(Q, held, known, m)
BY DEF EndsAt

\* A row in place of some.
LEMMA SwapKeepsRows ==
  ASSUME NEW R, RowsOK(R), NEW D, NEW n \in Row, RowOK(n),
         \A r \in R \ D : r.m = n.m /\ r # n => ~(r.named /\ n.named) /\ ~(r.call /\ n.call /\ r.sender = n.sender)
  PROVE  RowsOK((R \ D) \cup {n}) /\ RowsOK(R \ D)
BY DEF RowsOK, Unique

\* Going forth is a preorder.
LEMMA ForthRefl == ASSUME NEW R, R \subseteq Row PROVE Forth(R, R)
<1>1. \A r \in R : (r.sender \in Nat => r.sender <= r.sender) /\ (r.recipient \in Nat => r.recipient <= r.recipient)
  OBVIOUS
<1>2. \A r \in R : r.sender \in Nat /\ r.recipient \in Nat
  BY Constants DEF Row, Nobody
<1> QED BY <1>1, <1>2 DEF Forth

\* Going forth twice is going forth.
LEMMA ForthTrans ==
  ASSUME NEW R \in SUBSET Row, NEW Q \in SUBSET Row, NEW T \in SUBSET Row, Forth(R, Q), Forth(Q, T)
  PROVE  Forth(R, T)
<1>1. \A r \in Row : r.sender \in Nat /\ r.recipient \in Nat
  BY Constants DEF Row, Nobody
<1> SUFFICES ASSUME NEW r \in R, r.named
             PROVE  \E q \in T : /\ q.m = r.m /\ q.named
                                 /\ r.call => q.call /\ q.sender <= r.sender
                                 /\ r.got => q.got /\ q.recipient <= r.recipient
  BY DEF Forth
<1>2. PICK q \in Q : /\ q.m = r.m /\ q.named
                     /\ r.call => q.call /\ q.sender <= r.sender
                     /\ r.got => q.got /\ q.recipient <= r.recipient
  BY DEF Forth
<1>3. PICK x \in T : /\ x.m = q.m /\ x.named
                     /\ q.call => x.call /\ x.sender <= q.sender
                     /\ q.got => x.got /\ x.recipient <= q.recipient
  BY <1>2 DEF Forth
<1>4. r.call => x.call /\ x.sender <= r.sender
  BY <1>1, <1>2, <1>3
<1>5. r.got => x.got /\ x.recipient <= r.recipient
  BY <1>1, <1>2, <1>3
<1> QED BY <1>2, <1>3, <1>4, <1>5

\* A call: a row of its own, unless the session has one.
LEMMA SendKeeps ==
  ASSUME NEW R, RowsOK(R), NEW G, NEW known, EndsOK(R, G, known),
         NEW s \in Session, NEW m \in Send, Origin[m] <= s
  PROVE  Keeps(R, OnSend(R, s, m), G, known, s, m) /\ Mine(OnSend(R, s, m), s, m) # {}
<1>1. R \subseteq Row /\ Forth(R, R)
  BY ForthRefl DEF RowsOK
<1>2. CASE Mine(R, s, m) # {}
  BY <1>1, <1>2 DEF OnSend, Keeps
<1>3. CASE Mine(R, s, m) = {}
  <2> DEFINE n == NewSend(s, m)
             Q == R \cup {n}
  <2>1. n \in Row /\ n.m = m /\ n.sender = s /\ n.call /\ ~n.named /\ ~n.got /\ ~n.error /\ n.recipient = Nobody /\ s # Nobody
    BY Constants DEF NewSend, Row
  <2>2. RowOK(n)
    BY <2>1 DEF RowOK
  <2> HIDE DEF n
  <2>3. RowsOK(Q)
    <3>1. \A r \in R \ {} : r.m = n.m /\ r # n => ~(r.named /\ n.named) /\ ~(r.call /\ n.call /\ r.sender = n.sender)
      BY <1>3, <2>1 DEF Mine
    <3>2. (R \ {}) \cup {n} = Q
      OBVIOUS
    <3> QED BY <2>1, <2>2, <3>1, <3>2, SwapKeepsRows
  <2>4. EndsOK(Q, G, known)
    <3>1. \A mm \in Send : Named(Q, mm) = Named(R, mm)
      BY <2>1 DEF Named
    <3> QED BY <3>1 DEF EndsOK, EndsAt
  <2>5. Forth(R, Q)
    BY <1>1 DEF Forth
  <2>6. \A r \in Row : r.m # m \/ (~r.named /\ r.sender # s) => (r \in Q <=> r \in R)
    BY <2>1
  <2>7. OnSend(R, s, m) = Q
    BY <1>3 DEF OnSend, n
  <2>8. n \in Mine(Q, s, m)
    BY <2>1 DEF Mine
  <2> QED BY <2>3, <2>4, <2>5, <2>6, <2>7, <2>8 DEF Keeps
<1> QED BY <1>2, <1>3

\* There is one row of a call by a session, and one named by a message.
LEMMA OneMine ==
  ASSUME NEW R, RowsOK(R), NEW s, NEW m, NEW r \in Mine(R, s, m)
  PROVE  Mine(R, s, m) = {r}
BY DEF RowsOK, Unique, Mine

\* A message has one row by its name.
LEMMA OneNamed ==
  ASSUME NEW R, RowsOK(R), NEW m, NEW r \in Named(R, m)
  PROVE  Named(R, m) = {r}
BY DEF RowsOK, Unique, Named

\* The answer of a call that waits names its row, or joins it to the one there is.
LEMMA SentKeeps ==
  ASSUME NEW R, RowsOK(R), NEW H, NEW G, NEW known, EndsOK(R, H, known), known \subseteq Session,
         NEW s \in known, NEW m \in Send, Origin[m] <= s, Mine(R, s, m) # {},
         \A mm \in Send : mm # m => G[mm] = H[mm],
         G[m].to = H[m].to, G[m].from = H[m].from \cup {s}
  PROVE  Keeps(R, OnSent(R, known, s, m), G, known, s, m) /\ m \notin Pending(OnSent(R, known, s, m), s)
<1> DEFINE Q == OnSent(R, known, s, m)
<1>1. R \subseteq Row /\ Forth(R, R) /\ s \in Session /\ s # Nobody
  BY ForthRefl, Constants DEF RowsOK
<1>a. \A r \in Row : r.m \in Send /\ r.sender \in Nat /\ r.recipient \in Nat /\ r.named \in BOOLEAN
                     /\ r.call \in BOOLEAN /\ r.got \in BOOLEAN /\ r.error \in BOOLEAN
  BY Constants DEF Row, Nobody
<1>b. Origin[m] \in Nat /\ s \in Nat
  BY <1>1, Constants
<1>2. PICK r0 \in R : r0 \in Mine(R, s, m)
  BY DEF Mine
<1>3. Mine(R, s, m) = {r0} /\ r0.m = m /\ r0.sender = s /\ r0.call /\ r0 \in Row /\ RowOK(r0)
  BY <1>1, <1>2, OneMine DEF Mine, RowsOK
<1>4. CASE r0.named
  <2>1. Q = R
    BY <1>3, <1>4 DEF OnSent
  <2>2. EndsOK(R, G, known)
    <3>1. Named(R, m) = {r0}
      BY <1>3, <1>4, OneNamed DEF Named
    <3>2. EndsAt(R, G[m], known, m)
      BY <1>3, <1>4, <3>1 DEF EndsOK, EndsAt
    <3> QED BY <1>1, <3>2, EndsByMessage
  <2>3. m \notin Pending(R, s)
    BY <1>3, <1>4 DEF Pending
  <2> QED BY <1>1, <2>1, <2>2, <2>3 DEF Keeps
<1>5. CASE ~r0.named /\ Named(R, m) = {}
  <2> DEFINE n == [r0 EXCEPT !.named = TRUE]
  <2>1. n \in Row /\ n.m = m /\ n.sender = s /\ n.call /\ n.named /\ n.got = r0.got /\ n.recipient = r0.recipient /\ n.error = r0.error
    BY <1>3 DEF Row
  <2>2. RowOK(n) /\ ~n.got
    BY <1>3, <1>5, <2>1 DEF RowOK
  <2>3. Q = (R \ {r0}) \cup {n}
    BY <1>2, <1>3, <1>5 DEF OnSent
  <2> HIDE DEF n, Q
  <2>4. \A r \in R \ {r0} : r.m = n.m => ~r.named /\ ~(r.call /\ r.sender = n.sender)
    BY <1>3, <1>5, <2>1 DEF Named, Mine
  <2>5. RowsOK(Q)
    BY <2>1, <2>2, <2>3, <2>4, SwapKeepsRows
  <2>6. \A r \in Row : r.m # m \/ (~r.named /\ r.sender # s) => (r \in Q <=> r \in R)
    BY <1>3, <2>1, <2>3
  <2>7. EndsOK(Q, G, known)
    <3>1. Named(Q, m) = {n}
      BY <1>5, <2>1, <2>3 DEF Named
    <3>2. (SenderFits(m) => Origin[m] \notin H[m].from) /\ (RecipientFits(m) => Target[m] \notin H[m].to)
      BY <1>5 DEF EndsOK, EndsAt
    <3>3. EndsAt(Q, G[m], known, m)
      BY <2>1, <2>2, <3>1, <3>2, EndsOfOne
    <3> QED BY <1>1, <2>5, <2>6, <3>3, EndsByMessage DEF RowsOK
  <2>8. Forth(R, Q)
    BY <1>1, <1>5, <2>3 DEF Forth
  <2>9. m \notin Pending(Q, s)
    BY <2>1, <2>3, <2>4 DEF Pending, Mine
  <2> QED BY <2>5, <2>6, <2>7, <2>8, <2>9 DEF Keeps, Q
<1>6. CASE ~r0.named /\ Named(R, m) # {}
  <2>1. PICK x \in R : x.m = m /\ x.named
    BY <1>6 DEF Named
  <2>2. Named(R, m) = {x} /\ x \in Row /\ RowOK(x) /\ x # r0
    BY <1>1, <1>6, <2>1, OneNamed DEF Named, RowsOK
  <2>3. CASE x.sender = Nobody \/ First(known, s, x.sender)
    <3> DEFINE n == [x EXCEPT !.sender = s, !.call = TRUE]
    <3>1. n \in Row /\ n.m = m /\ n.sender = s /\ n.call /\ n.named /\ n.got = x.got /\ n.recipient = x.recipient /\ n.error = x.error
      BY <1>1, <2>1, <2>2 DEF Row
    <3>2. RowOK(n)
      BY <1>1, <2>1, <2>2, <3>1 DEF RowOK
    <3>3. Q = (R \ {r0, x}) \cup {n}
      <4>1. \A r \in R \ {r0} : (r.m = m /\ r.named /\ (r.sender = Nobody \/ First(known, s, r.sender))) <=> r = x
        BY <2>1, <2>2, <2>3 DEF Named
      <4>2. Q = {IF r.m = m /\ r.named /\ (r.sender = Nobody \/ First(known, s, r.sender))
                 THEN [r EXCEPT !.sender = s, !.call = TRUE] ELSE r : r \in R \ {r0}}
        BY <1>3, <1>6 DEF OnSent
      <4>3. Q = {IF r = x THEN n ELSE r : r \in R \ {r0}}
        BY <4>1, <4>2
      <4> QED BY <2>1, <2>2, <4>3
    <3> HIDE DEF n, Q
    <3>4. \A r \in R \ {r0, x} : r.m = n.m => ~r.named /\ ~(r.call /\ r.sender = n.sender)
      BY <1>3, <2>2, <3>1 DEF Named, Mine
    <3>5. RowsOK(Q)
      BY <3>1, <3>2, <3>3, <3>4, SwapKeepsRows
    <3>6. \A r \in Row : r.m # m \/ (~r.named /\ r.sender # s) => (r \in Q <=> r \in R)
      BY <1>3, <2>1, <3>1, <3>3
    <3>a. EndsAt(R, H[m], known, m)
      BY DEF EndsOK
    <3>7. x.call => s <= x.sender
      <4>1. x.call => x.sender \in known /\ x.sender # Nobody
        BY <2>2, <3>a DEF EndsAt, RowOK
      <4> QED BY <4>1, <1>a, <1>b, <2>2, <2>3 DEF First
    <3>8. EndsOK(Q, G, known)
      <4>1. Named(Q, m) = {n}
        BY <2>2, <3>1, <3>3 DEF Named
      <4>2. x.got => x.recipient \in H[m].to \cap known
        BY <2>2, <3>a DEF EndsAt
      <4>3. SenderFits(m) /\ Origin[m] \in G[m].from => n.sender = Origin[m]
        <5> SUFFICES ASSUME SenderFits(m), Origin[m] \in H[m].from PROVE s = Origin[m]
          BY <3>1
        <5>1. x.call /\ x.sender = Origin[m]
          BY <2>2, <3>a DEF EndsAt
        <5> QED BY <1>b, <3>7, <5>1
      <4>4. RecipientFits(m) /\ Target[m] \in G[m].to => x.got /\ x.recipient = Target[m]
        BY <2>2, <3>a DEF EndsAt
      <4>5. EndsAt(Q, G[m], known, m)
        <5>1. /\ n.call => n.sender \in G[m].from \cap known
              /\ n.got => n.recipient \in G[m].to \cap known
              /\ SenderFits(m) /\ Origin[m] \in G[m].from => n.call /\ n.sender = Origin[m]
              /\ RecipientFits(m) /\ Target[m] \in G[m].to => n.got /\ n.recipient = Target[m]
          BY <3>1, <4>2, <4>3, <4>4
        <5> QED BY <4>1, <5>1, EndsOfOne
      <4>6. Q \subseteq Row /\ \A r \in Row : r.m # m => (r \in Q <=> r \in R)
        BY <3>5, <3>6 DEF RowsOK
      <4> QED BY <1>1, <4>5, <4>6, EndsByMessage
    <3>9. Forth(R, Q)
      <4> SUFFICES ASSUME NEW r \in R, r.named
                   PROVE  \E q \in Q : /\ q.m = r.m /\ q.named
                                       /\ r.call => q.call /\ q.sender <= r.sender
                                       /\ r.got => q.got /\ q.recipient <= r.recipient
        BY DEF Forth
      <4>1. CASE r = x
        <5>1. n \in Q /\ x.recipient <= x.recipient
          BY <1>a, <2>2, <3>3
        <5> QED BY <4>1, <5>1, <2>1, <3>1, <3>7
      <4>2. CASE r # x
        <5>1. r \in Q
          BY <4>2, <1>6, <3>3
        <5>2. r.sender <= r.sender /\ r.recipient <= r.recipient
          BY <1>1, <1>a
        <5> QED BY <5>1, <5>2
      <4> QED BY <4>1, <4>2
    <3>10. m \notin Pending(Q, s)
      BY <3>1, <3>3, <3>4 DEF Pending, Mine
    <3> QED BY <3>5, <3>6, <3>8, <3>9, <3>10 DEF Keeps, Q
  <2>4. CASE ~(x.sender = Nobody \/ First(known, s, x.sender))
    <3>3. Q = R \ {r0}
      <4>1. \A r \in R \ {r0} : ~ (r.m = m /\ r.named /\ (r.sender = Nobody \/ First(known, s, r.sender)))
        BY <2>1, <2>2, <2>4 DEF Named
      <4>2. Q = {IF r.m = m /\ r.named /\ (r.sender = Nobody \/ First(known, s, r.sender))
                 THEN [r EXCEPT !.sender = s, !.call = TRUE] ELSE r : r \in R \ {r0}}
        BY <1>3, <1>6 DEF OnSent
      <4> QED BY <4>1, <4>2
    <3> HIDE DEF Q
    <3>4. RowsOK(Q)
      BY <3>3 DEF RowsOK, Unique
    <3>5. \A r \in Row : r.m # m \/ (~r.named /\ r.sender # s) => (r \in Q <=> r \in R)
      BY <1>3, <3>3
    <3>6. x.sender \in known /\ x.sender \in Nat /\ x.sender < s
      <4>1. x.sender \in known /\ s # x.sender /\ ~(s < x.sender)
        BY <2>4 DEF First
      <4> QED BY <4>1, <1>a, <1>b, <2>2
    <3>7. EndsOK(Q, G, known)
      <4>1. Named(Q, m) = {x}
        BY <1>3, <1>6, <2>2, <3>3 DEF Named
      <4>2. SenderFits(m) => Origin[m] # s
        BY <1>b, <2>1, <2>2, <2>4, <3>6 DEF RowOK
      <4>3. EndsAt(R, H[m], known, m)
        BY DEF EndsOK
      <4>4. EndsAt(Q, G[m], known, m)
        BY <2>2, <4>1, <4>2, <4>3 DEF EndsAt
      <4>5. Q \subseteq Row /\ \A r \in Row : r.m # m => (r \in Q <=> r \in R)
        BY <3>4, <3>5 DEF RowsOK
      <4> QED BY <1>1, <4>4, <4>5, EndsByMessage
    <3>8. Forth(R, Q)
      BY <1>1, <1>6, <3>3 DEF Forth
    <3>9. m \notin Pending(Q, s)
      BY <1>3, <3>3 DEF Pending, Mine
    <3> QED BY <3>4, <3>5, <3>7, <3>8, <3>9 DEF Keeps, Q
  <2> QED BY <2>3, <2>4
<1> QED BY <1>4, <1>5, <1>6

\* A call answered without a name is dropped, or marked as refused.
Waits(R, s, m) == {r \in Mine(R, s, m) : ~r.named}
Dropped(R, s, m) == R \ Waits(R, s, m)
Refused(R, s, m) == (R \ Waits(R, s, m)) \cup {[r EXCEPT !.error = TRUE] : r \in Waits(R, s, m)}

\* An answer without a name takes the waiting row away, or marks it.
LEMMA AnsweredKeeps ==
  ASSUME NEW R, RowsOK(R), NEW G, NEW known, EndsOK(R, G, known), NEW s \in Session, NEW m \in Send,
         NEW Q, \/ Q = Dropped(R, s, m)
                \/ Q = Refused(R, s, m) /\ fate[m] = "refused"
  PROVE  Keeps(R, Q, G, known, s, m) /\ m \notin Pending(Q, s)
<1> DEFINE mine == {r \in Mine(R, s, m) : ~r.named}
<1>1. R \subseteq Row /\ Forth(R, R)
  BY ForthRefl DEF RowsOK
<1>2. \A r \in mine : r \in R /\ r.m = m /\ r.sender = s /\ r.call /\ ~r.named
  BY DEF Mine
<1>3. m \notin Pending(R \ mine, s) /\ \A r \in R \ mine : r.m = m => ~(r.call /\ r.sender = s /\ ~r.named)
  BY DEF Pending, Mine
<1>4. CASE Q = R \ mine
  <2>1. RowsOK(R \ mine)
    BY DEF RowsOK, Unique
  <2> HIDE DEF mine
  <2>2. \A r \in Row : r.m # m \/ (~r.named /\ r.sender # s) => (r \in Q <=> r \in R)
    BY <1>2, <1>4
  <2>3. EndsOK(Q, G, known)
    <3>1. \A mm \in Send : Named(Q, mm) = Named(R, mm)
      BY <1>2, <1>4 DEF Named
    <3> QED BY <3>1 DEF EndsOK, EndsAt
  <2>4. Forth(R, Q)
    BY <1>1, <1>2, <1>4 DEF Forth
  <2> QED BY <1>3, <1>4, <2>1, <2>2, <2>3, <2>4 DEF Keeps
<1>5. CASE Q = (R \ mine) \cup {[r EXCEPT !.error = TRUE] : r \in mine} /\ fate[m] = "refused" /\ mine # {}
  <2>1. PICK r0 \in mine : TRUE
    BY <1>5
  <2>2. mine = {r0}
    <3>1. Mine(R, s, m) = {r0}
      BY <2>1, OneMine
    <3> QED BY <2>1, <3>1
  <2> DEFINE n == [r0 EXCEPT !.error = TRUE]
  <2>3. r0 \in Row /\ RowOK(r0) /\ r0.m = m /\ r0.sender = s /\ r0.call /\ ~r0.named
    BY <1>1, <1>2, <2>1 DEF RowsOK
  <2>4. n \in Row /\ n.m = m /\ n.sender = s /\ n.call /\ ~n.named /\ n.error /\ n.got = r0.got /\ n.recipient = r0.recipient
    BY <2>3 DEF Row
  <2>5. RowOK(n)
    BY <1>5, <2>3, <2>4 DEF RowOK
  <2>6. Q = (R \ {r0}) \cup {n}
    BY <1>5, <2>2
  <2> HIDE DEF mine, n
  <2>7. \A r \in R \ {r0} : r.m = n.m => ~(r.call /\ r.sender = n.sender)
    BY <2>1, <2>3, <2>4 DEF RowsOK, Unique, mine, Mine
  <2>8. RowsOK(Q)
    BY <2>4, <2>5, <2>6, <2>7, SwapKeepsRows
  <2>9. \A r \in Row : r.m # m \/ (~r.named /\ r.sender # s) => (r \in Q <=> r \in R)
    BY <2>3, <2>4, <2>6
  <2>10. EndsOK(Q, G, known)
    <3>1. \A mm \in Send : Named(Q, mm) = Named(R, mm)
      BY <2>3, <2>4, <2>6 DEF Named
    <3> QED BY <3>1 DEF EndsOK, EndsAt
  <2>11. Forth(R, Q)
    BY <1>1, <2>3, <2>6 DEF Forth
  <2>12. m \notin Pending(Q, s)
    BY <1>3, <2>2, <2>4, <2>6 DEF Pending, Mine
  <2> QED BY <2>8, <2>9, <2>10, <2>11, <2>12 DEF Keeps
<1>6. CASE Q = Dropped(R, s, m)
  BY <1>4, <1>6 DEF Dropped, Waits
<1>7. CASE Q = Refused(R, s, m) /\ fate[m] = "refused"
  <2>1. Q = (R \ mine) \cup {[r EXCEPT !.error = TRUE] : r \in mine}
    BY <1>7 DEF Refused, Waits
  <2>2. CASE mine = {}
    <3>1. Q = R \ mine
      BY <2>1, <2>2
    <3> QED BY <1>4, <3>1
  <2>3. CASE mine # {}
    BY <1>5, <1>7, <2>1, <2>3
  <2> QED BY <2>2, <2>3
<1> QED BY <1>6, <1>7

\* An arrival: a row for the message, or the recipient of the one there is.
LEMMA ReceivedKeeps ==
  ASSUME NEW R, RowsOK(R), NEW H, NEW G, NEW known, EndsOK(R, H, known), known \subseteq Session,
         NEW s \in known, NEW m \in Send, Target[m] <= s,
         \A mm \in Send : mm # m => G[mm] = H[mm],
         G[m].from = H[m].from, G[m].to = H[m].to \cup {s}
  PROVE  /\ Keeps(R, OnReceived(R, known, s, m), G, known, s, m)
         /\ \A t : Pending(OnReceived(R, known, s, m), t) = Pending(R, t)
         /\ \A t, mm : Mine(R, t, mm) # {} => Mine(OnReceived(R, known, s, m), t, mm) # {}
<1> DEFINE Q == OnReceived(R, known, s, m)
<1>1. R \subseteq Row /\ Forth(R, R) /\ s \in Session /\ s # Nobody
  BY ForthRefl, Constants DEF RowsOK
<1>a. \A r \in Row : r.m \in Send /\ r.sender \in Nat /\ r.recipient \in Nat /\ r.named \in BOOLEAN
                     /\ r.call \in BOOLEAN /\ r.got \in BOOLEAN /\ r.error \in BOOLEAN
  BY Constants DEF Row, Nobody
<1>b. Target[m] \in Nat /\ s \in Nat
  BY <1>1, Constants
<1>2. EndsAt(R, H[m], known, m)
  BY DEF EndsOK
<1>3. CASE Named(R, m) = {}
  <2> DEFINE n == NewReceived(s, m)
  <2>1. n \in Row /\ n.m = m /\ n.sender = Nobody /\ ~n.call /\ n.named /\ n.got /\ ~n.error /\ n.recipient = s
    BY <1>1 DEF NewReceived, Row
  <2>2. RowOK(n)
    BY <1>1, <2>1 DEF RowOK
  <2>3. Q = (R \ {}) \cup {n} /\ Q = R \cup {n}
    BY <1>3 DEF OnReceived
  <2> HIDE DEF n, Q
  <2>4. RowsOK(Q)
    <3>1. \A r \in R : r.m = n.m => ~r.named
      BY <1>3, <2>1 DEF Named
    <3>2. \A r \in R \ {} : r.m = n.m /\ r # n => ~(r.named /\ n.named) /\ ~(r.call /\ n.call /\ r.sender = n.sender)
      BY <2>1, <3>1
    <3>3. RowsOK((R \ {}) \cup {n})
      BY <2>1, <2>2, <3>2, SwapKeepsRows
    <3> QED BY <2>3, <3>3
  <2>5. \A r \in Row : r.m # m \/ ~r.named => (r \in Q <=> r \in R)
    BY <2>1, <2>3
  <2>6. EndsOK(Q, G, known)
    <3>1. Named(Q, m) = {n}
      BY <1>3, <2>1, <2>3 DEF Named
    <3>2. (SenderFits(m) => Origin[m] \notin H[m].from) /\ (RecipientFits(m) => Target[m] \notin H[m].to)
      BY <1>2, <1>3 DEF EndsAt
    <3>3. EndsAt(Q, G[m], known, m)
      BY <2>1, <3>1, <3>2, EndsOfOne
    <3>4. Q \subseteq Row
      BY <2>4 DEF RowsOK
    <3> QED BY <1>1, <2>5, <3>3, <3>4, EndsByMessage
  <2>7. Forth(R, Q)
    BY <1>1, <2>3 DEF Forth
  <2>8. \A t, mm : Mine(Q, t, mm) = Mine(R, t, mm)
    BY <2>1, <2>3 DEF Mine
  <2> QED BY <2>4, <2>5, <2>6, <2>7, <2>8 DEF Keeps, Pending, Q
<1>4. CASE Named(R, m) # {}
  <2>1. PICK x \in R : x.m = m /\ x.named
    BY <1>4 DEF Named
  <2>2. Named(R, m) = {x} /\ x \in Row /\ RowOK(x)
    BY <1>1, <2>1, OneNamed DEF Named, RowsOK
  <2>3. CASE x.recipient = Nobody \/ First(known, s, x.recipient)
    <3> DEFINE n == [x EXCEPT !.recipient = s, !.got = TRUE]
    <3>1. n \in Row /\ n.m = m /\ n.recipient = s /\ n.got /\ n.named /\ n.call = x.call /\ n.sender = x.sender /\ n.error = x.error
      BY <1>1, <2>1, <2>2 DEF Row
    <3>2. RowOK(n)
      BY <1>1, <2>1, <2>2, <3>1 DEF RowOK
    <3>3. Q = (R \ {x}) \cup {n}
      <4>1. \A r \in R : (r.m = m /\ r.named /\ (r.recipient = Nobody \/ First(known, s, r.recipient))) <=> r = x
        BY <2>1, <2>2, <2>3 DEF Named
      <4>2. Q = {IF r.m = m /\ r.named /\ (r.recipient = Nobody \/ First(known, s, r.recipient))
                 THEN [r EXCEPT !.recipient = s, !.got = TRUE] ELSE r : r \in R}
        BY <1>4 DEF OnReceived
      <4>3. Q = {IF r = x THEN n ELSE r : r \in R}
        BY <4>1, <4>2
      <4> QED BY <2>1, <4>3
    <3> HIDE DEF n, Q
    <3>4. \A r \in R \ {x} : r.m = n.m => ~r.named /\ ~(r.call /\ n.call /\ r.sender = n.sender)
      <4>1. \A r \in R \ {x} : r.m = m => ~r.named
        BY <2>2 DEF Named
      <4>2. \A r \in R \ {x} : r.m = m => ~(r.call /\ x.call /\ r.sender = x.sender)
        BY <2>1 DEF RowsOK, Unique
      <4> QED BY <3>1, <4>1, <4>2
    <3>5. RowsOK(Q)
      BY <3>1, <3>2, <3>3, <3>4, SwapKeepsRows
    <3>6. \A r \in Row : r.m # m \/ ~r.named => (r \in Q <=> r \in R)
      BY <2>1, <3>1, <3>3
    <3>7. x.got => s <= x.recipient
      <4>1. x.got => x.recipient \in known /\ x.recipient # Nobody
        BY <1>2, <2>2 DEF EndsAt, RowOK
      <4> QED BY <4>1, <1>a, <1>b, <2>2, <2>3 DEF First
    <3>8. EndsOK(Q, G, known)
      <4>1. Named(Q, m) = {n}
        BY <2>2, <3>1, <3>3 DEF Named
      <4>2. x.call => x.sender \in H[m].from \cap known
        BY <1>2, <2>2 DEF EndsAt
      <4>3. RecipientFits(m) /\ Target[m] \in G[m].to => n.recipient = Target[m]
        <5> SUFFICES ASSUME RecipientFits(m), Target[m] \in H[m].to PROVE s = Target[m]
          BY <3>1
        <5>1. x.got /\ x.recipient = Target[m]
          BY <1>2, <2>2 DEF EndsAt
        <5> QED BY <1>b, <3>7, <5>1
      <4>4. SenderFits(m) /\ Origin[m] \in G[m].from => x.call /\ x.sender = Origin[m]
        BY <1>2, <2>2 DEF EndsAt
      <4>5. EndsAt(Q, G[m], known, m)
        <5>1. /\ n.call => n.sender \in G[m].from \cap known
              /\ n.got => n.recipient \in G[m].to \cap known
              /\ SenderFits(m) /\ Origin[m] \in G[m].from => n.call /\ n.sender = Origin[m]
              /\ RecipientFits(m) /\ Target[m] \in G[m].to => n.got /\ n.recipient = Target[m]
          BY <3>1, <4>2, <4>3, <4>4
        <5> QED BY <4>1, <5>1, EndsOfOne
      <4>6. Q \subseteq Row /\ \A r \in Row : r.m # m => (r \in Q <=> r \in R)
        BY <3>5, <3>6 DEF RowsOK
      <4>7. ASSUME NEW mm \in Send, mm # m PROVE EndsAt(Q, G[mm], known, mm)
        <5>1. Named(Q, mm) = Named(R, mm)
          BY <1>1, <4>6, <4>7 DEF Named
        <5>2. EndsAt(R, G[mm], known, mm)
          BY <4>7 DEF EndsOK
        <5> QED BY <5>1, <5>2 DEF EndsAt
      <4> QED BY <4>5, <4>7 DEF EndsOK
    <3>9. Forth(R, Q)
      <4> SUFFICES ASSUME NEW r \in R, r.named
                   PROVE  \E q \in Q : /\ q.m = r.m /\ q.named
                                       /\ r.call => q.call /\ q.sender <= r.sender
                                       /\ r.got => q.got /\ q.recipient <= r.recipient
        BY DEF Forth
      <4>0. r.sender <= r.sender /\ r.recipient <= r.recipient
        BY <1>1, <1>a
      <4>1. CASE r = x
        <5>1. n \in Q
          BY <3>3
        <5> QED BY <4>0, <4>1, <5>1, <2>1, <3>1, <3>7
      <4>2. CASE r # x
        <5>1. r \in Q
          BY <4>2, <3>3
        <5> QED BY <4>0, <5>1
      <4> QED BY <4>1, <4>2
    <3>10. \A t : Pending(Q, t) = Pending(R, t)
      <4>1. \A t, mm : {r \in Mine(Q, t, mm) : ~r.named} = {r \in Mine(R, t, mm) : ~r.named}
        BY <2>1, <3>1, <3>3 DEF Mine
      <4> QED BY <4>1 DEF Pending
    <3>11. \A t, mm : Mine(R, t, mm) # {} => Mine(Q, t, mm) # {}
      <4> SUFFICES ASSUME NEW t, NEW mm, NEW r \in Mine(R, t, mm) PROVE Mine(Q, t, mm) # {}
        OBVIOUS
      <4>1. CASE r = x
        <5>1. n \in Q /\ n.m = mm /\ n.call /\ n.sender = t
          BY <2>1, <3>1, <3>3, <4>1 DEF Mine
        <5> QED BY <5>1 DEF Mine
      <4>2. CASE r # x
        BY <3>3, <4>2 DEF Mine
      <4> QED BY <4>1, <4>2
    <3> QED BY <3>5, <3>6, <3>8, <3>9, <3>10, <3>11 DEF Keeps, Q
  <2>4. CASE ~(x.recipient = Nobody \/ First(known, s, x.recipient))
    <3>1. Q = R
      <4>1. \A r \in R : ~ (r.m = m /\ r.named /\ (r.recipient = Nobody \/ First(known, s, r.recipient)))
        BY <2>1, <2>2, <2>4 DEF Named
      <4>2. Q = {IF r.m = m /\ r.named /\ (r.recipient = Nobody \/ First(known, s, r.recipient))
                 THEN [r EXCEPT !.recipient = s, !.got = TRUE] ELSE r : r \in R}
        BY <1>4 DEF OnReceived
      <4> QED BY <4>1, <4>2
    <3> HIDE DEF Q
    <3>2. x.recipient \in Nat /\ x.recipient < s
      <4>1. x.recipient \in known /\ s # x.recipient /\ ~(s < x.recipient)
        BY <2>4 DEF First
      <4> QED BY <4>1, <1>a, <1>b, <2>2
    <3>3. RecipientFits(m) => Target[m] # s
      BY <1>b, <2>1, <2>2, <2>4, <3>2 DEF RowOK
    <3>4. EndsAt(R, G[m], known, m)
      BY <1>2, <2>2, <3>3 DEF EndsAt
    <3>5. EndsOK(R, G, known)
      BY <1>1, <3>4, EndsByMessage
    <3> QED BY <1>1, <3>1, <3>5 DEF Keeps, Q
  <2> QED BY <2>3, <2>4
<1> QED BY <1>3, <1>4

\* The roster fills in ends that no transcript gave: it confirms nothing and takes
\* nothing back.
Like(r, q) ==
    /\ q \in Row /\ RowOK(q)
    /\ q.m = r.m /\ q.call = r.call /\ q.named = r.named /\ q.got = r.got /\ q.error = r.error
    /\ r.call => q.sender = r.sender
    /\ r.got => q.recipient = r.recipient

\* A row filled in is like the row it was.
LEMMA ResolveLike ==
  ASSUME NEW r \in Row, RowOK(r)
  PROVE  Like(r, Resolve(r)) /\ Like(r, r)
<1> DEFINE q == Resolve(r)
<1>1. r.m \in Send /\ SocketOf[r.m] \in Session \cup {Nobody} /\ LabelOf[r.m] \in Session \cup {Nobody}
  BY Constants DEF Row
<1>2. /\ q.m = r.m /\ q.call = r.call /\ q.named = r.named /\ q.got = r.got /\ q.error = r.error
      /\ q.sender = (IF r.sender = Nobody /\ r.got THEN SocketOf[r.m] ELSE r.sender)
      /\ q.recipient = (IF r.recipient = Nobody /\ r.call THEN LabelOf[r.m] ELSE r.recipient)
      /\ q \in Row
  BY <1>1 DEF Resolve, Row
<1>3. RowOK(q)
  BY <1>1, <1>2 DEF RowOK, SenderFits, RecipientFits
<1> HIDE DEF q
<1>4. Like(r, q)
  BY <1>2, <1>3 DEF Like, RowOK
<1> QED BY <1>4 DEF Like, q

Filled(R, found, live) == (R \ found) \cup {IF r.m \in live THEN Resolve(r) ELSE r : r \in found}

\* Filling in keeps the rows right and leaves the same calls waiting.
LEMMA ResolveKeeps ==
  ASSUME NEW R, RowsOK(R), NEW H, NEW known, EndsOK(R, H, known),
         NEW found \in SUBSET R, NEW live
  PROVE  /\ RowsOK(Filled(R, found, live)) /\ EndsOK(Filled(R, found, live), H, known)
         /\ Forth(R, Filled(R, found, live))
         /\ \A t \in Session : Pending(Filled(R, found, live), t) = Pending(R, t)
<1> DEFINE Q == Filled(R, found, live)
<1>0. Q = (R \ found) \cup {IF r.m \in live THEN Resolve(r) ELSE r : r \in found}
  BY DEF Filled
<1> HIDE DEF Q
<1> DEFINE g == [r \in R |-> IF r \in found /\ r.m \in live THEN Resolve(r) ELSE r]
<1>1. \A r \in R : r \in Row /\ RowOK(r)
  BY DEF RowsOK
<1>2. \A r \in R : Like(r, Resolve(r)) /\ Like(r, r)
  BY <1>1, ResolveLike
<1>3. \A r \in R : Like(r, g[r])
  BY <1>2
<1>4. g \in [R -> Row]
  BY <1>1, <1>2 DEF Like
<1>5. ASSUME NEW q \in Q PROVE \E r \in R : q = g[r]
  <2>1. CASE q \in R \ found
    BY <2>1
  <2>2. CASE q \notin R \ found
    <3>1. PICK r \in found : q = IF r.m \in live THEN Resolve(r) ELSE r
      BY <1>0, <2>2
    <3>2. q = g[r]
      BY <3>1
    <3> QED BY <3>2
  <2> QED BY <2>1, <2>2
<1>6. ASSUME NEW r \in R PROVE g[r] \in Q
  <2>1. CASE r \in found
    BY <1>0, <2>1
  <2>2. CASE r \notin found
    BY <1>0, <2>2
  <2> QED BY <2>1, <2>2
<1> HIDE DEF g
<1>7. \A r \in Row : r.m \in Send /\ r.sender \in Nat /\ r.recipient \in Nat
  BY Constants DEF Row, Nobody
<1>8. \A q \in Q : \E r \in R : q = g[r] /\ Like(r, q)
  BY <1>3, <1>5
<1>9. Q \subseteq Row /\ \A q \in Q : RowOK(q)
  BY <1>8 DEF Like
<1>10. Unique(Q)
  <2> SUFFICES ASSUME NEW p \in Q, NEW q \in Q, p.m = q.m, p # q
               PROVE  ~(p.named /\ q.named) /\ ~(p.call /\ q.call /\ p.sender = q.sender)
    BY DEF Unique
  <2>1. PICK a \in R : p = g[a] /\ Like(a, p)
    BY <1>8
  <2>2. PICK b \in R : q = g[b] /\ Like(b, q)
    BY <1>8
  <2>3. a # b /\ a.m = b.m
    BY <2>1, <2>2 DEF Like
  <2>4. ~(a.named /\ b.named) /\ ~(a.call /\ b.call /\ a.sender = b.sender)
    BY <2>3 DEF RowsOK, Unique
  <2> QED BY <2>1, <2>2, <2>4 DEF Like
<1>11. RowsOK(Q)
  BY <1>9, <1>10 DEF RowsOK
<1>12. EndsOK(Q, H, known)
  <2> SUFFICES ASSUME NEW m \in Send PROVE EndsAt(Q, H[m], known, m)
    BY DEF EndsOK
  <2>1. EndsAt(R, H[m], known, m)
    BY DEF EndsOK
  <2>2. ASSUME NEW q \in Named(Q, m)
        PROVE  /\ q.call => q.sender \in H[m].from \cap known
               /\ q.got => q.recipient \in H[m].to \cap known
    <3>1. PICK r \in R : Like(r, q)
      BY <1>8 DEF Named
    <3>2. r \in Named(R, m)
      BY <3>1 DEF Named, Like
    <3> QED BY <2>1, <3>1, <3>2 DEF EndsAt, Like
  <2>3. ASSUME NEW r \in Named(R, m) PROVE g[r] \in Named(Q, m) /\ Like(r, g[r])
    BY <1>3, <1>6 DEF Named, Like
  <2>4. ASSUME SenderFits(m), Origin[m] \in H[m].from PROVE \E q \in Named(Q, m) : q.call /\ q.sender = Origin[m]
    <3>1. PICK r \in Named(R, m) : r.call /\ r.sender = Origin[m]
      BY <2>1, <2>4 DEF EndsAt
    <3> QED BY <2>3, <3>1 DEF Like
  <2>5. ASSUME RecipientFits(m), Target[m] \in H[m].to PROVE \E q \in Named(Q, m) : q.got /\ q.recipient = Target[m]
    <3>1. PICK r \in Named(R, m) : r.got /\ r.recipient = Target[m]
      BY <2>1, <2>5 DEF EndsAt
    <3> QED BY <2>3, <3>1 DEF Like
  <2> QED BY <2>2, <2>4, <2>5 DEF EndsAt
<1>13. Forth(R, Q)
  <2> SUFFICES ASSUME NEW r \in R, r.named
               PROVE  \E q \in Q : /\ q.m = r.m /\ q.named
                                   /\ r.call => q.call /\ q.sender <= r.sender
                                   /\ r.got => q.got /\ q.recipient <= r.recipient
    BY DEF Forth
  <2>1. Like(r, g[r]) /\ g[r] \in Q /\ r.sender <= r.sender /\ r.recipient <= r.recipient
    BY <1>1, <1>3, <1>6, <1>7
  <2> QED BY <2>1 DEF Like
<1>14. ASSUME NEW t \in Session PROVE Pending(Q, t) = Pending(R, t)
  <2>0. t # Nobody
    BY Constants
  <2>1. ASSUME NEW m \in Pending(Q, t) PROVE m \in Pending(R, t)
    <3>1. PICK q \in Q : m \in Send /\ q.m = m /\ q.sender = t /\ q.call /\ ~q.named /\ ~q.error
      BY DEF Pending, Mine
    <3>2. PICK r \in R : Like(r, q)
      BY <1>8
    <3> QED BY <3>1, <3>2 DEF Pending, Mine, Like
  <2>2. ASSUME NEW m \in Pending(R, t) PROVE m \in Pending(Q, t)
    <3>1. PICK r \in R : m \in Send /\ r.m = m /\ r.sender = t /\ r.call /\ ~r.named /\ ~r.error
      BY DEF Pending, Mine
    <3>2. g[r] \in Q /\ Like(r, g[r])
      BY <1>3, <1>6
    <3> QED BY <3>1, <3>2 DEF Pending, Mine, Like
  <2> QED BY <2>1, <2>2
<1> QED BY <1>11, <1>12, <1>13, <1>14 DEF Q

----
(***************************************************************************)
(* The scan: a pass over one session.                                      *)
(***************************************************************************)
\* Which transcripts were read to hold what, with k lines of the pass.
HeardIn(s, lines) ==
    [m \in Send |-> [from |-> heard[m].from \cup (IF L("sent", m) \in lines THEN {s} ELSE {}),
                     to |-> heard[m].to \cup (IF L("received", m) \in lines THEN {s} ELSE {})]]
LinesOf(s, from, k) == {file[s][from + i] : i \in 1..k}
HeardAt(s, from, k) == HeardIn(s, LinesOf(s, from, k))

\* What holds after k lines: the rows are right for what was read, and who waits
\* for an answer has its call in a row and no answer among the lines.
PassInv(w, s, from, k, known) ==
    /\ RowsOK(w.rows) /\ EndsOK(w.rows, HeardAt(s, from, k), known) /\ Forth(rows, w.rows)
    /\ \A t \in Session : t # s => Pending(w.rows, t) = Pending(rows, t)
    /\ w.waiting \subseteq Send /\ Pending(w.rows, s) \subseteq w.waiting
    /\ \A m \in w.waiting : Mine(w.rows, s, m) # {}
    /\ \A m \in Send : Among(file[s], from + k, L("call", m)) =>
           m \in w.waiting \/ s \in HeardAt(s, from, k)[m].from \/ fate[m] \in Settled
    /\ \A m \in Send, a \in Answer : Among(file[s], from + k, L(a, m)) => m \notin w.waiting

\* One line more.
LEMMA LinesNext ==
  ASSUME NEW s, NEW from \in Nat, NEW k \in Nat
  PROVE  LinesOf(s, from, k + 1) = LinesOf(s, from, k) \cup {file[s][from + (k + 1)]}
<1>1. 1..(k + 1) = (1..k) \cup {k + 1}
  OBVIOUS
<1> QED BY <1>1 DEF LinesOf

\* What is among one line more.
LEMMA AmongNext ==
  ASSUME NEW lines, NEW k \in Nat, k + 1 <= Len(lines), Len(lines) \in Nat, NEW x
  PROVE  Among(lines, k + 1, x) <=> Among(lines, k, x) \/ lines[k + 1] = x
<1>1. 1..(k + 1) = (1..k) \cup {k + 1}
  OBVIOUS
<1> QED BY <1>1 DEF Among

\* From what one line does to its own message to what holds of all of them.
LEMMA Advance ==
  ASSUME RowsOK(rows), NEW w, NEW s \in Session, NEW from \in Nat, NEW k \in Nat, NEW known,
         PassInv(w, s, from, k, known), Len(file[s]) \in Nat, from + (k + 1) <= Len(file[s]),
         NEW m \in Send, file[s][from + (k + 1)].m = m,
         NEW v, Keeps(w.rows, v.rows, HeardAt(s, from, k + 1), known, s, m), v.waiting \subseteq Send,
         \A mm \in Send : mm # m => (mm \in v.waiting <=> mm \in w.waiting),
         m \in v.waiting => Mine(v.rows, s, m) # {},
         m \in Pending(v.rows, s) => m \in v.waiting,
         Among(file[s], from + (k + 1), L("call", m)) =>
             m \in v.waiting \/ s \in HeardAt(s, from, k + 1)[m].from \/ fate[m] \in Settled,
         \A a \in Answer : Among(file[s], from + (k + 1), L(a, m)) => m \notin v.waiting
  PROVE  PassInv(v, s, from, k + 1, known)
<1>1. w.rows \in SUBSET Row /\ Forth(rows, w.rows)
  BY DEF PassInv, RowsOK
<1>2. RowsOK(v.rows) /\ EndsOK(v.rows, HeardAt(s, from, k + 1), known) /\ Forth(w.rows, v.rows) /\ v.rows \in SUBSET Row
  BY DEF Keeps, RowsOK
<1>3. /\ \A t : t # s => Pending(v.rows, t) = Pending(w.rows, t)
      /\ \A t, mm : mm # m => Mine(v.rows, t, mm) = Mine(w.rows, t, mm)
      /\ \A mm : mm # m => (mm \in Pending(v.rows, s) <=> mm \in Pending(w.rows, s))
  <2> DEFINE R == w.rows
             Q == v.rows
             G == HeardAt(s, from, k + 1)
  <2>1. R \subseteq Row /\ Q \subseteq Row /\ \A r \in Row : r.m # m \/ (~r.named /\ r.sender # s) => (r \in Q <=> r \in R)
    BY <1>1 DEF Keeps, RowsOK
  <2> HIDE DEF R, Q, G
  <2>2. ASSUME NEW t, NEW mm, mm # m PROVE Mine(Q, t, mm) = Mine(R, t, mm)
    BY <2>1, <2>2 DEF Mine
  <2>3. ASSUME NEW t, t # s, NEW mm PROVE {r \in Mine(Q, t, mm) : ~r.named} = {r \in Mine(R, t, mm) : ~r.named}
    BY <2>1, <2>3 DEF Mine
  <2>4. ASSUME NEW t, t # s PROVE Pending(Q, t) = Pending(R, t)
    BY <2>3, <2>4 DEF Pending
  <2>5. \A mm : mm # m => (mm \in Pending(Q, s) <=> mm \in Pending(R, s))
    BY <2>2 DEF Pending
  <2> QED BY <2>2, <2>4, <2>5 DEF R, Q
<1>4. \A kind, mm : mm # m => (Among(file[s], from + (k + 1), L(kind, mm)) => Among(file[s], from + k, L(kind, mm)))
  <2>1. from + k \in Nat /\ from + (k + 1) = (from + k) + 1
    OBVIOUS
  <2>2. \A kind, mm : mm # m => file[s][from + (k + 1)] # L(kind, mm)
    BY DEF L
  <2> QED BY <2>1, <2>2, AmongNext
<1>5. ASSUME NEW mm \in Send, mm # m
      PROVE  HeardAt(s, from, k)[mm].from \subseteq HeardAt(s, from, k + 1)[mm].from
  <2>1. LinesOf(s, from, k) \subseteq LinesOf(s, from, k + 1)
    <3>1. LinesOf(s, from, k + 1) = LinesOf(s, from, k) \cup {file[s][from + (k + 1)]}
      BY LinesNext
    <3> QED BY <3>1
  <2> QED BY <2>1 DEF HeardAt, HeardIn
<1>f. Forth(rows, v.rows)
  BY <1>1, <1>2, ForthTrans DEF RowsOK
<1>6. \A t \in Session : t # s => Pending(v.rows, t) = Pending(rows, t)
  BY <1>3 DEF PassInv
<1>7. Pending(v.rows, s) \subseteq v.waiting
  <2>1. Pending(v.rows, s) \subseteq Send
    BY DEF Pending
  <2> QED BY <1>3, <2>1 DEF PassInv
<1>8. \A mm \in v.waiting : Mine(v.rows, s, mm) # {}
  BY <1>3 DEF PassInv
<1>9. \A mm \in Send : Among(file[s], from + (k + 1), L("call", mm)) =>
           mm \in v.waiting \/ s \in HeardAt(s, from, k + 1)[mm].from \/ fate[mm] \in Settled
  BY <1>4, <1>5 DEF PassInv
<1>10. \A mm \in Send, a \in Answer : Among(file[s], from + (k + 1), L(a, mm)) => mm \notin v.waiting
  BY <1>4 DEF PassInv
<1> QED BY <1>2, <1>f, <1>6, <1>7, <1>8, <1>9, <1>10 DEF PassInv

\* What Ingest makes of each kind of line.
LEMMA RecordIs ==
  ASSUME NEW w \in [rows : SUBSET Row, waiting : SUBSET Send]
  PROVE  /\ \A x : [w EXCEPT !.rows = x] = [rows |-> x, waiting |-> w.waiting]
         /\ \A x, y : [w EXCEPT !.rows = x, !.waiting = y] = [rows |-> x, waiting |-> y]
         /\ \A x, y : [[w EXCEPT !.waiting = y] EXCEPT !.rows = x] = [rows |-> x, waiting |-> y]
         /\ \A y : [w EXCEPT !.waiting = y].rows = w.rows
<1>1. w = [rows |-> w.rows, waiting |-> w.waiting]
  OBVIOUS
<1>2. \A x : [w EXCEPT !.rows = x] = [rows |-> x, waiting |-> w.waiting]
  BY <1>1
<1>3. ASSUME NEW x, NEW y PROVE [w EXCEPT !.rows = x, !.waiting = y] = [rows |-> x, waiting |-> y]
  <2>1. [w EXCEPT !.rows = x] = [rows |-> x, waiting |-> w.waiting]
    BY <1>2
  <2>2. [[rows |-> x, waiting |-> w.waiting] EXCEPT !.waiting = y] = [rows |-> x, waiting |-> y]
    OBVIOUS
  <2>3. [w EXCEPT !.rows = x, !.waiting = y] = [[w EXCEPT !.rows = x] EXCEPT !.waiting = y]
    OBVIOUS
  <2> QED BY <2>1, <2>2, <2>3
<1>4. ASSUME NEW x, NEW y PROVE [[w EXCEPT !.waiting = y] EXCEPT !.rows = x] = [rows |-> x, waiting |-> y]
  <2>1. [w EXCEPT !.waiting = y] = [rows |-> w.rows, waiting |-> y]
    BY <1>1
  <2>2. [[rows |-> w.rows, waiting |-> y] EXCEPT !.rows = x] = [rows |-> x, waiting |-> y]
    OBVIOUS
  <2> QED BY <2>1, <2>2
<1>5. \A y : [w EXCEPT !.waiting = y].rows = w.rows
  BY <1>1
<1> QED BY <1>2, <1>3, <1>4, <1>5

\* What a call does.
LEMMA CallIs ==
  ASSUME NEW w \in [rows : SUBSET Row, waiting : SUBSET Send], NEW known, NEW s, NEW line, line.kind = "call"
  PROVE  /\ Ingest(w, known, s, line).rows = OnSend(w.rows, s, line.m)
         /\ \A x : x \in Ingest(w, known, s, line).waiting <=> x \in w.waiting \/ x = line.m
<1>1. Ingest(w, known, s, line) = [rows |-> OnSend(w.rows, s, line.m), waiting |-> w.waiting \cup {line.m}]
  BY RecordIs DEF Ingest, Answer
<1> QED BY <1>1

\* What an arrival does.
LEMMA ArrivalIs ==
  ASSUME NEW w \in [rows : SUBSET Row, waiting : SUBSET Send], NEW known, NEW s, NEW line, line.kind = "received"
  PROVE  /\ Ingest(w, known, s, line).rows = OnReceived(w.rows, known, s, line.m)
         /\ Ingest(w, known, s, line).waiting = w.waiting
<1>1. Ingest(w, known, s, line) = [rows |-> OnReceived(w.rows, known, s, line.m), waiting |-> w.waiting]
  BY RecordIs DEF Ingest, Answer
<1> QED BY <1>1

\* What an answer does.
LEMMA AnswerIs ==
  ASSUME NEW w \in [rows : SUBSET Row, waiting : SUBSET Send], NEW known, NEW s, NEW line, line.kind \in Answer
  PROVE  /\ line.m \notin w.waiting => Ingest(w, known, s, line) = w
         /\ line.m \in w.waiting =>
                /\ line.kind = "sent" => Ingest(w, known, s, line).rows = OnSent(w.rows, known, s, line.m)
                /\ line.kind = "handed" => Ingest(w, known, s, line).rows = Dropped(w.rows, s, line.m)
                /\ line.kind = "refused" => Ingest(w, known, s, line).rows = Refused(w.rows, s, line.m)
                /\ \A x : x \in Ingest(w, known, s, line).waiting <=> x \in w.waiting /\ x # line.m
<1>1. line.m \notin w.waiting => Ingest(w, known, s, line) = w
  BY DEF Ingest, Answer
<1>2. ASSUME line.kind = "sent", line.m \in w.waiting
      PROVE  Ingest(w, known, s, line) =
                 [rows |-> OnSent(w.rows, known, s, line.m), waiting |-> w.waiting \ {line.m}]
  BY <1>2, RecordIs DEF Ingest, Answer
<1>3. ASSUME line.kind = "handed", line.m \in w.waiting
      PROVE  Ingest(w, known, s, line) =
                 [rows |-> Dropped(w.rows, s, line.m), waiting |-> w.waiting \ {line.m}]
  BY <1>3, RecordIs DEF Ingest, Answer, OnAnswered, Dropped, Refused, Waits
<1>4. ASSUME line.kind = "refused", line.m \in w.waiting
      PROVE  Ingest(w, known, s, line) =
                 [rows |-> Refused(w.rows, s, line.m), waiting |-> w.waiting \ {line.m}]
  BY <1>4, RecordIs DEF Ingest, Answer, OnAnswered, Dropped, Refused, Waits
<1>5. line.kind = "sent" /\ line.m \in w.waiting =>
          /\ Ingest(w, known, s, line).rows = OnSent(w.rows, known, s, line.m)
          /\ \A x : x \in Ingest(w, known, s, line).waiting <=> x \in w.waiting /\ x # line.m
  BY <1>2
<1>6. line.kind = "handed" /\ line.m \in w.waiting =>
          /\ Ingest(w, known, s, line).rows = Dropped(w.rows, s, line.m)
          /\ \A x : x \in Ingest(w, known, s, line).waiting <=> x \in w.waiting /\ x # line.m
  BY <1>3
<1>7. line.kind = "refused" /\ line.m \in w.waiting =>
          /\ Ingest(w, known, s, line).rows = Refused(w.rows, s, line.m)
          /\ \A x : x \in Ingest(w, known, s, line).waiting <=> x \in w.waiting /\ x # line.m
  BY <1>4
<1> QED BY <1>1, <1>5, <1>6, <1>7 DEF Answer

\* Every line keeps the rows right, whichever of the five things it is.
LEMMA IngestKeeps ==
  ASSUME IInv, NEW s \in Session, NEW from \in Nat, NEW k \in Nat, from + (k + 1) <= Len(file[s]),
         NEW known \in SUBSET Session, s \in known,
         NEW w \in [rows : SUBSET Row, waiting : SUBSET Send], PassInv(w, s, from, k, known),
         NEW line, line = file[s][from + (k + 1)]
  PROVE  PassInv(Ingest(w, known, s, line), s, from, k + 1, known)
<1> DEFINE m == line.m
           R == w.rows
           H == HeardAt(s, from, k)
           G == HeardAt(s, from, k + 1)
           Now(x) == Among(file[s], from + (k + 1), x)
           Before(x) == Among(file[s], from + k, x)
<1>1. Len(file[s]) \in Nat /\ from + (k + 1) \in 1..Len(file[s]) /\ line \in Line
  BY DEF IInv, Types
<1>2. m \in Send /\ line.kind \in {"call", "received"} \cup Answer /\ line = L(line.kind, m)
  BY <1>1 DEF Line, L
<1>3. /\ line.kind = "received" => Target[m] <= s
      /\ line.kind # "received" => Origin[m] <= s
      /\ line.kind \in Answer => line.kind = fate[m] /\ Now(L("call", m))
      /\ line.kind = "call" => \A a \in Answer : ~Now(L(a, m))
  BY <1>1 DEF IInv, Lines
<1>4. \A kind : Now(L(kind, m)) => Before(L(kind, m)) \/ kind = line.kind
  <2>1. from + k \in Nat /\ from + (k + 1) = (from + k) + 1
    OBVIOUS
  <2>2. \A x : Now(x) <=> Before(x) \/ file[s][from + (k + 1)] = x
    BY <1>1, <2>1, AmongNext
  <2>3. \A kind : line = L(kind, m) => kind = line.kind
    BY DEF L
  <2> QED BY <2>2, <2>3
<1>5. /\ \A mm \in Send : mm # m => G[mm] = H[mm]
      /\ line.kind \notin {"sent", "received"} => G[m] = H[m]
      /\ line.kind = "sent" => G[m].from = H[m].from \cup {s} /\ G[m].to = H[m].to
      /\ line.kind = "received" => G[m].to = H[m].to \cup {s} /\ G[m].from = H[m].from
  <2>1. LinesOf(s, from, k + 1) = LinesOf(s, from, k) \cup {line}
    <3>1. line = file[s][from + (k + 1)]
      OBVIOUS
    <3>2. LinesOf(s, from, k + 1) = LinesOf(s, from, k) \cup {file[s][from + (k + 1)]}
      BY LinesNext, Zenon
    <3> QED BY <3>1, <3>2, Zenon
  <2> DEFINE lines == LinesOf(s, from, k)
             more == LinesOf(s, from, k + 1)
  <2>2. \A mm \in Send : L("sent", mm) \in more <=> L("sent", mm) \in lines \/ (line.kind = "sent" /\ m = mm)
    BY <1>2, <2>1 DEF L
  <2>3. \A mm \in Send : L("received", mm) \in more <=> L("received", mm) \in lines \/ (line.kind = "received" /\ m = mm)
    BY <1>2, <2>1 DEF L
  <2>4. G = HeardIn(s, more) /\ H = HeardIn(s, lines) /\ m \in Send
    BY <1>2 DEF HeardAt
  <2> HIDE DEF G, H, m, lines, more
  <2>5. \A mm \in Send : mm # m => G[mm] = H[mm]
    BY <2>2, <2>3, <2>4 DEF HeardIn
  <2>6. line.kind \notin {"sent", "received"} => G[m] = H[m]
    BY <2>2, <2>3, <2>4 DEF HeardIn
  <2>7. line.kind = "sent" => G[m].from = H[m].from \cup {s} /\ G[m].to = H[m].to
    BY <2>2, <2>3, <2>4 DEF HeardIn
  <2>8. line.kind = "received" => G[m].to = H[m].to \cup {s} /\ G[m].from = H[m].from
    BY <2>2, <2>3, <2>4 DEF HeardIn
  <2> QED BY <2>5, <2>6, <2>7, <2>8
<1> HIDE DEF m, G, H, R, Now, Before
<1>6. /\ RowsOK(R) /\ R \in SUBSET Row /\ EndsOK(R, H, known) /\ RowsOK(rows)
      /\ w.waiting \in SUBSET Send /\ Pending(R, s) \subseteq w.waiting
      /\ \A mm \in w.waiting : Mine(R, s, mm) # {}
      /\ Before(L("call", m)) => m \in w.waiting \/ s \in H[m].from \/ fate[m] \in Settled
      /\ \A a \in Answer : Before(L(a, m)) => m \notin w.waiting
  BY <1>2 DEF PassInv, RowsOK, IInv, R, H, Before
<1>7. "call" \notin Answer /\ "received" \notin Answer /\ "call" # "received"
      /\ \A a \in Answer : a \in {"sent", "handed", "refused"}
  BY DEF Answer
<1>8. m = line.m /\ R = w.rows /\ Origin[m] \in Session /\ s \in Session
  BY <1>2, Constants DEF m, R
\* What is left to show in each case of the rows and the calls that wait.
<1> DEFINE v == Ingest(w, known, s, line)
<1> SUFFICES PassInv(v, s, from, k + 1, known)
  OBVIOUS
<1>9. ASSUME Keeps(R, v.rows, G, known, s, m),
             v.waiting \subseteq Send, \A mm \in Send : mm # m => (mm \in v.waiting <=> mm \in w.waiting),
             m \in v.waiting => Mine(v.rows, s, m) # {},
             m \in Pending(v.rows, s) => m \in v.waiting,
             Now(L("call", m)) => m \in v.waiting \/ s \in G[m].from \/ fate[m] \in Settled,
             \A a \in Answer : Now(L(a, m)) => m \notin v.waiting
      PROVE  PassInv(v, s, from, k + 1, known)
  <2>1. file[s][from + (k + 1)].m = m /\ from + (k + 1) <= Len(file[s])
    BY <1>8
  <2> HIDE DEF v
  <2> QED BY <1>1, <1>2, <1>6, <1>8, <1>9, <2>1, Advance DEF G, Now
<1> HIDE DEF v
<1>10. CASE line.kind = "call"
  <2>1. v.rows = OnSend(R, s, m) /\ \A x : x \in v.waiting <=> x \in w.waiting \/ x = m
    BY <1>8, <1>10, CallIs DEF v
  <2>2. Keeps(R, v.rows, H, known, s, m) /\ Mine(v.rows, s, m) # {}
    BY <1>2, <1>3, <1>6, <1>7, <1>8, <1>10, <2>1, SendKeeps
  <2>3. \A mm \in Send : G[mm] = H[mm]
    BY <1>5, <1>10
  <2>4. Keeps(R, v.rows, G, known, s, m)
    BY <2>2, <2>3 DEF Keeps, EndsOK
  <2>5. m \in v.waiting /\ v.waiting \subseteq Send /\ \A mm \in Send : mm # m => (mm \in v.waiting <=> mm \in w.waiting)
    BY <1>2, <1>6, <2>1
  <2>6. \A a \in Answer : ~Now(L(a, m))
    BY <1>3, <1>10
  <2> QED BY <1>9, <2>2, <2>4, <2>5, <2>6
<1>11. CASE line.kind = "received"
  <2>1. v.rows = OnReceived(R, known, s, m) /\ v.waiting = w.waiting
    BY <1>8, <1>11, ArrivalIs DEF v
  <2>2. /\ Keeps(R, v.rows, G, known, s, m)
        /\ \A t : Pending(v.rows, t) = Pending(R, t)
        /\ \A t, mm : Mine(R, t, mm) # {} => Mine(v.rows, t, mm) # {}
    BY <1>2, <1>3, <1>5, <1>6, <1>11, <2>1, ReceivedKeeps
  <2>3. \A a \in Answer \cup {"call"} : Now(L(a, m)) => Before(L(a, m))
    BY <1>4, <1>7, <1>11
  <2>4. Now(L("call", m)) => m \in v.waiting \/ s \in G[m].from \/ fate[m] \in Settled
    BY <1>5, <1>6, <1>11, <2>1, <2>3
  <2>5. \A a \in Answer : Now(L(a, m)) => m \notin v.waiting
    BY <1>6, <2>1, <2>3
  <2> QED BY <1>6, <1>9, <2>1, <2>2, <2>4, <2>5
<1>12. CASE line.kind \in Answer
  <2>1. line.kind = fate[m] /\ Before(L("call", m)) /\ Origin[m] <= s
    BY <1>3, <1>4, <1>7, <1>12
  <2>2. m \in w.waiting \/ s \in H[m].from \/ fate[m] \in Settled
    BY <1>6, <2>1
  <2>3. CASE m \notin w.waiting
    <3>1. line.kind = "sent" => s \in H[m].from
      BY <2>1, <2>2, <2>3 DEF Settled
    <3>2. G[m].from = H[m].from /\ G[m].to = H[m].to
      <4>1. line.kind # "received"
        BY <1>7, <1>12
      <4>2. CASE line.kind = "sent"
        <5>1. G[m].from = H[m].from \cup {s} /\ G[m].to = H[m].to
          BY <1>5, <4>2
        <5> QED BY <3>1, <4>2, <5>1
      <4>3. CASE line.kind # "sent"
        BY <1>5, <4>1, <4>3
      <4> QED BY <4>2, <4>3
    <3>3. \A mm \in Send : G[mm].from = H[mm].from /\ G[mm].to = H[mm].to
      BY <1>5, <3>2
    <3>4. Keeps(R, R, G, known, s, m)
      <4>1. Forth(R, R)
        BY <1>6, ForthRefl
      <4> QED BY <1>6, <3>3, <4>1 DEF Keeps, EndsOK, EndsAt
    <3>5. m \notin Pending(R, s)
      BY <1>6, <2>3
    <3>6. s \in G[m].from \/ fate[m] \in Settled
      BY <2>2, <2>3, <3>2
    <3>7. v.rows = R /\ v.waiting = w.waiting
      BY <1>8, <1>12, <2>3, AnswerIs DEF v
    <3> QED BY <1>6, <1>9, <2>3, <3>4, <3>5, <3>6, <3>7
  <2>4. CASE m \in w.waiting
    <3>1. m \notin v.waiting /\ v.waiting \subseteq Send /\ \A mm \in Send : mm # m => (mm \in v.waiting <=> mm \in w.waiting)
      <4>1. \A x : x \in v.waiting <=> x \in w.waiting /\ x # m
        BY <1>8, <1>12, <2>4, AnswerIs DEF v
      <4> QED BY <1>6, <4>1
    <3>2. CASE line.kind = "sent"
      <4>1. v.rows = OnSent(R, known, s, m)
        BY <1>8, <1>12, <2>4, <3>2, AnswerIs DEF v
      <4>2. Keeps(R, v.rows, G, known, s, m) /\ m \notin Pending(v.rows, s)
        BY <1>2, <1>5, <1>6, <2>1, <2>4, <3>2, <4>1, SentKeeps
      <4>3. s \in G[m].from
        BY <1>5, <3>2
      <4> QED BY <1>9, <3>1, <4>2, <4>3
    <3>3. CASE line.kind \in {"handed", "refused"}
      <4>1. \/ v.rows = Dropped(R, s, m)
            \/ v.rows = Refused(R, s, m) /\ fate[m] = "refused"
        BY <1>8, <1>12, <2>1, <2>4, <3>3, AnswerIs DEF v
      <4>2. Keeps(R, v.rows, H, known, s, m) /\ m \notin Pending(v.rows, s)
        BY <1>2, <1>6, <1>8, <4>1, AnsweredKeeps
      <4>3. \A mm \in Send : G[mm] = H[mm]
        BY <1>5, <3>3
      <4>4. Keeps(R, v.rows, G, known, s, m) /\ fate[m] \in Settled
        BY <2>1, <3>3, <4>2, <4>3 DEF Keeps, EndsOK, Settled
      <4> QED BY <1>9, <3>1, <4>2, <4>4
    <3> QED BY <1>7, <1>12, <3>2, <3>3
  <2> QED BY <2>3, <2>4
<1> QED BY <1>2, <1>10, <1>11, <1>12

\* A line leaves rows and calls.
LEMMA IngestType ==
  ASSUME NEW s \in Session, NEW known, NEW line \in Line, NEW w \in [rows : SUBSET Row, waiting : SUBSET Send]
  PROVE  Ingest(w, known, s, line) \in [rows : SUBSET Row, waiting : SUBSET Send]
<1> DEFINE W == [rows : SUBSET Row, waiting : SUBSET Send]
           m == line.m
           R == w.rows
<1>1. m \in Send /\ line.kind \in {"call", "received"} \cup Answer /\ R \subseteq Row /\ w.waiting \subseteq Send
  BY DEF Line
<1>2. \A r \in Row : \A x \in Session : /\ [r EXCEPT !.sender = x, !.call = TRUE] \in Row
                                        /\ [r EXCEPT !.recipient = x, !.got = TRUE] \in Row
                                        /\ [r EXCEPT !.named = TRUE] \in Row
                                        /\ [r EXCEPT !.error = TRUE] \in Row
  BY DEF Row
<1>3. \A x, y : x \subseteq Row /\ y \subseteq Send => [rows |-> x, waiting |-> y] \in W
  OBVIOUS
<1>4. CASE line.kind = "call"
  <2>1. OnSend(R, s, m) \subseteq Row
    <3>1. NewSend(s, m) \in Row
      BY <1>1 DEF NewSend, Row
    <3> QED BY <1>1, <3>1 DEF OnSend
  <2>2. Ingest(w, known, s, line) = [rows |-> OnSend(R, s, m), waiting |-> w.waiting \cup {m}]
    BY <1>4, RecordIs DEF Ingest, Answer
  <2>3. w.waiting \cup {m} \subseteq Send
    BY <1>1
  <2> QED BY <1>3, <2>1, <2>2, <2>3
<1>5. CASE line.kind = "received"
  <2>1. OnReceived(R, known, s, m) \subseteq Row
    <3>1. NewReceived(s, m) \in Row
      BY <1>1 DEF NewReceived, Row
    <3> QED BY <1>1, <1>2, <3>1 DEF OnReceived
  <2>2. Ingest(w, known, s, line) = [rows |-> OnReceived(R, known, s, m), waiting |-> w.waiting]
    BY <1>5, RecordIs DEF Ingest, Answer
  <2> QED BY <1>1, <1>3, <2>1, <2>2
<1>6. CASE line.kind \in Answer /\ m \notin w.waiting
  BY <1>6, AnswerIs
<1>7. CASE line.kind = "sent" /\ m \in w.waiting
  <2>1. OnSent(R, known, s, m) \subseteq Row
    BY <1>1, <1>2 DEF OnSent
  <2>2. Ingest(w, known, s, line) = [rows |-> OnSent(R, known, s, m), waiting |-> w.waiting \ {m}]
    BY <1>7, RecordIs DEF Ingest, Answer
  <2>3. w.waiting \ {m} \subseteq Send
    BY <1>1
  <2> QED BY <1>3, <2>1, <2>2, <2>3
<1>8. CASE line.kind \in {"handed", "refused"} /\ m \in w.waiting
  <2>1. Dropped(R, s, m) \subseteq Row /\ Refused(R, s, m) \subseteq Row
    BY <1>1, <1>2 DEF Dropped, Refused, Waits, Mine
  <2>2. \/ Ingest(w, known, s, line) = [rows |-> Dropped(R, s, m), waiting |-> w.waiting \ {m}]
        \/ Ingest(w, known, s, line) = [rows |-> Refused(R, s, m), waiting |-> w.waiting \ {m}]
    <3>1. CASE line.kind = "handed"
      BY <1>8, <3>1, RecordIs DEF Ingest, Answer, OnAnswered, Dropped, Waits
    <3>2. CASE line.kind = "refused"
      BY <1>8, <3>2, RecordIs DEF Ingest, Answer, OnAnswered, Refused, Waits
    <3> QED BY <1>8, <3>1, <3>2
  <2>3. w.waiting \ {m} \subseteq Send
    BY <1>1
  <2> QED BY <1>3, <2>1, <2>2, <2>3
<1> QED BY <1>1, <1>4, <1>5, <1>6, <1>7, <1>8 DEF Answer

\* Induction, from the least element of a set of naturals, and the folds it gives.
LEMMA Induction ==
  ASSUME NEW S, 0 \in S, \A n \in Nat : n \in S => n + 1 \in S
  PROVE  Nat \subseteq S
<1> DEFINE T == Nat \ S
           R == {ss \in Nat \X Nat : ss[1] < ss[2]}
<1> SUFFICES ASSUME T # {} PROVE FALSE
  OBVIOUS
<1>1. IsWellFoundedOn(R, Nat)
  BY NatLessThanWellFounded, SMT DEF OpToRel
<1>2. PICK x \in T : \A y \in T : ~ (<<y, x>> \in R)
  <2> HIDE DEF R
  <2> QED BY <1>1, WFMin, Zenon
<1>3. x - 1 \in Nat /\ x - 1 < x /\ (x - 1) + 1 = x
  OBVIOUS
<1> QED BY <1>2, <1>3

Steps(W, N) == [W \X (1..N) -> W]
IsFold(f, W, a, N, step) == f \in [0..N -> W] /\ f[0] = a /\ \A i \in 1..N : f[i] = step[<<f[i - 1], i>>]

\* There is a fold of any step over any number of lines.
LEMMA FoldExists ==
  ASSUME NEW W, NEW a \in W, NEW N \in Nat, NEW step \in Steps(W, N)
  PROVE  \E f : IsFold(f, W, a, N, step)
<1> USE DEF Steps
<1> DEFINE Folds(f, n) == f[0] = a /\ \A i \in 1..n : f[i] = step[<<f[i - 1], i>>]
           S == {n \in Nat : n <= N => \E f \in [0..n -> W] : Folds(f, n)}
<1>1. 0 \in S
  <2>1. Folds([i \in 0..0 |-> a], 0) /\ [i \in 0..0 |-> a] \in [0..0 -> W]
    OBVIOUS
  <2> QED BY <2>1
<1>2. ASSUME NEW n \in Nat, n \in S PROVE n + 1 \in S
  <2> SUFFICES ASSUME n + 1 <= N PROVE \E f \in [0..(n + 1) -> W] : Folds(f, n + 1)
    OBVIOUS
  <2>1. PICK f \in [0..n -> W] : Folds(f, n)
    BY <1>2
  <2> DEFINE h == [i \in 0..(n + 1) |-> IF i = n + 1 THEN step[<<f[n], n + 1>>] ELSE f[i]]
  <2>2. f[n] \in W /\ n + 1 \in 1..N
    OBVIOUS
  <2>3. h \in [0..(n + 1) -> W]
    BY <2>2
  <2>4. h[0] = a
    BY <2>1
  <2>5. ASSUME NEW i \in 1..(n + 1) PROVE h[i] = step[<<h[i - 1], i>>]
    <3>1. CASE i = n + 1
      <4>1. h[n] = f[n] /\ i - 1 = n /\ h[i] = step[<<f[n], n + 1>>]
        BY <3>1
      <4> QED BY <3>1, <4>1
    <3>2. CASE i # n + 1
      <4>1. i \in 1..n /\ h[i] = f[i] /\ h[i - 1] = f[i - 1]
        BY <3>2
      <4> QED BY <2>1, <4>1
    <3> QED BY <3>1, <3>2
  <2> HIDE DEF h
  <2> QED BY <2>3, <2>4, <2>5
<1> HIDE DEF S
<1>3. N \in S
  BY <1>1, <1>2, Induction
<1> QED BY <1>3 DEF S, IsFold

\* The lines of a pass.
Part(s, from, n) == SubSeq(file[s], from + 1, from + n)

\* A whole pass keeps the rows right.
LEMMA PassKeeps ==
  ASSUME IInv, NEW s \in Session, NEW n \in Nat, NEW from \in Nat, from + n <= Len(file[s]),
         from = 0 \/ from = cursor[s],
         NEW known \in SUBSET Session, s \in known, started \subseteq known
  PROVE  \E w : PassInv(w, s, from, n, known) /\ Ingested(s, Part(s, from, n), known) = w.rows
<1> DEFINE lines == Part(s, from, n)
           W == [rows : SUBSET Row, waiting : SUBSET Send]
           a == [rows |-> rows, waiting |-> Pending(rows, s)]
           F(f) == [i \in 0..n |-> IF i = 0 THEN a ELSE Ingest(f[i - 1], known, s, lines[i])]
           c == CHOOSE f : f = F(f)
<1>1. file[s] \in Seq(Line) /\ Len(file[s]) \in Nat
  BY DEF IInv, Types
<1>2. Len(lines) = n /\ \A i \in 1..n : lines[i] = file[s][from + i] /\ lines[i] \in Line
  BY <1>1 DEF Part
<1> HIDE DEF lines
<1>3. a \in W
  BY DEF IInv, RowsOK, Pending
<1>4. c = F(c)
  <2> DEFINE step == [p \in W \X (1..n) |-> Ingest(p[1], known, s, lines[p[2]])]
  <2>1. step \in [W \X (1..n) -> W]
    BY <1>2, IngestType
  <2>0. \E f : IsFold(f, W, a, n, step)
    <3>1. step \in Steps(W, n)
      BY <2>1 DEF Steps
    <3> HIDE DEF W, a, step
    <3> QED BY <1>3, <3>1, FoldExists
  <2>2. PICK f \in [0..n -> W] : f[0] = a /\ \A i \in 1..n : f[i] = step[<<f[i - 1], i>>]
    BY <2>0, Zenon DEF IsFold
  <2>3. \A i \in 1..n : f[i - 1] \in W /\ f[i] = Ingest(f[i - 1], known, s, lines[i])
    <3> TAKE i \in 1..n
    <3>1. i - 1 \in 0..n
      OBVIOUS
    <3>2. f[i - 1] \in W
      BY <3>1
    <3>3. step[<<f[i - 1], i>>] = Ingest(f[i - 1], known, s, lines[i])
      BY <3>2
    <3> QED BY <2>2, <3>2, <3>3
  <2>4. f = F(f)
    <3> HIDE DEF W, a
    <3>1. \A i \in 0..n : f[i] = IF i = 0 THEN a ELSE Ingest(f[i - 1], known, s, lines[i])
      BY <2>2, <2>3
    <3> QED BY <3>1
  <2> HIDE DEF F
  <2> QED BY <2>4
<1>5. c[0] = a /\ \A i \in Nat : i + 1 <= n => c[i + 1] = Ingest(c[i], known, s, lines[i + 1])
  <2> HIDE DEF c
  <2>1. \A i \in 0..n : c[i] = IF i = 0 THEN a ELSE Ingest(c[i - 1], known, s, lines[i])
    BY <1>4
  <2> HIDE DEF a
  <2>2. c[0] = a
    BY <2>1
  <2>3. ASSUME NEW i \in Nat, i + 1 <= n PROVE c[i + 1] = Ingest(c[i], known, s, lines[i + 1])
    <3>1. i + 1 \in 0..n /\ i + 1 # 0 /\ (i + 1) - 1 = i
      BY <2>3
    <3> QED BY <2>1, <3>1
  <2> QED BY <2>2, <2>3
<1>6. Ingested(s, lines, known) = c[n].rows
  BY <1>2, Zenon DEF Ingested, lines
<1> DEFINE S == {i \in Nat : i <= n => c[i] \in W /\ PassInv(c[i], s, from, i, known)}
<1> HIDE DEF c
<1>7. 0 \in S
  <2>1. LinesOf(s, from, 0) = {}
    BY DEF LinesOf
  <2>2. HeardAt(s, from, 0) = heard
    BY <2>1 DEF HeardAt, HeardIn, IInv, Types
  <2>3. EndsOK(rows, heard, known)
    BY DEF IInv, EndsOK, EndsAt
  <2>4. Forth(rows, rows)
    BY ForthRefl DEF IInv, RowsOK
  <2>5. \A m \in Pending(rows, s) : m \in Send /\ Mine(rows, s, m) # {}
    BY DEF Pending
  <2>6. \A x : Among(file[s], from + 0, x) => Among(file[s], cursor[s], x)
    BY DEF Among
  <2>7. \A m \in Send : Among(file[s], from + 0, L("call", m)) => m \in Pending(rows, s) \/ s \in heard[m].from \/ fate[m] \in Settled
    BY <2>6 DEF IInv, AskedInv
  <2>8. \A m \in Send, x \in Answer : Among(file[s], from + 0, L(x, m)) => m \notin Pending(rows, s)
    BY <2>6 DEF IInv, AnsweredInv
  <2>9. a.rows = rows /\ a.waiting = Pending(rows, s)
    OBVIOUS
  <2> HIDE DEF a
  <2>10. PassInv(a, s, from, 0, known)
    BY <2>2, <2>3, <2>4, <2>5, <2>7, <2>8, <2>9 DEF PassInv, IInv
  <2> QED BY <1>3, <1>5, <2>10
<1>8. ASSUME NEW i \in Nat, i \in S PROVE i + 1 \in S
  <2> SUFFICES ASSUME i + 1 <= n PROVE c[i + 1] \in W /\ PassInv(c[i + 1], s, from, i + 1, known)
    OBVIOUS
  <2>1. c[i] \in W /\ PassInv(c[i], s, from, i, known)
    BY <1>8
  <2>2. i + 1 \in 1..n /\ from + (i + 1) <= Len(file[s])
    BY <1>1
  <2>3. lines[i + 1] = file[s][from + (i + 1)] /\ lines[i + 1] \in Line
    BY <1>2, <2>2
  <2>4. c[i + 1] = Ingest(c[i], known, s, lines[i + 1])
    BY <1>5
  <2>5. c[i + 1] \in W
    <3>1. Ingest(c[i], known, s, lines[i + 1]) \in W
      BY <2>1, <2>3, IngestType, Zenon
    <3> QED BY <2>4, <3>1, Zenon
  <2>6. PassInv(Ingest(c[i], known, s, lines[i + 1]), s, from, i + 1, known)
    BY <2>1, <2>2, <2>3, IngestKeeps
  <2> QED BY <2>4, <2>5, <2>6
<1> HIDE DEF S
<1>9. n \in S
  BY <1>7, <1>8, Induction
<1> QED BY <1>6, <1>9 DEF S, lines

\* A pass keeps the invariant, and moves each end the way the journal allows.
LEMMA ReadKeeps ==
  ASSUME IInv, NEW s \in Session, NEW n \in 1..Len(file[s]), NEW live,
         ReadSession(s, n, live)
  PROVE  IInv' /\ Forth(rows, rows') /\ \A m \in Send : heard[m].from \subseteq heard'[m].from /\ heard[m].to \subseteq heard'[m].to
<1> DEFINE from == IF Len(file[s]) < cursor[s] THEN 0 ELSE cursor[s]
           lines == SubSeq(file[s], from + 1, from + n)
           known == IF from = 0 THEN started \cup {s} ELSE started
           read == Ingested(s, lines, known)
           found == Touched(read, s, lines)
           H == HeardAt(s, from, n)
<1>1. Types /\ Lines /\ Cursors /\ AskedInv /\ AnsweredInv
  BY DEF IInv
<1>2. file[s] \in Seq(Line) /\ Len(file[s]) \in Nat /\ from \in Nat /\ n \in Nat /\ n > 0
  BY <1>1 DEF Types
<1>3. from + n <= Len(file[s]) /\ cursor' = [cursor EXCEPT ![s] = from + n] /\ started' = known /\ UNCHANGED worldVars
  BY DEF ReadSession
<1>4. rows' = Filled(read, found, live)
  BY DEF ReadSession, Filled
<1>5. heard' = [m \in Send |->
               [from |-> heard[m].from \cup (IF \E i \in 1..n : lines[i] = L("sent", m) THEN {s} ELSE {}),
                to |-> heard[m].to \cup (IF \E i \in 1..n : lines[i] = L("received", m) THEN {s} ELSE {})]]
  BY DEF ReadSession
<1>6. \A i \in 1..n : lines[i] = file[s][from + i]
  BY <1>2, <1>3
<1>7. heard' = H
  <2>1. \A x : (\E i \in 1..n : lines[i] = x) <=> x \in LinesOf(s, from, n)
    BY <1>6 DEF LinesOf
  <2> HIDE DEF from, lines
  <2> QED BY <1>5, <2>1 DEF HeardAt, HeardIn
<1>8. known \subseteq Session /\ s \in known /\ started \subseteq known /\ (from = 0 \/ from = cursor[s])
  BY <1>1, <1>2 DEF Types, Cursors
<1>9. PICK w : PassInv(w, s, from, n, known) /\ read = w.rows
  <2>1. lines = Part(s, from, n)
    BY DEF Part
  <2> HIDE DEF from, known, lines
  <2>2. \E w : PassInv(w, s, from, n, known) /\ Ingested(s, Part(s, from, n), known) = w.rows
    <3>1. /\ IInv /\ s \in Session /\ n \in Nat /\ from \in Nat /\ from + n <= Len(file[s])
          /\ (from = 0 \/ from = cursor[s]) /\ known \in SUBSET Session /\ s \in known /\ started \subseteq known
      BY <1>2, <1>3, <1>8
    <3> QED BY ONLY <3>1, PassKeeps, Zenon
  <2> QED BY <2>1, <2>2
<1>10. RowsOK(read) /\ EndsOK(read, H, known) /\ Forth(rows, read)
  BY <1>9 DEF PassInv
<1>11. found \subseteq read
  BY DEF Touched
<1> HIDE DEF from, lines, known, read, found, H
<1>12. RowsOK(rows') /\ EndsOK(rows', H, known) /\ Forth(read, rows') /\ \A t \in Session : Pending(rows', t) = Pending(read, t)
  BY <1>4, <1>10, <1>11, ResolveKeeps
<1>13. Forth(rows, rows')
  BY <1>10, <1>12, ForthTrans DEF IInv, RowsOK
<1>14. \A m \in Send : heard[m].from \subseteq heard'[m].from /\ heard[m].to \subseteq heard'[m].to
  BY <1>5
<1>15. Types'
  <2>1. heard' \in [Send -> [from : SUBSET Session, to : SUBSET Session]]
    BY <1>1, <1>5 DEF Types
  <2> QED BY <1>1, <1>2, <1>3, <1>8, <2>1 DEF Types, worldVars
<1>16. Lines'
  BY <1>1, <1>3 DEF Lines, Among, worldVars
<1>17. Cursors'
  <2> SUFFICES ASSUME NEW t \in Session, cursor'[t] > 0 PROVE t \in started' /\ file'[t] # <<>>
    BY DEF Cursors
  <2>1. CASE t = s
    BY <1>2, <1>3, <1>8, <2>1 DEF worldVars
  <2>2. CASE t # s
    BY <1>1, <1>3, <1>8, <2>2 DEF Types, Cursors, worldVars
  <2> QED BY <2>1, <2>2
<1>18. RowsOK(rows)'
  BY <1>3, <1>12 DEF RowsOK, RowOK, worldVars
<1>19. EndsOK(rows, heard, started)'
  BY <1>3, <1>7, <1>12 DEF EndsOK
<1>20. ASSUME NEW t \in Session, t # s
       PROVE  Pending(rows', t) = Pending(rows, t) /\ file'[t] = file[t] /\ cursor'[t] = cursor[t]
  BY <1>1, <1>3, <1>9, <1>12, <1>20 DEF PassInv, Types, worldVars
<1>21. Pending(rows', s) = Pending(w.rows, s) /\ file'[s] = file[s] /\ cursor'[s] = from + n /\ fate' = fate
  BY <1>1, <1>3, <1>9, <1>12 DEF Types, worldVars
<1>22. AskedInv'
  <2> SUFFICES ASSUME NEW t \in Session, NEW m \in Send, Among(file'[t], cursor'[t], L("call", m))
               PROVE  m \in Pending(rows', t) \/ t \in heard'[m].from \/ fate'[m] \in Settled
    BY DEF AskedInv, Pending, Mine
  <2>1. CASE t # s
    BY <1>1, <1>14, <1>20, <1>21, <2>1 DEF AskedInv
  <2>2. CASE t = s /\ m \in w.waiting
    <3>1. PICK r \in w.rows : r.m = m /\ r.sender = s /\ r.call
      BY <1>9, <2>2 DEF PassInv, Mine
    <3>2. CASE r.named
      <4>1. r \in Named(read, m)
        BY <1>9, <3>1, <3>2 DEF Named
      <4>2. s \in H[m].from
        BY <1>10, <3>1, <4>1 DEF EndsOK, EndsAt
      <4> QED BY <1>7, <2>2, <4>2
    <3>3. CASE r.error
      BY <1>9, <1>10, <1>21, <3>1, <3>3 DEF RowsOK, RowOK, Settled
    <3>4. CASE ~r.named /\ ~r.error
      <4>1. m \in Pending(w.rows, s)
        BY <3>1, <3>4 DEF Pending, Mine
      <4> QED BY <1>21, <2>2, <4>1
    <3> QED BY <3>2, <3>3, <3>4
  <2>3. CASE t = s /\ m \notin w.waiting
    <3>1. s \in H[m].from \/ fate[m] \in Settled
      BY <1>9, <1>21, <2>3 DEF PassInv, H
    <3> QED BY <1>7, <1>21, <2>3, <3>1
  <2> QED BY <2>1, <2>2, <2>3
<1>23. AnsweredInv'
  <2> SUFFICES ASSUME NEW t \in Session, NEW m \in Send, NEW x \in Answer, Among(file'[t], cursor'[t], L(x, m))
               PROVE  m \notin Pending(rows', t)
    BY DEF AnsweredInv, Pending, Mine
  <2>1. CASE t # s
    BY <1>1, <1>20, <2>1 DEF AnsweredInv
  <2>2. CASE t = s
    <3>1. m \notin w.waiting
      BY <1>9, <1>21, <2>2 DEF PassInv
    <3> QED BY <1>9, <1>21, <2>2, <3>1 DEF PassInv
  <2> QED BY <2>1, <2>2
<1> QED BY <1>13, <1>14, <1>15, <1>16, <1>17, <1>18, <1>19, <1>22, <1>23 DEF IInv

----
(***************************************************************************)
(* The theorems.                                                           *)
(***************************************************************************)
LEMMA NextKeeps == ASSUME IInv, [Next]_vars PROVE IInv'
<1>1. CASE UNCHANGED vars
  <2>1. UNCHANGED scanVars /\ UNCHANGED worldVars
    BY <1>1 DEF vars
  <2>2. Types' /\ Lines' /\ Cursors'
    BY <2>1 DEF IInv, Types, Lines, Cursors, scanVars, worldVars
  <2> QED BY <2>1, <2>2, WorldKeeps DEF worldVars
<1>2. CASE \E m \in Send : Answers(m) \/ Receives(m) \/ \E answer \in Answer : Calls(m, answer)
  BY <1>2, AnswersKeeps, ReceivesKeeps, CallsKeeps
<1>3. CASE \E f \in Fork, s \in Session : Forks(f, s)
  BY <1>3, ForksKeeps
<1>4. CASE \E s \in Session : Rewrites(s)
  BY <1>4, RewritesKeeps
<1>5. CASE \E s \in Session, live \in SUBSET Send : \E n \in 1..Len(file[s]) : ReadSession(s, n, live)
  BY <1>5, ReadKeeps
<1> QED BY <1>1, <1>2, <1>3, <1>4, <1>5 DEF Next

\* The inductive invariant holds throughout.
LEMMA Invariant == Spec => []IInv
<1>1. IInv /\ [Next]_vars => IInv'
  BY NextKeeps
<1> QED BY <1>1, InitInv, PTL DEF Spec

\* The scan keeps its rows well formed: in none of them does a message have two
\* names, and none holds a call twice.
THEOREM TypeCorrect == Spec => []TypeOK
<1>1. IInv => TypeOK
  BY DEF IInv, Types, RowsOK, Unique, TypeOK
<1> QED BY <1>1, Invariant, PTL

\* A call whose answer was read does not go on waiting for it, wherever the
\* passes between the two lines ended.
THEOREM NoAnswerMissed == Spec => []NoAnswerIsMissed
<1>1. IInv => NoAnswerIsMissed
  <2> SUFFICES ASSUME IInv, NEW s \in Session, NEW m \in Send, NEW a \in Answer, Read(s, L(a, m))
               PROVE  m \notin Pending(rows, s)
    BY DEF NoAnswerIsMissed
  <2>1. Among(file[s], cursor[s], L(a, m))
    BY DEF Read, Among
  <2> QED BY <2>1 DEF IInv, AnsweredInv
<1> QED BY <1>1, Invariant, PTL

\* What a set of rows with one name for each message confirms.
Sound(R) ==
    /\ R \subseteq Row /\ Unique(R)
    /\ \A r \in R : (r.call => r.sender # Nobody) /\ (r.got => r.recipient # Nobody)

\* The one row of a message says what is confirmed of it.
LEMMA ConfirmedBy ==
  ASSUME NEW R, Sound(R), NEW m \in Send, NEW r \in Named(R, m)
  PROVE  /\ Confirmed(m, Named(R, m)).from = IF r.call THEN r.sender ELSE Nobody
         /\ Confirmed(m, Named(R, m)).to = IF r.got THEN r.recipient ELSE Nobody
<1>1. Named(R, m) = {r}
  BY DEF Named, Sound, Unique
<1>2. r.call => (CHOOSE q \in {r} : q.call) = r
  OBVIOUS
<1>3. r.got => (CHOOSE q \in {r} : q.got) = r
  OBVIOUS
<1> QED BY <1>1, <1>2, <1>3 DEF Confirmed

\* No row confirms nothing.
LEMMA NothingConfirmed ==
  ASSUME NEW m, NEW R, R = {}
  PROVE  Confirmed(m, R).from = Nobody /\ Confirmed(m, R).to = Nobody
BY DEF Confirmed

\* An end moves the way the journal allows when the rows go forth.
LEMMA EndsMove ==
  ASSUME NEW R, NEW Q, Sound(R), Sound(Q), Forth(R, Q), NEW H, NEW known, EndsOK(Q, H, known), NEW m \in Send
  PROVE  /\ Journal!Closer(Confirmed(m, Named(R, m)).from, Confirmed(m, Named(Q, m)).from, H[m].from, Origin[m], SocketOf[m])
         /\ Journal!Closer(Confirmed(m, Named(R, m)).to, Confirmed(m, Named(Q, m)).to, H[m].to, Target[m], LabelOf[m])
<1> DEFINE old == Confirmed(m, Named(R, m))
           new == Confirmed(m, Named(Q, m))
<1>1. EndsAt(Q, H[m], known, m)
  BY DEF EndsOK
<1>2. \A r \in Row : r.sender \in Nat /\ r.recipient \in Nat
  BY Constants DEF Row, Nobody
<1>3. CASE Named(Q, m) = {}
  <2>1. Named(R, m) = {}
    BY <1>3 DEF Forth, Named
  <2>2. old.from = Nobody /\ old.to = Nobody /\ new.from = Nobody /\ new.to = Nobody
    BY <1>3, <2>1, NothingConfirmed
  <2>3. (SenderFits(m) => Origin[m] \notin H[m].from) /\ (RecipientFits(m) => Target[m] \notin H[m].to)
    BY <1>1, <1>3 DEF EndsAt
  <2> HIDE DEF old, new
  <2>4. Journal!Closer(old.from, new.from, H[m].from, Origin[m], SocketOf[m]) /\ Journal!Closer(old.to, new.to, H[m].to, Target[m], LabelOf[m])
    BY <2>2, <2>3 DEF Journal!Closer, Journal!Corrected, Journal!Nobody, Nobody, SenderFits, RecipientFits
  <2> QED BY <2>4 DEF old, new
<1>4. CASE Named(Q, m) # {}
  <2>1. PICK q \in Named(Q, m) : TRUE
    BY <1>4
  <2>2. new.from = (IF q.call THEN q.sender ELSE Nobody) /\ new.to = (IF q.got THEN q.recipient ELSE Nobody)
    BY <2>1, ConfirmedBy
  <2>3. \A p \in Named(Q, m) : p = q
    BY <2>1 DEF Named, Sound, Unique
  <2>4. (q.call => q.sender \in H[m].from) /\ (q.got => q.recipient \in H[m].to)
    BY <1>1, <2>1 DEF EndsAt
  <2>5. /\ SenderFits(m) /\ Origin[m] \in H[m].from => new.from = Origin[m]
        /\ RecipientFits(m) /\ Target[m] \in H[m].to => new.to = Target[m]
    <3> HIDE DEF new
    <3> QED BY <1>1, <2>2, <2>3 DEF EndsAt
  <2>6. q.sender \in Nat /\ q.recipient \in Nat
    BY <1>2, <2>1 DEF Named, Sound
  <2>7. /\ new.from # old.from => q.call /\ (old.from = Nobody \/ new.from < old.from)
        /\ new.to # old.to => q.got /\ (old.to = Nobody \/ new.to < old.to)
    <3>1. CASE Named(R, m) = {}
      <4>1. old.from = Nobody /\ old.to = Nobody
        BY <3>1, NothingConfirmed
      <4> HIDE DEF old, new
      <4> QED BY <2>2, <4>1
    <3>2. CASE Named(R, m) # {}
      <4>1. PICK r \in Named(R, m) : TRUE
        BY <3>2
      <4>2. old.from = (IF r.call THEN r.sender ELSE Nobody) /\ old.to = (IF r.got THEN r.recipient ELSE Nobody)
        BY <4>1, ConfirmedBy
      <4>3. PICK p \in Q : p.m = r.m /\ p.named /\ (r.call => p.call /\ p.sender <= r.sender) /\ (r.got => p.got /\ p.recipient <= r.recipient)
        BY <4>1 DEF Forth, Named
      <4>4. p = q
        BY <2>3, <4>1, <4>3 DEF Named
      <4>5. r.sender \in Nat /\ r.recipient \in Nat
        BY <1>2, <4>1 DEF Named, Sound
      <4> HIDE DEF old, new
      <4> QED BY <2>2, <2>6, <4>2, <4>3, <4>4, <4>5
    <3> QED BY <3>1, <3>2
  <2> HIDE DEF old, new
  <2>8. Journal!Closer(old.from, new.from, H[m].from, Origin[m], SocketOf[m])
    BY <2>2, <2>4, <2>5, <2>7 DEF Journal!Closer, Journal!Corrected, Journal!Nobody, Nobody, SenderFits, RecipientFits
  <2>9. Journal!Closer(old.to, new.to, H[m].to, Target[m], LabelOf[m])
    BY <2>2, <2>4, <2>5, <2>7 DEF Journal!Closer, Journal!Corrected, Journal!Nobody, Nobody, SenderFits, RecipientFits
  <2> QED BY <2>8, <2>9 DEF old, new
<1> QED BY <1>3, <1>4

\* The scan implements the journal of messages, whatever the roster says: every pass
\* moves every end the way the journal allows, and nothing else moves one.
THEOREM TheJournalIsKept == Spec => KeepsTheJournal
<1>1. Init => Journal!Init
  <2> SUFFICES ASSUME Init PROVE Journal!Init
    OBVIOUS
  <2>1. \A m \in Send : Named(rows, m) = {} /\ Confirmed(m, {}) = [from |-> Nobody, to |-> Nobody]
    BY DEF Init, Named, Confirmed
  <2>2. [m \in Send |-> Confirmed(m, Named(rows, m))] = [m \in Send |-> [from |-> Nobody, to |-> Nobody]]
    BY <2>1, Zenon
  <2> QED BY <2>2 DEF Init, Journal!Init, Journal!Nobody, Nobody
<1>2. ASSUME IInv, IInv', NEW s \in Session, NEW n \in 1..Len(file[s]), NEW live, ReadSession(s, n, live)
      PROVE  Journal!Next
  <2>1. Sound(rows) /\ Sound(rows')
    BY <1>2 DEF IInv, RowsOK, RowOK, Sound
  <2>2. EndsOK(rows', heard', started')
    BY <1>2 DEF IInv, EndsOK
  <2>3. Forth(rows, rows') /\ \A m \in Send : heard[m].from \subseteq heard'[m].from /\ heard[m].to \subseteq heard'[m].to
    BY <1>2, ReadKeeps
  <2> SUFFICES ASSUME NEW m \in Send PROVE Journal!Hear(m)
    BY DEF Journal!Next
  <2>4. /\ Journal!Closer(Confirmed(m, Named(rows, m)).from, Confirmed(m, Named(rows', m)).from, heard'[m].from, Origin[m], SocketOf[m])
        /\ Journal!Closer(Confirmed(m, Named(rows, m)).to, Confirmed(m, Named(rows', m)).to, heard'[m].to, Target[m], LabelOf[m])
    BY <2>1, <2>2, <2>3, EndsMove
  <2> QED BY <2>3, <2>4 DEF Journal!Hear
<1>3. ASSUME UNCHANGED scanVars PROVE UNCHANGED Journal!journalVars
  BY <1>3 DEF scanVars, Journal!journalVars, Confirmed, Named
<1>4. IInv /\ IInv' /\ [Next]_vars => [Journal!Next]_(Journal!journalVars)
  <2> SUFFICES ASSUME IInv, IInv', [Next]_vars PROVE Journal!Next \/ UNCHANGED Journal!journalVars
    OBVIOUS
  <2>1. UNCHANGED scanVars \/ \E s \in Session, live \in SUBSET Send : \E n \in 1..Len(file[s]) : ReadSession(s, n, live)
    BY DEF Next, vars, Calls, Answers, Receives, Forks, Rewrites
  <2> QED BY <1>2, <1>3, <2>1
<1> QED BY <1>1, <1>4, Invariant, PTL DEF Spec, KeepsTheJournal, Journal!Spec
====
