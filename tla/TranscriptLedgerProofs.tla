---- MODULE TranscriptLedgerProofs ----
(***************************************************************************)
(* Proofs about TranscriptLedger, for any transcripts, ingesters and       *)
(* interleaving of their reads: the ledger is what lies below the cursors, *)
(* it is what one read of each file from the top would make of it, and     *)
(* the first session keeps what it brought.                                *)
(*                                                                         *)
(* What a read keeps of the lines before is a fold over them.  The proofs  *)
(* say what that fold comes to without one: every line is fresh, newer     *)
(* than all before it, or the replay of a fresh one, which the read skips; *)
(* and the fresh lines before a line say whether an unanswered prompt      *)
(* waits, which prompt opened the turn, and whether the agent is in it.    *)
(***************************************************************************)
EXTENDS TranscriptLedger, SequenceTheorems, FiniteSetTheorems, WellFoundedInduction, TLAPS

\* All of a file, with what a fork has still to copy.
Full(f) == text[f] \o copy[f]

Fresh(s, n) == \A m \in 1..(n - 1) : s[m].at < s[n].at

\* What is not fresh was written before, far enough before the newest line.
Replayed(s, n) ==
    /\ \E m \in 1..(n - 1) : Fresh(s, m) /\ s[m] = s[n]
    /\ \E m \in 1..(n - 1) : s[n].at + Slack < s[m].at
Climbs(s) == \A n \in 1..Len(s) : Fresh(s, n) \/ Replayed(s, n)

\* Among the first n lines: a prompt has no reply yet; the agent is in a turn.
Waits(s, n) ==
    \E m \in 1..n : /\ Fresh(s, m) /\ s[m].kind = "prompt"
                    /\ \A k \in (m + 1)..n : Fresh(s, k) => s[k].kind \notin Billed
InTurn(s, n) ==
    \E m \in 1..n : /\ Fresh(s, m) /\ s[m].kind \in {"prompt", "tool"}
                    /\ \A k \in (m + 1)..n : Fresh(s, k) => s[k].kind # "end"

\* Line n opens a turn; the gap before it was work.
Opens(s, n) == Fresh(s, n) /\ s[n].kind = "prompt" /\ ~Waits(s, n - 1)
Works(s, n) == Fresh(s, n) /\ InTurn(s, n - 1) /\ ~Opens(s, n)

\* The prompt of the turn at line n.
PromptIs(p, s, n) ==
    \/ p = NoId /\ \A k \in 1..n : ~Opens(s, k)
    \/ \E m \in 1..n : Opens(s, m) /\ p = PromptOf(s[m]) /\ \A k \in (m + 1)..n : ~Opens(s, k)

\* Line n stamps the response id with a turn.
Bills(s, n, id) == s[n].kind \in Billed /\ RespOf(s[n]) = id
Stamps(s, n, id) == Fresh(s, n) /\ Bills(s, n, id) /\ \E m \in 1..(n - 1) : Opens(s, m)
\* The stamp of id after the lines from + 1 to n, when it was p0 before them.
StampIs(p, p0, s, from, n, id) ==
    \/ p = p0 /\ \A k \in (from + 1)..n : ~Stamps(s, k, id)
    \/ \E m \in (from + 1)..n : /\ Stamps(s, m, id) /\ PromptIs(p, s, m - 1)
                                /\ \A k \in (m + 1)..n : ~Stamps(s, k, id)

----
(***************************************************************************)
(* What holds of the files.                                                *)
(***************************************************************************)
\* A file as the sessions write it: a response is numbered by its first line.
Sound(s) ==
    /\ s \in Seq(Line) /\ Climbs(s)
    /\ \A n \in 1..Len(s) : s[n].kind \in Billed => s[n].resp \in 1..s[n].at

Precedes(f, g) == \E j \in 1..Len(born) : born[j] = g /\ \E i \in 1..(j - 1) : born[i] = f

\* A fresh line of another session comes with all that was before it there.
Shared ==
    \A f, g \in File : \A n \in 1..Len(Full(g)) :
        Full(g)[n].from = f /\ f # g /\ Fresh(Full(g), n) =>
            /\ Precedes(f, g) /\ n <= Len(text[f])
            /\ \A m \in 1..n : Full(g)[m] = text[f][m]

FilesOK ==
    /\ born \in Seq(File) /\ \A i, j \in 1..Len(born) : born[i] = born[j] => i = j
    /\ gone \subseteq Born
    /\ text \in [File -> Seq(Line)] /\ copy \in [File -> Seq(Line)] /\ torn \in [File -> BOOLEAN]
    /\ \A f \in File : f \notin Born => Full(f) = <<>>
    /\ \A f \in File : f \in Born => text[f] # <<>>
    /\ \A f \in File : Sound(Full(f)) /\ \A n \in 1..Len(Full(f)) : Full(f)[n].at <= events
    /\ Shared
    /\ events \in 0..MaxEvents

----
(***************************************************************************)
(* What holds of the ledger.                                               *)
(***************************************************************************)
Act == [last : 0..MaxEvents, inTurn : BOOLEAN, prompt : Id \cup {NoId}, answered : BOOLEAN]

\* What any read knows of the turn after n lines.
ActIs(act, s, n) ==
    /\ act \in Act
    /\ \A m \in 1..n : s[m].at <= act.last
    /\ act.last = 0 \/ \E m \in 1..n : s[m].at = act.last
    /\ act.answered <=> ~Waits(s, n)
    /\ ~act.answered => act.inTurn /\ act.prompt # NoId
    /\ PromptIs(act.prompt, s, n)

CursorsOK ==
    /\ cursor \in [File -> [size : Nat, lines : Nat, act : Act]]
    /\ \A f \in File :
          /\ cursor[f].lines \in 0..Len(text[f])
          /\ cursor[f].size \div 2 <= cursor[f].lines
          /\ ActIs(cursor[f].act, text[f], cursor[f].lines)

TurnsOK ==
    /\ turn \in [Id -> File \cup {NoFile}]
    /\ \A f \in File : \A id \in Id : turn[id] = f =>
          \E m \in 1..cursor[f].lines : Opens(text[f], m) /\ PromptOf(text[f][m]) = id
    /\ \A f \in File : \A m \in 1..cursor[f].lines :
          Opens(text[f], m) => turn[PromptOf(text[f][m])] # NoFile

RowsOK ==
    /\ row \in [Id -> Row \cup {NoRow}]
    /\ \A f \in File : \A m \in 1..cursor[f].lines : text[f][m].kind \in Billed =>
          /\ row[RespOf(text[f][m])].owner # NoFile
          /\ text[f][m].at <= row[RespOf(text[f][m])].out
    /\ \A id \in Id : row[id].owner # NoFile =>
          \E f \in File : \E m \in 1..cursor[f].lines :
              Bills(text[f], m, id) /\ row[id].out = text[f][m].at
    /\ \A id \in Id : \A f \in File : row[id].owner = f =>
          StampIs(row[id].prompt, NoId, text[f], 0, cursor[f].lines, id)

\* With these rows and turns the first n lines are all the session's own.
Mine(rows, turns, f, s, n) ==
    \A m \in 1..n :
        /\ s[m].kind \in Billed => rows[RespOf(s[m])].owner = f
        /\ s[m].kind = "prompt" => turns[PromptOf(s[m])] \in {f, NoFile}
Worked(s, from, n) == {m \in (from + 1)..n : Works(s, m)}

BusyOK ==
    /\ busy \in [File -> Nat]
    /\ \A f \in File : Mine(row, turn, f, text[f], cursor[f].lines) =>
          /\ cursor[f].act.inTurn <=> InTurn(text[f], cursor[f].lines)
          /\ busy[f] = Cardinality(Worked(text[f], 0, cursor[f].lines))

----
(***************************************************************************)
(* What holds of the ingesters.                                            *)
(***************************************************************************)
Jobs == {"none", "start", "sweep", "batch"}
TodoOK ==
    /\ todo \in [Ingester -> Seq(File)] /\ stat \in [Ingester -> Nat]
    /\ \A i \in Ingester : \A j \in 1..Len(todo[i]) : todo[i][j] \in Born
    /\ \A i \in Ingester : stat[i] # 0 =>
          todo[i] # <<>> /\ stat[i] \div 2 <= Len(text[Head(todo[i])])
    /\ job \in Jobs /\ (job = "none" <=> todo[Serve] = <<>>)
    /\ pending \subseteq Born /\ missed \subseteq File

Watched == File \ (missed \cup gone)
\* What g has of f is in the first k lines of f.
Covers(k, f, g) == \A n \in 1..Len(Full(g)) : Fresh(Full(g), n) /\ Full(g)[n].from = f => n <= k
\* An ingester reads f up to there before it reads g.
ReadFirst ==
    \A i \in Ingester : \A j \in 1..Len(todo[i]) : \A f \in Watched \ {todo[i][j]} :
        \/ Covers(cursor[f].lines, f, todo[i][j])
        \/ \E k \in 1..(j - 1) : /\ todo[i][k] = f
                                 /\ k = 1 /\ stat[i] # 0 => Covers(stat[i] \div 2, f, todo[i][j])
\* What is not read is due.
Due ==
    \A f \in Watched : cursor[f].lines < Len(text[f]) =>
        \/ f \in pending
        \/ \E k \in 1..Len(todo[Serve]) :
              /\ todo[Serve][k] = f
              /\ k = 1 /\ stat[Serve] # 0 => Len(text[f]) <= stat[Serve] \div 2

OrderOK == ReadFirst /\ Due /\ FirstSessionKeeps

IInv == FilesOK /\ CursorsOK /\ TurnsOK /\ RowsOK /\ BusyOK /\ TodoOK /\ OrderOK

----
(***************************************************************************)
(* One more line: what it does to what the lines before came to.           *)
(***************************************************************************)
\* A line that is not fresh changes nothing.
LEMMA NotFresh ==
  ASSUME NEW s, NEW n \in Nat \ {0}, ~Fresh(s, n)
  PROVE  /\ Waits(s, n) <=> Waits(s, n - 1)
         /\ InTurn(s, n) <=> InTurn(s, n - 1)
         /\ ~Opens(s, n) /\ ~Works(s, n) /\ \A id : ~Stamps(s, n, id)
<1>1. Waits(s, n) <=> Waits(s, n - 1)
  BY DEF Waits
<1>2. InTurn(s, n) <=> InTurn(s, n - 1)
  BY DEF InTurn
<1> QED BY <1>1, <1>2 DEF Opens, Works, Stamps

LEMMA FreshWaits ==
  ASSUME NEW s, NEW n \in Nat \ {0}, Fresh(s, n)
  PROVE  /\ s[n].kind = "prompt" => Waits(s, n)
         /\ s[n].kind \in Billed => ~Waits(s, n)
         /\ s[n].kind = "tool" => (Waits(s, n) <=> Waits(s, n - 1))
<1>1. ASSUME s[n].kind = "prompt" PROVE Waits(s, n)
  BY <1>1 DEF Waits
<1>2. ASSUME s[n].kind \in Billed PROVE ~Waits(s, n)
  BY <1>2 DEF Waits, Billed
<1>3. ASSUME s[n].kind = "tool" PROVE Waits(s, n) <=> Waits(s, n - 1)
  <2>1. s[n].kind \notin Billed /\ s[n].kind # "prompt"
    BY <1>3 DEF Billed
  <2> QED BY <2>1 DEF Waits
<1> QED BY <1>1, <1>2, <1>3

LEMMA FreshInTurn ==
  ASSUME NEW s, NEW n \in Nat \ {0}, Fresh(s, n)
  PROVE  /\ s[n].kind \in {"prompt", "tool"} => InTurn(s, n)
         /\ s[n].kind = "end" => ~InTurn(s, n)
         /\ s[n].kind = "reply" => (InTurn(s, n) <=> InTurn(s, n - 1))
<1>1. ASSUME s[n].kind \in {"prompt", "tool"} PROVE InTurn(s, n)
  BY <1>1 DEF InTurn
<1>2. ASSUME s[n].kind = "end" PROVE ~InTurn(s, n)
  BY <1>2 DEF InTurn
<1>3. ASSUME s[n].kind = "reply" PROVE InTurn(s, n) <=> InTurn(s, n - 1)
  BY <1>3 DEF InTurn
<1> QED BY <1>1, <1>2, <1>3

\* The prompt of the turn is that of the last line that opened one.
LEMMA PromptOpens ==
  ASSUME NEW s, NEW n \in Nat \ {0}, Opens(s, n)
  PROVE  PromptIs(PromptOf(s[n]), s, n)
BY DEF PromptIs

LEMMA PromptStays ==
  ASSUME NEW s, NEW n \in Nat \ {0}, ~Opens(s, n), NEW p
  PROVE  PromptIs(p, s, n) <=> PromptIs(p, s, n - 1)
BY DEF PromptIs

LEMMA PromptUnique ==
  ASSUME NEW s, NEW n \in Nat, NEW p, NEW q, PromptIs(p, s, n), PromptIs(q, s, n)
  PROVE  p = q
<1>1. CASE \A k \in 1..n : ~Opens(s, k)
  BY <1>1 DEF PromptIs
<1>2. CASE \E k \in 1..n : Opens(s, k)
  <2>1. PICK m \in 1..n : Opens(s, m) /\ p = PromptOf(s[m]) /\ \A k \in (m + 1)..n : ~Opens(s, k)
    BY <1>2 DEF PromptIs
  <2>2. PICK l \in 1..n : Opens(s, l) /\ q = PromptOf(s[l]) /\ \A k \in (l + 1)..n : ~Opens(s, k)
    BY <1>2 DEF PromptIs
  <2>3. l = m
    BY <2>1, <2>2
  <2> QED BY <2>1, <2>2, <2>3
<1> QED BY <1>1, <1>2

LEMMA NoPrompt ==
  ASSUME NEW s, NEW n \in Nat, NEW p, PromptIs(p, s, n)
  PROVE  p = NoId <=> \A k \in 1..n : ~Opens(s, k)
<1>1. ASSUME NEW k PROVE PromptOf(s[k]) # NoId
  BY DEF PromptOf, NoId
<1> QED BY <1>1 DEF PromptIs

\* The stamp is that of the last line that stamped.
LEMMA StampSet ==
  ASSUME NEW s, NEW from \in Nat, NEW n \in Nat, from < n, NEW id, NEW p, NEW p0,
         Stamps(s, n, id), PromptIs(p, s, n - 1)
  PROVE  StampIs(p, p0, s, from, n, id)
BY DEF StampIs

LEMMA StampStays ==
  ASSUME NEW s, NEW from \in Nat, NEW n \in Nat, from < n, NEW id, NEW p, NEW p0,
         ~Stamps(s, n, id)
  PROVE  StampIs(p, p0, s, from, n, id) <=> StampIs(p, p0, s, from, n - 1, id)
BY DEF StampIs

LEMMA StampUnique ==
  ASSUME NEW s, NEW from \in Nat, NEW n \in Nat, NEW id, NEW p, NEW q, NEW p0, NEW q0,
         StampIs(p, p0, s, from, n, id), StampIs(q, q0, s, from, n, id)
  PROVE  p = q \/ (p = p0 /\ q = q0)
<1>1. CASE \A k \in (from + 1)..n : ~Stamps(s, k, id)
  BY <1>1 DEF StampIs
<1>2. CASE \E k \in (from + 1)..n : Stamps(s, k, id)
  <2>1. PICK m \in (from + 1)..n : /\ Stamps(s, m, id) /\ PromptIs(p, s, m - 1)
                                   /\ \A k \in (m + 1)..n : ~Stamps(s, k, id)
    BY <1>2 DEF StampIs
  <2>2. PICK l \in (from + 1)..n : /\ Stamps(s, l, id) /\ PromptIs(q, s, l - 1)
                                   /\ \A k \in (l + 1)..n : ~Stamps(s, k, id)
    BY <1>2 DEF StampIs
  <2>3. l = m /\ m - 1 \in Nat
    BY <2>1, <2>2
  <2> QED BY <2>1, <2>2, <2>3, PromptUnique
<1> QED BY <1>1, <1>2

\* One stretch of lines after another.
LEMMA StampJoins ==
  ASSUME NEW s, NEW from \in Nat, NEW n \in Nat, from <= n, NEW id, NEW p, NEW q, NEW p0,
         StampIs(q, p0, s, 0, from, id), StampIs(p, q, s, from, n, id)
  PROVE  StampIs(p, p0, s, 0, n, id)
<1>1. CASE \A k \in (from + 1)..n : ~Stamps(s, k, id)
  <2>1. p = q
    BY <1>1 DEF StampIs
  <2>2. CASE \A k \in 1..from : ~Stamps(s, k, id)
    <3>1. q = p0
      BY <2>2 DEF StampIs
    <3> QED BY <1>1, <2>1, <2>2, <3>1 DEF StampIs
  <2>3. CASE \E k \in 1..from : Stamps(s, k, id)
    <3>1. PICK m \in 1..from : /\ Stamps(s, m, id) /\ PromptIs(q, s, m - 1)
                               /\ \A k \in (m + 1)..from : ~Stamps(s, k, id)
      BY <2>3 DEF StampIs
    <3>2. m \in 1..n /\ \A k \in (m + 1)..n : ~Stamps(s, k, id)
      BY <1>1, <3>1
    <3> QED BY <2>1, <3>1, <3>2 DEF StampIs
  <2> QED BY <2>2, <2>3
<1>2. CASE \E k \in (from + 1)..n : Stamps(s, k, id)
  <2>1. PICK m \in (from + 1)..n : /\ Stamps(s, m, id) /\ PromptIs(p, s, m - 1)
                                   /\ \A k \in (m + 1)..n : ~Stamps(s, k, id)
    BY <1>2 DEF StampIs
  <2>2. m \in (0 + 1)..n
    BY <2>1
  <2> QED BY <2>1, <2>2 DEF StampIs
<1> QED BY <1>1, <1>2

----
(***************************************************************************)
(* One line of a read.  R0 and T0 are the rows and turns before the read,  *)
(* which began behind line from.                                           *)
(***************************************************************************)
Tracked(r) ==
    r \in [row : [Id -> Row \cup {NoRow}], turn : [Id -> File \cup {NoFile}],
           add : Nat, copied : BOOLEAN, act : Act]

RowsAre(r, R0, f, s, from, n) ==
    /\ \A m \in 1..n : s[m].kind \in Billed =>
          r.row[RespOf(s[m])].owner # NoFile /\ s[m].at <= r.row[RespOf(s[m])].out
    /\ \A id \in Id :
          /\ R0[id].owner # NoFile =>
                r.row[id].owner = R0[id].owner /\ R0[id].out <= r.row[id].out
          /\ R0[id].owner = NoFile => r.row[id].owner \in {NoFile, f}
          /\ \/ r.row[id].out = R0[id].out
             \/ \E m \in 1..n : Bills(s, m, id) /\ r.row[id].out = s[m].at
          /\ r.row[id].owner = f => StampIs(r.row[id].prompt, R0[id].prompt, s, from, n, id)
          /\ r.row[id].owner # f => r.row[id].prompt = R0[id].prompt

TurnsAre(r, T0, f, s, n) ==
    /\ \A id \in Id :
          /\ T0[id] # NoFile => r.turn[id] = T0[id]
          /\ r.turn[id] # T0[id] =>
                r.turn[id] = f /\ \E m \in 1..n : Opens(s, m) /\ PromptOf(s[m]) = id
    /\ \A m \in 1..n : Opens(s, m) => r.turn[PromptOf(s[m])] # NoFile

\* What it knows of the session's work, if all so far is the session's own.
WorkIs(r, s, from, n) ==
    /\ ~r.copied /\ (r.act.inTurn <=> InTurn(s, n))
    /\ r.add = Cardinality(Worked(s, from, n))
BusyIs(r, f, s, from, n) == Mine(r.row, r.turn, f, s, n) => WorkIs(r, s, from, n)

\* Of the turns that are the session's own a line of it opened each.
Opened(T0, f, s) ==
    \A id \in Id : T0[id] = f => \E m \in 1..Len(s) : Opens(s, m) /\ PromptOf(s[m]) = id

LEMMA LineType ==
  ASSUME NEW s, Sound(s), NEW n \in 1..Len(s)
  PROVE  /\ s[n] \in Line /\ s[n].at \in 1..MaxEvents /\ s[n].from \in File
         /\ s[n].kind \in {"prompt", "tool", "reply", "end"}
         /\ PromptOf(s[n]) \in Id
         /\ s[n].kind \in Billed => RespOf(s[n]) \in Id
<1>1. s[n] \in Line
  BY DEF Sound
<1>2. s[n].at \in 1..MaxEvents /\ s[n].from \in File /\ s[n].kind \in Kind /\ s[n].resp \in 0..MaxEvents
  BY <1>1 DEF Line
<1>3. s[n].kind \in {"prompt", "tool", "reply", "end"}
  BY <1>2 DEF Kind, Billed
<1>4. PromptOf(s[n]) \in Id
  BY <1>2 DEF PromptOf, Id
<1>5. s[n].kind \in Billed => RespOf(s[n]) \in Id
  <2> SUFFICES ASSUME s[n].kind \in Billed PROVE RespOf(s[n]) \in Id
    OBVIOUS
  <2>1. s[n].resp \in 1..s[n].at
    BY DEF Sound
  <2>2. s[n].resp \in 1..MaxEvents
    BY <1>2, <2>1, LedgerAssumption DEF LedgerAssumption
  <2> QED BY <1>2, <2>2 DEF RespOf, Id
<1> QED BY <1>1, <1>2, <1>3, <1>4, <1>5

\* The newest line so far is older than a fresh one, and far newer than any other.
LEMMA Newer ==
  ASSUME NEW s, Sound(s), NEW n \in 1..Len(s), NEW act, ActIs(act, s, n - 1)
  PROVE  /\ act.last \in 0..MaxEvents
         /\ Fresh(s, n) => act.last < s[n].at
         /\ ~Fresh(s, n) => s[n].at + Slack < act.last
         /\ IsReplay(act, s[n]) <=> ~Fresh(s, n)
<1>0. /\ act.last \in 0..MaxEvents /\ MaxEvents \in Nat /\ Slack \in Nat
      /\ \A m \in 1..Len(s) : s[m].at \in 1..MaxEvents
  BY LineType, LedgerAssumption DEF ActIs, Act, LedgerAssumption
<1>1. ASSUME Fresh(s, n) PROVE act.last < s[n].at
  <2>1. CASE act.last = 0
    BY <1>0, <2>1
  <2>2. CASE act.last # 0
    <3>1. PICK m \in 1..(n - 1) : s[m].at = act.last
      BY <2>2 DEF ActIs
    <3> QED BY <1>1, <3>1 DEF Fresh
  <2> QED BY <2>1, <2>2
<1>2. ASSUME ~Fresh(s, n) PROVE s[n].at + Slack < act.last
  <2>1. PICK m \in 1..(n - 1) : s[n].at + Slack < s[m].at
    BY <1>2 DEF Sound, Climbs, Replayed
  <2>2. s[m].at <= act.last
    BY DEF ActIs
  <2>3. m \in 1..Len(s)
    OBVIOUS
  <2> QED BY <1>0, <2>1, <2>2, <2>3
<1> QED BY <1>0, <1>1, <1>2 DEF IsReplay

\* Two fresh lines are different prompts.
LEMMA FreshDiffer ==
  ASSUME NEW s, Sound(s), NEW n \in 1..Len(s), NEW m \in 1..Len(s), Fresh(s, n), Fresh(s, m),
         PromptOf(s[n]) = PromptOf(s[m])
  PROVE  n = m
<1>1. s[n].at = s[m].at
  BY DEF PromptOf
<1>2. s[n].at \in Nat /\ s[m].at \in Nat
  BY LineType
<1> QED BY <1>1, <1>2 DEF Fresh

\* A fresh prompt joins the turn exactly when one before it waits for its reply.
LEMMA WhenJoins ==
  ASSUME NEW s, Sound(s), NEW n \in 1..Len(s), NEW act, ActIs(act, s, n - 1),
         Fresh(s, n), s[n].kind = "prompt"
  PROVE  Joins(act, s[n]) <=> ~Opens(s, n)
<1>1. Opens(s, n) <=> ~Waits(s, n - 1)
  BY DEF Opens
<1>2. PromptOf(s[n]) # act.prompt
  <2>1. CASE act.prompt = NoId
    BY <2>1 DEF PromptOf, NoId
  <2>2. CASE act.prompt # NoId
    <3>1. PICK m \in 1..(n - 1) : Opens(s, m) /\ act.prompt = PromptOf(s[m])
      BY <2>2 DEF ActIs, PromptIs
    <3>2. m \in 1..Len(s) /\ Fresh(s, m) /\ m # n
      BY <3>1 DEF Opens
    <3> QED BY <3>1, <3>2, FreshDiffer
  <2> QED BY <2>1, <2>2
<1>3. (act.answered <=> ~Waits(s, n - 1)) /\ (~act.answered => act.inTurn /\ act.prompt # NoId)
  BY DEF ActIs
<1> QED BY <1>1, <1>2, <1>3 DEF Joins

\* What the tracker's own operators leave alone, and what they make of the rest.
AdvancesAs(a, r, l, c) ==
    LET copied == c \/ (r.copied /\ l.kind \notin Billed)
        worked == r.act.inTurn /\ 0 < r.act.last /\ r.act.last < l.at /\ ~r.copied /\ ~copied
    IN  /\ Tracked(a) /\ a.row = r.row /\ a.turn = r.turn /\ (a.copied <=> copied)
        /\ a.add = (IF worked THEN r.add + 1 ELSE r.add)
        /\ a.act.last = Larger(r.act.last, l.at) /\ a.act.prompt = r.act.prompt
        /\ a.act.inTurn <=> (r.act.inTurn /\ ~(l.kind = "end" /\ ~copied))
        /\ a.act.answered <=> (r.act.answered \/ l.kind \in Billed)

LEMMA AdvancesIs ==
  ASSUME NEW r, Tracked(r), NEW l, l.at \in 1..MaxEvents, NEW c \in BOOLEAN
  PROVE  AdvancesAs(Advances(r, l, c), r, l, c)
<1> DEFINE a == Advances(r, l, c)
           copied == c \/ (r.copied /\ l.kind \notin Billed)
           worked == r.act.inTurn /\ 0 < r.act.last /\ r.act.last < l.at /\ ~r.copied /\ ~copied
           add == IF worked THEN r.add + 1 ELSE r.add
           last == Larger(r.act.last, l.at)
           answered == r.act.answered \/ l.kind \in Billed
           inTurn == r.act.inTurn /\ ~(l.kind = "end" /\ ~copied)
<1>0. /\ r.act \in Act /\ r.act.last \in 0..MaxEvents /\ r.act.inTurn \in BOOLEAN
      /\ r.act.answered \in BOOLEAN /\ r.add \in Nat /\ r.copied \in BOOLEAN /\ MaxEvents \in Nat
  BY LedgerAssumption DEF Tracked, Act, LedgerAssumption
<1>1. a = [r EXCEPT !.copied = copied, !.add = add,
                    !.act = [r.act EXCEPT !.last = last, !.answered = answered, !.inTurn = inTurn]]
  BY DEF Advances
<1>2. /\ copied \in BOOLEAN /\ answered \in BOOLEAN /\ inTurn \in BOOLEAN
  BY Zenon, <1>0
<1>3. add \in Nat /\ last \in 0..MaxEvents
  BY <1>0 DEF Larger
<1> HIDE DEF a, copied, add, last, answered, inTurn, AdvancesAs
<1> DEFINE act == [r.act EXCEPT !.last = last, !.answered = answered, !.inTurn = inTurn]
<1>4. /\ act \in Act /\ act.last = last /\ act.answered = answered /\ act.inTurn = inTurn
      /\ act.prompt = r.act.prompt
  BY <1>0, <1>2, <1>3 DEF Act
<1>5. a = [r EXCEPT !.copied = copied, !.add = add, !.act = act]
  BY <1>1
<1> HIDE DEF act
<1>6. Tracked(a) /\ a.row = r.row /\ a.turn = r.turn /\ a.copied = copied /\ a.add = add /\ a.act = act
  BY <1>2, <1>3, <1>4, <1>5 DEF Tracked
<1> QED BY <1>4, <1>6, Zenon DEF a, copied, add, last, answered, inTurn, AdvancesAs

OpensAs(a, r, f, l) ==
    /\ Tracked(a) /\ a.row = r.row /\ a.add = r.add
    /\ a.turn = [r.turn EXCEPT ![PromptOf(l)] = IF @ = NoFile THEN f ELSE @]
    /\ a.copied <=> r.turn[PromptOf(l)] \notin {NoFile, f}
    /\ a.act.last = l.at /\ a.act.prompt = PromptOf(l)
    /\ a.act.inTurn /\ ~a.act.answered

LEMMA OpensTurnIs ==
  ASSUME NEW r, Tracked(r), NEW f \in File, NEW l, l.at \in 1..MaxEvents, PromptOf(l) \in Id
  PROVE  OpensAs(OpensTurn(r, f, l), r, f, l)
<1> DEFINE a == OpensTurn(r, f, l)
           owner == r.turn[PromptOf(l)]
           to == IF owner = NoFile THEN f ELSE owner
           copied == owner \notin {NoFile, f}
           act == [last |-> l.at, inTurn |-> TRUE, prompt |-> PromptOf(l), answered |-> FALSE]
           turns == [r.turn EXCEPT ![PromptOf(l)] = to]
<1>1. a = [r EXCEPT !.turn[PromptOf(l)] = to, !.copied = copied, !.act = act]
  BY Zenon DEF OpensTurn
<1>2. /\ act \in Act /\ act.last = l.at /\ act.prompt = PromptOf(l) /\ act.inTurn /\ ~act.answered
  BY LedgerAssumption DEF Act, LedgerAssumption
<1>3. copied \in BOOLEAN
  OBVIOUS
<1>4. turns \in [Id -> File \cup {NoFile}]
  BY DEF Tracked
<1>5. a = [r EXCEPT !.turn = turns, !.copied = copied, !.act = act]
  BY <1>1
<1> HIDE DEF act, copied, turns, a
<1>6. Tracked(a) /\ a.row = r.row /\ a.add = r.add /\ a.turn = turns /\ a.copied = copied /\ a.act = act
  BY <1>2, <1>3, <1>4, <1>5 DEF Tracked
<1>7. turns = [r.turn EXCEPT ![PromptOf(l)] = IF @ = NoFile THEN f ELSE @]
  BY DEF turns
<1>8. copied <=> r.turn[PromptOf(l)] \notin {NoFile, f}
  BY DEF copied
<1> QED BY <1>2, <1>6, <1>7, <1>8, Zenon DEF a, OpensAs

GoesOnAs(a, r, l) ==
    /\ Tracked(a) /\ a.row = r.row /\ a.turn = r.turn /\ a.add = r.add /\ a.copied = r.copied
    /\ a.act.last = l.at /\ a.act.prompt = r.act.prompt
    /\ a.act.inTurn /\ a.act.answered

LEMMA GoesOnIs ==
  ASSUME NEW r, Tracked(r), NEW l, l.at \in 1..MaxEvents
  PROVE  GoesOnAs(GoesOn(r, l), r, l)
<1> DEFINE a == GoesOn(r, l)
           act == [r.act EXCEPT !.last = l.at, !.inTurn = TRUE, !.answered = TRUE]
<1>1. a = [r EXCEPT !.act = act]
  BY DEF GoesOn
<1>0. r.act \in Act /\ l.at \in 0..MaxEvents
  BY LedgerAssumption DEF Tracked, LedgerAssumption
<1>2. /\ act \in Act /\ act.last = l.at /\ act.prompt = r.act.prompt /\ act.inTurn /\ act.answered
  BY <1>0 DEF Act
<1> HIDE DEF act, a
<1>3. /\ Tracked(a) /\ a.row = r.row /\ a.turn = r.turn /\ a.add = r.add /\ a.copied = r.copied
      /\ a.act = act
  BY <1>1, <1>2 DEF Tracked
<1> QED BY <1>2, <1>3 DEF a, GoesOnAs

\* A prompt that joins was never a turn, so there is none to fold.
LEMMA NothingToFold ==
  ASSUME NEW s, Sound(s), NEW n \in 1..Len(s), NEW f \in File, NEW T0, Opened(T0, f, s),
         NEW r, Tracked(r), TurnsAre(r, T0, f, s, n - 1), Fresh(s, n), ~Opens(s, n)
  PROVE  Folded(r, f, s[n]) = r
<1> DEFINE p == PromptOf(s[n])
<1>0. p \in Id
  BY LineType
<1>1. r.turn[p] # f
  <2> SUFFICES ASSUME r.turn[p] = f PROVE FALSE
    OBVIOUS
  <2>1. \E m \in 1..Len(s) : Opens(s, m) /\ PromptOf(s[m]) = p
    <3>1. CASE T0[p] = f
      BY <1>0, <3>1 DEF Opened
    <3>2. CASE T0[p] # f
      <4>1. PICK m \in 1..(n - 1) : Opens(s, m) /\ PromptOf(s[m]) = p
        BY <1>0, <3>2 DEF TurnsAre
      <4> QED BY <4>1
    <3> QED BY <3>1, <3>2
  <2>2. PICK m \in 1..Len(s) : Opens(s, m) /\ PromptOf(s[m]) = p
    BY <2>1
  <2>3. Fresh(s, m)
    BY <2>2 DEF Opens
  <2> QED BY <2>2, <2>3, FreshDiffer
<1>2. [r EXCEPT !.turn[p] = r.turn[p]] = r
  <2>1. r = [row |-> r.row, turn |-> r.turn, add |-> r.add, copied |-> r.copied, act |-> r.act]
        /\ r.turn \in [Id -> File \cup {NoFile}]
    BY DEF Tracked
  <2>2. [r.turn EXCEPT ![p] = r.turn[p]] = r.turn
    BY <2>1
  <2> QED BY <2>1, <2>2
<1> QED BY <1>1, <1>2 DEF Folded

FedAs(a, r, f, s, n, c) ==
    /\ ~Fresh(s, n) => a = r
    /\ Opens(s, n) => a = OpensTurn(r, f, s[n])
    /\ Fresh(s, n) /\ ~Opens(s, n) /\ s[n].kind = "prompt" => a = Advances(r, s[n], FALSE)
    /\ Fresh(s, n) /\ s[n].kind = "tool" /\ ~r.act.inTurn => a = GoesOn(r, s[n])
    /\ Fresh(s, n) /\ s[n].kind = "tool" /\ r.act.inTurn => a = Advances(r, s[n], c)
    /\ Fresh(s, n) /\ s[n].kind \in Billed => a = Advances(r, s[n], c)

\* What a line is to the tracker depends on the lines before it alone.
LEMMA FedIs ==
  ASSUME NEW s, Sound(s), NEW n \in 1..Len(s), NEW f \in File, NEW T0, Opened(T0, f, s),
         NEW r, Tracked(r), TurnsAre(r, T0, f, s, n - 1), ActIs(r.act, s, n - 1), NEW c
  PROVE  FedAs(Fed(r, f, s[n], c), r, f, s, n, c)
<1>1. IsReplay(r.act, s[n]) <=> ~Fresh(s, n)
  BY Newer
<1>2. Opens(s, n) => Fresh(s, n) /\ s[n].kind = "prompt"
  BY DEF Opens
<1>3. Fresh(s, n) /\ s[n].kind = "prompt" => (Joins(r.act, s[n]) <=> ~Opens(s, n))
  BY WhenJoins
<1>4. Fresh(s, n) /\ ~Opens(s, n) => Folded(r, f, s[n]) = r
  BY NothingToFold
<1> QED BY <1>1, <1>2, <1>3, <1>4 DEF Fed, FedAs, Billed

LEMMA ActAfterFresh ==
  ASSUME NEW s, Sound(s), NEW n \in 1..Len(s), Fresh(s, n), NEW act \in Act, act.last = s[n].at,
         act.answered <=> ~Waits(s, n), ~act.answered => act.inTurn /\ act.prompt # NoId,
         PromptIs(act.prompt, s, n)
  PROVE  ActIs(act, s, n)
<1>1. ASSUME NEW m \in 1..n PROVE s[m].at <= act.last
  <2>1. s[m].at \in Nat /\ s[n].at \in Nat
    <3>1. m \in 1..Len(s)
      OBVIOUS
    <3> QED BY <3>1, LineType
  <2>2. CASE m = n
    BY <2>1, <2>2
  <2>3. CASE m # n
    <3>1. m \in 1..(n - 1)
      BY <2>3
    <3> QED BY <2>1, <3>1 DEF Fresh
  <2> QED BY <2>2, <2>3
<1>2. \E m \in 1..n : s[m].at = act.last
  OBVIOUS
<1> QED BY <1>1, <1>2 DEF ActIs

LEMMA ActAfterOther ==
  ASSUME NEW s, Sound(s), NEW n \in 1..Len(s), ~Fresh(s, n), NEW act, ActIs(act, s, n - 1)
  PROVE  ActIs(act, s, n)
<1>1. /\ Waits(s, n) <=> Waits(s, n - 1)
      /\ ~Opens(s, n)
  BY NotFresh
<1>2. PromptIs(act.prompt, s, n)
  BY <1>1, PromptStays DEF ActIs
<1>3. s[n].at + Slack < act.last /\ s[n].at \in Nat /\ act.last \in Nat /\ Slack \in Nat
  BY Newer, LineType, LedgerAssumption DEF LedgerAssumption
<1>4. ASSUME NEW m \in 1..n PROVE s[m].at <= act.last
  <2>1. CASE m = n
    BY <1>3, <2>1
  <2>2. CASE m # n
    <3>1. m \in 1..(n - 1)
      BY <2>2
    <3> QED BY <3>1 DEF ActIs
  <2> QED BY <2>1, <2>2
<1>5. act.last = 0 \/ \E m \in 1..n : s[m].at = act.last
  BY DEF ActIs
<1> QED BY <1>1, <1>2, <1>4, <1>5 DEF ActIs

\* A line takes what is known of the turn one line further, and no row with it.
LEMMA FedAct ==
  ASSUME NEW s, Sound(s), NEW n \in 1..Len(s), NEW f \in File, NEW T0, Opened(T0, f, s),
         NEW r, Tracked(r), TurnsAre(r, T0, f, s, n - 1), ActIs(r.act, s, n - 1), NEW c \in BOOLEAN,
         NEW a, a = Fed(r, f, s[n], c)
  PROVE  /\ Tracked(a) /\ a.row = r.row /\ ActIs(a.act, s, n)
         /\ ~Opens(s, n) => a.turn = r.turn
<1>0. /\ s[n].at \in 1..MaxEvents /\ PromptOf(s[n]) \in Id
      /\ s[n].kind \in {"prompt", "tool", "reply", "end"}
      /\ n \in Nat \ {0} /\ FALSE \in BOOLEAN
  BY LineType
<1>a. /\ r.act.answered <=> ~Waits(s, n - 1)
      /\ ~r.act.answered => r.act.inTurn /\ r.act.prompt # NoId
      /\ PromptIs(r.act.prompt, s, n - 1)
  BY DEF ActIs
<1>b. /\ Fresh(s, n) => r.act.last < s[n].at /\ r.act.last \in Nat
  BY Newer
<1>c. Tracked(a) => a.act \in Act
  BY DEF Tracked
<1>d. FedAs(a, r, f, s, n, c)
  BY FedIs
<1>1. CASE ~Fresh(s, n)
  <2>1. a = r
    BY <1>1, <1>d DEF FedAs
  <2> QED BY <1>1, <2>1, ActAfterOther
<1>2. CASE Opens(s, n)
  <2>1. a = OpensTurn(r, f, s[n])
    BY <1>2, <1>d DEF FedAs
  <2>2. Fresh(s, n) /\ s[n].kind = "prompt"
    BY <1>2 DEF Opens
  <2>3. /\ Tracked(a) /\ a.row = r.row
        /\ a.act.last = s[n].at /\ a.act.prompt = PromptOf(s[n]) /\ a.act.inTurn /\ ~a.act.answered
    <3>1. OpensAs(a, r, f, s[n])
      BY <1>0, <2>1, OpensTurnIs
    <3> QED BY <3>1, Zenon DEF OpensAs
  <2>4. Waits(s, n)
    BY <1>0, <2>2, FreshWaits
  <2>5. PromptIs(PromptOf(s[n]), s, n)
    BY <1>0, <1>2, PromptOpens
  <2>6. PromptOf(s[n]) # NoId
    BY DEF PromptOf, NoId
  <2>7. ActIs(a.act, s, n)
    BY <1>c, <2>2, <2>3, <2>4, <2>5, <2>6, ActAfterFresh
  <2> QED BY <1>2, <2>3, <2>7
<1>3. CASE Fresh(s, n) /\ s[n].kind = "tool" /\ ~r.act.inTurn
  <2>1. a = GoesOn(r, s[n])
    BY <1>3, <1>d DEF FedAs
  <2>2. /\ Tracked(a) /\ a.row = r.row /\ a.turn = r.turn
        /\ a.act.last = s[n].at /\ a.act.prompt = r.act.prompt /\ a.act.inTurn /\ a.act.answered
    BY <1>0, <2>1, GoesOnIs DEF GoesOnAs
  <2>3. ~Waits(s, n)
    BY <1>0, <1>a, <1>3, FreshWaits
  <2>4. ~Opens(s, n)
    BY <1>3 DEF Opens
  <2>5. PromptIs(r.act.prompt, s, n)
    BY <1>0, <1>a, <2>4, PromptStays
  <2> QED BY <1>c, <1>3, <2>2, <2>3, <2>5, ActAfterFresh
<1>4. CASE /\ Fresh(s, n) /\ ~Opens(s, n)
           /\ ~(s[n].kind = "tool" /\ ~r.act.inTurn)
  <2>1. PICK d \in BOOLEAN : a = Advances(r, s[n], d)
    BY <1>0, <1>4, <1>d DEF FedAs, Billed
  <2>2. /\ Tracked(a) /\ a.row = r.row /\ a.turn = r.turn
        /\ a.act.last = Larger(r.act.last, s[n].at) /\ a.act.prompt = r.act.prompt
        /\ a.act.inTurn <=> (r.act.inTurn /\ ~(s[n].kind = "end" /\ ~(d \/ (r.copied /\ s[n].kind \notin Billed))))
        /\ a.act.answered <=> (r.act.answered \/ s[n].kind \in Billed)
    <3>1. AdvancesAs(a, r, s[n], d)
      BY <1>0, <2>1, AdvancesIs
    <3> QED BY <3>1 DEF AdvancesAs
  <2>3. a.act.last = s[n].at
    BY <1>0, <1>b, <1>4, <2>2 DEF Larger
  <2>4. PromptIs(r.act.prompt, s, n)
    BY <1>0, <1>a, <1>4, PromptStays
  <2>5. a.act.answered <=> ~Waits(s, n)
    <3>1. CASE s[n].kind = "prompt"
      <4>1. Waits(s, n) /\ Waits(s, n - 1) /\ s[n].kind \notin Billed
        BY <1>0, <1>4, <3>1, FreshWaits DEF Opens, Billed
      <4> QED BY <1>a, <2>2, <4>1
    <3>2. CASE s[n].kind = "tool"
      <4>1. (Waits(s, n) <=> Waits(s, n - 1)) /\ s[n].kind \notin Billed
        BY <1>0, <1>4, <3>2, FreshWaits DEF Billed
      <4> QED BY <1>a, <2>2, <4>1
    <3>3. CASE s[n].kind \in Billed
      BY <1>0, <1>4, <2>2, <3>3, FreshWaits
    <3> QED BY <1>0, <3>1, <3>2, <3>3 DEF Billed
  <2>6. ~a.act.answered => a.act.inTurn /\ a.act.prompt # NoId
    <3> SUFFICES ASSUME ~a.act.answered PROVE a.act.inTurn /\ a.act.prompt # NoId
      OBVIOUS
    <3>1. ~r.act.answered /\ s[n].kind \notin Billed
      BY <2>2
    <3> QED BY <1>a, <2>2, <3>1 DEF Billed
  <2> QED BY <1>c, <1>4, <2>2, <2>3, <2>4, <2>5, <2>6, ActAfterFresh
<1> QED BY <1>1, <1>2, <1>3, <1>4

\* The turns after one more line.
LEMMA FedTurns ==
  ASSUME NEW s, Sound(s), NEW n \in 1..Len(s), NEW f \in File, NEW T0, Opened(T0, f, s),
         NEW r, Tracked(r), TurnsAre(r, T0, f, s, n - 1), ActIs(r.act, s, n - 1), NEW c \in BOOLEAN,
         NEW a, a = Fed(r, f, s[n], c)
  PROVE  TurnsAre(a, T0, f, s, n)
<1>0. n \in Nat \ {0} /\ PromptOf(s[n]) \in Id /\ NoFile \notin File
  BY LineType, LedgerAssumption DEF LedgerAssumption
<1>1. CASE ~Opens(s, n)
  <2>1. a.turn = r.turn
    BY <1>1, FedAct
  <2> QED BY <1>0, <1>1, <2>1 DEF TurnsAre
<1>2. CASE Opens(s, n)
  <2> DEFINE p == PromptOf(s[n])
  <2>1. a = OpensTurn(r, f, s[n])
    <3>1. FedAs(a, r, f, s, n, c)
      BY FedIs
    <3> QED BY <1>2, <3>1 DEF FedAs
  <2>2. OpensAs(a, r, f, s[n])
    BY <1>0, <2>1, OpensTurnIs, LineType
  <2>3. /\ a.turn[p] = IF r.turn[p] = NoFile THEN f ELSE r.turn[p]
        /\ \A id \in Id : id # p => a.turn[id] = r.turn[id]
    <3>1. a.turn = [r.turn EXCEPT ![p] = IF @ = NoFile THEN f ELSE @] /\ r.turn \in [Id -> File \cup {NoFile}]
      BY <2>2 DEF OpensAs, Tracked
    <3> QED BY <1>0, <3>1
  <2>4. ASSUME NEW id \in Id, T0[id] # NoFile PROVE a.turn[id] = T0[id]
    BY <2>3, <2>4 DEF TurnsAre
  <2>5. ASSUME NEW id \in Id, a.turn[id] # T0[id]
        PROVE  a.turn[id] = f /\ \E m \in 1..n : Opens(s, m) /\ PromptOf(s[m]) = id
    <3>1. CASE r.turn[id] # T0[id]
      <4>1. PICK m \in 1..(n - 1) : Opens(s, m) /\ PromptOf(s[m]) = id
        BY <3>1 DEF TurnsAre
      <4>2. r.turn[id] = f
        BY <3>1 DEF TurnsAre
      <4>3. m \in 1..n
        BY <1>0
      <4> QED BY <1>0, <2>3, <4>1, <4>2, <4>3
    <3>2. CASE r.turn[id] = T0[id]
      <4>1. id = p /\ a.turn[id] = f
        BY <2>3, <2>5, <3>2
      <4> QED BY <1>0, <1>2, <4>1
    <3> QED BY <3>1, <3>2
  <2>6. ASSUME NEW m \in 1..n, Opens(s, m) PROVE a.turn[PromptOf(s[m])] # NoFile
    <3>1. PromptOf(s[m]) \in Id
      <4>1. m \in 1..Len(s)
        BY <1>0
      <4> QED BY <4>1, LineType
    <3>2. CASE m = n
      BY <1>0, <2>3, <3>2
    <3>3. CASE m # n
      <4>1. m \in 1..(n - 1)
        BY <1>0, <3>3
      <4>2. r.turn[PromptOf(s[m])] # NoFile
        BY <2>6, <4>1 DEF TurnsAre
      <4> QED BY <1>0, <2>3, <3>1, <4>2
    <3> QED BY <3>2, <3>3
  <2> QED BY <2>4, <2>5, <2>6 DEF TurnsAre
<1> QED BY <1>1, <1>2

\* A response's row after one line of it.
UpsertedAs(new, old, f, l, stamp) ==
    /\ new \in Row
    /\ new.owner = (IF old.owner = NoFile THEN f ELSE old.owner)
    /\ old.owner # NoFile => old.out <= new.out
    /\ l.at <= new.out /\ new.out \in {old.out, l.at}
    /\ new.prompt = (IF new.owner = f /\ stamp # NoId THEN stamp ELSE old.prompt)

LEMMA UpsertedIs ==
  ASSUME NEW old \in Row \cup {NoRow}, NEW f \in File, NEW l, l.at \in 1..MaxEvents,
         NEW stamp \in Id \cup {NoId}
  PROVE  UpsertedAs(Upserted(old, f, l, stamp), old, f, l, stamp)
<1> DEFINE new == Upserted(old, f, l, stamp)
<1>0. NoFile \notin File /\ MaxEvents \in Nat /\ l.at \in Nat
  BY LedgerAssumption DEF LedgerAssumption
<1>1. NoRow.owner = NoFile /\ NoRow.out = 0 /\ NoRow.prompt = NoId
  BY DEF NoRow
<1>2. CASE old = NoRow
  <2>1. new = [owner |-> f, out |-> l.at, prompt |-> stamp]
    BY <1>2 DEF Upserted
  <2>2. new \in Row /\ new.owner = f /\ new.out = l.at /\ new.prompt = stamp
    BY <2>1 DEF Row
  <2> QED BY <1>0, <1>1, <1>2, <2>2 DEF UpsertedAs
<1>3. CASE old # NoRow
  <2>1. old \in Row /\ old.owner \in File /\ old.out \in 1..MaxEvents /\ old.prompt \in Id \cup {NoId}
    BY <1>3 DEF Row
  <2> DEFINE out == Larger(old.out, l.at)
             prompt == IF old.owner = f /\ stamp # NoId THEN stamp ELSE old.prompt
  <2>2. out \in 1..MaxEvents /\ old.out <= out /\ l.at <= out /\ out \in {old.out, l.at}
    BY <1>0, <2>1 DEF Larger
  <2>3. prompt \in Id \cup {NoId}
    BY <2>1
  <2>4. new = [old EXCEPT !.out = out, !.prompt = prompt]
    BY <1>3 DEF Upserted
  <2> HIDE DEF out
  <2>5. new \in Row /\ new.owner = old.owner /\ new.out = out /\ new.prompt = prompt
    <3> HIDE DEF prompt, new
    <3> QED BY <2>1, <2>2, <2>3, <2>4 DEF Row
  <2> QED BY <1>0, <2>1, <2>2, <2>5 DEF UpsertedAs
<1> QED BY <1>2, <1>3

\* The tracker with the response's row, and the line it is then fed.
Upserts(r, f, l) ==
    IF l.kind \notin Billed THEN r
    ELSE [r EXCEPT !.row[RespOf(l)] =
              Upserted(@, f, l, IF IsReplay(r.act, l) THEN NoId ELSE r.act.prompt)]
Copied(r, f, l) == l.kind \in Billed /\ r.row[RespOf(l)].owner \notin {NoFile, f}

LEMMA ReadLineIs ==
  ASSUME NEW r, NEW f, NEW l
  PROVE  ReadLine(r, f, l) = Fed(Upserts(r, f, l), f, l, Copied(r, f, l))
<1>1. CASE l.kind \in Billed
  <2>1. Copied(r, f, l) = (r.row[RespOf(l)].owner \notin {NoFile, f})
    BY <1>1 DEF Copied
  <2> QED BY <1>1, <2>1 DEF ReadLine, Upserts
<1>2. CASE l.kind \notin Billed
  <2>1. Copied(r, f, l) = FALSE
    BY <1>2 DEF Copied
  <2> QED BY <1>2, <2>1 DEF ReadLine, Upserts
<1> QED BY <1>1, <1>2

\* What the row of a fresh or an old line's response becomes.
UpsertsAs(u, r, f, s, n) ==
    /\ Tracked(u) /\ u.turn = r.turn /\ u.add = r.add /\ u.copied = r.copied /\ u.act = r.act
    /\ \A id \in Id : ~Bills(s, n, id) => u.row[id] = r.row[id]
    /\ \A id \in Id : Bills(s, n, id) =>
          /\ u.row[id].owner = (IF r.row[id].owner = NoFile THEN f ELSE r.row[id].owner)
          /\ r.row[id].owner # NoFile => r.row[id].out <= u.row[id].out
          /\ s[n].at <= u.row[id].out /\ u.row[id].out \in {r.row[id].out, s[n].at}
          /\ u.row[id].prompt = (IF u.row[id].owner = f /\ Fresh(s, n) /\ r.act.prompt # NoId
                                 THEN r.act.prompt ELSE r.row[id].prompt)

LEMMA UpsertsIs ==
  ASSUME NEW s, Sound(s), NEW n \in 1..Len(s), NEW f \in File, NEW r, Tracked(r),
         ActIs(r.act, s, n - 1)
  PROVE  UpsertsAs(Upserts(r, f, s[n]), r, f, s, n)
<1> DEFINE l == s[n]
           u == Upserts(r, f, l)
           id0 == RespOf(l)
           stamp == IF IsReplay(r.act, l) THEN NoId ELSE r.act.prompt
           new == Upserted(r.row[id0], f, l, stamp)
<1>0. s[n].at \in 1..MaxEvents /\ (s[n].kind \in Billed => id0 \in Id)
  BY LineType
<1>1. CASE l.kind \notin Billed
  <2>1. u = r
    BY <1>1 DEF Upserts
  <2>2. \A id \in Id : ~Bills(s, n, id)
    BY <1>1 DEF Bills
  <2> QED BY <2>1, <2>2 DEF UpsertsAs
<1>2. CASE l.kind \in Billed
  <2>1. /\ r.row[id0] \in Row \cup {NoRow} /\ r.row \in [Id -> Row \cup {NoRow}]
        /\ r.act.prompt \in Id \cup {NoId}
    BY <1>0, <1>2 DEF Tracked, Act
  <2>2. stamp = (IF Fresh(s, n) THEN r.act.prompt ELSE NoId) /\ stamp \in Id \cup {NoId}
    BY <2>1, Newer
  <2>3. /\ new \in Row
        /\ new.owner = (IF r.row[id0].owner = NoFile THEN f ELSE r.row[id0].owner)
        /\ r.row[id0].owner # NoFile => r.row[id0].out <= new.out
        /\ l.at <= new.out /\ new.out \in {r.row[id0].out, l.at}
        /\ new.prompt = (IF new.owner = f /\ stamp # NoId THEN stamp ELSE r.row[id0].prompt)
    <3> HIDE DEF stamp
    <3>1. UpsertedAs(new, r.row[id0], f, l, stamp)
      BY <1>0, <2>1, <2>2, UpsertedIs
    <3> HIDE DEF new
    <3> QED BY <3>1 DEF UpsertedAs
  <2> DEFINE rows == [r.row EXCEPT ![id0] = new]
  <2>4. u = [r EXCEPT !.row = rows]
    BY <1>2, Zenon DEF Upserts
  <2> HIDE DEF new, stamp, u
  <2>5. rows \in [Id -> Row \cup {NoRow}]
    BY <2>1, <2>3
  <2>6. rows[id0] = new /\ \A id \in Id : id # id0 => rows[id] = r.row[id]
    BY <1>0, <1>2, <2>1
  <2> HIDE DEF rows
  <2>7. /\ Tracked(u) /\ u.turn = r.turn /\ u.add = r.add /\ u.copied = r.copied /\ u.act = r.act
        /\ u.row = rows
    BY <2>4, <2>5 DEF Tracked
  <2>8. \A id \in Id : Bills(s, n, id) <=> id = id0
    BY <1>2 DEF Bills
  <2>9. new.prompt = (IF new.owner = f /\ Fresh(s, n) /\ r.act.prompt # NoId
                      THEN r.act.prompt ELSE r.row[id0].prompt)
    BY <2>2, <2>3
  <2>10. UpsertsAs(u, r, f, s, n)
    BY <2>3, <2>6, <2>7, <2>8, <2>9 DEF UpsertsAs
  <2> QED BY <2>10 DEF u
<1> QED BY <1>1, <1>2

\* The rows after one more line.
LEMMA LineRows ==
  ASSUME NEW s, Sound(s), NEW from \in Nat, NEW n \in (from + 1)..Len(s), NEW f \in File,
         NEW R0 \in [Id -> Row \cup {NoRow}],
         NEW r, Tracked(r), ActIs(r.act, s, n - 1), RowsAre(r, R0, f, s, from, n - 1),
         NEW u, UpsertsAs(u, r, f, s, n)
  PROVE  RowsAre(u, R0, f, s, from, n)
<1>0. /\ n \in 1..Len(s) /\ n \in Nat \ {0} /\ NoFile \notin File /\ from < n /\ s[n].at \in Nat
      /\ MaxEvents \in Nat
  <2>1. n \in 1..Len(s)
    OBVIOUS
  <2> QED BY <2>1, LineType, LedgerAssumption DEF LedgerAssumption
<1>t. \A id \in Id : R0[id].out \in Nat /\ r.row[id].out \in Nat /\ u.row[id].out \in Nat
  <2> SUFFICES ASSUME NEW id \in Id
               PROVE  R0[id].out \in Nat /\ r.row[id].out \in Nat /\ u.row[id].out \in Nat
    OBVIOUS
  <2>1. R0[id] \in Row \cup {NoRow} /\ r.row[id] \in Row \cup {NoRow} /\ u.row[id] \in Row \cup {NoRow}
    BY DEF Tracked, UpsertsAs
  <2> QED BY <1>0, <2>1 DEF Row, NoRow
<1>1. ASSUME NEW m \in 1..n, s[m].kind \in Billed
      PROVE  u.row[RespOf(s[m])].owner # NoFile /\ s[m].at <= u.row[RespOf(s[m])].out
  <2> DEFINE id == RespOf(s[m])
  <2>0. id \in Id /\ s[m].at \in Nat
    <3>1. m \in 1..Len(s)
      BY <1>0
    <3> QED BY <1>1, <3>1, LineType
  <2>1. CASE m = n
    <3>1. Bills(s, n, id)
      BY <1>1, <2>1 DEF Bills
    <3> QED BY <1>0, <2>0, <2>1, <3>1 DEF UpsertsAs
  <2>2. CASE m # n
    <3>1. m \in 1..(n - 1)
      BY <1>0, <2>2
    <3>2. r.row[id].owner # NoFile /\ s[m].at <= r.row[id].out
      BY <1>1, <3>1 DEF RowsAre
    <3>3. CASE Bills(s, n, id)
      <4>1. u.row[id].owner = r.row[id].owner /\ r.row[id].out <= u.row[id].out
        BY <2>0, <3>2, <3>3 DEF UpsertsAs
      <4> QED BY <1>t, <2>0, <3>2, <4>1
    <3>4. CASE ~Bills(s, n, id)
      <4>1. u.row[id] = r.row[id]
        BY <2>0, <3>4 DEF UpsertsAs
      <4> QED BY <3>2, <4>1
    <3> QED BY <3>3, <3>4
  <2> QED BY <2>1, <2>2
<1>2. ASSUME NEW id \in Id
      PROVE  /\ R0[id].owner # NoFile =>
                    u.row[id].owner = R0[id].owner /\ R0[id].out <= u.row[id].out
             /\ R0[id].owner = NoFile => u.row[id].owner \in {NoFile, f}
             /\ \/ u.row[id].out = R0[id].out
                \/ \E m \in 1..n : Bills(s, m, id) /\ u.row[id].out = s[m].at
             /\ u.row[id].owner = f => StampIs(u.row[id].prompt, R0[id].prompt, s, from, n, id)
             /\ u.row[id].owner # f => u.row[id].prompt = R0[id].prompt
  <2>0. /\ R0[id].owner # NoFile =>
              r.row[id].owner = R0[id].owner /\ R0[id].out <= r.row[id].out
        /\ R0[id].owner = NoFile => r.row[id].owner \in {NoFile, f}
        /\ \/ r.row[id].out = R0[id].out
           \/ \E m \in 1..(n - 1) : Bills(s, m, id) /\ r.row[id].out = s[m].at
        /\ r.row[id].owner = f => StampIs(r.row[id].prompt, R0[id].prompt, s, from, n - 1, id)
        /\ r.row[id].owner # f => r.row[id].prompt = R0[id].prompt
    BY DEF RowsAre
  <2>1. CASE ~Bills(s, n, id)
    <3>1. u.row[id] = r.row[id]
      BY <2>1 DEF UpsertsAs
    <3>2. ~Stamps(s, n, id)
      BY <2>1 DEF Stamps
    <3>3. r.row[id].owner = f => StampIs(r.row[id].prompt, R0[id].prompt, s, from, n, id)
      BY <1>0, <2>0, <3>2, StampStays
    <3>4. \/ r.row[id].out = R0[id].out
          \/ \E m \in 1..n : Bills(s, m, id) /\ r.row[id].out = s[m].at
      BY <1>0, <2>0
    <3> QED BY <2>0, <3>1, <3>3, <3>4
  <2>2. CASE Bills(s, n, id)
    <3>1. /\ u.row[id].owner = (IF r.row[id].owner = NoFile THEN f ELSE r.row[id].owner)
          /\ r.row[id].owner # NoFile => r.row[id].out <= u.row[id].out
          /\ s[n].at <= u.row[id].out /\ u.row[id].out \in {r.row[id].out, s[n].at}
          /\ u.row[id].prompt = (IF u.row[id].owner = f /\ Fresh(s, n) /\ r.act.prompt # NoId
                                 THEN r.act.prompt ELSE r.row[id].prompt)
      BY <2>2 DEF UpsertsAs
    <3>2. R0[id].owner # NoFile =>
              u.row[id].owner = R0[id].owner /\ R0[id].out <= u.row[id].out
      <4> SUFFICES ASSUME R0[id].owner # NoFile
                   PROVE  u.row[id].owner = R0[id].owner /\ R0[id].out <= u.row[id].out
        OBVIOUS
      <4>1. r.row[id].owner = R0[id].owner /\ R0[id].out <= r.row[id].out
        BY <2>0
      <4>2. u.row[id].owner = R0[id].owner /\ r.row[id].out <= u.row[id].out
        BY <3>1, <4>1
      <4> QED BY <1>t, <4>1, <4>2
    <3>3. R0[id].owner = NoFile => u.row[id].owner \in {NoFile, f}
      BY <2>0, <3>1
    <3>4. \/ u.row[id].out = R0[id].out
          \/ \E m \in 1..n : Bills(s, m, id) /\ u.row[id].out = s[m].at
      <4>1. CASE u.row[id].out = s[n].at
        BY <1>0, <2>2, <4>1
      <4>2. CASE u.row[id].out = r.row[id].out
        BY <1>0, <2>0, <4>2
      <4> QED BY <3>1, <4>1, <4>2
    <3>5. Stamps(s, n, id) <=> Fresh(s, n) /\ r.act.prompt # NoId
      <4>1. PromptIs(r.act.prompt, s, n - 1) /\ n - 1 \in Nat
        BY <1>0 DEF ActIs
      <4>2. r.act.prompt # NoId <=> \E k \in 1..(n - 1) : Opens(s, k)
        BY <4>1, NoPrompt
      <4> QED BY <2>2, <4>2 DEF Stamps
    <3>6. u.row[id].owner = f => StampIs(u.row[id].prompt, R0[id].prompt, s, from, n, id)
      <4> SUFFICES ASSUME u.row[id].owner = f
                   PROVE  StampIs(u.row[id].prompt, R0[id].prompt, s, from, n, id)
        OBVIOUS
      <4>1. CASE Stamps(s, n, id)
        <5>1. u.row[id].prompt = r.act.prompt
          BY <3>1, <3>5, <4>1
        <5>2. PromptIs(r.act.prompt, s, n - 1)
          BY DEF ActIs
        <5> QED BY <1>0, <4>1, <5>1, <5>2, StampSet
      <4>2. CASE ~Stamps(s, n, id)
        <5>1. u.row[id].prompt = r.row[id].prompt
          BY <3>1, <3>5, <4>2
        <5>2. CASE r.row[id].owner = f
          <6>1. StampIs(r.row[id].prompt, R0[id].prompt, s, from, n - 1, id)
            BY <2>0, <5>2
          <6> QED BY <1>0, <4>2, <5>1, <6>1, StampStays
        <5>3. CASE r.row[id].owner # f
          <6>1. r.row[id].prompt = R0[id].prompt /\ r.row[id].owner = NoFile
            BY <2>0, <3>1, <5>3
          <6>2. \A k \in (from + 1)..n : ~Stamps(s, k, id)
            <7> SUFFICES ASSUME NEW k \in (from + 1)..n, Stamps(s, k, id) PROVE FALSE
              OBVIOUS
            <7>1. k \in 1..(n - 1)
              BY <1>0, <4>2
            <7>2. s[k].kind \in Billed /\ RespOf(s[k]) = id
              BY DEF Stamps, Bills
            <7> QED BY <6>1, <7>1, <7>2 DEF RowsAre
          <6> QED BY <5>1, <6>1, <6>2 DEF StampIs
        <5> QED BY <5>2, <5>3
      <4> QED BY <4>1, <4>2
    <3>7. u.row[id].owner # f => u.row[id].prompt = R0[id].prompt
      BY <2>0, <3>1
    <3> QED BY <3>2, <3>3, <3>4, <3>6, <3>7
  <2> QED BY <2>1, <2>2
<1> QED BY <1>1, <1>2 DEF RowsAre

\* One more line that was work, or not.
LEMMA WorkedOneMore ==
  ASSUME NEW s, NEW from \in Nat, NEW n \in Nat, from < n
  PROVE  /\ IsFiniteSet(Worked(s, from, n)) /\ Cardinality(Worked(s, from, n)) \in Nat
         /\ Works(s, n) => Cardinality(Worked(s, from, n)) = Cardinality(Worked(s, from, n - 1)) + 1
         /\ ~Works(s, n) => Cardinality(Worked(s, from, n)) = Cardinality(Worked(s, from, n - 1))
<1>1. IsFiniteSet(1..n)
  BY FS_Interval
<1>2. Worked(s, from, n) \subseteq 1..n /\ Worked(s, from, n - 1) \subseteq 1..n
  BY DEF Worked
<1>3. IsFiniteSet(Worked(s, from, n)) /\ IsFiniteSet(Worked(s, from, n - 1))
  BY <1>1, <1>2, FS_Subset
<1>4. Cardinality(Worked(s, from, n)) \in Nat /\ Cardinality(Worked(s, from, n - 1)) \in Nat
  BY <1>3, FS_CardinalityType
<1>5. CASE Works(s, n)
  <2>1. Worked(s, from, n) = Worked(s, from, n - 1) \cup {n} /\ n \notin Worked(s, from, n - 1)
    BY <1>5 DEF Worked
  <2>2. Cardinality(Worked(s, from, n)) = Cardinality(Worked(s, from, n - 1)) + 1
    BY <1>3, <2>1, FS_AddElement
  <2> QED BY <1>3, <1>4, <1>5, <2>2
<1>6. CASE ~Works(s, n)
  <2>1. Worked(s, from, n) = Worked(s, from, n - 1)
    BY <1>6 DEF Worked
  <2> QED BY <1>3, <1>4, <1>6, <2>1
<1> QED BY <1>5, <1>6

\* What is the session's own after a line was its own before it.
LEMMA MineBefore ==
  ASSUME NEW s, Sound(s), NEW from \in Nat, NEW n \in (from + 1)..Len(s), NEW f \in File,
         NEW R0 \in [Id -> Row \cup {NoRow}], NEW T0,
         NEW r, Tracked(r), RowsAre(r, R0, f, s, from, n - 1), TurnsAre(r, T0, f, s, n - 1),
         NEW u, UpsertsAs(u, r, f, s, n), NEW a, a.row = u.row, TurnsAre(a, T0, f, s, n),
         \A id \in Id : r.turn[id] # NoFile => a.turn[id] = r.turn[id],
         Mine(a.row, a.turn, f, s, n)
  PROVE  /\ Mine(r.row, r.turn, f, s, n - 1)
         /\ ~Copied(r, f, s[n])
         /\ s[n].kind = "prompt" => a.turn[PromptOf(s[n])] \in {f, NoFile}
<1>0. n \in 1..Len(s)
  OBVIOUS
<1>1. ASSUME NEW m \in 1..(n - 1), s[m].kind \in Billed PROVE r.row[RespOf(s[m])].owner = f
  <2>1. m \in 1..Len(s) /\ m \in 1..n
    OBVIOUS
  <2>2. RespOf(s[m]) \in Id
    BY <1>1, <2>1, LineType
  <2>3. r.row[RespOf(s[m])].owner # NoFile
    BY <1>1 DEF RowsAre
  <2>4. u.row[RespOf(s[m])].owner = r.row[RespOf(s[m])].owner
    BY <2>2, <2>3 DEF UpsertsAs
  <2>5. a.row[RespOf(s[m])].owner = f
    BY <1>1, <2>1 DEF Mine
  <2> QED BY <2>4, <2>5
<1>2. ASSUME NEW m \in 1..(n - 1), s[m].kind = "prompt" PROVE r.turn[PromptOf(s[m])] \in {f, NoFile}
  <2>1. m \in 1..Len(s) /\ m \in 1..n
    OBVIOUS
  <2>2. PromptOf(s[m]) \in Id
    BY <2>1, LineType
  <2>3. a.turn[PromptOf(s[m])] \in {f, NoFile}
    BY <1>2, <2>1 DEF Mine
  <2> QED BY <2>2, <2>3
<1>3. ~Copied(r, f, s[n])
  <2> SUFFICES ASSUME s[n].kind \in Billed PROVE r.row[RespOf(s[n])].owner \in {NoFile, f}
    BY DEF Copied
  <2>1. RespOf(s[n]) \in Id /\ Bills(s, n, RespOf(s[n]))
    BY <1>0, LineType DEF Bills
  <2>2. u.row[RespOf(s[n])].owner = f
    BY <1>0 DEF Mine
  <2>3. u.row[RespOf(s[n])].owner = (IF r.row[RespOf(s[n])].owner = NoFile THEN f ELSE r.row[RespOf(s[n])].owner)
    BY <2>1 DEF UpsertsAs
  <2> QED BY <2>2, <2>3
<1>4. s[n].kind = "prompt" => a.turn[PromptOf(s[n])] \in {f, NoFile}
  BY <1>0 DEF Mine
<1> QED BY <1>1, <1>2, <1>3, <1>4 DEF Mine

\* The session's work after one more line.
LEMMA LineBusy ==
  ASSUME NEW s, Sound(s), NEW from \in Nat, NEW n \in (from + 1)..Len(s), NEW f \in File,
         NEW T0, Opened(T0, f, s), NEW u, Tracked(u), TurnsAre(u, T0, f, s, n - 1),
         ActIs(u.act, s, n - 1),
         WorkIs(u, s, from, n - 1),
         NEW a, a = Fed(u, f, s[n], FALSE),
         s[n].kind = "prompt" => a.turn[PromptOf(s[n])] \in {f, NoFile}
  PROVE  WorkIs(a, s, from, n)
<1>0. /\ n \in 1..Len(s) /\ n \in Nat \ {0} /\ from < n /\ FALSE \in BOOLEAN
  OBVIOUS
<1>1. /\ s[n].at \in 1..MaxEvents /\ PromptOf(s[n]) \in Id
      /\ s[n].kind \in {"prompt", "tool", "reply", "end"}
  BY <1>0, LineType
<1>2. FedAs(a, u, f, s, n, FALSE)
  BY <1>0, FedIs
<1>a. ~u.copied /\ (u.act.inTurn <=> InTurn(s, n - 1)) /\ u.add = Cardinality(Worked(s, from, n - 1))
  BY DEF WorkIs
<1>3. /\ Works(s, n) => Cardinality(Worked(s, from, n)) = u.add + 1
      /\ ~Works(s, n) => Cardinality(Worked(s, from, n)) = u.add
  BY <1>0, <1>a, WorkedOneMore
<1>4. Works(s, n) <=> Fresh(s, n) /\ u.act.inTurn /\ ~Opens(s, n)
  BY <1>a DEF Works
<1>5. CASE ~Fresh(s, n)
  <2>1. a = u
    BY <1>2, <1>5 DEF FedAs
  <2>2. InTurn(s, n) <=> InTurn(s, n - 1)
    BY <1>0, <1>5, NotFresh
  <2> QED BY <1>a, <1>3, <1>4, <1>5, <2>1, <2>2 DEF WorkIs
<1>6. CASE Opens(s, n)
  <2>1. a = OpensTurn(u, f, s[n])
    BY <1>2, <1>6 DEF FedAs
  <2>2. OpensAs(a, u, f, s[n])
    BY <1>1, <2>1, OpensTurnIs
  <2>3. Fresh(s, n) /\ s[n].kind = "prompt"
    BY <1>6 DEF Opens
  <2>4. InTurn(s, n)
    BY <1>0, <2>3, FreshInTurn
  <2>5. u.turn[PromptOf(s[n])] \in {f, NoFile}
    <3>1. a.turn[PromptOf(s[n])] = IF u.turn[PromptOf(s[n])] = NoFile THEN f ELSE u.turn[PromptOf(s[n])]
      <4>1. a.turn = [u.turn EXCEPT ![PromptOf(s[n])] = IF @ = NoFile THEN f ELSE @]
            /\ u.turn \in [Id -> File \cup {NoFile}]
        BY <2>2 DEF OpensAs, Tracked
      <4> QED BY <1>1, <4>1
    <3> QED BY <2>3, <3>1
  <2>6. ~a.copied /\ a.act.inTurn /\ a.add = u.add
    BY <2>2, <2>5 DEF OpensAs
  <2> QED BY <1>3, <1>4, <1>6, <2>4, <2>6 DEF WorkIs
<1>7. CASE Fresh(s, n) /\ s[n].kind = "tool" /\ ~u.act.inTurn
  <2>1. a = GoesOn(u, s[n])
    BY <1>2, <1>7 DEF FedAs
  <2>2. a.add = u.add /\ a.copied = u.copied /\ a.act.inTurn
    <3>1. GoesOnAs(a, u, s[n])
      BY <1>1, <2>1, GoesOnIs
    <3> QED BY <3>1 DEF GoesOnAs
  <2>3. InTurn(s, n)
    BY <1>0, <1>7, FreshInTurn
  <2> QED BY <1>a, <1>3, <1>4, <1>7, <2>2, <2>3 DEF WorkIs
<1>8. CASE /\ Fresh(s, n) /\ ~Opens(s, n)
           /\ ~(s[n].kind = "tool" /\ ~u.act.inTurn)
  <2>1. a = Advances(u, s[n], FALSE)
    BY <1>1, <1>2, <1>8 DEF FedAs, Billed
  <2> DEFINE worked == u.act.inTurn /\ 0 < u.act.last /\ u.act.last < s[n].at
  <2>2. /\ ~a.copied
        /\ a.add = (IF worked THEN u.add + 1 ELSE u.add)
        /\ a.act.inTurn <=> (u.act.inTurn /\ s[n].kind # "end")
    <3>1. AdvancesAs(a, u, s[n], FALSE)
      BY <1>0, <1>1, <2>1, AdvancesIs
    <3> QED BY <1>a, <3>1 DEF AdvancesAs
  <2>3. u.act.last < s[n].at /\ u.act.last \in Nat
    BY <1>0, <1>8, Newer
  <2>4. u.act.inTurn => 0 < u.act.last
    <3> SUFFICES ASSUME u.act.inTurn PROVE 0 < u.act.last
      OBVIOUS
    <3>1. PICK m \in 1..(n - 1) : Fresh(s, m)
      BY <1>a DEF InTurn
    <3>2. m \in 1..Len(s) /\ s[m].at <= u.act.last
      BY <1>0 DEF ActIs
    <3>3. s[m].at \in Nat /\ 0 < s[m].at
      BY <3>2, LineType
    <3> QED BY <2>3, <3>2, <3>3
  <2>5. a.add = Cardinality(Worked(s, from, n))
    BY <1>3, <1>4, <1>8, <2>2, <2>3, <2>4
  <2>6. a.act.inTurn <=> InTurn(s, n)
    <3>1. CASE s[n].kind = "prompt"
      <4>1. InTurn(s, n)
        BY <1>0, <1>8, <3>1, FreshInTurn
      <4>2. Waits(s, n - 1)
        BY <1>8, <3>1 DEF Opens
      <4>3. u.act.inTurn
        BY <4>2 DEF ActIs
      <4> QED BY <2>2, <3>1, <4>1, <4>3
    <3>2. CASE s[n].kind = "tool"
      <4>1. InTurn(s, n)
        BY <1>0, <1>8, <3>2, FreshInTurn
      <4> QED BY <1>8, <2>2, <3>2, <4>1
    <3>3. CASE s[n].kind = "reply"
      <4>1. InTurn(s, n) <=> InTurn(s, n - 1)
        BY <1>0, <1>8, <3>3, FreshInTurn
      <4> QED BY <1>a, <2>2, <3>3, <4>1
    <3>4. CASE s[n].kind = "end"
      <4>1. ~InTurn(s, n)
        BY <1>0, <1>8, <3>4, FreshInTurn
      <4> QED BY <2>2, <3>4, <4>1
    <3> QED BY <1>1, <3>1, <3>2, <3>3, <3>4
  <2> QED BY <2>2, <2>5, <2>6 DEF WorkIs
<1> QED BY <1>5, <1>6, <1>7, <1>8

\* What a read knows after n lines.
ReadIs(r, R0, T0, f, s, from, n) ==
    /\ Tracked(r) /\ ActIs(r.act, s, n)
    /\ RowsAre(r, R0, f, s, from, n) /\ TurnsAre(r, T0, f, s, n)
    /\ BusyIs(r, f, s, from, n)

LEMMA LineRead ==
  ASSUME NEW s, Sound(s), NEW from \in Nat, NEW n \in (from + 1)..Len(s), NEW f \in File,
         NEW R0 \in [Id -> Row \cup {NoRow}], NEW T0, Opened(T0, f, s),
         NEW r, ReadIs(r, R0, T0, f, s, from, n - 1)
  PROVE  ReadIs(ReadLine(r, f, s[n]), R0, T0, f, s, from, n)
<1> DEFINE u == Upserts(r, f, s[n])
           c == Copied(r, f, s[n])
           a == Fed(u, f, s[n], c)
<1>0. /\ n \in 1..Len(s) /\ Tracked(r) /\ ActIs(r.act, s, n - 1)
      /\ RowsAre(r, R0, f, s, from, n - 1) /\ TurnsAre(r, T0, f, s, n - 1)
      /\ BusyIs(r, f, s, from, n - 1) /\ c \in BOOLEAN
  BY DEF ReadIs, Copied
<1>1. ReadLine(r, f, s[n]) = a
  BY ReadLineIs, Zenon
<1>2. UpsertsAs(u, r, f, s, n)
  BY <1>0, UpsertsIs
<1> HIDE DEF u, c
<1>3. /\ Tracked(u) /\ u.turn = r.turn /\ u.add = r.add /\ u.copied = r.copied /\ u.act = r.act
      /\ ActIs(u.act, s, n - 1) /\ TurnsAre(u, T0, f, s, n - 1)
  BY <1>0, <1>2 DEF UpsertsAs, TurnsAre
<1>4. Tracked(a) /\ a.row = u.row /\ ActIs(a.act, s, n) /\ (~Opens(s, n) => a.turn = u.turn)
  BY <1>0, <1>3, FedAct
<1>5. TurnsAre(a, T0, f, s, n)
  BY <1>0, <1>3, FedTurns
<1>6. RowsAre(u, R0, f, s, from, n)
  BY <1>0, <1>2, LineRows
<1>7. RowsAre(a, R0, f, s, from, n)
  BY <1>4, <1>6 DEF RowsAre
<1>8. \A id \in Id : r.turn[id] # NoFile => a.turn[id] = r.turn[id]
  <2>1. CASE ~Opens(s, n)
    BY <1>3, <1>4, <2>1
  <2>2. CASE Opens(s, n)
    <3>1. FedAs(a, u, f, s, n, c)
      BY <1>0, <1>3, FedIs
    <3>2. OpensAs(a, u, f, s[n])
      BY <1>0, <1>3, <2>2, <3>1, LineType, OpensTurnIs DEF FedAs
    <3>3. a.turn = [u.turn EXCEPT ![PromptOf(s[n])] = IF @ = NoFile THEN f ELSE @]
          /\ u.turn \in [Id -> File \cup {NoFile}]
      BY <1>3, <3>2 DEF OpensAs, Tracked
    <3> QED BY <1>3, <3>3
  <2> QED BY <2>1, <2>2
<1> HIDE DEF a
<1>9. BusyIs(a, f, s, from, n)
  <2> SUFFICES ASSUME Mine(a.row, a.turn, f, s, n)
               PROVE  WorkIs(a, s, from, n)
    BY DEF BusyIs
  <2>1. /\ Mine(r.row, r.turn, f, s, n - 1) /\ ~Copied(r, f, s[n])
        /\ s[n].kind = "prompt" => a.turn[PromptOf(s[n])] \in {f, NoFile}
    BY <1>0, <1>2, <1>4, <1>5, <1>8, MineBefore
  <2>2. WorkIs(u, s, from, n - 1)
    BY <1>0, <1>3, <2>1 DEF BusyIs, WorkIs
  <2>3. a = Fed(u, f, s[n], FALSE)
    <3>1. c = FALSE
      BY <2>1 DEF c, Copied
    <3> QED BY <3>1 DEF a
  <2> QED BY <1>3, <2>1, <2>2, <2>3, LineBusy
<1> QED BY <1>1, <1>4, <1>5, <1>7, <1>9 DEF ReadIs

----
(***************************************************************************)
(* Reading a stretch of lines.                                             *)
(***************************************************************************)
\* Induction, from the least element of a set of naturals, and the folds it gives.
LEMMA Induction ==
  ASSUME NEW S, 0 \in S, \A n \in Nat : n \in S => n + 1 \in S
  PROVE  Nat \subseteq S
<1> DEFINE T == Nat \ S
           R == {ss \in Nat \X Nat : ss[1] < ss[2]}
<1> SUFFICES ASSUME T # {} PROVE FALSE
  OBVIOUS
<1>1. IsWellFoundedOn(R, Nat)
  BY NatLessThanWellFounded, SMT DEF OpToRel
<1>2. PICK x \in T : \A y \in T : ~ (<<y, x>> \in R)
  <2> HIDE DEF R
  <2> QED BY <1>1, WFMin, Zenon
<1>3. x - 1 \in Nat /\ x - 1 < x /\ (x - 1) + 1 = x
  OBVIOUS
<1> QED BY <1>2, <1>3

Steps(W, N) == [W \X (1..N) -> W]
IsFold(f, W, a, N, step) == f \in [0..N -> W] /\ f[0] = a /\ \A i \in 1..N : f[i] = step[<<f[i - 1], i>>]

\* There is a fold of any step over any number of lines.
LEMMA FoldExists ==
  ASSUME NEW W, NEW a \in W, NEW N \in Nat, NEW step \in Steps(W, N)
  PROVE  \E f : IsFold(f, W, a, N, step)
<1> USE DEF Steps
<1> DEFINE Folds(f, n) == f[0] = a /\ \A i \in 1..n : f[i] = step[<<f[i - 1], i>>]
           S == {n \in Nat : n <= N => \E f \in [0..n -> W] : Folds(f, n)}
<1>1. 0 \in S
  <2>1. Folds([i \in 0..0 |-> a], 0) /\ [i \in 0..0 |-> a] \in [0..0 -> W]
    OBVIOUS
  <2> QED BY <2>1
<1>2. ASSUME NEW n \in Nat, n \in S PROVE n + 1 \in S
  <2> SUFFICES ASSUME n + 1 <= N PROVE \E f \in [0..(n + 1) -> W] : Folds(f, n + 1)
    OBVIOUS
  <2>1. PICK f \in [0..n -> W] : Folds(f, n)
    BY <1>2
  <2> DEFINE h == [i \in 0..(n + 1) |-> IF i = n + 1 THEN step[<<f[n], n + 1>>] ELSE f[i]]
  <2>2. f[n] \in W /\ n + 1 \in 1..N
    OBVIOUS
  <2>3. h \in [0..(n + 1) -> W]
    BY <2>2
  <2>4. h[0] = a
    BY <2>1
  <2>5. ASSUME NEW i \in 1..(n + 1) PROVE h[i] = step[<<h[i - 1], i>>]
    <3>1. CASE i = n + 1
      <4>1. h[n] = f[n] /\ i - 1 = n /\ h[i] = step[<<f[n], n + 1>>]
        BY <3>1
      <4> QED BY <3>1, <4>1
    <3>2. CASE i # n + 1
      <4>1. i \in 1..n /\ h[i] = f[i] /\ h[i - 1] = f[i - 1]
        BY <3>2
      <4> QED BY <2>1, <4>1
    <3> QED BY <3>1, <3>2
  <2> HIDE DEF h
  <2> QED BY <2>3, <2>4, <2>5
<1> HIDE DEF S
<1>3. N \in S
  BY <1>1, <1>2, Induction
<1> QED BY <1>3 DEF S, IsFold


\* Induction up to a bound.
LEMMA UpTo ==
  ASSUME NEW N \in Nat, NEW S, 0 \in S, \A n \in 0..(N - 1) : n \in S => n + 1 \in S
  PROVE  \A n \in 0..N : n \in S
<1> DEFINE U == {n \in Nat : n <= N => n \in S}
<1>1. 0 \in U
  OBVIOUS
<1>2. ASSUME NEW n \in Nat, n \in U PROVE n + 1 \in U
  BY <1>2
<1> HIDE DEF U
<1>3. Nat \subseteq U
  BY <1>1, <1>2, Induction
<1> QED BY <1>3 DEF U

\* A read comes to one tracker, and it knows what the lines so far come to.
LEMMA ReadComes ==
  ASSUME NEW f \in File, Sound(text[f]), NEW act, NEW from \in Nat, NEW to \in from..Len(text[f]),
         row \in [Id -> Row \cup {NoRow}], Opened(turn, f, text[f]),
         ReadIs(Tracker(act), row, turn, f, text[f], from, from)
  PROVE  \E r : Read(f, act, from, to) = {r} /\ ReadIs(r, row, turn, f, text[f], from, to)
<1> DEFINE s == text[f]
           N == to - from
           W == {r \in [row : [Id -> Row \cup {NoRow}], turn : [Id -> File \cup {NoFile}],
                        add : Nat, copied : BOOLEAN, act : Act] : TRUE}
           Good(r, n) == ReadIs(r, row, turn, f, s, from, n)
           step == [p \in W \X (1..N) |->
                      IF Good(p[1], from + p[2] - 1) THEN ReadLine(p[1], f, s[from + p[2]]) ELSE p[1]]
           F(g) == [n \in from..to |-> IF n = from THEN {Tracker(act)}
                                       ELSE {ReadLine(r, f, s[n]) : r \in g[n - 1]}]
           c == CHOOSE g : g = F(g)
<1>0. N \in Nat /\ from \in Nat /\ to \in Nat /\ to = from + N /\ Len(s) \in Nat
  BY DEF Sound
<1>1. ASSUME NEW n \in (from + 1)..to, NEW r, Good(r, n - 1)
      PROVE  Good(ReadLine(r, f, s[n]), n)
  <2>1. n \in (from + 1)..Len(s)
    BY <1>0
  <2> QED BY <1>1, <2>1, LineRead
<1>2. ASSUME NEW r, NEW n, Good(r, n) PROVE r \in W
  BY <1>2 DEF ReadIs, Tracked
<1>3. step \in Steps(W, N)
  <2>1. ASSUME NEW p \in W \X (1..N)
        PROVE  (IF Good(p[1], from + p[2] - 1) THEN ReadLine(p[1], f, s[from + p[2]]) ELSE p[1]) \in W
    <3>1. CASE Good(p[1], from + p[2] - 1)
      <4>1. from + p[2] \in (from + 1)..to /\ (from + p[2]) - 1 = from + p[2] - 1
        BY <1>0
      <4>2. Good(ReadLine(p[1], f, s[from + p[2]]), from + p[2])
        <5> HIDE DEF Good, W
        <5> QED BY <1>1, <3>1, <4>1
      <4> QED BY <1>2, <3>1, <4>2
    <3>2. CASE ~Good(p[1], from + p[2] - 1)
      BY <3>2
    <3> QED BY <3>1, <3>2
  <2> QED BY <2>1 DEF Steps
<1>4. Good(Tracker(act), from) /\ Tracker(act) \in W
  BY <1>2
<1>5. PICK h : IsFold(h, W, Tracker(act), N, step)
  <2> HIDE DEF W, N, step
  <2> QED BY <1>0, <1>3, <1>4, FoldExists
<1>6. /\ h[0] = Tracker(act)
      /\ \A i \in 1..N : h[i - 1] \in W /\ h[i] = step[<<h[i - 1], i>>]
  <2> HIDE DEF W, step
  <2> QED BY <1>0, <1>5 DEF IsFold
<1>7. ASSUME NEW i \in 1..N, Good(h[i - 1], from + i - 1)
      PROVE  Good(h[i], from + i) /\ h[i] = ReadLine(h[i - 1], f, s[from + i])
  <2>1. h[i] = ReadLine(h[i - 1], f, s[from + i])
    <3> HIDE DEF W, Good
    <3> QED BY <1>6, <1>7
  <2>2. from + i \in (from + 1)..to /\ (from + i) - 1 = from + i - 1
    BY <1>0
  <2> HIDE DEF Good
  <2> QED BY <1>1, <1>7, <2>1, <2>2
<1> DEFINE S == {i \in 0..N : Good(h[i], from + i)}
<1>8. \A i \in 0..N : i \in S
  <2>1. 0 \in S
    BY <1>0, <1>4, <1>6
  <2>2. ASSUME NEW i \in 0..(N - 1), i \in S PROVE i + 1 \in S
    <3>1. i + 1 \in 1..N /\ (i + 1) - 1 = i /\ from + (i + 1) - 1 = from + i /\ i + 1 \in 0..N
      BY <1>0
    <3> HIDE DEF Good
    <3> QED BY <1>7, <2>2, <3>1
  <2> HIDE DEF S
  <2> QED BY <1>0, <2>1, <2>2, UpTo
<1> HIDE DEF step, W, S, Good
<1>9. \E g : g = F(g)
  <2> DEFINE g == [n \in from..to |-> {h[n - from]}]
  <2>1. ASSUME NEW n \in from..to PROVE g[n] = F(g)[n]
    <3>1. CASE n = from
      BY <1>0, <1>6, <3>1
    <3>2. CASE n # from
      <4>1. n - from \in 1..N /\ (n - from) - 1 = (n - 1) - from /\ n - 1 \in from..to
            /\ from + (n - from) = n /\ from + (n - from) - 1 = from + ((n - from) - 1)
        BY <1>0, <3>2
      <4>2. (n - from) - 1 \in S
        BY <1>0, <1>8, <4>1
      <4>3. Good(h[(n - from) - 1], from + (n - from) - 1)
        BY <4>1, <4>2 DEF S
      <4>4. h[n - from] = ReadLine(h[(n - 1) - from], f, s[n])
        BY <1>7, <4>1, <4>3
      <4> QED BY <3>2, <4>1, <4>4
    <3> QED BY <3>1, <3>2
  <2>2. g = F(g)
    <3>1. g = [n \in from..to |-> g[n]] /\ F(g) = [n \in from..to |-> F(g)[n]]
      OBVIOUS
    <3> HIDE DEF F, g
    <3> QED BY <2>1, <3>1
  <2> HIDE DEF F, g
  <2> QED BY <2>2
<1>10. c = F(c)
  <2> HIDE DEF F
  <2> QED BY <1>9
<1>11. Read(f, act, from, to) = c[to]
  BY Zenon DEF Read
<1> HIDE DEF c
<1>12. /\ c[from] = {Tracker(act)}
       /\ \A n \in (from + 1)..to : c[n] = {ReadLine(r, f, s[n]) : r \in c[n - 1]}
  <2>1. \A n \in from..to : c[n] = F(c)[n]
    BY <1>10, Zenon
  <2>2. c[from] = {Tracker(act)}
    <3>1. from \in from..to
      BY <1>0
    <3>2. F(c)[from] = {Tracker(act)}
      BY <3>1
    <3> QED BY <2>1, <3>1, <3>2
  <2>3. ASSUME NEW n \in (from + 1)..to PROVE c[n] = {ReadLine(r, f, s[n]) : r \in c[n - 1]}
    <3>1. n \in from..to /\ n # from
      BY <1>0
    <3>2. F(c)[n] = {ReadLine(r, f, s[n]) : r \in c[n - 1]}
      BY <3>1
    <3> QED BY <2>1, <3>1, <3>2
  <2> QED BY <2>2, <2>3
<1> DEFINE T == {i \in 0..N : \E r : c[from + i] = {r} /\ Good(r, from + i)}
<1>13. \A i \in 0..N : i \in T
  <2>1. 0 \in T
    <3> HIDE DEF Good
    <3>1. from + 0 = from /\ 0 \in 0..N
      BY <1>0
    <3>2. c[from + 0] = {Tracker(act)} /\ Good(Tracker(act), from + 0)
      BY <1>4, <1>12, <3>1
    <3> QED BY <3>1, <3>2
  <2>2. ASSUME NEW i \in 0..(N - 1), i \in T PROVE i + 1 \in T
    <3>1. PICK r : c[from + i] = {r} /\ Good(r, from + i)
      BY <2>2
    <3>2. from + (i + 1) \in (from + 1)..to /\ (from + (i + 1)) - 1 = from + i /\ i + 1 \in 0..N
      BY <1>0
    <3>3. c[from + (i + 1)] = {ReadLine(r, f, s[from + (i + 1)])}
      <4>1. c[from + (i + 1)] = {ReadLine(q, f, s[from + (i + 1)]) : q \in c[(from + (i + 1)) - 1]}
        BY <1>12, <3>2
      <4>2. c[(from + (i + 1)) - 1] = {r}
        BY <3>1, <3>2
      <4> QED BY <4>1, <4>2
    <3>4. Good(ReadLine(r, f, s[from + (i + 1)]), from + (i + 1))
      BY <1>1, <3>1, <3>2
    <3> QED BY <3>2, <3>3, <3>4
  <2> HIDE DEF T
  <2> QED BY <1>0, <2>1, <2>2, UpTo
<1>14. PICK r : c[to] = {r} /\ Good(r, to)
  <2>1. N \in T
    <3>1. N \in 0..N
      BY <1>0
    <3> HIDE DEF N, T
    <3> QED BY <1>13, <3>1
  <2>2. from + N = to
    BY <1>0
  <2> QED BY <2>1, <2>2
<1> QED BY <1>11, <1>14 DEF Good

----
(***************************************************************************)
(* Files with the same lines, and where a read begins.                     *)
(***************************************************************************)
LEMMA Alike ==
  ASSUME NEW s, NEW t, NEW n \in Nat, \A k \in 1..n : s[k] = t[k]
  PROVE  /\ \A k \in 1..n : /\ Fresh(s, k) <=> Fresh(t, k)
                            /\ Opens(s, k) <=> Opens(t, k)
                            /\ Works(s, k) <=> Works(t, k)
         /\ \A k \in 0..n : /\ Waits(s, k) <=> Waits(t, k)
                            /\ InTurn(s, k) <=> InTurn(t, k)
<1>1. ASSUME NEW k \in 1..n PROVE Fresh(s, k) <=> Fresh(t, k)
  BY DEF Fresh
<1>2. ASSUME NEW k \in 0..n PROVE Waits(s, k) <=> Waits(t, k)
  <2>1. \A m \in 1..k : s[m] = t[m] /\ (Fresh(s, m) <=> Fresh(t, m))
    BY <1>1
  <2>2. \A m \in 1..k : \A l \in (m + 1)..k : l \in 1..k
    OBVIOUS
  <2> QED BY <2>1, <2>2 DEF Waits
<1>3. ASSUME NEW k \in 0..n PROVE InTurn(s, k) <=> InTurn(t, k)
  <2>1. \A m \in 1..k : s[m] = t[m] /\ (Fresh(s, m) <=> Fresh(t, m))
    BY <1>1
  <2>2. \A m \in 1..k : \A l \in (m + 1)..k : l \in 1..k
    OBVIOUS
  <2> QED BY <2>1, <2>2 DEF InTurn
<1>4. ASSUME NEW k \in 1..n PROVE (Opens(s, k) <=> Opens(t, k)) /\ (Works(s, k) <=> Works(t, k))
  <2>1. k - 1 \in 0..n
    OBVIOUS
  <2>2. Opens(s, k) <=> Opens(t, k)
    BY <1>1, <1>2, <2>1 DEF Opens
  <2> QED BY <1>1, <1>3, <2>1, <2>2 DEF Works
<1> QED BY <1>1, <1>2, <1>3, <1>4

LEMMA AlikePrompt ==
  ASSUME NEW s, NEW t, NEW n \in Nat, \A k \in 1..n : s[k] = t[k], NEW p
  PROVE  PromptIs(p, s, n) <=> PromptIs(p, t, n)
<1>1. \A k \in 1..n : s[k] = t[k] /\ (Opens(s, k) <=> Opens(t, k))
  BY Alike
<1>2. \A m \in 1..n : \A k \in (m + 1)..n : k \in 1..n
  OBVIOUS
<1> QED BY <1>1, <1>2 DEF PromptIs

LEMMA AlikeStamp ==
  ASSUME NEW s, NEW t, NEW n \in Nat, \A k \in 1..n : s[k] = t[k], NEW id, NEW p, NEW p0
  PROVE  StampIs(p, p0, s, 0, n, id) <=> StampIs(p, p0, t, 0, n, id)
<1>1. ASSUME NEW k \in 1..n PROVE Stamps(s, k, id) <=> Stamps(t, k, id)
  <2>1. \A m \in 1..(k - 1) : m \in 1..n
    OBVIOUS
  <2>2. s[k] = t[k] /\ (Fresh(s, k) <=> Fresh(t, k)) /\ \A m \in 1..(k - 1) : Opens(s, m) <=> Opens(t, m)
    BY <2>1, Alike
  <2> QED BY <2>2 DEF Stamps, Bills
<1>2. ASSUME NEW m \in 1..n PROVE PromptIs(p, s, m - 1) <=> PromptIs(p, t, m - 1)
  <2>1. m - 1 \in Nat /\ \A k \in 1..(m - 1) : s[k] = t[k]
    OBVIOUS
  <2> QED BY <2>1, AlikePrompt
<1>3. (0 + 1)..n = 1..n /\ \A m \in 1..n : \A k \in (m + 1)..n : k \in 1..n
  OBVIOUS
<1> QED BY <1>1, <1>2, <1>3 DEF StampIs

LEMMA AlikeAct ==
  ASSUME NEW s, NEW t, NEW n \in Nat, \A k \in 1..n : s[k] = t[k], NEW act, ActIs(act, s, n)
  PROVE  ActIs(act, t, n)
<1>1. PromptIs(act.prompt, t, n)
  BY AlikePrompt DEF ActIs
<1>2. Waits(s, n) <=> Waits(t, n)
  <2>1. n \in 0..n
    OBVIOUS
  <2> QED BY <2>1, Alike
<1> QED BY <1>1, <1>2 DEF ActIs

LEMMA AlikeMine ==
  ASSUME NEW s, NEW t, NEW n \in Nat, \A k \in 1..n : s[k] = t[k], NEW rows, NEW turns, NEW f
  PROVE  /\ Mine(rows, turns, f, s, n) <=> Mine(rows, turns, f, t, n)
         /\ Worked(s, 0, n) = Worked(t, 0, n)
<1>1. \A k \in 1..n : Works(s, k) <=> Works(t, k)
  BY Alike
<1>2. Worked(s, 0, n) = Worked(t, 0, n)
  BY <1>1 DEF Worked
<1> QED BY <1>2 DEF Mine

\* The beginning of a sound file is sound.
LEMMA SoundBegin ==
  ASSUME NEW s, Sound(s), NEW t \in Seq(Line), Len(t) <= Len(s), \A k \in 1..Len(t) : t[k] = s[k]
  PROVE  Sound(t)
<1>0. Len(t) \in Nat /\ Len(s) \in Nat /\ \A k \in 1..Len(t) : k \in 1..Len(s)
  BY DEF Sound
<1>1. \A k \in 1..Len(t) : Fresh(t, k) <=> Fresh(s, k)
  BY <1>0, Alike
<1>2. ASSUME NEW n \in 1..Len(t) PROVE Fresh(t, n) \/ Replayed(t, n)
  <2>1. CASE Fresh(s, n)
    BY <1>1, <2>1
  <2>2. CASE Replayed(s, n)
    <3>1. \A m \in 1..(n - 1) : m \in 1..Len(t)
      BY <1>0
    <3>2. PICK m \in 1..(n - 1) : Fresh(s, m) /\ s[m] = s[n]
      BY <2>2 DEF Replayed
    <3>3. PICK k \in 1..(n - 1) : s[n].at + Slack < s[k].at
      BY <2>2 DEF Replayed
    <3>4. Fresh(t, m) /\ t[m] = t[n] /\ t[n].at + Slack < t[k].at
      BY <1>1, <3>1, <3>2, <3>3
    <3> QED BY <3>2, <3>3, <3>4 DEF Replayed
  <2> QED BY <1>0, <2>1, <2>2 DEF Sound, Climbs
<1>3. \A n \in 1..Len(t) : t[n].kind \in Billed => t[n].resp \in 1..t[n].at
  BY <1>0 DEF Sound
<1> QED BY <1>2, <1>3 DEF Sound, Climbs

LEMMA Joined ==
  ASSUME NEW a \in Seq(Line), NEW b \in Seq(Line)
  PROVE  /\ a \o b \in Seq(Line) /\ Len(a \o b) \in Nat /\ Len(a) \in Nat /\ Len(a) <= Len(a \o b)
         /\ \A n \in 1..Len(a) : a[n] = (a \o b)[n]
OBVIOUS

LEMMA TextSound ==
  ASSUME FilesOK, NEW f \in File
  PROVE  /\ Sound(text[f]) /\ Len(text[f]) \in Nat /\ Len(text[f]) <= Len(Full(f))
         /\ \A n \in 1..Len(text[f]) : text[f][n] = Full(f)[n]
<1>1. /\ text[f] \in Seq(Line) /\ copy[f] \in Seq(Line) /\ Sound(Full(f))
  BY DEF FilesOK
<1>2. /\ Len(text[f]) \in Nat /\ Len(text[f]) <= Len(Full(f))
      /\ \A n \in 1..Len(text[f]) : text[f][n] = Full(f)[n]
  BY <1>1, Joined DEF Full
<1>3. Sound(text[f])
  BY <1>1, <1>2, SoundBegin
<1> QED BY <1>2, <1>3

----
(***************************************************************************)
(* What a read of a file comes to, from its top or from its cursor.        *)
(***************************************************************************)
LedgerOK == FilesOK /\ CursorsOK /\ TurnsOK /\ RowsOK /\ BusyOK

LEMMA NothingWorked ==
  ASSUME NEW s, NEW n \in Nat
  PROVE  Cardinality(Worked(s, n, n)) = 0
<1>1. Worked(s, n, n) = {}
  BY DEF Worked
<1> QED BY <1>1, FS_EmptySet

LEMMA RowOut ==
  ASSUME RowsOK, NEW id \in Id
  PROVE  row[id] \in Row \cup {NoRow} /\ row[id].out \in Nat /\ row[id].owner \in File \cup {NoFile}
<1>1. row[id] \in Row \cup {NoRow} /\ MaxEvents \in Nat
  BY LedgerAssumption DEF RowsOK, LedgerAssumption
<1> QED BY <1>1 DEF Row, NoRow

LEMMA CursorLines ==
  ASSUME CursorsOK, NEW f \in File, Len(text[f]) \in Nat
  PROVE  cursor[f].lines \in Nat /\ cursor[f].lines <= Len(text[f])
<1>1. cursor[f].lines \in 0..Len(text[f])
  BY DEF CursorsOK
<1> QED BY <1>1

LEMMA TurnsOpened ==
  ASSUME CursorsOK, TurnsOK, NEW f \in File, Len(text[f]) \in Nat
  PROVE  Opened(turn, f, text[f])
<1> SUFFICES ASSUME NEW id \in Id, turn[id] = f
             PROVE  \E m \in 1..Len(text[f]) : Opens(text[f], m) /\ PromptOf(text[f][m]) = id
  BY DEF Opened
<1>1. PICK m \in 1..cursor[f].lines : Opens(text[f], m) /\ PromptOf(text[f][m]) = id
  BY DEF TurnsOK
<1>2. m \in 1..Len(text[f])
  BY CursorLines
<1> QED BY <1>1, <1>2

LEMMA TrackerIs ==
  ASSUME NEW act
  PROVE  /\ Tracker(act).row = row /\ Tracker(act).turn = turn /\ Tracker(act).add = 0
         /\ Tracker(act).copied = FALSE /\ Tracker(act).act = act
         /\ row \in [Id -> Row \cup {NoRow}] /\ turn \in [Id -> File \cup {NoFile}] /\ act \in Act
               => Tracked(Tracker(act))
BY DEF Tracker, Tracked

\* What a read knows before its first line.
LEMMA ReadBegins ==
  ASSUME LedgerOK, NEW f \in File, NEW act, NEW from \in 0..cursor[f].lines,
         ActIs(act, text[f], from),
         Mine(row, turn, f, text[f], from) => (act.inTurn <=> InTurn(text[f], from))
  PROVE  ReadIs(Tracker(act), row, turn, f, text[f], from, from)
<1> DEFINE s == text[f]
           r == Tracker(act)
<1>0. /\ row \in [Id -> Row \cup {NoRow}] /\ turn \in [Id -> File \cup {NoFile}] /\ act \in Act
      /\ from \in Nat
  BY DEF LedgerOK, RowsOK, TurnsOK, ActIs
<1>1. /\ r.row = row /\ r.turn = turn /\ r.add = 0 /\ r.copied = FALSE /\ r.act = act
      /\ Tracked(r)
  BY <1>0, TrackerIs
<1> HIDE DEF r
<1>a. \A m \in 1..from : m \in 1..cursor[f].lines
  <2>1. cursor[f].lines \in Nat
    BY TextSound, CursorLines DEF LedgerOK
  <2> QED BY <2>1
<1>2. RowsAre(r, row, f, s, from, from)
  <2>1. ASSUME NEW m \in 1..from, s[m].kind \in Billed
        PROVE  row[RespOf(s[m])].owner # NoFile /\ s[m].at <= row[RespOf(s[m])].out
    BY <1>a, <2>1 DEF LedgerOK, RowsOK
  <2>2. ASSUME NEW id \in Id
        PROVE  /\ row[id].out <= row[id].out
               /\ StampIs(row[id].prompt, row[id].prompt, s, from, from, id)
    <3>1. row[id].out \in Nat
      BY RowOut DEF LedgerOK
    <3>2. \A k \in (from + 1)..from : FALSE
      BY <1>0
    <3> QED BY <3>1, <3>2 DEF StampIs
  <2> QED BY <1>1, <2>1, <2>2 DEF RowsAre
<1>3. TurnsAre(r, turn, f, s, from)
  BY <1>1, <1>a DEF LedgerOK, TurnsOK, TurnsAre
<1>4. BusyIs(r, f, s, from, from)
  <2> SUFFICES ASSUME Mine(row, turn, f, s, from) PROVE WorkIs(r, s, from, from)
    BY <1>1 DEF BusyIs
  <2>1. Cardinality(Worked(s, from, from)) = 0
    BY <1>0, NothingWorked
  <2>2. act.inTurn <=> InTurn(s, from)
    OBVIOUS
  <2> QED BY <1>1, <2>1, <2>2 DEF WorkIs
<1> QED BY <1>1, <1>2, <1>3, <1>4, Zenon DEF ReadIs, r

LEMMA ReadFrom ==
  ASSUME LedgerOK, NEW f \in File, NEW from \in {0, cursor[f].lines},
         NEW act, act = IF from = 0 THEN NoAct ELSE cursor[f].act
  PROVE  /\ from \in Nat /\ from <= Len(text[f])
         /\ ReadIs(Tracker(act), row, turn, f, text[f], from, from)
<1>0. cursor[f].lines \in 0..Len(text[f]) /\ Len(text[f]) \in Nat
  BY TextSound DEF LedgerOK, CursorsOK
<1>1. CASE from = 0
  <2>1. act = NoAct
    BY <1>1
  <2>2. ActIs(NoAct, text[f], 0)
    <3>1. NoAct \in Act
      BY LedgerAssumption DEF NoAct, Act, LedgerAssumption
    <3>2. NoAct.last = 0 /\ ~NoAct.inTurn /\ NoAct.prompt = NoId /\ NoAct.answered
      BY DEF NoAct
    <3>3. ~Waits(text[f], 0)
      BY DEF Waits
    <3>4. PromptIs(NoId, text[f], 0)
      BY DEF PromptIs
    <3> QED BY <3>1, <3>2, <3>3, <3>4 DEF ActIs
  <2>3. ~NoAct.inTurn /\ ~InTurn(text[f], 0)
    BY DEF NoAct, InTurn
  <2>4. 0 \in 0..cursor[f].lines
    BY <1>0
  <2>5. ReadIs(Tracker(NoAct), row, turn, f, text[f], 0, 0)
    BY <2>2, <2>3, <2>4, ReadBegins
  <2> QED BY <1>0, <1>1, <2>1, <2>5
<1>2. CASE from # 0
  <2>1. act = cursor[f].act /\ from = cursor[f].lines /\ from \in 0..cursor[f].lines
    BY <1>0, <1>2
  <2>2. ActIs(act, text[f], from)
    BY <2>1 DEF LedgerOK, CursorsOK
  <2>3. Mine(row, turn, f, text[f], from) => (act.inTurn <=> InTurn(text[f], from))
    BY <2>1 DEF LedgerOK, BusyOK
  <2> QED BY <1>0, <2>1, <2>2, <2>3, ReadBegins
<1> QED BY <1>1, <1>2

\* A read up to any line behind which the cursor is not.
LEMMA ReadTo ==
  ASSUME LedgerOK, NEW f \in File, NEW from \in {0, cursor[f].lines},
         NEW act, act = IF from = 0 THEN NoAct ELSE cursor[f].act,
         NEW to \in from..Len(text[f])
  PROVE  \E r : Read(f, act, from, to) = {r} /\ ReadIs(r, row, turn, f, text[f], from, to)
<1>1. /\ from \in Nat /\ from <= Len(text[f])
      /\ ReadIs(Tracker(act), row, turn, f, text[f], from, from)
  BY ReadFrom
<1>2. Sound(text[f]) /\ Opened(turn, f, text[f]) /\ row \in [Id -> Row \cup {NoRow}]
  BY TextSound, TurnsOpened DEF LedgerOK, RowsOK
<1> QED BY <1>1, <1>2, ReadComes

LEMMA BelowIs ==
  ASSUME LedgerOK, NEW f \in File
  PROVE  Range(Below(f)) = {text[f][m] : m \in 1..cursor[f].lines}
<1>1. text[f] \in Seq(Line) /\ cursor[f].lines \in Nat /\ cursor[f].lines <= Len(text[f])
  BY TextSound, CursorLines DEF LedgerOK, FilesOK
<1>2. /\ DOMAIN Below(f) = 1..cursor[f].lines
      /\ \A m \in 1..cursor[f].lines : Below(f)[m] = text[f][m]
  <2> DEFINE s == text[f]
             n == cursor[f].lines
  <2> HIDE DEF s, n
  <2>1. ASSUME s \in Seq(Line), n \in Nat, n <= Len(s)
        PROVE  DOMAIN SubSeq(s, 1, n) = 1..n /\ \A m \in 1..n : SubSeq(s, 1, n)[m] = s[m]
    BY <2>1
  <2> QED BY <1>1, <2>1 DEF s, n, Below
<1> QED BY <1>2 DEF Range

LEMMA OwnsIs ==
  ASSUME LedgerOK, NEW f \in File
  PROVE  Owns(f) <=> Mine(row, turn, f, text[f], cursor[f].lines)
BY BelowIs DEF Owns, Mine

\* The outputs read of a response.
LEMMA OutputsIs ==
  ASSUME LedgerOK, NEW id
  PROVE  \A n : n \in Outputs(id) <=>
            \E f \in File : \E m \in 1..cursor[f].lines : Bills(text[f], m, id) /\ n = text[f][m].at
<1> SUFFICES ASSUME NEW n
             PROVE  n \in Outputs(id) <=>
                      \E f \in File : \E m \in 1..cursor[f].lines : Bills(text[f], m, id) /\ n = text[f][m].at
  OBVIOUS
<1>1. n \in Outputs(id) <=> \E f \in File : \E l \in Range(Below(f)) :
                                l.kind \in Billed /\ RespOf(l) = id /\ n = l.at
  BY DEF Outputs
<1>2. ASSUME NEW f \in File
      PROVE  (\E l \in Range(Below(f)) : l.kind \in Billed /\ RespOf(l) = id /\ n = l.at)
             <=> \E m \in 1..cursor[f].lines : Bills(text[f], m, id) /\ n = text[f][m].at
  BY BelowIs DEF Bills
<1> QED BY <1>1, <1>2

LEMMA LedgerIsRead ==
  ASSUME LedgerOK
  PROVE  LedgerIsWhatWasRead
<1> SUFFICES ASSUME NEW id \in Id
             PROVE  IF Outputs(id) = {} THEN row[id] = NoRow
                    ELSE row[id].out \in Outputs(id) /\ \A n \in Outputs(id) : n <= row[id].out
  BY DEF LedgerIsWhatWasRead
<1>1. \A n : n \in Outputs(id) <=>
            \E f \in File : \E m \in 1..cursor[f].lines : Bills(text[f], m, id) /\ n = text[f][m].at
  BY OutputsIs
<1>2. RowsOK /\ row[id] \in Row \cup {NoRow}
  BY RowOut DEF LedgerOK
<1>3. ASSUME NEW n \in Outputs(id) PROVE row[id].owner # NoFile /\ n <= row[id].out
  <2>0. PICK f \in File : \E m \in 1..cursor[f].lines : Bills(text[f], m, id) /\ n = text[f][m].at
    BY <1>1
  <2>1. PICK m \in 1..cursor[f].lines : Bills(text[f], m, id) /\ n = text[f][m].at
    BY <2>0
  <2> QED BY <1>2, <2>1 DEF RowsOK, Bills
<1>4. row[id].owner # NoFile => row[id].out \in Outputs(id)
  BY <1>1, <1>2 DEF RowsOK
<1>5. row[id].owner = NoFile => row[id] = NoRow
  BY <1>2, LedgerAssumption DEF Row, LedgerAssumption
<1> QED BY <1>3, <1>4, <1>5

\* A second read of what was read finds every row and turn as it is.
LEMMA RereadIs ==
  ASSUME LedgerOK, NEW f \in File, Owns(f), NEW r,
         ReadIs(r, row, turn, f, text[f], 0, cursor[f].lines)
  PROVE  r.row = row /\ r.turn = turn /\ r.add = busy[f] /\ r.act = cursor[f].act
<1> DEFINE s == text[f]
           n == cursor[f].lines
<1>0. /\ Tracked(r) /\ ActIs(r.act, s, n) /\ RowsAre(r, row, f, s, 0, n) /\ TurnsAre(r, turn, f, s, n)
      /\ BusyIs(r, f, s, 0, n) /\ RowsOK /\ n \in Nat
  BY TextSound, CursorLines DEF ReadIs, LedgerOK
<1>1. ASSUME NEW id \in Id PROVE r.row[id] = row[id]
  <2>0. /\ r.row[id] \in Row \cup {NoRow} /\ row[id] \in Row \cup {NoRow}
        /\ r.row[id].out \in Nat /\ row[id].out \in Nat /\ MaxEvents \in Nat
    BY <1>0, RowOut, LedgerAssumption DEF Tracked, Row, NoRow, LedgerAssumption
  <2>1. r.row[id].out = row[id].out
    <3> SUFFICES ASSUME NEW m \in 1..n, Bills(s, m, id), r.row[id].out = s[m].at
                 PROVE  r.row[id].out = row[id].out
      BY <1>0 DEF RowsAre
    <3>1. row[id].owner # NoFile /\ s[m].at <= row[id].out
      BY <1>0 DEF RowsOK, Bills
    <3>2. row[id].out <= r.row[id].out
      BY <1>0, <3>1 DEF RowsAre
    <3> QED BY <2>0, <3>1, <3>2
  <2>2. r.row[id].owner = row[id].owner
    <3>1. CASE row[id].owner # NoFile
      BY <1>0, <3>1 DEF RowsAre
    <3>2. CASE row[id].owner = NoFile
      <4>1. row[id].out = 0
        BY <2>0, <3>2, LedgerAssumption DEF Row, NoRow, LedgerAssumption
      <4>2. r.row[id] = NoRow
        BY <2>0, <2>1, <4>1 DEF Row
      <4> QED BY <3>2, <4>2 DEF NoRow
    <3> QED BY <3>1, <3>2
  <2>3. r.row[id].prompt = row[id].prompt
    <3>1. CASE row[id].owner # f
      BY <1>0, <2>2, <3>1 DEF RowsAre
    <3>2. CASE row[id].owner = f
      <4>1. StampIs(row[id].prompt, NoId, s, 0, n, id)
        BY <1>0, <3>2 DEF RowsOK
      <4>2. StampIs(r.row[id].prompt, row[id].prompt, s, 0, n, id)
        BY <1>0, <2>2, <3>2 DEF RowsAre
      <4> QED BY <1>0, <4>1, <4>2, StampUnique
    <3> QED BY <3>1, <3>2
  <2>4. \/ row[id] = NoRow /\ r.row[id] = NoRow
        \/ row[id] \in Row /\ r.row[id] \in Row
    BY <2>0, <2>2, LedgerAssumption DEF Row, NoRow, LedgerAssumption
  <2> QED BY <2>1, <2>2, <2>3, <2>4 DEF Row
<1>2. ASSUME NEW id \in Id PROVE r.turn[id] = turn[id]
  <2> SUFFICES ASSUME r.turn[id] # turn[id] PROVE FALSE
    OBVIOUS
  <2>1. turn[id] = NoFile
    BY <1>0 DEF TurnsAre
  <2>2. PICK m \in 1..n : Opens(s, m) /\ PromptOf(s[m]) = id
    BY <1>0 DEF TurnsAre
  <2> QED BY <2>1, <2>2 DEF LedgerOK, TurnsOK
<1>3. r.row = row /\ r.turn = turn
  <2>1. /\ r.row \in [Id -> Row \cup {NoRow}] /\ row \in [Id -> Row \cup {NoRow}]
        /\ r.turn \in [Id -> File \cup {NoFile}] /\ turn \in [Id -> File \cup {NoFile}]
    BY <1>0 DEF Tracked, RowsOK, LedgerOK, TurnsOK
  <2> QED BY <1>1, <1>2, <2>1
<1>4. Mine(row, turn, f, s, n)
  BY OwnsIs
<1>5. /\ r.act.inTurn <=> InTurn(s, n)
      /\ r.add = Cardinality(Worked(s, 0, n))
  BY <1>0, <1>3, <1>4 DEF BusyIs, WorkIs
<1>6. /\ cursor[f].act.inTurn <=> InTurn(s, n)
      /\ busy[f] = Cardinality(Worked(s, 0, n))
  BY <1>4 DEF LedgerOK, BusyOK
<1>7. ActIs(cursor[f].act, s, n)
  BY DEF LedgerOK, CursorsOK
<1>8. r.act = cursor[f].act
  <2>1. r.act \in Act /\ cursor[f].act \in Act
    BY <1>0, <1>7 DEF ActIs
  <2>2. r.act.prompt = cursor[f].act.prompt
    BY <1>0, <1>7, PromptUnique DEF ActIs
  <2>3. r.act.answered = cursor[f].act.answered
    BY <1>0, <1>7, <2>1, Zenon DEF ActIs, Act
  <2>4. r.act.inTurn = cursor[f].act.inTurn
    BY <1>5, <1>6, <2>1 DEF Act
  <2>5. r.act.last = cursor[f].act.last
    <3>1. \A m \in 1..n : 1 <= s[m].at /\ s[m].at \in Nat
      <4>1. \A m \in 1..n : m \in 1..Len(s)
        BY <1>0, TextSound, CursorLines DEF LedgerOK
      <4> QED BY <4>1, TextSound, LineType DEF LedgerOK
    <3>2. r.act.last \in Nat /\ cursor[f].act.last \in Nat
      BY <2>1, LedgerAssumption DEF Act, LedgerAssumption
    <3> QED BY <1>0, <1>7, <3>1, <3>2 DEF ActIs
  <2> QED BY <2>1, <2>2, <2>3, <2>4, <2>5 DEF Act
<1> QED BY <1>3, <1>5, <1>6, <1>8

LEMMA RereadSame ==
  ASSUME LedgerOK
  PROVE  RereadChangesNothing
<1> SUFFICES ASSUME NEW f \in File, Owns(f), NEW r \in Read(f, NoAct, 0, cursor[f].lines)
             PROVE  r.row = row /\ r.turn = turn /\ r.add = busy[f] /\ r.act = cursor[f].act
  BY DEF RereadChangesNothing
<1>1. cursor[f].lines \in 0..Len(text[f])
  BY TextSound, CursorLines DEF LedgerOK
<1>2. PICK q : /\ Read(f, NoAct, 0, cursor[f].lines) = {q}
               /\ ReadIs(q, row, turn, f, text[f], 0, cursor[f].lines)
  BY <1>1, ReadTo
<1> QED BY <1>2, RereadIs

----
(***************************************************************************)
(* A read keeps the ledger.                                                *)
(***************************************************************************)
LEMMA StampAgain ==
  ASSUME NEW s, NEW k \in Nat, NEW n \in Nat, k <= n, NEW id, NEW p, NEW q, NEW p0,
         StampIs(q, p0, s, 0, k, id), StampIs(p, q, s, 0, n, id)
  PROVE  StampIs(p, p0, s, 0, n, id)
<1>1. CASE \A m \in (0 + 1)..n : ~Stamps(s, m, id)
  <2>1. p = q
    BY <1>1 DEF StampIs
  <2>2. \A m \in (0 + 1)..k : m \in (0 + 1)..n
    OBVIOUS
  <2>3. q = p0
    BY <1>1, <2>2 DEF StampIs
  <2> QED BY <1>1, <2>1, <2>3 DEF StampIs
<1>2. CASE \E m \in (0 + 1)..n : Stamps(s, m, id)
  BY <1>2 DEF StampIs
<1> QED BY <1>1, <1>2

LEMMA WorkedJoins ==
  ASSUME NEW s, NEW k \in Nat, NEW n \in Nat, k <= n
  PROVE  /\ Cardinality(Worked(s, 0, n)) = Cardinality(Worked(s, 0, k)) + Cardinality(Worked(s, k, n))
         /\ Cardinality(Worked(s, 0, n)) \in Nat
<1> DEFINE A == Worked(s, 0, k)
           B == Worked(s, k, n)
<1>1. IsFiniteSet(1..n)
  BY FS_Interval
<1>2. A \subseteq 1..n /\ B \subseteq 1..n /\ A \cap B = {} /\ Worked(s, 0, n) = A \cup B
  BY DEF Worked
<1> HIDE DEF A, B
<1>3. IsFiniteSet(A) /\ IsFiniteSet(B) /\ IsFiniteSet(A \cup B)
  BY <1>1, <1>2, FS_Subset
<1>4. Cardinality(A \cup B) = Cardinality(A) + Cardinality(B) - Cardinality(A \cap B)
  BY <1>3, FS_Union
<1>5. Cardinality(A \cap B) = 0
  BY <1>2, FS_EmptySet
<1>6. Cardinality(A) \in Nat /\ Cardinality(B) \in Nat /\ Cardinality(A \cup B) \in Nat
  BY <1>3, FS_CardinalityType
<1>7. Cardinality(A \cup B) = Cardinality(A) + Cardinality(B)
  BY <1>4, <1>5, <1>6
<1>8. Cardinality(Worked(s, 0, n)) = Cardinality(A \cup B)
  BY <1>2, Zenon
<1> QED BY <1>6, <1>7, <1>8, Zenon DEF A, B

\* What is changed by a read of f that came to r.
ReadDone(f, from, r, size) ==
    /\ row' = r.row /\ turn' = r.turn
    /\ busy' = [busy EXCEPT ![f] = IF from = 0 THEN r.add ELSE @ + r.add]
    /\ cursor' = [cursor EXCEPT ![f] = [size |-> size, lines |-> Len(text[f]), act |-> r.act]]
    /\ text' = text

\* Owners stay; what was no one's may be the session's of the file.
LEMMA OwnersStay ==
  ASSUME LedgerOK, NEW f \in File, NEW from \in {0, cursor[f].lines}, NEW r, NEW size,
         ReadIs(r, row, turn, f, text[f], from, Len(text[f])), ReadDone(f, from, r, size)
  PROVE  /\ \A id \in Id : /\ row[id].owner # NoFile =>
                                 row'[id].owner = row[id].owner /\ row[id].out <= row'[id].out
                           /\ row[id].owner = NoFile => row'[id].owner \in {NoFile, f}
                           /\ turn[id] # NoFile => turn'[id] = turn[id]
                           /\ turn[id] = NoFile => turn'[id] \in {NoFile, f}
         /\ \A g \in File : Mine(row', turn', g, text[g], cursor[g].lines) =>
                            Mine(row, turn, g, text[g], cursor[g].lines)
<1>1. RowsAre(r, row, f, text[f], from, Len(text[f])) /\ TurnsAre(r, turn, f, text[f], Len(text[f]))
  BY DEF ReadIs
<1>2. row' = r.row /\ turn' = r.turn
  BY DEF ReadDone
<1>3. \A id \in Id : /\ row[id].owner # NoFile =>
                           row'[id].owner = row[id].owner /\ row[id].out <= row'[id].out
                     /\ row[id].owner = NoFile => row'[id].owner \in {NoFile, f}
  BY <1>1, <1>2 DEF RowsAre
<1>4. \A id \in Id : /\ turn[id] # NoFile => turn'[id] = turn[id]
                     /\ turn[id] = NoFile => turn'[id] \in {NoFile, f}
  BY <1>1, <1>2 DEF TurnsAre
<1>5. ASSUME NEW g \in File, Mine(row', turn', g, text[g], cursor[g].lines)
      PROVE  Mine(row, turn, g, text[g], cursor[g].lines)
  <2> SUFFICES ASSUME NEW m \in 1..cursor[g].lines
               PROVE  /\ text[g][m].kind \in Billed => row[RespOf(text[g][m])].owner = g
                      /\ text[g][m].kind = "prompt" => turn[PromptOf(text[g][m])] \in {g, NoFile}
    BY DEF Mine
  <2>1. /\ text[g][m].kind \in Billed => RespOf(text[g][m]) \in Id
        /\ PromptOf(text[g][m]) \in Id
    <3>1. Sound(text[g]) /\ m \in 1..Len(text[g])
      BY TextSound, CursorLines DEF LedgerOK
    <3> QED BY <3>1, LineType
  <2>2. text[g][m].kind \in Billed => row[RespOf(text[g][m])].owner # NoFile
    BY DEF LedgerOK, RowsOK
  <2>3. /\ text[g][m].kind \in Billed => row'[RespOf(text[g][m])].owner = g
        /\ text[g][m].kind = "prompt" => turn'[PromptOf(text[g][m])] \in {g, NoFile}
    BY <1>5 DEF Mine
  <2> QED BY <1>3, <1>4, <2>1, <2>2, <2>3
<1> QED BY <1>3, <1>4, <1>5

LEMMA ReadCursors ==
  ASSUME LedgerOK, NEW f \in File, NEW from \in {0, cursor[f].lines}, NEW r,
         NEW size \in Nat, size \div 2 <= Len(text[f]),
         ReadIs(r, row, turn, f, text[f], from, Len(text[f])), ReadDone(f, from, r, size)
  PROVE  /\ CursorsOK'
         /\ \A g \in File : /\ cursor'[g].lines = IF g = f THEN Len(text[f]) ELSE cursor[g].lines
                            /\ cursor[g].lines <= cursor'[g].lines
<1> DEFINE N == Len(text[f])
           new == [size |-> size, lines |-> N, act |-> r.act]
<1>0. N \in Nat /\ ActIs(r.act, text[f], N) /\ r.act \in Act
  BY TextSound DEF LedgerOK, ReadIs, ActIs
<1>1. cursor \in [File -> [size : Nat, lines : Nat, act : Act]] /\ cursor' = [cursor EXCEPT ![f] = new]
  BY DEF LedgerOK, CursorsOK, ReadDone
<1>2. new \in [size : Nat, lines : Nat, act : Act] /\ new.size = size /\ new.lines = N /\ new.act = r.act
  BY <1>0
<1> HIDE DEF new, N
<1>3. /\ cursor' \in [File -> [size : Nat, lines : Nat, act : Act]]
      /\ \A g \in File : cursor'[g] = IF g = f THEN new ELSE cursor[g]
  BY <1>1, <1>2
<1>4. \A g \in File : cursor[g].lines \in Nat /\ cursor[g].lines <= Len(text[g])
  BY TextSound, CursorLines DEF LedgerOK
<1>5. \A g \in File : /\ cursor'[g].lines = IF g = f THEN N ELSE cursor[g].lines
                      /\ cursor[g].lines <= cursor'[g].lines
  BY <1>2, <1>3, <1>4 DEF N
<1>6. ASSUME NEW g \in File
      PROVE  /\ cursor'[g].lines \in 0..Len(text[g])
             /\ cursor'[g].size \div 2 <= cursor'[g].lines
             /\ ActIs(cursor'[g].act, text[g], cursor'[g].lines)
  <2>1. CASE g = f
    <3>1. cursor'[g] = new
      BY <1>3, <2>1
    <3>2. N \in 0..Len(text[f]) /\ size \div 2 <= N
      BY <1>0 DEF N
    <3> QED BY <1>0, <1>2, <2>1, <3>1, <3>2
  <2>2. CASE g # f
    <3>1. cursor'[g] = cursor[g]
      BY <1>3, <2>2
    <3> QED BY <3>1 DEF LedgerOK, CursorsOK
  <2> QED BY <2>1, <2>2
<1>7. text' = text
  BY DEF ReadDone
<1> QED BY <1>3, <1>5, <1>6, <1>7 DEF CursorsOK, N

LEMMA ReadTurns ==
  ASSUME LedgerOK, NEW f \in File, NEW from \in {0, cursor[f].lines}, NEW r, NEW size,
         ReadIs(r, row, turn, f, text[f], from, Len(text[f])), ReadDone(f, from, r, size),
         \A g \in File : /\ cursor'[g].lines = IF g = f THEN Len(text[f]) ELSE cursor[g].lines
                         /\ cursor[g].lines <= cursor'[g].lines
  PROVE  TurnsOK'
<1>0. /\ Tracked(r) /\ TurnsAre(r, turn, f, text[f], Len(text[f]))
      /\ \A g \in File : cursor[g].lines \in Nat /\ cursor[g].lines <= Len(text[g]) /\ Len(text[g]) \in Nat
      /\ turn' = r.turn /\ text' = text
  BY TextSound, CursorLines DEF LedgerOK, ReadIs, ReadDone
<1>1. turn' \in [Id -> File \cup {NoFile}]
  BY <1>0 DEF Tracked
<1>2. ASSUME NEW g \in File, NEW id \in Id, turn'[id] = g
      PROVE  \E m \in 1..cursor'[g].lines : Opens(text[g], m) /\ PromptOf(text[g][m]) = id
  <2>1. CASE turn[id] = g
    <3>1. PICK m \in 1..cursor[g].lines : Opens(text[g], m) /\ PromptOf(text[g][m]) = id
      BY <2>1 DEF LedgerOK, TurnsOK
    <3>2. m \in 1..cursor'[g].lines
      BY <1>0
    <3> QED BY <3>1, <3>2
  <2>2. CASE turn[id] # g
    <3>1. g = f /\ \E m \in 1..Len(text[f]) : Opens(text[f], m) /\ PromptOf(text[f][m]) = id
      BY <1>0, <1>2, <2>2 DEF TurnsAre
    <3> QED BY <3>1
  <2> QED BY <2>1, <2>2
<1>3. ASSUME NEW g \in File, NEW m \in 1..cursor'[g].lines, Opens(text[g], m)
      PROVE  turn'[PromptOf(text[g][m])] # NoFile
  <2>1. CASE g = f
    BY <1>0, <1>3, <2>1 DEF TurnsAre
  <2>2. CASE g # f
    <3>1. m \in 1..cursor[g].lines /\ m \in 1..Len(text[g])
      BY <1>0, <2>2
    <3>2. turn[PromptOf(text[g][m])] # NoFile
      BY <1>3, <3>1 DEF LedgerOK, TurnsOK
    <3>3. PromptOf(text[g][m]) \in Id
      BY <3>1, TextSound, LineType DEF LedgerOK
    <3> QED BY <1>0, <3>2, <3>3 DEF TurnsAre
  <2> QED BY <2>1, <2>2
<1> QED BY <1>0, <1>1, <1>2, <1>3 DEF TurnsOK

LEMMA ReadRows ==
  ASSUME LedgerOK, NEW f \in File, NEW from \in {0, cursor[f].lines}, NEW r, NEW size,
         ReadIs(r, row, turn, f, text[f], from, Len(text[f])), ReadDone(f, from, r, size),
         \A g \in File : /\ cursor'[g].lines = IF g = f THEN Len(text[f]) ELSE cursor[g].lines
                         /\ cursor[g].lines <= cursor'[g].lines
  PROVE  RowsOK'
<1> DEFINE N == Len(text[f])
           L == cursor[f].lines
<1>0. /\ Tracked(r) /\ RowsAre(r, row, f, text[f], from, N) /\ RowsOK
      /\ \A g \in File : cursor[g].lines \in Nat /\ cursor[g].lines <= Len(text[g]) /\ Len(text[g]) \in Nat
      /\ row' = r.row /\ text' = text /\ NoFile \notin File
  BY TextSound, CursorLines, LedgerAssumption DEF LedgerOK, ReadIs, ReadDone, LedgerAssumption
<1>a. row' \in [Id -> Row \cup {NoRow}]
  BY <1>0 DEF Tracked
<1>b. \A id \in Id : /\ row[id] \in Row \cup {NoRow} /\ row[id].out \in Nat
                     /\ row[id].owner \in File \cup {NoFile}
                     /\ row'[id] \in Row \cup {NoRow} /\ row'[id].out \in Nat
  <2> SUFFICES ASSUME NEW id \in Id
               PROVE  /\ row[id] \in Row \cup {NoRow} /\ row[id].out \in Nat
                      /\ row[id].owner \in File \cup {NoFile}
                      /\ row'[id] \in Row \cup {NoRow} /\ row'[id].out \in Nat
    OBVIOUS
  <2>1. row[id] \in Row \cup {NoRow} /\ row[id].out \in Nat /\ row[id].owner \in File \cup {NoFile}
    BY <1>0, RowOut
  <2>2. row'[id] \in Row \cup {NoRow} /\ MaxEvents \in Nat
    BY <1>a, LedgerAssumption DEF LedgerAssumption
  <2> QED BY <2>1, <2>2 DEF Row, NoRow
<1>1. ASSUME NEW g \in File, NEW m \in 1..cursor'[g].lines, text[g][m].kind \in Billed
      PROVE  /\ row'[RespOf(text[g][m])].owner # NoFile
             /\ text[g][m].at <= row'[RespOf(text[g][m])].out
  <2>1. CASE g = f
    BY <1>0, <1>1, <2>1 DEF RowsAre
  <2>2. CASE g # f
    <3> DEFINE id == RespOf(text[g][m])
    <3>1. m \in 1..cursor[g].lines /\ m \in 1..Len(text[g])
      BY <1>0, <2>2
    <3>2. row[id].owner # NoFile /\ text[g][m].at <= row[id].out
      BY <1>0, <1>1, <3>1 DEF RowsOK
    <3>3. id \in Id /\ text[g][m].at \in Nat
      BY <1>1, <3>1, TextSound, LineType DEF LedgerOK
    <3>4. row'[id].owner = row[id].owner /\ row[id].out <= row'[id].out
      BY <1>0, <3>2, <3>3 DEF RowsAre
    <3> QED BY <1>b, <3>2, <3>3, <3>4
  <2> QED BY <2>1, <2>2
<1>2. ASSUME NEW id \in Id, row'[id].owner # NoFile
      PROVE  \E g \in File : \E m \in 1..cursor'[g].lines : Bills(text[g], m, id) /\ row'[id].out = text[g][m].at
  <2>1. CASE row'[id].out = row[id].out
    <3>1. row[id].owner # NoFile
      <4> SUFFICES ASSUME row[id] = NoRow PROVE FALSE
        BY <1>0, <1>b DEF Row
      <4>1. row'[id] \in Row
        BY <1>2, <1>b DEF NoRow
      <4> QED BY <2>1, <4>1 DEF Row, NoRow
    <3>2. PICK g \in File : \E m \in 1..cursor[g].lines : Bills(text[g], m, id) /\ row[id].out = text[g][m].at
      BY <1>0, <3>1 DEF RowsOK
    <3>3. PICK m \in 1..cursor[g].lines : Bills(text[g], m, id) /\ row[id].out = text[g][m].at
      BY <3>2
    <3>4. m \in 1..cursor'[g].lines
      BY <1>0
    <3> QED BY <2>1, <3>3, <3>4
  <2>2. CASE row'[id].out # row[id].out
    <3>1. \E m \in 1..N : Bills(text[f], m, id) /\ row'[id].out = text[f][m].at
      BY <1>0, <2>2 DEF RowsAre
    <3> QED BY <3>1
  <2> QED BY <2>1, <2>2
<1>3. ASSUME NEW id \in Id, NEW g \in File, row'[id].owner = g
      PROVE  StampIs(row'[id].prompt, NoId, text[g], 0, cursor'[g].lines, id)
  <2>1. CASE g # f
    <3>1. row'[id].prompt = row[id].prompt /\ row[id].owner = g
      BY <1>0, <1>3, <2>1 DEF RowsAre
    <3>2. StampIs(row[id].prompt, NoId, text[g], 0, cursor[g].lines, id)
      BY <1>0, <3>1 DEF RowsOK
    <3> QED BY <2>1, <3>1, <3>2
  <2>2. CASE g = f
    <3>1. StampIs(row'[id].prompt, row[id].prompt, text[f], from, N, id)
      BY <1>0, <1>3, <2>2 DEF RowsAre
    <3>2. StampIs(row[id].prompt, NoId, text[f], 0, L, id)
      <4>1. CASE row[id].owner = f
        BY <1>0, <4>1 DEF RowsOK
      <4>2. CASE row[id].owner # f
        <5>1. row[id].owner = NoFile
          BY <1>0, <1>3, <1>b, <2>2, <4>2 DEF RowsAre
        <5>2. row[id].prompt = NoId
          BY <1>0, <1>b, <5>1 DEF Row, NoRow
        <5>3. \A m \in (0 + 1)..L : ~Stamps(text[f], m, id)
          BY <1>0, <5>1 DEF RowsOK, Stamps, Bills
        <5> QED BY <5>2, <5>3 DEF StampIs
      <4> QED BY <4>1, <4>2
    <3>3. L \in Nat /\ N \in Nat /\ L <= N
      BY <1>0
    <3> HIDE DEF L, N
    <3>4. StampIs(row'[id].prompt, NoId, text[f], 0, N, id)
      <4>1. CASE from = 0
        BY <3>1, <3>2, <3>3, <4>1, StampAgain
      <4>2. CASE from = L
        BY <3>1, <3>2, <3>3, <4>2, StampJoins
      <4> QED BY <4>1, <4>2 DEF L
    <3> QED BY <2>2, <3>4 DEF N
  <2> QED BY <2>1, <2>2
<1> QED BY <1>0, <1>a, <1>1, <1>2, <1>3 DEF RowsOK

LEMMA ReadBusy ==
  ASSUME LedgerOK, NEW f \in File, NEW from \in {0, cursor[f].lines}, NEW r, NEW size,
         ReadIs(r, row, turn, f, text[f], from, Len(text[f])), ReadDone(f, from, r, size),
         \A g \in File : cursor'[g].lines = IF g = f THEN Len(text[f]) ELSE cursor[g].lines
  PROVE  BusyOK'
<1> DEFINE N == Len(text[f])
           L == cursor[f].lines
           spent == IF from = 0 THEN r.add ELSE busy[f] + r.add
<1>0. /\ Tracked(r) /\ BusyIs(r, f, text[f], from, N) /\ r.add \in Nat
      /\ L \in Nat /\ L <= N /\ N \in Nat
      /\ row' = r.row /\ turn' = r.turn /\ text' = text
  BY TextSound, CursorLines DEF LedgerOK, ReadIs, ReadDone, Tracked
<1>1. /\ busy \in [File -> Nat] /\ busy' = [busy EXCEPT ![f] = spent]
  BY DEF LedgerOK, BusyOK, ReadDone
<1>2. spent \in Nat
  BY <1>0, <1>1
<1> HIDE DEF spent
<1>3. busy' \in [File -> Nat] /\ \A g \in File : busy'[g] = IF g = f THEN spent ELSE busy[g]
  BY <1>1, <1>2
<1>4. cursor'[f].act = r.act /\ \A g \in File : g # f => cursor'[g] = cursor[g]
  <2>1. cursor' = [cursor EXCEPT ![f] = [size |-> size, lines |-> N, act |-> r.act]]
    BY DEF ReadDone
  <2>2. cursor \in [File -> [size : Nat, lines : Nat, act : Act]]
    BY DEF LedgerOK, CursorsOK
  <2> QED BY <2>1, <2>2
<1>5. \A g \in File : Mine(row', turn', g, text[g], cursor[g].lines) =>
                      Mine(row, turn, g, text[g], cursor[g].lines)
  BY OwnersStay
<1>6. ASSUME NEW g \in File, Mine(row', turn', g, text[g], cursor'[g].lines)
      PROVE  /\ cursor'[g].act.inTurn <=> InTurn(text[g], cursor'[g].lines)
             /\ busy'[g] = Cardinality(Worked(text[g], 0, cursor'[g].lines))
  <2>1. CASE g # f
    <3>1. Mine(row, turn, g, text[g], cursor[g].lines)
      BY <1>5, <1>6, <2>1
    <3>2. /\ cursor[g].act.inTurn <=> InTurn(text[g], cursor[g].lines)
          /\ busy[g] = Cardinality(Worked(text[g], 0, cursor[g].lines))
      BY <3>1 DEF LedgerOK, BusyOK
    <3> QED BY <1>3, <1>4, <2>1, <3>2
  <2>2. CASE g = f
    <3>1. Mine(r.row, r.turn, f, text[f], N)
      BY <1>0, <1>6, <2>2
    <3>2. (r.act.inTurn <=> InTurn(text[f], N)) /\ r.add = Cardinality(Worked(text[f], from, N))
      BY <1>0, <3>1 DEF BusyIs, WorkIs
    <3>3. spent = Cardinality(Worked(text[f], 0, N))
      <4>1. CASE from = 0
        BY <3>2, <4>1 DEF spent
      <4>2. CASE from # 0
        <5>1. Mine(row', turn', f, text[f], L)
          BY <1>0, <3>1 DEF Mine
        <5>2. busy[f] = Cardinality(Worked(text[f], 0, L))
          BY <1>5, <5>1 DEF LedgerOK, BusyOK
        <5>3. Cardinality(Worked(text[f], 0, N)) = Cardinality(Worked(text[f], 0, L)) + Cardinality(Worked(text[f], L, N))
          BY <1>0, WorkedJoins
        <5> QED BY <3>2, <4>2, <5>2, <5>3 DEF spent
      <4> QED BY <4>1, <4>2
    <3> QED BY <1>3, <1>4, <2>2, <3>2, <3>3
  <2> QED BY <2>1, <2>2
<1> QED BY <1>0, <1>3, <1>6 DEF BusyOK

----
(***************************************************************************)
(* What is written behind the cursors keeps the ledger.                    *)
(***************************************************************************)
Grows(s, t) ==
    /\ Len(s) \in Nat /\ Len(t) \in Nat /\ Len(s) <= Len(t)
    /\ \A n \in 1..Len(s) : s[n] = t[n]

LEMMA GrowsKeepsLedger ==
  ASSUME LedgerOK, UNCHANGED ledgerVars, \A f \in File : Grows(text[f], text'[f])
  PROVE  CursorsOK' /\ TurnsOK' /\ RowsOK' /\ BusyOK'
<1>0. row' = row /\ turn' = turn /\ busy' = busy /\ cursor' = cursor
  BY DEF ledgerVars
<1>1. ASSUME NEW f \in File
      PROVE  /\ cursor[f].lines \in Nat /\ cursor[f].lines <= Len(text[f])
             /\ cursor[f].lines \in 0..Len(text'[f])
             /\ \A n \in 1..cursor[f].lines : text[f][n] = text'[f][n]
  <2>1. cursor[f].lines \in Nat /\ cursor[f].lines <= Len(text[f])
    BY TextSound, CursorLines DEF LedgerOK
  <2> QED BY <2>1 DEF Grows
<1>2. CursorsOK'
  <2>1. ASSUME NEW f \in File PROVE ActIs(cursor[f].act, text'[f], cursor[f].lines)
    <3>1. ActIs(cursor[f].act, text[f], cursor[f].lines)
      BY DEF LedgerOK, CursorsOK
    <3> QED BY <1>1, <3>1, AlikeAct
  <2>2. /\ cursor \in [File -> [size : Nat, lines : Nat, act : Act]]
        /\ \A f \in File : cursor[f].size \div 2 <= cursor[f].lines
    BY DEF LedgerOK, CursorsOK
  <2> QED BY <1>0, <1>1, <2>1, <2>2 DEF CursorsOK
<1>3. \A f \in File : \A m \in 1..cursor[f].lines :
          text[f][m] = text'[f][m] /\ (Opens(text[f], m) <=> Opens(text'[f], m))
  <2> SUFFICES ASSUME NEW f \in File
               PROVE  \A m \in 1..cursor[f].lines :
                        text[f][m] = text'[f][m] /\ (Opens(text[f], m) <=> Opens(text'[f], m))
    OBVIOUS
  <2> QED BY <1>1, Alike
<1>4. TurnsOK'
  <2>1. TurnsOK
    BY DEF LedgerOK
  <2> QED BY <1>0, <1>3, <2>1 DEF TurnsOK
<1>5. RowsOK'
  <2>1. RowsOK
    BY DEF LedgerOK
  <2>2. ASSUME NEW f \in File, NEW id \in Id
        PROVE  StampIs(row[id].prompt, NoId, text[f], 0, cursor[f].lines, id)
               <=> StampIs(row[id].prompt, NoId, text'[f], 0, cursor[f].lines, id)
    BY <1>1, AlikeStamp
  <2>3. \A f \in File : \A m \in 1..cursor[f].lines : text'[f][m].kind \in Billed =>
            /\ row[RespOf(text'[f][m])].owner # NoFile
            /\ text'[f][m].at <= row[RespOf(text'[f][m])].out
    BY <1>3, <2>1 DEF RowsOK
  <2>4. \A id \in Id : row[id].owner # NoFile =>
            \E f \in File : \E m \in 1..cursor[f].lines :
                Bills(text'[f], m, id) /\ row[id].out = text'[f][m].at
    BY <1>3, <2>1 DEF RowsOK, Bills
  <2> QED BY <1>0, <2>1, <2>2, <2>3, <2>4 DEF RowsOK
<1>6. BusyOK'
  <2>1. ASSUME NEW f \in File, Mine(row, turn, f, text'[f], cursor[f].lines)
        PROVE  /\ cursor[f].act.inTurn <=> InTurn(text'[f], cursor[f].lines)
               /\ busy[f] = Cardinality(Worked(text'[f], 0, cursor[f].lines))
    <3>1. /\ Mine(row, turn, f, text[f], cursor[f].lines)
          /\ Worked(text[f], 0, cursor[f].lines) = Worked(text'[f], 0, cursor[f].lines)
      BY <1>1, <2>1, AlikeMine
    <3>2. InTurn(text[f], cursor[f].lines) <=> InTurn(text'[f], cursor[f].lines)
      <4>1. cursor[f].lines \in 0..cursor[f].lines
        BY <1>1
      <4>2. \A k \in 0..cursor[f].lines : InTurn(text[f], k) <=> InTurn(text'[f], k)
        BY <1>1, Alike
      <4> QED BY <4>1, <4>2
    <3> QED BY <3>1, <3>2 DEF LedgerOK, BusyOK
  <2>2. busy \in [File -> Nat]
    BY DEF LedgerOK, BusyOK
  <2> QED BY <1>0, <2>1, <2>2 DEF BusyOK
<1> QED BY <1>2, <1>4, <1>5, <1>6

----
(***************************************************************************)
(* What the sessions write.                                                *)
(***************************************************************************)
LEMMA LargestLine ==
  ASSUME NEW s \in Seq(Line), s # <<>>
  PROVE  \E n \in 1..Len(s) : \A m \in 1..Len(s) : s[m].at <= s[n].at
<1> DEFINE S == {n \in Nat : n # 0 => \E k \in 1..n : \A m \in 1..n : s[m].at <= s[k].at}
<1>0. Len(s) \in Nat /\ Len(s) # 0 /\ \A m \in 1..Len(s) : s[m].at \in Nat
  <2>1. Len(s) \in Nat /\ Len(s) # 0 /\ \A m \in 1..Len(s) : s[m] \in Line
    OBVIOUS
  <2>2. \A l \in Line : l.at \in Nat
    BY LedgerAssumption DEF LedgerAssumption, Line
  <2> QED BY <2>1, <2>2
<1>1. 0 \in S
  OBVIOUS
<1>2. ASSUME NEW n \in 0..(Len(s) - 1), n \in S PROVE n + 1 \in S
  <2>0. n \in Nat /\ n + 1 \in 1..Len(s) /\ s[n + 1].at \in Nat
    BY <1>0
  <2>1. CASE n = 0
    <3>1. \A m \in 1..1 : s[m].at <= s[1].at
      BY <1>0
    <3> QED BY <2>1, <3>1
  <2>2. CASE n # 0
    <3>1. PICK k \in 1..n : \A m \in 1..n : s[m].at <= s[k].at
      BY <1>2, <2>2
    <3>2. k \in 1..(n + 1) /\ s[k].at \in Nat
      BY <1>0, <2>0
    <3>3. CASE s[n + 1].at <= s[k].at
      <4>1. \A m \in 1..(n + 1) : s[m].at <= s[k].at
        BY <2>0, <3>1, <3>3
      <4> QED BY <2>0, <3>2, <4>1
    <3>4. CASE ~(s[n + 1].at <= s[k].at)
      <4>1. s[k].at <= s[n + 1].at
        BY <2>0, <3>2, <3>4
      <4>2. \A m \in 1..(n + 1) : s[m].at <= s[n + 1].at
        <5> TAKE m \in 1..(n + 1)
        <5>1. CASE m = n + 1
          BY <2>0, <5>1
        <5>2. CASE m # n + 1
          <6>1. m \in 1..n /\ m \in 1..Len(s)
            BY <2>0, <5>2
          <6> QED BY <1>0, <2>0, <3>1, <3>2, <4>1, <6>1
        <5> QED BY <5>1, <5>2
      <4>3. n + 1 \in 1..(n + 1)
        BY <2>0
      <4> QED BY <2>0, <4>2, <4>3
    <3> QED BY <3>3, <3>4
  <2> QED BY <2>1, <2>2
<1> HIDE DEF S
<1>3. Len(s) \in S
  <2>1. \A n \in 0..Len(s) : n \in S
    BY <1>0, <1>1, <1>2, UpTo
  <2> QED BY <1>0, <2>1
<1> QED BY <1>0, <1>3 DEF S

LEMMA NewestIs ==
  ASSUME FilesOK, NEW f \in File
  PROVE  /\ Newest(f).at \in 0..events
         /\ \A m \in 1..Len(text[f]) : text[f][m].at <= Newest(f).at
         /\ text[f] = <<>> => Newest(f) = NoLine
         /\ text[f] # <<>> => Newest(f) \in Line /\ \E n \in 1..Len(text[f]) : text[f][n] = Newest(f)
<1>0. text[f] \in Seq(Line) /\ Len(text[f]) \in Nat /\ Sound(text[f]) /\ events \in Nat
  BY TextSound DEF FilesOK
<1>1. CASE text[f] = <<>>
  <2>1. Len(text[f]) = 0
    BY <1>1
  <2> QED BY <1>0, <1>1, <2>1 DEF Newest, NoLine
<1>2. CASE text[f] # <<>>
  <2>1. PICK n \in 1..Len(text[f]) : \A m \in 1..Len(text[f]) : text[f][m].at <= text[f][n].at
    BY <1>0, <1>2, LargestLine
  <2>2. Range(text[f]) = {text[f][m] : m \in 1..Len(text[f])}
    BY <1>0 DEF Range
  <2>3. \E l \in Range(text[f]) : \A m \in Range(text[f]) : m.at <= l.at
    BY <2>1, <2>2
  <2>4. Newest(f) = CHOOSE l \in Range(text[f]) : \A m \in Range(text[f]) : m.at <= l.at
    BY <1>2 DEF Newest
  <2> DEFINE l == Newest(f)
  <2>5. l \in Range(text[f]) /\ \A m \in Range(text[f]) : m.at <= l.at
    BY <2>3, <2>4
  <2> HIDE DEF l
  <2>6. PICK k \in 1..Len(text[f]) : text[f][k] = l
    BY <2>2, <2>5
  <2>7. l \in Line
    BY <1>0, <2>6
  <2>8. l.at <= events
    <3>1. k \in 1..Len(Full(f)) /\ Full(f)[k] = l
      BY <2>6, TextSound, Joined DEF FilesOK, Full
    <3> QED BY <3>1 DEF FilesOK
  <2>9. l.at \in Nat
    BY <2>7, LedgerAssumption DEF Line, LedgerAssumption
  <2>10. l.at \in 0..events
    BY <1>0, <2>8, <2>9
  <2>11. \A m \in 1..Len(text[f]) : text[f][m].at <= l.at
    BY <2>2, <2>5
  <2> QED BY <1>2, <2>6, <2>7, <2>10, <2>11 DEF l
<1> QED BY <1>1, <1>2

LEMMA Appended ==
  ASSUME NEW s \in Seq(Line), NEW l \in Line
  PROVE  /\ Append(s, l) \in Seq(Line) /\ Len(s) \in Nat /\ Len(Append(s, l)) = Len(s) + 1
         /\ \A n \in 1..Len(s) : Append(s, l)[n] = s[n]
         /\ Append(s, l)[Len(s) + 1] = l
         /\ Append(s, l) # <<>>
OBVIOUS

\* A sound file stays so with a newer line, and with a replay.
LEMMA SoundWrites ==
  ASSUME NEW s, Sound(s), NEW l \in Line, l.kind \in Billed => l.resp \in 1..l.at,
         \/ \A m \in 1..Len(s) : s[m].at < l.at
         \/ /\ \E n \in 1..Len(s) : s[n] = l
            /\ \E m \in 1..Len(s) : l.at + Slack < s[m].at
  PROVE  Sound(Append(s, l))
<1> DEFINE t == Append(s, l)
           N == Len(s) + 1
<1>0. s \in Seq(Line) /\ Climbs(s)
  BY DEF Sound
<1>1. /\ t \in Seq(Line) /\ Len(s) \in Nat /\ Len(t) = N /\ t[N] = l /\ N \in Nat /\ N - 1 = Len(s)
      /\ \A n \in 1..Len(s) : t[n] = s[n]
  <2> HIDE DEF t
  <2> QED BY <1>0, Appended DEF t
<1> HIDE DEF t, N
<1>2. \A n \in 1..Len(s) : Fresh(t, n) <=> Fresh(s, n)
  BY <1>1, Alike
<1>3. ASSUME NEW n \in 1..Len(s) PROVE Fresh(t, n) \/ Replayed(t, n)
  <2>1. CASE Fresh(s, n)
    BY <1>2, <2>1
  <2>2. CASE Replayed(s, n)
    <3>1. \A m \in 1..(n - 1) : m \in 1..Len(s)
      BY <1>1
    <3>2. PICK m \in 1..(n - 1) : Fresh(s, m) /\ s[m] = s[n]
      BY <2>2 DEF Replayed
    <3>3. PICK k \in 1..(n - 1) : s[n].at + Slack < s[k].at
      BY <2>2 DEF Replayed
    <3>4. Fresh(t, m) /\ t[m] = t[n] /\ t[n].at + Slack < t[k].at
      BY <1>1, <1>2, <3>1, <3>2, <3>3
    <3> QED BY <3>2, <3>3, <3>4 DEF Replayed
  <2> QED BY <1>0, <2>1, <2>2 DEF Climbs
<1>4. Fresh(t, N) \/ Replayed(t, N)
  <2>1. CASE \A m \in 1..Len(s) : s[m].at < l.at
    BY <1>1, <2>1 DEF Fresh
  <2>2. CASE /\ \E n \in 1..Len(s) : s[n] = l
             /\ \E m \in 1..Len(s) : l.at + Slack < s[m].at
    <3>1. PICK n \in 1..Len(s) : s[n] = l
      BY <2>2
    <3>2. \E m \in 1..Len(s) : Fresh(s, m) /\ s[m] = l
      <4>1. CASE Fresh(s, n)
        BY <3>1, <4>1
      <4>2. CASE Replayed(s, n)
        <5>1. PICK m \in 1..(n - 1) : Fresh(s, m) /\ s[m] = s[n]
          BY <4>2 DEF Replayed
        <5>2. m \in 1..Len(s)
          BY <1>1
        <5> QED BY <3>1, <5>1, <5>2
      <4> QED BY <1>0, <4>1, <4>2 DEF Climbs
    <3>3. \E m \in 1..Len(s) : Fresh(t, m) /\ t[m] = l
      BY <1>1, <1>2, <3>2
    <3>4. \E m \in 1..Len(s) : l.at + Slack < t[m].at
      BY <1>1, <2>2
    <3> QED BY <1>1, <3>3, <3>4 DEF Replayed
  <2> QED BY <2>1, <2>2
<1>5. \A n \in 1..Len(t) : n \in 1..Len(s) \/ n = N
  BY <1>1 DEF N
<1>6. \A n \in 1..Len(t) : t[n].kind \in Billed => t[n].resp \in 1..t[n].at
  BY <1>1, <1>5 DEF Sound
<1>7. Climbs(t)
  BY <1>3, <1>4, <1>5 DEF Climbs
<1> QED BY <1>1, <1>6, <1>7 DEF Sound, t

LEMMA FullIs ==
  ASSUME FilesOK, NEW f \in File
  PROVE  /\ text[f] \in Seq(Line) /\ copy[f] \in Seq(Line)
         /\ Full(f) \in Seq(Line) /\ Len(Full(f)) \in Nat
         /\ copy[f] = <<>> => Full(f) = text[f]
<1>1. text[f] \in Seq(Line) /\ copy[f] \in Seq(Line)
  BY DEF FilesOK
<1>2. \A a, b \in Seq(Line) : a \o b \in Seq(Line) /\ Len(a \o b) \in Nat /\ (b = <<>> => a \o b = a)
  OBVIOUS
<1> QED BY <1>1, <1>2 DEF Full

\* The order of creation, with one file more.
BornWith(f) == born' = born \/ (f \notin Born /\ born' = Append(born, f))

LEMMA BornKept ==
  ASSUME FilesOK, NEW f \in File, BornWith(f)
  PROVE  /\ born' \in Seq(File) /\ \A i, j \in 1..Len(born') : born'[i] = born'[j] => i = j
         /\ Born \subseteq Born' /\ Born' \subseteq Born \cup {f}
         /\ \A a, b \in File : Precedes(a, b) => Precedes(a, b)'
<1>0. born \in Seq(File) /\ \A i, j \in 1..Len(born) : born[i] = born[j] => i = j
  BY DEF FilesOK
<1>1. CASE born' = born
  BY <1>0, <1>1 DEF Born, Precedes
<1>2. CASE f \notin Born /\ born' = Append(born, f)
  <2>1. \A n \in 1..Len(born) : born[n] # f
    BY <1>0, <1>2 DEF Born
  <2>2. /\ born' \in Seq(File) /\ Len(born) \in Nat /\ Len(born') = Len(born) + 1
        /\ \A n \in 1..Len(born) : born'[n] = born[n]
        /\ born'[Len(born) + 1] = f
    BY <1>0, <1>2
  <2>3. \A i, j \in 1..Len(born') : born'[i] = born'[j] => i = j
    BY <1>0, <2>1, <2>2
  <2>4. Born = {born[n] : n \in 1..Len(born)} /\ Born' = {born'[n] : n \in 1..Len(born')}
    BY <1>0, <2>2 DEF Born
  <2>5. Born \subseteq Born' /\ Born' \subseteq Born \cup {f}
    BY <2>2, <2>4
  <2>6. ASSUME NEW a \in File, NEW b \in File, Precedes(a, b) PROVE Precedes(a, b)'
    <3>1. PICK j \in 1..Len(born) : born[j] = b /\ \E i \in 1..(j - 1) : born[i] = a
      BY <2>6 DEF Precedes
    <3>2. PICK i \in 1..(j - 1) : born[i] = a
      BY <3>1
    <3>3. j \in 1..Len(born') /\ i \in 1..Len(born) /\ born'[j] = b /\ born'[i] = a
      BY <2>2, <3>1, <3>2
    <3> QED BY <3>2, <3>3 DEF Precedes
  <2> QED BY <2>2, <2>3, <2>5, <2>6
<1> QED BY <1>1, <1>2 DEF BornWith

LEMMA BornLast ==
  ASSUME FilesOK, NEW f \in File, f \notin Born, born' = Append(born, f), NEW g \in Born
  PROVE  f \in Born' /\ Precedes(g, f)'
<1>0. born \in Seq(File)
  BY DEF FilesOK
<1>1. PICK n \in 1..Len(born) : born[n] = g
  BY <1>0 DEF Born
<1>2. /\ born' \in Seq(File) /\ Len(born) \in Nat /\ Len(born') = Len(born) + 1
      /\ born'[n] = born[n] /\ born'[Len(born) + 1] = f
  BY <1>0
<1>3. Len(born) + 1 \in 1..Len(born') /\ n \in 1..(Len(born) + 1 - 1)
  BY <1>2
<1> QED BY <1>1, <1>2, <1>3 DEF Precedes, Born

PrecedesInBorn(a, b) == Precedes(a, b) => a \in Born /\ b \in Born
LEMMA PrecedesBorn ==
  ASSUME FilesOK, NEW a, NEW b
  PROVE  PrecedesInBorn(a, b)
<1>0. born \in Seq(File)
  BY DEF FilesOK
<1> SUFFICES ASSUME Precedes(a, b) PROVE a \in Born /\ b \in Born
  BY DEF PrecedesInBorn
<1>1. PICK j \in 1..Len(born) : born[j] = b /\ \E i \in 1..(j - 1) : born[i] = a
  BY DEF Precedes
<1>2. \A i \in 1..(j - 1) : i \in 1..Len(born)
  BY <1>0
<1> QED BY <1>0, <1>1, <1>2 DEF Born

GrowAll == \A h \in File : Grows(text[h], text'[h])
PrecedesStays == \A a, b \in File : Precedes(a, b) => Precedes(a, b)'

\* A file's lines of other sessions, as long as files only grow.
LEMMA SharedKept ==
  ASSUME FilesOK, NEW f \in File, NEW g \in File, f # g, NEW t, NEW n \in 1..Len(Full(g)),
         \A m \in 1..n : t[m] = Full(g)[m], t[n].from = f, Fresh(t, n),
         GrowAll, PrecedesStays
  PROVE  /\ Precedes(f, g) /\ Precedes(f, g)' /\ n <= Len(text'[f])
         /\ \A m \in 1..n : t[m] = text'[f][m]
<1>0. n \in Nat /\ n \in 1..n
  BY FullIs
<1>1. Fresh(Full(g), n) /\ Full(g)[n].from = f
  <2>1. \A k \in 1..n : Fresh(t, k) <=> Fresh(Full(g), k)
    BY <1>0, Alike
  <2> QED BY <1>0, <2>1
<1>2. Precedes(f, g) /\ n <= Len(text[f]) /\ \A m \in 1..n : Full(g)[m] = text[f][m]
  BY <1>1 DEF FilesOK, Shared
<1>3. /\ Len(text[f]) \in Nat /\ Len(text'[f]) \in Nat /\ Len(text[f]) <= Len(text'[f])
      /\ \A m \in 1..Len(text[f]) : text[f][m] = text'[f][m]
  BY DEF GrowAll, Grows
<1>4. \A m \in 1..n : m \in 1..Len(text[f])
  BY <1>0, <1>2, <1>3
<1>5. n <= Len(text'[f])
  BY <1>0, <1>2, <1>3
<1> QED BY <1>2, <1>3, <1>4, <1>5 DEF PrecedesStays

LEMMA LineAt == \A l \in Line : l.at \in Nat /\ l.at # 0
BY LedgerAssumption DEF LedgerAssumption, Line

\* One file has more lines, or more to copy; all else of the files is as it was.
FileStep(f, t, c, u) ==
    /\ BornWith(f) /\ f \in Born'
    /\ gone' \subseteq Born' /\ torn' \in [File -> BOOLEAN] /\ events' \in events..MaxEvents
    /\ t \in Seq(Line) /\ c \in Seq(Line) /\ t # <<>> /\ Grows(text[f], t)
    /\ text' = [text EXCEPT ![f] = t] /\ copy' = [copy EXCEPT ![f] = c]
    /\ u = t \o c /\ Sound(u)
    /\ \A n \in 1..Len(u) : u[n].at <= events'
    /\ \A g \in File : \A n \in 1..Len(u) : u[n].from = g /\ g # f /\ Fresh(u, n) =>
           Precedes(g, f)' /\ n <= Len(text'[g]) /\ \A m \in 1..n : u[m] = text'[g][m]

LEMMA FilesKept ==
  ASSUME FilesOK, NEW f \in File, NEW t, NEW c, NEW u, FileStep(f, t, c, u)
  PROVE  /\ FilesOK' /\ GrowAll /\ PrecedesStays
         /\ Full(f)' = u /\ \A g \in File : g # f => Full(g)' = Full(g)
<1> USE DEF FileStep
<1>0. text \in [File -> Seq(Line)] /\ copy \in [File -> Seq(Line)] /\ events \in 0..MaxEvents /\ MaxEvents \in Nat
  BY LedgerAssumption DEF FilesOK, LedgerAssumption
<1>1. /\ text' \in [File -> Seq(Line)] /\ copy' \in [File -> Seq(Line)]
      /\ \A g \in File : g # f => text'[g] = text[g] /\ copy'[g] = copy[g]
      /\ text'[f] = t /\ copy'[f] = c
  BY <1>0
<1>2. Full(f)' = u /\ \A g \in File : g # f => Full(g)' = Full(g)
  BY <1>1 DEF Full
<1>3. /\ born' \in Seq(File) /\ \A i, j \in 1..Len(born') : born'[i] = born'[j] => i = j
      /\ Born \subseteq Born' /\ Born' \subseteq Born \cup {f}
      /\ PrecedesStays
  BY BornKept DEF PrecedesStays
<1>4. GrowAll
  <2> SUFFICES ASSUME NEW g \in File PROVE Grows(text[g], text'[g])
    BY DEF GrowAll
  <2>1. CASE g = f
    BY <1>1, <2>1
  <2>2. CASE g # f
    <3>1. text'[g] = text[g] /\ text[g] \in Seq(Line) /\ Len(text[g]) \in Nat
      BY <1>1, <2>2, FullIs
    <3> QED BY <3>1 DEF Grows
  <2> QED BY <2>1, <2>2
<1>5. events' \in 0..MaxEvents /\ events <= events'
  BY <1>0
<1>6. ASSUME NEW g \in File
      PROVE  /\ g \notin Born' => Full(g)' = <<>>
             /\ g \in Born' => text'[g] # <<>>
             /\ Sound(Full(g)') /\ \A n \in 1..Len(Full(g)') : Full(g)'[n].at <= events'
  <2>1. CASE g = f
    BY <1>1, <1>2, <2>1
  <2>2. CASE g # f
    <3>1. Full(g)' = Full(g) /\ text'[g] = text[g] /\ (g \in Born' <=> g \in Born)
      BY <1>1, <1>2, <1>3, <2>2
    <3>2. ASSUME NEW n \in 1..Len(Full(g)) PROVE Full(g)[n].at <= events'
      <4>1. Full(g)[n].at <= events /\ Full(g)[n] \in Line
        BY FullIs DEF FilesOK
      <4>2. Full(g)[n].at \in Nat
        BY <4>1, LineAt
      <4> QED BY <1>0, <1>5, <4>1, <4>2
    <3> QED BY <3>1, <3>2 DEF FilesOK
  <2> QED BY <2>1, <2>2
<1>7. Shared'
  <2>1. ASSUME NEW a \in File, NEW b \in File, NEW n \in 1..Len(Full(b)'),
               Full(b)'[n].from = a, a # b, Fresh(Full(b)', n)
        PROVE  /\ Precedes(a, b)' /\ n <= Len(text'[a])
               /\ \A m \in 1..n : Full(b)'[m] = text'[a][m]
    <3>1. CASE b = f
      <4>1. Full(b)' = u /\ (Precedes(a, b)' <=> Precedes(a, f)')
        BY <1>2, <3>1
      <4>2. n \in 1..Len(u) /\ u[n].from = a /\ a # f /\ Fresh(u, n)
        BY <2>1, <3>1, <4>1
      <4>3. Precedes(a, f)' /\ n <= Len(text'[a]) /\ \A m \in 1..n : u[m] = text'[a][m]
        BY <4>2
      <4> QED BY <4>1, <4>3, <3>1
    <3>2. CASE b # f
      <4>1. Full(b)' = Full(b) /\ n \in 1..Len(Full(b))
        BY <1>2, <3>2
      <4> DEFINE v == Full(b)
      <4>2. v[n].from = a /\ Fresh(v, n) /\ \A m \in 1..n : v[m] = Full(b)[m]
        BY <2>1, <4>1
      <4> HIDE DEF v
      <4>3. /\ Precedes(a, b)' /\ n <= Len(text'[a])
            /\ \A m \in 1..n : v[m] = text'[a][m]
        BY <1>3, <1>4, <2>1, <4>1, <4>2, SharedKept
      <4> QED BY <4>1, <4>3 DEF v
    <3> QED BY <3>1, <3>2
  <2> QED BY <2>1 DEF Shared
<1>8. FilesOK'
  BY <1>1, <1>3, <1>5, <1>6, <1>7 DEF FilesOK
<1> QED BY <1>2, <1>3, <1>4, <1>8

\* The lines are as they were.
LEMMA FilesSame ==
  ASSUME FilesOK, UNCHANGED <<born, text, copy>>, gone' \subseteq Born, torn' \in [File -> BOOLEAN],
         events' \in events..MaxEvents
  PROVE  FilesOK' /\ GrowAll /\ PrecedesStays
<1>0. events \in 0..MaxEvents /\ MaxEvents \in Nat
  BY LedgerAssumption DEF FilesOK, LedgerAssumption
<1>1. born' = born /\ text' = text /\ copy' = copy /\ Born' = Born /\ \A f \in File : Full(f)' = Full(f)
  BY DEF Born, Full
<1>2. GrowAll /\ PrecedesStays
  <2>1. \A f \in File : Len(text[f]) \in Nat
    BY TextSound
  <2> QED BY <1>1, <2>1 DEF GrowAll, Grows, PrecedesStays, Precedes
<1>3. Shared'
  <2>1. Shared
    BY DEF FilesOK
  <2> QED BY <1>1, <2>1 DEF Shared, Precedes
<1>4. events' \in 0..MaxEvents /\ events <= events'
  BY <1>0
<1>5. ASSUME NEW f \in File PROVE \A n \in 1..Len(Full(f)) : Full(f)[n].at <= events'
  <2> TAKE n \in 1..Len(Full(f))
  <2>1. Full(f)[n].at <= events /\ Full(f)[n] \in Line
    BY FullIs DEF FilesOK
  <2>2. Full(f)[n].at \in Nat
    BY <2>1, LineAt
  <2> QED BY <1>0, <1>4, <2>1, <2>2
<1> QED BY <1>1, <1>2, <1>3, <1>4, <1>5 DEF FilesOK

\* What a file has of another session is what it had.
CoversKept ==
    \A g \in Born : \A f \in File \ {g} : \A k \in Nat : Covers(k, f, g) => Covers(k, f, g)'

LEMMA CoversStay ==
  ASSUME FilesOK, NEW f \in File, \A g \in File : g # f => Full(g)' = Full(g),
         \/ f \notin Born
         \/ Full(f)' = Full(f)
         \/ \E l \in Line : /\ Full(f)' = Append(Full(f), l)
                            /\ l.from = f \/ ~Fresh(Append(Full(f), l), Len(Full(f)) + 1)
  PROVE  CoversKept
<1> SUFFICES ASSUME NEW g \in Born, NEW h \in File \ {g}, NEW k \in Nat, Covers(k, h, g)
             PROVE  Covers(k, h, g)'
  BY DEF CoversKept
<1>0. g \in File
  BY DEF FilesOK, Born
<1>1. CASE Full(g)' = Full(g)
  BY <1>1 DEF Covers
<1>2. CASE Full(g)' # Full(g)
  <2>1. g = f
    BY <1>0, <1>2
  <2>2. PICK l \in Line : /\ Full(f)' = Append(Full(f), l)
                          /\ l.from = f \/ ~Fresh(Append(Full(f), l), Len(Full(f)) + 1)
    BY <1>2, <2>1
  <2> DEFINE s == Full(f)
             t == Append(s, l)
  <2>3. s \in Seq(Line)
    BY FullIs
  <2>4. Full(g)' = t /\ Covers(k, h, f)
    BY <2>1, <2>2
  <2>5. /\ Len(s) \in Nat /\ Len(t) = Len(s) + 1 /\ \A n \in 1..Len(s) : t[n] = s[n]
        /\ t[Len(s) + 1] = l
    <3> HIDE DEF s
    <3> QED BY <2>3, Appended
  <2>6. l.from = f \/ ~Fresh(t, Len(s) + 1)
    BY <2>2
  <2>7. \A n \in 1..Len(s) : Fresh(s, n) /\ s[n].from = h => n <= k
    BY <2>4 DEF Covers
  <2> HIDE DEF s, t
  <2>8. \A n \in 1..Len(s) : Fresh(t, n) <=> Fresh(s, n)
    BY <2>5, Alike
  <2>9. ASSUME NEW n \in 1..Len(t), Fresh(t, n), t[n].from = h PROVE n <= k
    <3>1. n # Len(s) + 1
      BY <2>1, <2>5, <2>6, <2>9
    <3>2. n \in 1..Len(s)
      BY <2>5, <3>1
    <3> QED BY <2>5, <2>7, <2>8, <2>9, <3>2
  <2> QED BY <2>4, <2>9 DEF Covers
<1> QED BY <1>1, <1>2

LEMMA EventIs ==
  ASSUME TodoOK, NEW f \in File, Event(f) \/ Loses(f), Born \subseteq Born', f \in Born'
  PROVE  /\ pending \subseteq pending' /\ pending' \subseteq Born'
         /\ missed \subseteq missed' /\ missed' \subseteq File
         /\ f \in pending' \cup missed'
<1>1. pending \subseteq Born /\ missed \subseteq File
  BY DEF TodoOK
<1> QED BY <1>1 DEF Event, Loses

LEMMA CostsIs ==
  ASSUME FilesOK, NEW n \in Nat, Costs(n)
  PROVE  events' = events + n /\ events' \in events..MaxEvents
BY LedgerAssumption DEF FilesOK, Costs, LedgerAssumption

\* What the sessions may do to the ingesters.
SessionStep ==
    /\ FilesOK' /\ GrowAll /\ CoversKept
    /\ UNCHANGED <<ledgerVars, todo, stat, job>>
    /\ Born \subseteq Born' /\ gone \subseteq gone'
    /\ pending \subseteq pending' /\ pending' \subseteq Born'
    /\ missed \subseteq missed' /\ missed' \subseteq File
    /\ \A f \in File : text'[f] # text[f] => f \in pending' \cup missed'

LEMMA SplitHead ==
  ASSUME NEW s \in Seq(Line), NEW c \in Seq(Line), c # <<>>
  PROVE  /\ Head(c) \in Line /\ Tail(c) \in Seq(Line)
         /\ Append(s, Head(c)) \o Tail(c) = s \o c
         /\ <<Head(c)>> \in Seq(Line) /\ <<Head(c)>> # <<>>
         /\ <<Head(c)>> \o Tail(c) = c
<1>1. Head(c) \in Line /\ Tail(c) \in Seq(Line)
  OBVIOUS
<1>2. Append(s, Head(c)) \o Tail(c) = s \o c
  OBVIOUS
<1>3. <<Head(c)>> \o Tail(c) = c
  OBVIOUS
<1>4. <<Head(c)>> \in Seq(Line) /\ <<Head(c)>> # <<>>
  OBVIOUS
<1> QED BY <1>1, <1>2, <1>3, <1>4

LEMMA CopiesStep ==
  ASSUME FilesOK, TodoOK, NEW f \in File, CopiesLine(f)
  PROVE  SessionStep
<1> DEFINE s == text[f]
           c == copy[f]
           t == Append(s, Head(c))
           d == Tail(c)
<1>0. /\ f \in Born /\ gone \subseteq Born /\ torn \in [File -> BOOLEAN]
      /\ born' = born /\ gone' = gone /\ torn' = torn
      /\ UNCHANGED <<ledgerVars, todo, stat, job>>
  BY DEF CopiesLine, Live, FilesOK
<1>1. s \in Seq(Line) /\ c \in Seq(Line) /\ c # <<>>
  BY FullIs DEF CopiesLine
<1>2. /\ text' = [text EXCEPT ![f] = t] /\ copy' = [copy EXCEPT ![f] = d]
      /\ text \in [File -> Seq(Line)] /\ copy \in [File -> Seq(Line)]
  BY DEF CopiesLine, FilesOK
<1>3. Full(f) = s \o c
  BY DEF Full
<1> HIDE DEF s, c
<1>4. t \in Seq(Line) /\ d \in Seq(Line) /\ t # <<>> /\ t \o d = s \o c /\ Grows(s, t)
  <2>1. Head(c) \in Line
    BY <1>1
  <2> QED BY <1>1, <2>1, SplitHead, Appended DEF Grows
<1> HIDE DEF t, d
<1>5. Event(f) \/ Loses(f)
  BY DEF CopiesLine
<1>6. events' \in events..MaxEvents
  BY CostsIs DEF CopiesLine
<1>7. BornWith(f) /\ Born' = Born
  BY <1>0 DEF BornWith, Born
<1> DEFINE u == Full(f)
<1>8. Sound(u) /\ Len(u) \in Nat /\ \A n \in 1..Len(u) : u[n].at <= events'
  <2>1. Sound(u) /\ u \in Seq(Line) /\ \A n \in 1..Len(u) : u[n].at <= events
    BY FullIs DEF FilesOK
  <2> HIDE DEF u
  <2>2. events \in Nat /\ events' \in Nat /\ events <= events'
    BY <1>6 DEF FilesOK
  <2>3. \A n \in 1..Len(u) : u[n].at \in Nat
    BY <2>1, LineAt
  <2> QED BY <2>1, <2>2, <2>3
<1>9. ASSUME NEW g \in File, NEW n \in 1..Len(u), u[n].from = g, g # f, Fresh(u, n)
      PROVE  Precedes(g, f)' /\ n <= Len(text'[g]) /\ \A m \in 1..n : u[m] = text'[g][m]
  <2>1. Precedes(g, f) /\ n <= Len(text[g]) /\ \A m \in 1..n : u[m] = text[g][m]
    BY <1>9 DEF FilesOK, Shared
  <2>2. text'[g] = text[g]
    BY <1>2, <1>9
  <2> QED BY <1>0, <2>1, <2>2 DEF Precedes
<1>10. /\ FilesOK' /\ GrowAll /\ Full(f)' = u /\ \A g \in File : g # f => Full(g)' = Full(g)
  <2>1. u = t \o d
    BY <1>3, <1>4
  <2>2. Grows(text[f], t)
    BY <1>4 DEF s
  <2>3. gone' \subseteq Born' /\ torn' \in [File -> BOOLEAN] /\ f \in Born'
    BY <1>0, <1>7
  <2> HIDE DEF u
  <2>4. FileStep(f, t, d, u)
    BY <1>2, <1>4, <1>6, <1>7, <1>8, <1>9, <2>1, <2>2, <2>3 DEF FileStep
  <2> QED BY <2>4, FilesKept
<1>11. CoversKept
  BY <1>10, CoversStay
<1>12. /\ pending \subseteq pending' /\ pending' \subseteq Born'
       /\ missed \subseteq missed' /\ missed' \subseteq File /\ f \in pending' \cup missed'
  BY <1>0, <1>5, <1>7, EventIs
<1>13. \A g \in File : text'[g] # text[g] => g \in pending' \cup missed'
  BY <1>2, <1>12
<1> QED BY <1>0, <1>7, <1>10, <1>11, <1>12, <1>13 DEF SessionStep

LEMMA ForksStep ==
  ASSUME FilesOK, TodoOK, NEW f \in File, NEW g \in File, Forks(f, g)
  PROVE  SessionStep
<1> DEFINE c == text[g]
           t == <<Head(c)>>
           d == Tail(c)
<1>0. /\ f \notin Born /\ g \in Born /\ gone \subseteq Born /\ torn \in [File -> BOOLEAN]
      /\ born' = Append(born, f) /\ gone' = gone /\ torn' = torn
      /\ UNCHANGED <<ledgerVars, todo, stat, job>>
  BY DEF Forks, Live, FilesOK
<1>1. c \in Seq(Line) /\ c # <<>>
  BY <1>0, FullIs DEF FilesOK
<1>2. /\ text' = [text EXCEPT ![f] = t] /\ copy' = [copy EXCEPT ![f] = d]
      /\ text \in [File -> Seq(Line)] /\ copy \in [File -> Seq(Line)]
  BY DEF Forks, FilesOK
<1>3. text[f] = <<>>
  <2>1. Full(f) = <<>>
    BY <1>0 DEF FilesOK
  <2>2. \A a, b \in Seq(Line) : a \o b = <<>> => a = <<>>
    OBVIOUS
  <2> QED BY <2>1, <2>2, FullIs DEF Full
<1>4. t \in Seq(Line) /\ d \in Seq(Line) /\ t # <<>> /\ t \o d = c /\ Grows(text[f], t)
  <2> HIDE DEF c
  <2>1. t \in Seq(Line) /\ d \in Seq(Line) /\ t # <<>> /\ t \o d = c
    BY <1>1, SplitHead
  <2>2. Len(t) \in Nat /\ Len(text[f]) = 0
    BY <1>3
  <2> QED BY <2>1, <2>2 DEF Grows
<1>5. Event(f) \/ Loses(f)
  BY DEF Forks
<1>6. events' \in events..MaxEvents
  BY CostsIs DEF Forks
<1>7. BornWith(f) /\ Born \subseteq Born' /\ f \in Born' /\ Precedes(g, f)'
  <2>1. BornWith(f)
    BY <1>0 DEF BornWith
  <2> QED BY <1>0, <2>1, BornKept, BornLast
<1>8. Sound(c) /\ Len(c) \in Nat /\ Len(c) <= Len(Full(g)) /\ \A n \in 1..Len(c) : c[n] = Full(g)[n]
  BY TextSound
<1>9. \A n \in 1..Len(c) : c[n].at <= events' /\ n \in 1..Len(Full(g))
  <2> TAKE n \in 1..Len(c)
  <2>1. n \in 1..Len(Full(g))
    BY <1>8, FullIs
  <2>2. c[n].at <= events /\ c[n].at \in Nat
    <3>1. Full(g)[n].at <= events
      BY <2>1 DEF FilesOK
    <3>2. c[n] = Full(g)[n] /\ c[n] \in Line
      BY <1>1, <1>8
    <3> QED BY <3>1, <3>2, LineAt
  <2>3. events \in Nat /\ events' \in Nat /\ events <= events'
    BY <1>6 DEF FilesOK
  <2> QED BY <2>1, <2>2, <2>3
<1>10. g # f /\ text'[g] = c
  BY <1>0, <1>2
<1>11. ASSUME NEW h \in File, NEW n \in 1..Len(c), c[n].from = h, h # f, Fresh(c, n)
       PROVE  Precedes(h, f)' /\ n <= Len(text'[h]) /\ \A m \in 1..n : c[m] = text'[h][m]
  <2>1. CASE h = g
    <3>1. n <= Len(c)
      BY <1>8
    <3> QED BY <1>7, <1>10, <2>1, <3>1
  <2>2. CASE h # g
    <3>1. n \in 1..Len(Full(g)) /\ \A m \in 1..n : m \in 1..Len(c) /\ c[m] = Full(g)[m]
      BY <1>8, <1>9
    <3>2. Fresh(Full(g), n)
      <4>1. \A m \in 1..Len(c) : Fresh(c, m) <=> Fresh(Full(g), m)
        BY <1>8, Alike
      <4> QED BY <1>11, <4>1
    <3>3. n \in 1..n
      BY <1>8
    <3>4. /\ Precedes(h, g) /\ n <= Len(text[h]) /\ \A m \in 1..n : Full(g)[m] = text[h][m]
      BY <1>11, <2>2, <3>1, <3>2, <3>3 DEF FilesOK, Shared
    <3>5. h \in Born
      BY <3>4, PrecedesBorn DEF PrecedesInBorn
    <3>6. Precedes(h, f)'
      BY <1>0, <3>5, BornLast
    <3>7. text'[h] = text[h]
      BY <1>2, <1>11
    <3> QED BY <3>1, <3>4, <3>6, <3>7
  <2> QED BY <2>1, <2>2
<1> HIDE DEF c, t, d
<1>12. /\ FilesOK' /\ GrowAll /\ \A h \in File : h # f => Full(h)' = Full(h)
  <2>1. gone' \subseteq Born' /\ torn' \in [File -> BOOLEAN]
    BY <1>0, <1>7
  <2>2. c = t \o d
    BY <1>4
  <2>3. FileStep(f, t, d, c)
    BY <1>2, <1>4, <1>6, <1>7, <1>8, <1>9, <1>11, <2>1, <2>2 DEF FileStep
  <2> QED BY <2>3, FilesKept
<1>13. CoversKept
  BY <1>0, <1>12, CoversStay
<1>14. /\ pending \subseteq pending' /\ pending' \subseteq Born'
       /\ missed \subseteq missed' /\ missed' \subseteq File /\ f \in pending' \cup missed'
  BY <1>5, <1>7, EventIs
<1>15. \A h \in File : text'[h] # text[h] => h \in pending' \cup missed'
  BY <1>2, <1>14
<1> QED BY <1>0, <1>7, <1>12, <1>13, <1>14, <1>15 DEF SessionStep

\* A line is added to a file that is not behind with copying.
Adds(f, l) ==
    /\ copy[f] = <<>> /\ copy' = copy /\ gone' = gone /\ torn' \in [File -> BOOLEAN]
    /\ BornWith(f) /\ f \in Born' /\ events' \in events..MaxEvents
    /\ l \in Line /\ l.at <= events'
    /\ text' = [text EXCEPT ![f] = Append(text[f], l)] /\ Sound(Append(text[f], l))
    /\ l.from = f \/ ~Fresh(Append(text[f], l), Len(text[f]) + 1)
    /\ Event(f) \/ Loses(f)
    /\ UNCHANGED <<ledgerVars, todo, stat, job>>

LEMMA AddsStep ==
  ASSUME FilesOK, TodoOK, NEW f \in File, NEW l, Adds(f, l)
  PROVE  SessionStep
<1> DEFINE s == text[f]
           t == Append(s, l)
           N == Len(s) + 1
<1> HIDE DEF t
<1>0. /\ l \in Line /\ l.at <= events' /\ copy[f] = <<>> /\ Full(f) = s /\ s \in Seq(Line)
      /\ l.from = f \/ ~Fresh(t, N)
  BY FullIs DEF Adds, t
<1>1. /\ text' = [text EXCEPT ![f] = t] /\ copy' = [copy EXCEPT ![f] = <<>>]
      /\ text \in [File -> Seq(Line)] /\ copy \in [File -> Seq(Line)]
  BY DEF Adds, FilesOK, t
<1>2. /\ t \in Seq(Line) /\ Len(s) \in Nat /\ Len(t) = N /\ t # <<>> /\ t[N] = l
      /\ \A n \in 1..Len(s) : t[n] = s[n]
  <2> HIDE DEF s
  <2> QED BY <1>0, Appended DEF t, N
<1>3. t = t \o <<>> /\ <<>> \in Seq(Line)
  <2>1. \A a \in Seq(Line) : a \o <<>> = a
    OBVIOUS
  <2> QED BY <1>2, <2>1
<1>4. Grows(s, t)
  BY <1>2 DEF Grows
<1>5. \A n \in 1..Len(t) : n = N \/ n \in 1..Len(s)
  BY <1>2
<1>6. \A n \in 1..Len(t) : t[n].at <= events'
  <2>1. \A n \in 1..Len(s) : s[n].at <= events /\ s[n].at \in Nat
    <3>1. \A n \in 1..Len(s) : s[n] \in Line
      BY <1>0
    <3> QED BY <1>0, <3>1, LineAt DEF FilesOK
  <2>2. events \in Nat /\ events' \in Nat /\ events <= events'
    BY DEF FilesOK, Adds
  <2> QED BY <1>0, <1>2, <1>5, <2>1, <2>2
<1>7. BornWith(f) /\ Born \subseteq Born' /\ \A a, b \in File : Precedes(a, b) => Precedes(a, b)'
  BY BornKept DEF Adds
<1>8. ASSUME NEW g \in File, NEW n \in 1..Len(t), t[n].from = g, g # f, Fresh(t, n)
      PROVE  Precedes(g, f)' /\ n <= Len(text'[g]) /\ \A m \in 1..n : t[m] = text'[g][m]
  <2>1. n # N
    BY <1>0, <1>2, <1>8
  <2>2. n \in 1..Len(s) /\ n \in 1..n
    BY <1>2, <1>5, <2>1
  <2>3. \A m \in 1..n : m \in 1..Len(s) /\ t[m] = s[m]
    BY <1>2, <2>2
  <2>4. Fresh(s, n)
    <3>1. \A k \in 1..Len(s) : Fresh(t, k) <=> Fresh(s, k)
      BY <1>2, Alike
    <3> QED BY <1>8, <2>2, <3>1
  <2>5. Precedes(g, f) /\ n <= Len(text[g]) /\ \A m \in 1..n : s[m] = text[g][m]
    <3>1. Full(f)[n].from = g /\ n \in 1..Len(Full(f)) /\ Fresh(Full(f), n)
      BY <1>0, <1>8, <2>2, <2>3, <2>4
    <3>2. /\ Precedes(g, f) /\ n <= Len(text[g]) /\ \A m \in 1..n : Full(f)[m] = text[g][m]
      BY <1>8, <3>1 DEF FilesOK, Shared
    <3> QED BY <1>0, <3>2
  <2>6. text'[g] = text[g]
    BY <1>1, <1>8
  <2> QED BY <1>7, <2>3, <2>5, <2>6
<1>9. FileStep(f, t, <<>>, t)
  <2>1. gone' \subseteq Born' /\ torn' \in [File -> BOOLEAN] /\ f \in Born' /\ events' \in events..MaxEvents
    BY <1>7 DEF Adds, FilesOK
  <2>2. Sound(t)
    BY DEF Adds, t
  <2> QED BY <1>1, <1>2, <1>3, <1>4, <1>6, <1>7, <1>8, <2>1, <2>2 DEF FileStep
<1>10. FilesOK' /\ GrowAll /\ Full(f)' = t /\ \A g \in File : g # f => Full(g)' = Full(g)
  BY <1>9, FilesKept
<1>11. CoversKept
  <2>1. Full(f)' = Append(Full(f), l) /\ (l.from = f \/ ~Fresh(Append(Full(f), l), Len(Full(f)) + 1))
    BY <1>0, <1>10 DEF t
  <2> QED BY <1>0, <1>10, <2>1, CoversStay
<1>12. /\ pending \subseteq pending' /\ pending' \subseteq Born'
       /\ missed \subseteq missed' /\ missed' \subseteq File /\ f \in pending' \cup missed'
  BY <1>7, EventIs DEF Adds
<1>13. \A g \in File : text'[g] # text[g] => g \in pending' \cup missed'
  BY <1>1, <1>12
<1>14. gone \subseteq gone' /\ UNCHANGED <<ledgerVars, todo, stat, job>>
  BY DEF Adds
<1> QED BY <1>7, <1>10, <1>11, <1>12, <1>13, <1>14 DEF SessionStep

LEMMA WritesStep ==
  ASSUME FilesOK, TodoOK, NEW f \in File, NEW kind \in Kind, Writes(f, kind)
  PROVE  SessionStep
<1> DEFINE w == Newest(f)
           l == LineAfter(w, f, kind)
<1> HIDE DEF w
<1>0. /\ w.at \in 0..events /\ \A m \in 1..Len(text[f]) : text[f][m].at <= w.at
      /\ events \in 0..MaxEvents /\ MaxEvents \in Nat
      /\ events' = events + 1 \/ events' = events + 2
      /\ events' \in events..MaxEvents
  <2>1. Costs(1) \/ Costs(2)
    BY DEF Writes
  <2> QED BY <2>1, CostsIs, NewestIs, LedgerAssumption DEF FilesOK, LedgerAssumption, w
<1>1. text[f] \in Seq(Line) /\ Sound(text[f]) /\ torn \in [File -> BOOLEAN] /\ Len(text[f]) \in Nat
  BY FullIs, TextSound DEF FilesOK
<1>2. w = NoLine \/ (w \in Line /\ (w.kind \in Billed => w.resp \in 1..w.at))
  <2>1. CASE text[f] = <<>>
    BY <2>1, NewestIs DEF w
  <2>2. CASE text[f] # <<>>
    <3>1. w \in Line
      BY <2>2, NewestIs DEF w
    <3>2. PICK n \in 1..Len(text[f]) : text[f][n] = w
      BY <2>2, NewestIs DEF w
    <3> QED BY <1>1, <3>1, <3>2 DEF Sound
  <2> QED BY <2>1, <2>2
<1>3. /\ l.from = f /\ l.at = w.at + 1 /\ l.kind = kind /\ w.at \in Nat /\ l.at \in 1..MaxEvents
      /\ l.at <= events'
  <2>1. l.from = f /\ l.at = w.at + 1 /\ l.kind = kind
    BY DEF LineAfter
  <2>2. w.at \in Nat /\ w.at + 1 <= events' /\ events' <= MaxEvents
    BY <1>0
  <2>3. MaxEvents \in Nat /\ events' \in Nat
    BY <1>0
  <2> HIDE DEF l
  <2>4. l.at \in 1..MaxEvents /\ l.at <= events'
    BY <2>1, <2>2, <2>3
  <2> QED BY <2>1, <2>2, <2>4
<1>4. /\ l.resp \in 0..MaxEvents /\ (l.kind \in Billed => l.resp \in 1..l.at)
  <2>1. CASE kind \notin Billed
    BY <1>0, <1>3, <2>1 DEF LineAfter
  <2>2. CASE kind \in Billed /\ w.kind = "reply" /\ w.from = f
    <3>1. w # NoLine
      BY <2>2 DEF NoLine
    <3>2. l.resp = w.resp /\ w.resp \in 1..w.at
      BY <1>2, <2>2, <3>1 DEF LineAfter, Billed
    <3> QED BY <1>0, <1>3, <3>2
  <2>3. CASE kind \in Billed /\ ~(w.kind = "reply" /\ w.from = f)
    <3>1. l.resp = w.at + 1
      BY <2>3 DEF LineAfter
    <3> QED BY <1>0, <1>3, <3>1
  <2> QED BY <2>1, <2>2, <2>3
<1>5. l \in Line
  <2>1. l = [from |-> l.from, at |-> l.at, kind |-> l.kind, resp |-> l.resp]
    BY DEF LineAfter
  <2> HIDE DEF l
  <2> QED BY <1>3, <1>4, <2>1 DEF Line
<1>6. Sound(Append(text[f], l))
  <2>1. \A m \in 1..Len(text[f]) : text[f][m].at < l.at
    <3> TAKE m \in 1..Len(text[f])
    <3>1. text[f][m] \in Line
      BY <1>1
    <3> QED BY <1>0, <1>3, <3>1, LineAt
  <2> HIDE DEF l
  <2> QED BY <1>1, <1>4, <1>5, <2>1, SoundWrites
<1>7. /\ copy[f] = <<>> /\ copy' = copy /\ gone' = gone /\ torn' = [torn EXCEPT ![f] = FALSE]
      /\ text' = [text EXCEPT ![f] = Append(text[f], l)]
      /\ born' = IF f \in Born THEN born ELSE Append(born, f)
      /\ Event(f) \/ Loses(f)
      /\ UNCHANGED <<ledgerVars, todo, stat, job>>
  BY FullIs DEF Writes, Writing, FilesOK, w
<1>8. torn' \in [File -> BOOLEAN]
  BY <1>1, <1>7
<1>9. BornWith(f) /\ f \in Born'
  <2>1. CASE f \in Born
    BY <1>7, <2>1 DEF BornWith, Born
  <2>2. CASE f \notin Born
    <3>1. born \in Seq(File) /\ born' = Append(born, f)
      BY <1>7, <2>2 DEF FilesOK
    <3>2. Len(born) + 1 \in DOMAIN born' /\ born'[Len(born) + 1] = f
      BY <3>1
    <3> QED BY <2>2, <3>1, <3>2 DEF BornWith, Born
  <2> QED BY <2>1, <2>2
<1> HIDE DEF l
<1>10. Adds(f, l)
  BY <1>0, <1>3, <1>5, <1>6, <1>7, <1>8, <1>9 DEF Adds
<1> QED BY <1>10, AddsStep

LEMMA ReplaysStep ==
  ASSUME FilesOK, TodoOK, NEW f \in File, NEW n \in DOMAIN text[f], Replays(f, n)
  PROVE  SessionStep
<1> DEFINE s == text[f]
           l == s[n]
           t == Append(s, l)
<1>0. /\ s \in Seq(Line) /\ Sound(s) /\ n \in 1..Len(s) /\ Len(s) \in Nat
  BY FullIs, TextSound
<1>1. l \in Line /\ l.at \in Nat /\ (l.kind \in Billed => l.resp \in 1..l.at)
  BY <1>0, LineAt DEF Sound
<1>2. \E m \in 1..Len(s) : l.at + Slack < s[m].at
  <2>1. l.at + Slack < Newest(f).at /\ s # <<>>
    BY <1>0 DEF Replays
  <2>2. PICK m \in 1..Len(s) : s[m] = Newest(f)
    BY <2>1, NewestIs
  <2> QED BY <2>1, <2>2
<1>3. Sound(t)
  <2>1. \E m \in 1..Len(s) : s[m] = l
    BY <1>0
  <2> HIDE DEF l, s
  <2> QED BY <1>0, <1>1, <1>2, <2>1, SoundWrites
<1>4. ~Fresh(t, Len(s) + 1)
  <2>1. /\ \A m \in 1..Len(s) : t[m] = s[m]
        /\ t[Len(s) + 1] = l
    <3> HIDE DEF l, s
    <3> QED BY <1>0, <1>1, Appended
  <2>2. PICK m \in 1..Len(s) : l.at + Slack < s[m].at
    BY <1>2
  <2>3. s[m].at \in Nat /\ m \in 1..(Len(s) + 1 - 1)
    BY <1>0, <2>2, LineAt
  <2>4. ~(t[m].at < t[Len(s) + 1].at)
    BY <1>1, <2>1, <2>2, <2>3, LedgerAssumption DEF LedgerAssumption
  <2> QED BY <2>3, <2>4 DEF Fresh
<1>5. events' = events + 1 /\ events' \in events..MaxEvents /\ events \in Nat
  BY CostsIs DEF Replays, FilesOK
<1>6. l.at <= events'
  <2>1. n \in 1..Len(Full(f)) /\ Full(f)[n] = l
    BY <1>0, TextSound, FullIs
  <2>2. l.at <= events
    BY <2>1 DEF FilesOK
  <2> QED BY <1>1, <1>5, <2>2
<1>7. /\ copy[f] = <<>> /\ copy' = copy /\ gone' = gone /\ torn' = torn /\ born' = born
      /\ text' = [text EXCEPT ![f] = t] /\ Event(f) /\ f \in Born
      /\ torn \in [File -> BOOLEAN]
      /\ UNCHANGED <<ledgerVars, todo, stat, job>>
  BY DEF Replays, Live, FilesOK
<1>8. BornWith(f) /\ f \in Born'
  BY <1>7 DEF BornWith, Born
<1> HIDE DEF l
<1>9. Adds(f, l)
  BY <1>1, <1>3, <1>4, <1>5, <1>6, <1>7, <1>8 DEF Adds
<1> QED BY <1>9, AddsStep

LEMMA OtherSteps ==
  ASSUME FilesOK, TodoOK, NEW f \in File, WritesPart(f) \/ Deletes(f)
  PROVE  SessionStep
<1>0. /\ UNCHANGED <<born, text, copy>> /\ UNCHANGED <<ledgerVars, todo, stat, job>>
      /\ f \in Born /\ gone \subseteq gone' /\ gone' \subseteq Born
      /\ torn' \in [File -> BOOLEAN]
  BY DEF WritesPart, Deletes, FilesOK, Live, ingestVars
<1>1. events' \in events..MaxEvents
  BY CostsIs DEF WritesPart, Deletes
<1>2. FilesOK' /\ GrowAll
  BY <1>0, <1>1, FilesSame
<1>3. Born' = Born
  BY <1>0 DEF Born
<1>4. CoversKept
  BY <1>0 DEF CoversKept, Covers, Full
<1>5. /\ pending \subseteq pending' /\ pending' \subseteq Born'
      /\ missed \subseteq missed' /\ missed' \subseteq File
  <2>1. CASE WritesPart(f)
    BY <1>0, <1>3, <2>1, EventIs DEF WritesPart
  <2>2. CASE Deletes(f)
    BY <1>3, <2>2 DEF Deletes, TodoOK, ingestVars
  <2> QED BY <2>1, <2>2
<1> QED BY <1>0, <1>2, <1>3, <1>4, <1>5 DEF SessionStep

----
(***************************************************************************)
(* The invariant, through what the sessions do.                            *)
(***************************************************************************)
LEMMA Halves == \A n \in Nat : n \div 2 \in Nat
OBVIOUS

LEMMA SessionKeepsTodo ==
  ASSUME TodoOK, FilesOK, SessionStep
  PROVE  TodoOK'
<1>0. todo' = todo /\ stat' = stat /\ job' = job /\ Born \subseteq Born' /\ GrowAll
  BY DEF SessionStep
<1>1. ASSUME NEW i \in Ingester, stat[i] # 0
      PROVE  todo[i] # <<>> /\ stat[i] \div 2 <= Len(text'[Head(todo[i])])
  <2>1. /\ todo[i] \in Seq(File) /\ todo[i] # <<>> /\ stat[i] \in Nat
        /\ stat[i] \div 2 <= Len(text[Head(todo[i])])
    BY <1>1 DEF TodoOK
  <2> DEFINE f == Head(todo[i])
  <2>2. f \in File
    BY <2>1
  <2> HIDE DEF f
  <2>3. Len(text[f]) \in Nat /\ Len(text'[f]) \in Nat /\ Len(text[f]) <= Len(text'[f])
    BY <1>0, <2>2 DEF GrowAll, Grows
  <2>4. stat[i] \div 2 \in Nat /\ stat[i] \div 2 <= Len(text[f])
    BY <2>1, Halves DEF f
  <2>5. stat[i] \div 2 <= Len(text'[f])
    <3> DEFINE k == stat[i] \div 2
    <3> HIDE DEF k
    <3>1. k \in Nat /\ k <= Len(text[f])
      BY <2>4 DEF k
    <3>2. k <= Len(text'[f])
      BY <2>3, <3>1
    <3> QED BY <3>2 DEF k
  <2> QED BY <2>1, <2>5 DEF f
<1>2. \A i \in Ingester : \A j \in 1..Len(todo[i]) : todo[i][j] \in Born'
  BY <1>0 DEF TodoOK
<1>3. pending' \subseteq Born' /\ missed' \subseteq File
  BY DEF SessionStep
<1>4. todo \in [Ingester -> Seq(File)] /\ stat \in [Ingester -> Nat] /\ job \in Jobs /\ (job = "none" <=> todo[Serve] = <<>>)
  BY DEF TodoOK
<1> QED BY <1>0, <1>1, <1>2, <1>3, <1>4 DEF TodoOK

LEMMA SessionKeepsOrder ==
  ASSUME IInv, SessionStep
  PROVE  OrderOK'
<1>0. /\ todo' = todo /\ stat' = stat /\ cursor' = cursor /\ row' = row /\ turn' = turn
      /\ gone \subseteq gone' /\ missed \subseteq missed' /\ pending \subseteq pending' /\ CoversKept
      /\ Watched' \subseteq Watched
  BY DEF SessionStep, ledgerVars, Watched
<1>1. ReadFirst'
  <2> SUFFICES ASSUME NEW i \in Ingester, NEW j \in 1..Len(todo[i]), NEW f \in Watched' \ {todo[i][j]}
               PROVE  \/ Covers(cursor[f].lines, f, todo[i][j])'
                      \/ \E k \in 1..(j - 1) :
                            /\ todo[i][k] = f
                            /\ k = 1 /\ stat[i] # 0 => Covers(stat[i] \div 2, f, todo[i][j])'
    BY <1>0 DEF ReadFirst
  <2>0. PICK g : g = todo[i][j]
    OBVIOUS
  <2>1. g \in Born /\ f \in File \ {g} /\ f \in Watched /\ stat[i] \div 2 \in Nat
    BY <1>0, <2>0, Halves DEF IInv, TodoOK, Watched
  <2>2. cursor[f].lines \in Nat
    BY <2>1, CursorLines, TextSound DEF IInv
  <2>3. \A k \in Nat : Covers(k, f, g) => Covers(k, f, g)'
    BY <1>0, <2>1 DEF CoversKept
  <2>4. \/ Covers(cursor[f].lines, f, g)
        \/ \E k \in 1..(j - 1) : /\ todo[i][k] = f
                                 /\ k = 1 /\ stat[i] # 0 => Covers(stat[i] \div 2, f, g)
    BY <2>0, <2>1 DEF IInv, OrderOK, ReadFirst
  <2>5. \A k : Covers(k, f, g)' => /\ k = cursor[f].lines => Covers(cursor[f].lines, f, todo[i][j])'
                                   /\ k = stat[i] \div 2 => Covers(stat[i] \div 2, f, todo[i][j])'
    BY <1>0, <2>0 DEF Covers, Full
  <2> QED BY <2>0, <2>1, <2>2, <2>3, <2>4, <2>5
<1>2. Due'
  <2> SUFFICES ASSUME NEW f \in Watched', cursor[f].lines < Len(text'[f])
               PROVE  \/ f \in pending'
                      \/ \E k \in 1..Len(todo[Serve]) :
                            /\ todo[Serve][k] = f
                            /\ k = 1 /\ stat[Serve] # 0 => Len(text'[f]) <= stat[Serve] \div 2
    BY <1>0 DEF Due
  <2>1. f \in Watched /\ f \in File /\ f \notin missed'
    BY <1>0 DEF Watched
  <2>2. CASE text'[f] # text[f]
    BY <2>1, <2>2 DEF SessionStep
  <2>3. CASE text'[f] = text[f]
    BY <1>0, <2>1, <2>3 DEF IInv, OrderOK, Due
  <2> QED BY <2>2, <2>3
<1>3. FirstSessionKeeps'
  BY <1>0 DEF FirstSessionKeeps, IInv, OrderOK
<1> QED BY <1>1, <1>2, <1>3 DEF OrderOK

LEMMA SessionKeeps ==
  ASSUME IInv, SessionStep
  PROVE  IInv'
<1>1. CursorsOK' /\ TurnsOK' /\ RowsOK' /\ BusyOK'
  BY GrowsKeepsLedger DEF SessionStep, GrowAll, IInv, LedgerOK
<1>2. TodoOK' /\ FilesOK'
  BY SessionKeepsTodo DEF SessionStep, IInv
<1> QED BY <1>1, <1>2, SessionKeepsOrder DEF IInv

----
(***************************************************************************)
(* The invariant, through a read.                                          *)
(***************************************************************************)
\* What a read makes of the ledger, if anything.
Ingested(f, size) ==
    \/ UNCHANGED ledgerVars /\ (f \in gone \/ size = cursor[f].size)
    \/ \E from \in {0, cursor[f].lines} : \E r :
          ReadIs(r, row, turn, f, text[f], from, Len(text[f])) /\ ReadDone(f, from, r, size)

LEMMA StatIs ==
  ASSUME IInv, NEW i \in Ingester, stat[i] # 0
  PROVE  /\ todo[i] \in Seq(File) /\ todo[i] # <<>> /\ Head(todo[i]) = todo[i][1]
         /\ 1 \in 1..Len(todo[i]) /\ Head(todo[i]) \in Born /\ Head(todo[i]) \in File
         /\ text[Head(todo[i])] # <<>> /\ stat[i] \in Nat /\ stat[i] \div 2 \in Nat
         /\ stat[i] \div 2 <= Len(text[Head(todo[i])])
<1>1. /\ todo[i] \in Seq(File) /\ todo[i] # <<>> /\ stat[i] \in Nat
      /\ stat[i] \div 2 <= Len(text[Head(todo[i])])
      /\ \A j \in 1..Len(todo[i]) : todo[i][j] \in Born
  BY DEF IInv, TodoOK
<1>2. Head(todo[i]) = todo[i][1] /\ 1 \in 1..Len(todo[i]) /\ Head(todo[i]) \in File
  BY <1>1
<1>3. Head(todo[i]) \in Born
  BY <1>1, <1>2
<1>4. text[Head(todo[i])] # <<>>
  BY <1>2, <1>3 DEF IInv, FilesOK
<1> QED BY <1>1, <1>2, <1>3, <1>4, Halves

LEMMA ReadsAre ==
  ASSUME IInv, NEW i \in Ingester, Reads(i)
  PROVE  Ingested(Head(todo[i]), stat[i]) /\ GoesTo(i, Tail(todo[i])) /\ UNCHANGED <<fileVars, pending, histVars>>
<1> DEFINE f == Head(todo[i])
           from == Start(i, f)
           act == IF from = 0 THEN NoAct ELSE cursor[f].act
<1>0. f \in File /\ text[f] # <<>> /\ LedgerOK
  BY StatIs DEF Reads, IInv, LedgerOK
<1>1. GoesTo(i, Tail(todo[i])) /\ UNCHANGED <<fileVars, pending, histVars>>
  BY DEF Reads
<1>2. CASE f \in gone \/ stat[i] = cursor[f].size
  BY <1>1, <1>2 DEF Reads, Ingested
<1>3. CASE ~(f \in gone \/ stat[i] = cursor[f].size)
  <2>1. \E r \in Read(f, act, from, Len(text[f])) :
            /\ row' = r.row /\ turn' = r.turn
            /\ busy' = [busy EXCEPT ![f] = Counted(f, from, r.add)]
            /\ PutCursor(i, f, r.act)
    BY <1>3 DEF Reads
  <2>2. from \in {0, cursor[f].lines}
    BY DEF Start
  <2>3. Len(text[f]) \in Nat /\ cursor[f].lines \in Nat /\ cursor[f].lines <= Len(text[f])
    BY <1>0, TextSound, CursorLines DEF LedgerOK
  <2>4. Len(text[f]) \in from..Len(text[f]) /\ from \in Nat
    BY <2>2, <2>3
  <2> HIDE DEF from, f
  <2>5. PICK r : Read(f, act, from, Len(text[f])) = {r} /\ ReadIs(r, row, turn, f, text[f], from, Len(text[f]))
    BY <1>0, <2>2, <2>4, ReadTo
  <2>6. /\ row' = r.row /\ turn' = r.turn
        /\ busy' = [busy EXCEPT ![f] = Counted(f, from, r.add)]
        /\ PutCursor(i, f, r.act)
    BY <2>1, <2>5
  <2>7. Counted(f, from, r.add) = IF from = 0 THEN r.add ELSE busy[f] + r.add
    BY <1>0 DEF Counted
  <2>8. text' = text
    BY <1>1 DEF fileVars
  <2>9. ReadDone(f, from, r, stat[i])
    BY <2>6, <2>7, <2>8 DEF ReadDone, PutCursor
  <2>10. Ingested(f, stat[i])
    BY <2>2, <2>5, <2>9 DEF Ingested
  <2> QED BY <1>1, <2>10 DEF f
<1> QED BY <1>2, <1>3

LEMMA IngestedKeepsLedger ==
  ASSUME LedgerOK, NEW f \in File, NEW size \in Nat, size \div 2 <= Len(text[f]), Ingested(f, size),
         UNCHANGED <<fileVars, histVars>>
  PROVE  /\ LedgerOK'
         /\ \A g \in File : cursor'[g].lines \in Nat /\ cursor[g].lines <= cursor'[g].lines
         /\ f \notin gone => size \div 2 <= cursor'[f].lines
<1>0. /\ UNCHANGED <<born, text, copy, gone, torn>> /\ events' = events
  BY DEF fileVars, histVars
<1>1. FilesOK' /\ GrowAll
  <2>1. gone' \subseteq Born /\ torn' \in [File -> BOOLEAN] /\ events' \in events..MaxEvents
    BY <1>0, LedgerAssumption DEF LedgerOK, FilesOK, LedgerAssumption
  <2> QED BY <1>0, <2>1, FilesSame DEF LedgerOK
<1>2. \A g \in File : cursor[g].lines \in Nat /\ cursor[g].lines <= Len(text[g]) /\ Len(text[g]) \in Nat
  BY CursorLines, TextSound DEF LedgerOK
<1>3. CASE UNCHANGED ledgerVars /\ (f \in gone \/ size = cursor[f].size)
  <2>1. CursorsOK' /\ TurnsOK' /\ RowsOK' /\ BusyOK'
    BY <1>1, <1>3, GrowsKeepsLedger DEF GrowAll
  <2>2. cursor' = cursor
    BY <1>3 DEF ledgerVars
  <2>3. f \notin gone => size \div 2 <= cursor[f].lines
    BY <1>3 DEF LedgerOK, CursorsOK
  <2> QED BY <1>1, <1>2, <2>1, <2>2, <2>3 DEF LedgerOK
<1>4. CASE \E from \in {0, cursor[f].lines} : \E r :
          ReadIs(r, row, turn, f, text[f], from, Len(text[f])) /\ ReadDone(f, from, r, size)
  <2>1. PICK from \in {0, cursor[f].lines} : \E r :
          ReadIs(r, row, turn, f, text[f], from, Len(text[f])) /\ ReadDone(f, from, r, size)
    BY <1>4
  <2>2. PICK r : ReadIs(r, row, turn, f, text[f], from, Len(text[f])) /\ ReadDone(f, from, r, size)
    BY <2>1
  <2>3. /\ CursorsOK'
        /\ \A g \in File : /\ cursor'[g].lines = IF g = f THEN Len(text[f]) ELSE cursor[g].lines
                           /\ cursor[g].lines <= cursor'[g].lines
    BY <2>2, ReadCursors
  <2>4. TurnsOK'
    BY <2>2, <2>3, ReadTurns
  <2>5. RowsOK'
    BY <2>2, <2>3, ReadRows
  <2>6. BusyOK'
    BY <2>2, <2>3, ReadBusy
  <2>7. cursor'[f].lines = Len(text[f])
    BY <2>3
  <2>8. \A g \in File : cursor'[g].lines \in Nat
    BY <1>2, <2>3
  <2> QED BY <1>1, <2>3, <2>4, <2>5, <2>6, <2>7, <2>8 DEF LedgerOK
<1> QED BY <1>3, <1>4 DEF Ingested

\* Where a line of another session, fresh in g, was read in its own session.
LEMMA CoveredLine ==
  ASSUME LedgerOK, NEW f \in File, NEW g \in File, f # g, Covers(cursor[f].lines, f, g),
         NEW m \in 1..Len(text[g]), Fresh(text[g], m), text[g][m].from = f
  PROVE  /\ m \in 1..cursor[f].lines
         /\ \A k \in 1..m : text[g][k] = text[f][k]
<1>0. /\ Len(text[g]) \in Nat /\ Len(text[g]) <= Len(Full(g))
      /\ \A n \in 1..Len(text[g]) : text[g][n] = Full(g)[n]
      /\ Len(Full(g)) \in Nat /\ cursor[f].lines \in Nat
  BY TextSound, FullIs, CursorLines DEF LedgerOK
<1>1. m \in 1..Len(Full(g)) /\ Full(g)[m].from = f /\ m \in 1..m /\ \A k \in 1..m : k \in 1..Len(text[g])
  BY <1>0
<1>2. Fresh(Full(g), m)
  <2>1. \A k \in 1..Len(text[g]) : Fresh(text[g], k) <=> Fresh(Full(g), k)
    BY <1>0, Alike
  <2> QED BY <2>1
<1>3. m <= cursor[f].lines
  BY <1>1, <1>2 DEF Covers
<1>4. \A k \in 1..m : Full(g)[k] = text[f][k]
  BY <1>1, <1>2 DEF LedgerOK, FilesOK, Shared
<1> QED BY <1>0, <1>1, <1>3, <1>4

\* A read of g leaves the turns and responses of f to it, when what g has of them
\* was read in f.
LEMMA ReadKeepsFirst ==
  ASSUME LedgerOK, NEW f \in File, NEW g \in File, f # g, Covers(cursor[f].lines, f, g),
         NEW size, Ingested(g, size), NEW n \in 1..MaxEvents,
         row[<<f, n>>].owner \in {f, NoFile}, turn[<<f, n>>] \in {f, NoFile}
  PROVE  row'[<<f, n>>].owner \in {f, NoFile} /\ turn'[<<f, n>>] \in {f, NoFile}
<1> DEFINE id == <<f, n>>
           N == Len(text[g])
<1>0. id \in Id /\ NoFile \notin File
  BY LedgerAssumption DEF Id, LedgerAssumption
<1>1. CASE UNCHANGED ledgerVars
  BY <1>1 DEF ledgerVars
<1>2. CASE \E from \in {0, cursor[g].lines} : \E r :
          ReadIs(r, row, turn, g, text[g], from, Len(text[g])) /\ ReadDone(g, from, r, size)
  <2>1. PICK from \in {0, cursor[g].lines} : \E r :
          ReadIs(r, row, turn, g, text[g], from, N) /\ ReadDone(g, from, r, size)
    BY <1>2
  <2>2. PICK r : ReadIs(r, row, turn, g, text[g], from, N) /\ ReadDone(g, from, r, size)
    BY <2>1
  <2>3. RowsAre(r, row, g, text[g], from, N) /\ TurnsAre(r, turn, g, text[g], N)
        /\ Tracked(r) /\ row' = r.row /\ turn' = r.turn
    BY <2>2 DEF ReadIs, ReadDone
  <2>4. Sound(text[g]) /\ N \in Nat /\ text[g] \in Seq(Line)
    BY TextSound DEF LedgerOK, Sound
  <2> HIDE DEF id
  <2>5. row'[id].owner \in {f, NoFile}
    <3> SUFFICES ASSUME row[id].owner = NoFile, row'[id].owner = g PROVE FALSE
      BY <1>0, <2>3 DEF RowsAre, id
    <3>1. \E m \in 1..N : Bills(text[g], m, id)
      <4>1. row[id] \in Row \cup {NoRow} /\ row'[id] \in Row \cup {NoRow}
        BY <1>0, <2>3 DEF LedgerOK, RowsOK, Tracked
      <4>2. row[id].out = 0 /\ row'[id].out # 0
        BY <1>0, <4>1, LedgerAssumption DEF Row, NoRow, LedgerAssumption
      <4> QED BY <1>0, <2>3, <4>2 DEF RowsAre
    <3>2. PICK m \in 1..N : Bills(text[g], m, id)
      BY <3>1
    <3>3. \E k \in 1..N : Fresh(text[g], k) /\ text[g][k] = text[g][m]
      <4>1. CASE Fresh(text[g], m)
        BY <4>1
      <4>2. CASE Replayed(text[g], m)
        <5>1. PICK k \in 1..(m - 1) : Fresh(text[g], k) /\ text[g][k] = text[g][m]
          BY <4>2 DEF Replayed
        <5>2. k \in 1..N
          BY <2>4
        <5> QED BY <5>1, <5>2
      <4> QED BY <2>4, <4>1, <4>2 DEF Sound, Climbs
    <3>4. PICK k \in 1..N : Fresh(text[g], k) /\ text[g][k] = text[g][m]
      BY <3>3
    <3>5. Bills(text[g], k, id) /\ text[g][k].from = f
      BY <3>2, <3>4 DEF Bills, RespOf, id
    <3>6. k \in 1..cursor[f].lines /\ text[g][k] = text[f][k]
      <4>1. k \in 1..k
        BY <2>4
      <4> QED BY <3>4, <3>5, <4>1, CoveredLine
    <3>7. row[RespOf(text[f][k])].owner # NoFile
      BY <3>5, <3>6 DEF LedgerOK, RowsOK, Bills
    <3> QED BY <3>5, <3>6, <3>7 DEF Bills
  <2>6. turn'[id] \in {f, NoFile}
    <3> SUFFICES ASSUME turn[id] = NoFile, turn'[id] = g PROVE FALSE
      BY <1>0, <2>3 DEF TurnsAre, id
    <3>1. PICK m \in 1..N : Opens(text[g], m) /\ PromptOf(text[g][m]) = id
      BY <1>0, <2>3 DEF TurnsAre
    <3>2. text[g][m].from = f /\ Fresh(text[g], m)
      BY <3>1 DEF PromptOf, Opens, id
    <3>3. m \in 1..cursor[f].lines /\ \A k \in 1..m : text[g][k] = text[f][k]
      BY <3>2, CoveredLine
    <3>4. m \in Nat /\ m \in 1..m
      BY <2>4
    <3>5. Opens(text[f], m) /\ text[f][m] = text[g][m]
      <4>1. \A k \in 1..m : Opens(text[g], k) <=> Opens(text[f], k)
        BY <3>3, <3>4, Alike
      <4> QED BY <3>1, <3>3, <3>4, <4>1
    <3>6. turn[PromptOf(text[f][m])] # NoFile
      BY <3>3, <3>5 DEF LedgerOK, TurnsOK
    <3> QED BY <3>1, <3>5, <3>6
  <2> QED BY <2>5, <2>6 DEF id
<1> QED BY <1>1, <1>2 DEF Ingested

----
(***************************************************************************)
(* The files of a queue, in the order of their creation.                   *)
(***************************************************************************)
\* f holds, for each length, the files of S among the first born.
Queues(f, b, S) ==
    /\ f[0] = <<>>
    /\ \A n \in 1..Len(b) : f[n] = IF b[n] \in S THEN Append(f[n - 1], b[n]) ELSE f[n - 1]

LEMMA InOrderQueues ==
  ASSUME FilesOK, NEW S
  PROVE  \E f : Queues(f, born, S) /\ InOrder(S) = f[Len(born)]
<1> DEFINE N == Len(born)
           W == Seq(File)
           F(f) == [n \in 0..N |-> IF n = 0 THEN <<>>
                                   ELSE IF born[n] \in S THEN Append(f[n - 1], born[n]) ELSE f[n - 1]]
           c == CHOOSE f : f = F(f)
           step == [p \in W \X (1..N) |-> IF born[p[2]] \in S THEN Append(p[1], born[p[2]]) ELSE p[1]]
<1>0. born \in Seq(File)
  BY DEF FilesOK
<1>1. N \in Nat
  BY <1>0
<1>2. step \in Steps(W, N)
  <2>1. ASSUME NEW p \in W \X (1..N)
        PROVE  (IF born[p[2]] \in S THEN Append(p[1], born[p[2]]) ELSE p[1]) \in W
    BY <1>0
  <2> QED BY <2>1 DEF Steps
<1>3. \E f : IsFold(f, W, <<>>, N, step)
  <2>1. <<>> \in W
    OBVIOUS
  <2> HIDE DEF W, N, step
  <2> QED BY <1>1, <1>2, <2>1, FoldExists
<1>4. PICK f : IsFold(f, W, <<>>, N, step)
  BY <1>3
<1>5. f \in [0..N -> W] /\ f[0] = <<>> /\ \A i \in 1..N : f[i] = step[<<f[i - 1], i>>]
  BY <1>4, Zenon DEF IsFold
<1>6. \A i \in 1..N : f[i] = IF born[i] \in S THEN Append(f[i - 1], born[i]) ELSE f[i - 1]
  <2> TAKE i \in 1..N
  <2>1. i - 1 \in 0..N
    BY <1>1
  <2>2. f[i - 1] \in W
    BY <1>5, <2>1
  <2> QED BY <1>5, <2>2
<1> HIDE DEF step, W
<1>7. f = F(f)
  <2>1. ASSUME NEW n \in 0..N PROVE f[n] = F(f)[n]
    <3>1. CASE n = 0
      BY <1>5, <3>1
    <3>2. CASE n # 0
      <4>1. n \in 1..N
        BY <1>1, <3>2
      <4> QED BY <1>6, <3>2, <4>1
    <3> QED BY <3>1, <3>2
  <2>2. f = [n \in 0..N |-> f[n]] /\ F(f) = [n \in 0..N |-> F(f)[n]]
    BY <1>5
  <2> HIDE DEF F
  <2> QED BY <2>1, <2>2
<1>8. c = F(c)
  <2> HIDE DEF F
  <2> QED BY <1>7
<1>9. InOrder(S) = c[N]
  BY Zenon DEF InOrder
<1>10. Queues(c, born, S)
  <2> HIDE DEF c
  <2>1. c[0] = <<>>
    BY <1>1, <1>8
  <2>2. \A n \in 1..N : c[n] = IF born[n] \in S THEN Append(c[n - 1], born[n]) ELSE c[n - 1]
    <3> TAKE n \in 1..N
    <3>1. n \in 0..N /\ n # 0
      BY <1>1
    <3> QED BY <1>8, <3>1
  <2> QED BY <2>1, <2>2 DEF Queues
<1> QED BY <1>9, <1>10

\* q has the files of S among the first n of b, in their order.
QueueIs(q, b, n, S) ==
    /\ q \in Seq(File)
    /\ \A j \in 1..Len(q) : \E m \in 1..n : q[j] = b[m] /\ b[m] \in S
    /\ \A m \in 1..n : b[m] \in S => \E j \in 1..Len(q) : q[j] = b[m]
    /\ \A j \in 1..Len(q) : \A m \in 1..n : \A k \in 1..(m - 1) :
          q[j] = b[m] /\ b[k] \in S => \E a \in 1..(j - 1) : q[a] = b[k]

LEMMA QueueOneMore ==
  ASSUME NEW b \in Seq(File), \A i, j \in 1..Len(b) : b[i] = b[j] => i = j,
         NEW n \in 0..(Len(b) - 1), NEW q, NEW S, QueueIs(q, b, n, S)
  PROVE  QueueIs(IF b[n + 1] \in S THEN Append(q, b[n + 1]) ELSE q, b, n + 1, S)
<1>0. /\ Len(b) \in Nat /\ n \in Nat /\ n + 1 \in 1..Len(b) /\ b[n + 1] \in File
      /\ \A m \in 1..(n + 1) : m \in 1..Len(b) /\ (m = n + 1 \/ m \in 1..n)
      /\ \A m \in 1..n : m \in 1..(n + 1)
  OBVIOUS
<1>q. q \in Seq(File)
  BY DEF QueueIs
<1>1. CASE b[n + 1] \notin S
  <2>1. \A j \in 1..Len(q) : \E m \in 1..(n + 1) : q[j] = b[m] /\ b[m] \in S
    BY <1>0 DEF QueueIs
  <2>2. \A m \in 1..(n + 1) : b[m] \in S => \E j \in 1..Len(q) : q[j] = b[m]
    BY <1>0, <1>1 DEF QueueIs
  <2>3. ASSUME NEW j \in 1..Len(q), NEW m \in 1..(n + 1), NEW k \in 1..(m - 1), q[j] = b[m], b[k] \in S
        PROVE  \E a \in 1..(j - 1) : q[a] = b[k]
    <3>1. PICK l \in 1..n : q[j] = b[l] /\ b[l] \in S
      BY DEF QueueIs
    <3>2. m = l
      BY <1>0, <2>3, <3>1
    <3> QED BY <2>3, <3>1, <3>2 DEF QueueIs
  <2>4. QueueIs(q, b, n + 1, S)
    BY <1>q, <2>1, <2>2, <2>3 DEF QueueIs
  <2> QED BY <1>1, <2>4
<1>2. CASE b[n + 1] \in S
  <2> DEFINE t == Append(q, b[n + 1])
  <2>0. /\ t \in Seq(File) /\ Len(q) \in Nat /\ Len(t) = Len(q) + 1 /\ t[Len(q) + 1] = b[n + 1]
        /\ \A j \in 1..Len(q) : t[j] = q[j]
    BY <1>0, <1>q
  <2>a. \A j \in 1..Len(t) : j = Len(q) + 1 \/ j \in 1..Len(q)
    BY <2>0
  <2> HIDE DEF t
  <2>1. ASSUME NEW j \in 1..Len(t) PROVE \E m \in 1..(n + 1) : t[j] = b[m] /\ b[m] \in S
    <3>1. CASE j = Len(q) + 1
      <4>1. n + 1 \in 1..(n + 1)
        BY <1>0
      <4> QED BY <1>2, <2>0, <3>1, <4>1
    <3>2. CASE j \in 1..Len(q)
      <4>1. PICK m \in 1..n : q[j] = b[m] /\ b[m] \in S
        BY <3>2 DEF QueueIs
      <4> QED BY <1>0, <2>0, <3>2, <4>1
    <3> QED BY <2>a, <3>1, <3>2
  <2>2. ASSUME NEW m \in 1..(n + 1), b[m] \in S PROVE \E j \in 1..Len(t) : t[j] = b[m]
    <3>1. CASE m = n + 1
      <4>1. Len(q) + 1 \in 1..Len(t)
        BY <2>0
      <4> QED BY <2>0, <3>1, <4>1
    <3>2. CASE m \in 1..n
      <4>1. PICK j \in 1..Len(q) : q[j] = b[m]
        BY <2>2, <3>2 DEF QueueIs
      <4>2. j \in 1..Len(t)
        BY <2>0
      <4> QED BY <2>0, <4>1, <4>2
    <3> QED BY <1>0, <3>1, <3>2
  <2>3. ASSUME NEW j \in 1..Len(t), NEW m \in 1..(n + 1), NEW k \in 1..(m - 1), t[j] = b[m], b[k] \in S
        PROVE  \E a \in 1..(j - 1) : t[a] = b[k]
    <3>1. CASE j = Len(q) + 1
      <4>1. m = n + 1
        BY <1>0, <2>0, <2>3, <3>1
      <4>2. k \in 1..n
        BY <1>0, <4>1
      <4>3. PICK a \in 1..Len(q) : q[a] = b[k]
        BY <2>3, <4>2 DEF QueueIs
      <4>4. a \in 1..(j - 1) /\ t[a] = b[k]
        BY <2>0, <3>1, <4>3
      <4> QED BY <4>4
    <3>2. CASE j \in 1..Len(q)
      <4>1. PICK l \in 1..n : q[j] = b[l] /\ b[l] \in S
        BY <3>2 DEF QueueIs
      <4>2. m = l
        BY <1>0, <2>0, <2>3, <3>2, <4>1
      <4>3. PICK a \in 1..(j - 1) : q[a] = b[k]
        <5>1. q[j] = b[m] /\ m \in 1..n
          BY <2>0, <2>3, <3>2, <4>1, <4>2
        <5> QED BY <2>3, <3>2, <5>1 DEF QueueIs
      <4>4. a \in 1..Len(q)
        BY <2>0, <3>2
      <4> QED BY <2>0, <4>3, <4>4
    <3> QED BY <2>a, <3>1, <3>2
  <2>4. QueueIs(t, b, n + 1, S)
    BY <2>0, <2>1, <2>2, <2>3 DEF QueueIs
  <2> QED BY <1>2, <2>4 DEF t
<1> QED BY <1>1, <1>2

LEMMA InOrderIs ==
  ASSUME FilesOK, NEW S, S \subseteq Born
  PROVE  /\ InOrder(S) \in Seq(File)
         /\ \A j \in 1..Len(InOrder(S)) : InOrder(S)[j] \in S
         /\ \A f \in S : \E j \in 1..Len(InOrder(S)) : InOrder(S)[j] = f
         /\ \A j \in 1..Len(InOrder(S)) : \A f \in S :
               Precedes(f, InOrder(S)[j]) => \E k \in 1..(j - 1) : InOrder(S)[k] = f
<1>0. born \in Seq(File) /\ Len(born) \in Nat /\ \A i, j \in 1..Len(born) : born[i] = born[j] => i = j
  BY DEF FilesOK
<1>1. PICK f : Queues(f, born, S) /\ InOrder(S) = f[Len(born)]
  BY InOrderQueues
<1> DEFINE T == {n \in 0..Len(born) : QueueIs(f[n], born, n, S)}
<1>2. 0 \in T
  <2>1. QueueIs(<<>>, born, 0, S)
    BY DEF QueueIs
  <2> QED BY <1>0, <1>1, <2>1 DEF Queues
<1>3. ASSUME NEW n \in 0..(Len(born) - 1), n \in T PROVE n + 1 \in T
  <2>1. n + 1 \in 1..Len(born) /\ n + 1 \in 0..Len(born) /\ (n + 1) - 1 = n
    BY <1>0
  <2>2. f[n + 1] = IF born[n + 1] \in S THEN Append(f[n], born[n + 1]) ELSE f[n]
    BY <1>1, <2>1 DEF Queues
  <2>3. QueueIs(f[n], born, n, S)
    BY <1>3
  <2>4. QueueIs(IF born[n + 1] \in S THEN Append(f[n], born[n + 1]) ELSE f[n], born, n + 1, S)
    BY <1>0, <2>3, QueueOneMore
  <2>5. QueueIs(f[n + 1], born, n + 1, S)
    BY <2>2, <2>4, Zenon
  <2> QED BY <2>1, <2>5
<1> HIDE DEF T
<1>4. Len(born) \in T
  <2>1. \A n \in 0..Len(born) : n \in T
    BY <1>0, <1>2, <1>3, UpTo
  <2> QED BY <1>0, <2>1
<1> DEFINE q == InOrder(S)
<1>5. QueueIs(q, born, Len(born), S)
  BY <1>1, <1>4 DEF T
<1> HIDE DEF q
<1>6. \A g \in S : \E m \in 1..Len(born) : born[m] = g
  BY <1>0 DEF Born
<1>7. q \in Seq(File) /\ (\A j \in 1..Len(q) : q[j] \in S) /\ \A g \in S : \E j \in 1..Len(q) : q[j] = g
  <2>1. q \in Seq(File) /\ \A j \in 1..Len(q) : q[j] \in S
    BY <1>5 DEF QueueIs
  <2>2. ASSUME NEW g \in S PROVE \E j \in 1..Len(q) : q[j] = g
    <3>1. PICK m \in 1..Len(born) : born[m] = g
      BY <1>6
    <3> QED BY <1>5, <3>1 DEF QueueIs
  <2> QED BY <2>1, <2>2
<1>8. ASSUME NEW j \in 1..Len(q), NEW g \in S, Precedes(g, q[j]) PROVE \E k \in 1..(j - 1) : q[k] = g
  <2>1. PICK m \in 1..Len(born) : born[m] = q[j] /\ \E i \in 1..(m - 1) : born[i] = g
    BY <1>8 DEF Precedes
  <2>2. PICK i \in 1..(m - 1) : born[i] = g
    BY <2>1
  <2> QED BY <1>5, <1>8, <2>1, <2>2 DEF QueueIs
<1> QED BY <1>7, <1>8 DEF q

----
(***************************************************************************)
(* The invariant, through what the ingesters do.                           *)
(***************************************************************************)
LEMMA CoversMore ==
  ASSUME FilesOK, NEW f, NEW g \in File, NEW k \in Nat, NEW l \in Nat, k <= l, Covers(k, f, g)
  PROVE  Covers(l, f, g)
<1>1. Len(Full(g)) \in Nat
  BY FullIs
<1> QED BY <1>1 DEF Covers

LEMMA CoversAll ==
  ASSUME FilesOK, NEW f \in File, NEW g \in File, f # g
  PROVE  Covers(Len(text[f]), f, g)
BY DEF Covers, FilesOK, Shared

LEMMA CoversNot ==
  ASSUME FilesOK, NEW f \in File, NEW g \in File, f # g, NEW k \in Nat, ~Covers(k, f, g)
  PROVE  Precedes(f, g) /\ k < Len(text[f]) /\ f \in Born
<1>1. PICK n \in 1..Len(Full(g)) : Fresh(Full(g), n) /\ Full(g)[n].from = f /\ ~(n <= k)
  BY DEF Covers
<1>2. Precedes(f, g) /\ n <= Len(text[f])
  BY <1>1 DEF FilesOK, Shared
<1>3. Len(text[f]) \in Nat /\ n \in Nat
  BY TextSound, FullIs
<1> QED BY <1>1, <1>2, <1>3, PrecedesBorn DEF PrecedesInBorn

\* Ingester i has now the files of q at hand, and the size n of the first.
Moves(i, q, n) ==
    /\ todo' = [todo EXCEPT ![i] = q] /\ stat' = [stat EXCEPT ![i] = n]
    /\ q \in Seq(File) /\ \A j \in 1..Len(q) : q[j] \in Born
    /\ n \in Nat /\ (n # 0 => q # <<>> /\ n \div 2 <= Len(text[Head(q)]))
    /\ job' \in Jobs /\ (i = Serve => (job' = "none" <=> q = <<>>)) /\ (i # Serve => job' = job)
    /\ pending' \subseteq Born /\ (i # Serve => pending' = pending)
    /\ missed \subseteq missed' /\ missed' \subseteq File
    /\ UNCHANGED fileVars
    /\ \A f \in File : cursor'[f].lines \in Nat /\ cursor[f].lines <= cursor'[f].lines

QueueReadsFirst(q, n) ==
    \A j \in 1..Len(q) : \A f \in Watched' \ {q[j]} :
        \/ Covers(cursor'[f].lines, f, q[j])
        \/ \E k \in 1..(j - 1) : /\ q[k] = f
                                 /\ k = 1 /\ n # 0 => Covers(n \div 2, f, q[j])
QueueIsDue(q, n) ==
    \A f \in Watched' : cursor'[f].lines < Len(text[f]) =>
        \/ f \in pending'
        \/ \E k \in 1..Len(q) : q[k] = f /\ (k = 1 /\ n # 0 => Len(text[f]) <= n \div 2)

LEMMA MovesTodo ==
  ASSUME TodoOK, FilesOK, NEW i \in Ingester, NEW q, NEW n, Moves(i, q, n)
  PROVE  TodoOK'
<1>0. /\ text' = text /\ Born' = Born /\ Serve \in Ingester
      /\ todo \in [Ingester -> Seq(File)] /\ stat \in [Ingester -> Nat]
  BY LedgerAssumption DEF Moves, fileVars, Born, TodoOK, LedgerAssumption
<1>1. /\ todo' \in [Ingester -> Seq(File)] /\ stat' \in [Ingester -> Nat]
      /\ \A h \in Ingester : /\ todo'[h] = IF h = i THEN q ELSE todo[h]
                             /\ stat'[h] = IF h = i THEN n ELSE stat[h]
  BY <1>0 DEF Moves
<1>2. \A h \in Ingester : \A j \in 1..Len(todo'[h]) : todo'[h][j] \in Born
  BY <1>1 DEF Moves, TodoOK
<1>3. \A h \in Ingester : stat'[h] # 0 =>
          todo'[h] # <<>> /\ stat'[h] \div 2 <= Len(text[Head(todo'[h])])
  BY <1>1 DEF Moves, TodoOK
<1>4. job' \in Jobs /\ (job' = "none" <=> todo'[Serve] = <<>>)
  BY <1>0, <1>1 DEF Moves, TodoOK
<1>5. pending' \subseteq Born /\ missed' \subseteq File
  BY DEF Moves
<1> QED BY <1>0, <1>1, <1>2, <1>3, <1>4, <1>5 DEF TodoOK

LEMMA MovesReadFirst ==
  ASSUME IInv, NEW i \in Ingester, NEW q, NEW n, Moves(i, q, n), QueueReadsFirst(q, n)
  PROVE  ReadFirst'
<1>0. /\ text' = text /\ copy' = copy /\ Watched' \subseteq Watched /\ Watched' \subseteq File
      /\ todo \in [Ingester -> Seq(File)] /\ stat \in [Ingester -> Nat] /\ FilesOK
      /\ \A h \in Ingester : /\ todo'[h] = IF h = i THEN q ELSE todo[h]
                             /\ stat'[h] = IF h = i THEN n ELSE stat[h]
  BY DEF Moves, fileVars, Watched, IInv, TodoOK
<1> SUFFICES ASSUME NEW h \in Ingester, NEW j \in 1..Len(todo'[h]), NEW f \in Watched' \ {todo'[h][j]}
             PROVE  \/ Covers(cursor[f].lines, f, todo[h][j])'
                    \/ \E k \in 1..(j - 1) :
                          /\ todo'[h][k] = f
                          /\ k = 1 /\ stat'[h] # 0 => Covers(stat[h] \div 2, f, todo[h][j])'
  BY DEF ReadFirst
<1>1. PICK g : g = todo'[h][j]
  OBVIOUS
<1>2. PICK c : c = cursor'[f].lines
  OBVIOUS
<1>3. PICK m : m = stat'[h]
  OBVIOUS
<1>4. /\ Covers(c, f, g) => Covers(cursor[f].lines, f, todo[h][j])'
      /\ Covers(m \div 2, f, g) => Covers(stat[h] \div 2, f, todo[h][j])'
  BY <1>0, <1>1, <1>2, <1>3 DEF Covers, Full
<1>5. \/ Covers(c, f, g)
      \/ \E k \in 1..(j - 1) : /\ todo'[h][k] = f
                               /\ k = 1 /\ m # 0 => Covers(m \div 2, f, g)
  <2>1. CASE h = i
    <3>1. todo'[h] = q /\ m = n /\ j \in 1..Len(q) /\ g = q[j] /\ f \in Watched' \ {q[j]}
      BY <1>0, <1>1, <1>3, <2>1
    <3>2. \/ Covers(cursor'[f].lines, f, q[j])
          \/ \E k \in 1..(j - 1) : /\ q[k] = f
                                   /\ k = 1 /\ n # 0 => Covers(n \div 2, f, q[j])
      BY <3>1 DEF QueueReadsFirst
    <3> QED BY <1>2, <3>1, <3>2
  <2>2. CASE h # i
    <3>1. todo'[h] = todo[h] /\ m = stat[h] /\ g = todo[h][j] /\ j \in 1..Len(todo[h])
      BY <1>0, <1>1, <1>3, <2>2
    <3>2. f \in Watched \ {todo[h][j]} /\ f \in File
      BY <1>0, <1>1, <3>1
    <3>3. \/ Covers(cursor[f].lines, f, g)
          \/ \E k \in 1..(j - 1) : /\ todo[h][k] = f
                                   /\ k = 1 /\ m # 0 => Covers(m \div 2, f, g)
      BY <3>1, <3>2 DEF IInv, OrderOK, ReadFirst
    <3>4. g \in File
      BY <1>0, <3>1
    <3>5. cursor[f].lines \in Nat /\ c \in Nat /\ cursor[f].lines <= c
      BY <1>2, <3>2, CursorLines, TextSound DEF Moves, IInv
    <3>6. Covers(cursor[f].lines, f, g) => Covers(c, f, g)
      BY <1>0, <3>4, <3>5, CoversMore
    <3> QED BY <3>1, <3>3, <3>6
  <2> QED BY <2>1, <2>2
<1> QED BY <1>3, <1>4, <1>5

LEMMA MovesDue ==
  ASSUME IInv, NEW i \in Ingester, NEW q, NEW n, Moves(i, q, n), i = Serve => QueueIsDue(q, n)
  PROVE  Due'
<1>0. /\ text' = text /\ Watched' \subseteq Watched /\ Watched' \subseteq File /\ Serve \in Ingester
      /\ todo \in [Ingester -> Seq(File)] /\ stat \in [Ingester -> Nat] /\ FilesOK
      /\ \A h \in Ingester : /\ todo'[h] = IF h = i THEN q ELSE todo[h]
                             /\ stat'[h] = IF h = i THEN n ELSE stat[h]
  BY LedgerAssumption DEF Moves, fileVars, Watched, IInv, TodoOK, LedgerAssumption
<1> SUFFICES ASSUME NEW f \in Watched', cursor'[f].lines < Len(text[f])
             PROVE  \/ f \in pending'
                    \/ \E k \in 1..Len(todo'[Serve]) :
                          /\ todo'[Serve][k] = f
                          /\ k = 1 /\ stat'[Serve] # 0 => Len(text[f]) <= stat'[Serve] \div 2
  BY <1>0 DEF Due
<1>1. CASE i = Serve
  BY <1>0, <1>1 DEF QueueIsDue
<1>2. CASE i # Serve
  <2>1. f \in Watched /\ f \in File
    BY <1>0
  <2>2. /\ cursor[f].lines \in Nat /\ cursor'[f].lines \in Nat /\ cursor[f].lines <= cursor'[f].lines
        /\ Len(text[f]) \in Nat
    BY <2>1, CursorLines, TextSound DEF Moves, IInv
  <2>3. cursor[f].lines < Len(text[f])
    BY <2>2
  <2>4. todo'[Serve] = todo[Serve] /\ stat'[Serve] = stat[Serve] /\ pending' = pending
    BY <1>0, <1>2 DEF Moves
  <2> QED BY <2>1, <2>3, <2>4 DEF IInv, OrderOK, Due
<1> QED BY <1>1, <1>2

LEMMA BornFiles ==
  ASSUME FilesOK
  PROVE  Born \subseteq File
BY DEF FilesOK, Born

LEMMA MovesKeeps ==
  ASSUME IInv, NEW i \in Ingester, NEW q, NEW n, Moves(i, q, n), QueueReadsFirst(q, n),
         i = Serve => QueueIsDue(q, n), LedgerOK', FirstSessionKeeps'
  PROVE  IInv'
<1>1. TodoOK'
  BY MovesTodo DEF IInv
<1>2. ReadFirst' /\ Due'
  BY MovesReadFirst, MovesDue
<1> QED BY <1>1, <1>2 DEF IInv, LedgerOK, OrderOK

\* A queue of every file that is behind.
LEMMA NewQueue ==
  ASSUME IInv, NEW i \in Ingester, NEW S, S \subseteq Born, NEW q, q = InOrder(S),
         Moves(i, q, 0), cursor' = cursor,
         \A f \in Watched' \cap Born : cursor[f].lines < Len(text[f]) => f \in S
  PROVE  QueueReadsFirst(q, 0) /\ QueueIsDue(q, 0)
<1>0. /\ \A j \in 1..Len(q) : q[j] \in S
      /\ \A f \in S : \E j \in 1..Len(q) : q[j] = f
      /\ \A j \in 1..Len(q) : \A f \in S : Precedes(f, q[j]) => \E k \in 1..(j - 1) : q[k] = f
      /\ FilesOK /\ Born \subseteq File /\ Watched' \subseteq File
  <2>1. FilesOK /\ Watched' \subseteq File
    BY DEF IInv, Watched
  <2> QED BY <2>1, InOrderIs, BornFiles
<1>1. QueueReadsFirst(q, 0)
  <2> SUFFICES ASSUME NEW j \in 1..Len(q), NEW f \in Watched' \ {q[j]}, ~Covers(cursor[f].lines, f, q[j])
               PROVE  \E k \in 1..(j - 1) : q[k] = f
    BY DEF QueueReadsFirst
  <2>1. f \in File /\ q[j] \in File /\ f # q[j] /\ cursor[f].lines \in Nat
    BY <1>0, CursorLines, TextSound DEF IInv
  <2>2. Precedes(f, q[j]) /\ cursor[f].lines < Len(text[f]) /\ f \in Born
    BY <1>0, <2>1, CoversNot
  <2>3. f \in S
    BY <2>2
  <2> QED BY <1>0, <2>2, <2>3
<1>2. QueueIsDue(q, 0)
  <2> SUFFICES ASSUME NEW f \in Watched', cursor[f].lines < Len(text[f])
               PROVE  \E k \in 1..Len(q) : q[k] = f
    BY DEF QueueIsDue
  <2>1. f \in File /\ cursor[f].lines \in Nat
    BY <1>0, CursorLines, TextSound DEF IInv
  <2>2. f \in Born
    <3> SUFFICES ASSUME f \notin Born PROVE FALSE
      OBVIOUS
    <3>1. Full(f) = <<>> /\ Len(text[f]) <= Len(Full(f)) /\ Len(text[f]) \in Nat
      BY <1>0, <2>1, TextSound DEF FilesOK
    <3>2. Len(Full(f)) = 0
      BY <3>1
    <3> QED BY <2>1, <3>1, <3>2
  <2> QED BY <1>0, <2>2
<1> QED BY <1>1, <1>2

\* The queue goes on behind its first file, which is read or no longer watched.
LEMMA TailQueue ==
  ASSUME IInv, NEW i \in Ingester, todo[i] # <<>>, NEW q, q = Tail(todo[i]), Moves(i, q, 0),
         pending' = pending, NEW h, h = Head(todo[i]),
         h \in Watched' => \/ Len(text[h]) <= cursor'[h].lines
                           \/ stat[i] # 0 /\ stat[i] \div 2 <= cursor'[h].lines
  PROVE  QueueReadsFirst(q, 0) /\ (i = Serve => QueueIsDue(q, 0))
<1>0. /\ FilesOK /\ todo[i] \in Seq(File) /\ Born \subseteq File /\ Watched' \subseteq Watched
      /\ Watched' \subseteq File /\ stat[i] \in Nat
  <2>1. FilesOK /\ todo[i] \in Seq(File) /\ stat[i] \in Nat
    BY DEF IInv, TodoOK
  <2>2. gone' = gone /\ missed \subseteq missed'
    BY DEF Moves, fileVars
  <2> QED BY <2>1, <2>2, BornFiles DEF Watched
<1>1. /\ h \in File /\ todo[i][1] = h /\ Len(todo[i]) = Len(q) + 1 /\ Len(q) \in Nat
      /\ \A j \in 1..Len(q) : q[j] = todo[i][j + 1] /\ j + 1 \in 1..Len(todo[i])
      /\ \A k \in 2..Len(todo[i]) : q[k - 1] = todo[i][k] /\ k - 1 \in 1..Len(q)
  BY <1>0
<1>2. \A f \in File : /\ cursor[f].lines \in Nat /\ cursor'[f].lines \in Nat
                      /\ cursor[f].lines <= cursor'[f].lines
                      /\ Len(text[f]) \in Nat
  BY CursorLines, TextSound DEF Moves, IInv
<1>3. \A j \in 1..Len(todo[i]) : todo[i][j] \in File
  BY <1>0
<1>4. stat[i] \div 2 \in Nat
  BY <1>0, Halves
<1>5. QueueReadsFirst(q, 0)
  <2> SUFFICES ASSUME NEW j \in 1..Len(q), NEW f \in Watched' \ {q[j]}
               PROVE  \/ Covers(cursor'[f].lines, f, q[j])
                      \/ \E k \in 1..(j - 1) : /\ q[k] = f
                                               /\ k = 1 /\ 0 # 0 => Covers(0 \div 2, f, q[j])
    BY Zenon DEF QueueReadsFirst
  <2> SUFFICES \/ Covers(cursor'[f].lines, f, q[j])
               \/ \E k \in 1..(j - 1) : q[k] = f
    BY Zenon
  <2> DEFINE g == q[j]
  <2>1. /\ j + 1 \in 1..Len(todo[i]) /\ g = todo[i][j + 1] /\ f \in Watched \ {g} /\ f \in File /\ g \in File
        /\ (j + 1) - 1 = j
    BY <1>0, <1>1, <1>3
  <2> HIDE DEF g
  <2>2. \/ Covers(cursor[f].lines, f, g)
        \/ \E k \in 1..j : /\ todo[i][k] = f
                           /\ k = 1 /\ stat[i] # 0 => Covers(stat[i] \div 2, f, g)
    BY <2>1 DEF IInv, OrderOK, ReadFirst
  <2>3. CASE Covers(cursor[f].lines, f, g)
    <3>1. Covers(cursor'[f].lines, f, g)
      BY <1>0, <1>2, <2>1, <2>3, CoversMore
    <3> QED BY <3>1 DEF g
  <2>4. CASE \E k \in 1..j : /\ todo[i][k] = f
                             /\ k = 1 /\ stat[i] # 0 => Covers(stat[i] \div 2, f, g)
    <3>1. PICK k \in 1..j : /\ todo[i][k] = f
                            /\ k = 1 /\ stat[i] # 0 => Covers(stat[i] \div 2, f, g)
      BY <2>4
    <3>2. CASE k # 1
      <4>1. k \in 2..Len(todo[i]) /\ k - 1 \in 1..(j - 1)
        BY <1>1, <2>1, <3>2
      <4> QED BY <1>1, <3>1, <4>1
    <3>3. CASE k = 1
      <4>1. f = h
        BY <1>1, <3>1, <3>3
      <4>2. CASE Len(text[f]) <= cursor'[f].lines
        <5>1. Covers(Len(text[f]), f, g)
          BY <1>0, <2>1, CoversAll
        <5>2. Covers(cursor'[f].lines, f, g)
          BY <1>0, <1>2, <2>1, <4>2, <5>1, CoversMore
        <5> QED BY <5>2 DEF g
      <4>3. CASE stat[i] # 0 /\ stat[i] \div 2 <= cursor'[f].lines
        <5>1. Covers(stat[i] \div 2, f, g)
          BY <3>1, <3>3, <4>3
        <5>2. Covers(cursor'[f].lines, f, g)
          BY <1>0, <1>2, <1>4, <2>1, <4>3, <5>1, CoversMore
        <5> QED BY <5>2 DEF g
      <4> QED BY <4>1, <4>2, <4>3
    <3> QED BY <3>2, <3>3
  <2> QED BY <2>2, <2>3, <2>4
<1>6. ASSUME i = Serve PROVE QueueIsDue(q, 0)
  <2> SUFFICES ASSUME NEW f \in Watched', cursor'[f].lines < Len(text[f]), f \notin pending
               PROVE  \E k \in 1..Len(q) : q[k] = f
    BY DEF QueueIsDue
  <2>1. f \in File /\ f \in Watched /\ cursor[f].lines < Len(text[f])
    <3>1. f \in File /\ f \in Watched
      BY <1>0
    <3> QED BY <1>2, <3>1
  <2>2. PICK k \in 1..Len(todo[i]) : todo[i][k] = f /\ (k = 1 /\ stat[i] # 0 => Len(text[f]) <= stat[i] \div 2)
    BY <1>6, <2>1 DEF IInv, OrderOK, Due
  <2>3. k # 1
    <3> SUFFICES ASSUME k = 1 PROVE FALSE
      OBVIOUS
    <3>1. f = h /\ (stat[i] # 0 => Len(text[f]) <= stat[i] \div 2)
      BY <1>1, <2>2
    <3> DEFINE a == stat[i] \div 2
               b == cursor'[f].lines
               c == Len(text[f])
    <3>2. a \in Nat /\ b \in Nat /\ c \in Nat /\ b < c
      BY <1>2, <1>4, <2>1
    <3>3. c <= b \/ (stat[i] # 0 /\ a <= b)
      BY <3>1
    <3>4. stat[i] # 0 => c <= a
      BY <3>1
    <3> HIDE DEF a, b, c
    <3> QED BY <3>2, <3>3, <3>4
  <2>4. k \in 2..Len(todo[i])
    BY <1>1, <2>3
  <2> QED BY <1>1, <2>2, <2>4
<1> QED BY <1>5, <1>6

\* Files and ledger as they were.
LEMMA NothingRead ==
  ASSUME IInv, UNCHANGED <<fileVars, ledgerVars>>, events' \in events..MaxEvents, missed \subseteq missed'
  PROVE  /\ LedgerOK' /\ FirstSessionKeeps' /\ cursor' = cursor /\ Watched' \subseteq Watched
         /\ \A f \in File : cursor'[f].lines \in Nat /\ cursor[f].lines <= cursor'[f].lines
<1>0. /\ UNCHANGED <<born, text, copy>> /\ gone' = gone /\ torn' = torn
      /\ row' = row /\ turn' = turn /\ cursor' = cursor
  BY DEF fileVars, ledgerVars
<1>1. FilesOK' /\ GrowAll
  <2>1. FilesOK /\ gone' \subseteq Born /\ torn' \in [File -> BOOLEAN]
    BY <1>0 DEF IInv, FilesOK
  <2> QED BY <1>0, <2>1, FilesSame
<1>2. CursorsOK' /\ TurnsOK' /\ RowsOK' /\ BusyOK'
  BY <1>1, GrowsKeepsLedger DEF GrowAll, IInv, LedgerOK
<1>3. \A f \in File : cursor[f].lines \in Nat
  BY CursorLines, TextSound DEF IInv
<1>4. Watched' \subseteq Watched
  BY <1>0 DEF Watched
<1>5. FirstSessionKeeps'
  <2>1. FirstSessionKeeps
    BY DEF IInv, OrderOK
  <2> QED BY <1>0, <2>1 DEF FirstSessionKeeps
<1> QED BY <1>0, <1>1, <1>2, <1>3, <1>4, <1>5 DEF LedgerOK

LEMMA LiveFiles ==
  ASSUME FilesOK
  PROVE  Live \subseteq Born /\ \A f \in Watched \cap Born : f \in Live
BY DEF Live, Watched

LEMMA QueueType ==
  ASSUME FilesOK, NEW S, S \subseteq Born
  PROVE  /\ InOrder(S) \in Seq(File) /\ \A j \in 1..Len(InOrder(S)) : InOrder(S)[j] \in Born
         /\ InOrder(S) = <<>> <=> S = {}
<1> DEFINE q == InOrder(S)
<1>1. /\ q \in Seq(File) /\ (\A j \in 1..Len(q) : q[j] \in S)
      /\ \A f \in S : \E j \in 1..Len(q) : q[j] = f
  BY InOrderIs
<1> HIDE DEF q
<1>2. q = <<>> <=> S = {}
  <2>1. ASSUME q = <<>> PROVE S = {}
    <3>1. Len(q) = 0
      BY <2>1
    <3> QED BY <1>1, <3>1
  <2>2. ASSUME q # <<>> PROVE S # {}
    <3>1. 1 \in 1..Len(q)
      BY <1>1, <2>2
    <3> QED BY <1>1, <3>1
  <2> QED BY <2>1, <2>2
<1> QED BY <1>1, <1>2 DEF q

LEMMA Idle ==
  ASSUME IInv, NEW i \in Ingester, todo[i] = <<>>
  PROVE  stat[i] = 0 /\ stat = [stat EXCEPT ![i] = 0]
BY DEF IInv, TodoOK

LEMMA SweepStep ==
  ASSUME IInv, NEW i \in Ingester, Sweep(i)
  PROVE  IInv'
<1> DEFINE q == InOrder(Live)
<1>0. /\ FilesOK /\ todo[i] = <<>> /\ Live # {} /\ todo' = [todo EXCEPT ![i] = q] /\ Work(i)
      /\ UNCHANGED <<fileVars, ledgerVars>> /\ stat' = stat /\ pending' = pending /\ missed' = missed
      /\ TodoOK
  BY DEF Sweep, IInv
<1>1. events' \in events..MaxEvents
  <2>1. Costs(0) \/ Costs(1)
    BY DEF Sweep
  <2> QED BY <1>0, <2>1, CostsIs
<1>2. /\ LedgerOK' /\ FirstSessionKeeps' /\ cursor' = cursor /\ Watched' \subseteq Watched
      /\ \A f \in File : cursor'[f].lines \in Nat /\ cursor[f].lines <= cursor'[f].lines
  BY <1>0, <1>1, NothingRead
<1>3. /\ q \in Seq(File) /\ q # <<>> /\ \A j \in 1..Len(q) : q[j] \in Born
  BY <1>0, LiveFiles, QueueType
<1>4. stat' = [stat EXCEPT ![i] = 0]
  BY <1>0, Idle
<1>5. job' \in Jobs /\ (i = Serve => (job' = "none" <=> q = <<>>)) /\ (i # Serve => job' = job)
  BY <1>0, <1>3 DEF Work, Jobs, TodoOK
<1> HIDE DEF q
<1>6. Moves(i, q, 0)
  BY <1>0, <1>2, <1>3, <1>4, <1>5 DEF Moves, TodoOK
<1>7. QueueReadsFirst(q, 0) /\ QueueIsDue(q, 0)
  BY <1>0, <1>2, <1>6, LiveFiles, NewQueue DEF q
<1> QED BY <1>2, <1>6, <1>7, MovesKeeps

LEMMA BatchStep ==
  ASSUME IInv, IngestPaths
  PROVE  IInv'
<1> DEFINE q == InOrder(pending)
<1>0. /\ FilesOK /\ todo[Serve] = <<>> /\ pending # {} /\ todo' = [todo EXCEPT ![Serve] = q]
      /\ job' = "batch" /\ pending' = {} /\ stat' = stat /\ missed' = missed /\ events' = events
      /\ UNCHANGED <<fileVars, ledgerVars>> /\ TodoOK /\ Serve \in Ingester /\ pending \subseteq Born
  BY LedgerAssumption DEF IngestPaths, IInv, histVars, TodoOK, LedgerAssumption
<1>1. events' \in events..MaxEvents
  BY <1>0, LedgerAssumption DEF FilesOK, LedgerAssumption
<1>2. /\ LedgerOK' /\ FirstSessionKeeps' /\ cursor' = cursor /\ Watched' \subseteq Watched
      /\ \A f \in File : cursor'[f].lines \in Nat /\ cursor[f].lines <= cursor'[f].lines
  BY <1>0, <1>1, NothingRead
<1>3. /\ q \in Seq(File) /\ q # <<>> /\ \A j \in 1..Len(q) : q[j] \in Born
  BY <1>0, QueueType
<1>4. stat' = [stat EXCEPT ![Serve] = 0]
  BY <1>0, Idle
<1> HIDE DEF q
<1>5. Moves(Serve, q, 0)
  BY <1>0, <1>2, <1>3, <1>4 DEF Moves, Jobs, TodoOK
<1>6. ASSUME NEW f \in Watched' \cap Born, cursor[f].lines < Len(text[f]) PROVE f \in pending
  <2>1. \A k \in 1..Len(todo[Serve]) : FALSE
    BY <1>0
  <2> QED BY <1>2, <1>6, <2>1 DEF IInv, OrderOK, Due
<1>7. QueueReadsFirst(q, 0) /\ QueueIsDue(q, 0)
  BY <1>0, <1>2, <1>5, <1>6, NewQueue DEF q
<1> QED BY <1>0, <1>2, <1>5, <1>7, MovesKeeps

LEMMA CrashStep ==
  ASSUME IInv, NEW i \in Ingester, Crash(i)
  PROVE  IInv'
<1> DEFINE q == IF i = Serve THEN InOrder(Live) ELSE <<>>
<1>0. /\ FilesOK /\ todo' = [todo EXCEPT ![i] = q] /\ stat' = [stat EXCEPT ![i] = 0]
      /\ UNCHANGED <<fileVars, ledgerVars>> /\ missed' = missed /\ TodoOK
  BY DEF Crash, IInv
<1>1. events' \in events..MaxEvents
  BY <1>0, CostsIs DEF Crash
<1>2. /\ LedgerOK' /\ FirstSessionKeeps' /\ cursor' = cursor /\ Watched' \subseteq Watched
      /\ \A f \in File : cursor'[f].lines \in Nat /\ cursor[f].lines <= cursor'[f].lines
  BY <1>0, <1>1, NothingRead
<1>3. /\ q \in Seq(File) /\ \A j \in 1..Len(q) : q[j] \in Born
      /\ i = Serve => (q = <<>> <=> Live = {})
  BY <1>0, LiveFiles, QueueType
<1>4. /\ job' \in Jobs /\ (i = Serve => (job' = "none" <=> q = <<>>)) /\ (i # Serve => job' = job)
      /\ pending' \subseteq Born /\ (i # Serve => pending' = pending) /\ missed' \subseteq File
  BY <1>0, <1>3 DEF Crash, Jobs, TodoOK
<1> HIDE DEF q
<1>5. Moves(i, q, 0)
  BY <1>0, <1>2, <1>3, <1>4 DEF Moves
<1>6. CASE i = Serve
  <2>1. q = InOrder(Live)
    BY <1>6 DEF q
  <2>2. QueueReadsFirst(q, 0) /\ QueueIsDue(q, 0)
    BY <1>0, <1>2, <1>5, <2>1, LiveFiles, NewQueue
  <2> QED BY <1>2, <1>5, <2>2, MovesKeeps
<1>7. CASE i # Serve
  <2>1. Len(q) = 0
    BY <1>7 DEF q
  <2>2. QueueReadsFirst(q, 0)
    BY <2>1 DEF QueueReadsFirst
  <2> QED BY <1>2, <1>5, <1>7, <2>2, MovesKeeps
<1> QED BY <1>6, <1>7

\* The queue goes on without its first file.
LEMMA PassesOn ==
  ASSUME IInv, NEW i \in Ingester, todo[i] # <<>>, GoesTo(i, Tail(todo[i])), UNCHANGED <<fileVars, pending>>,
         missed \subseteq missed', missed' \subseteq File,
         \A f \in File : cursor'[f].lines \in Nat /\ cursor[f].lines <= cursor'[f].lines
  PROVE  Moves(i, Tail(todo[i]), 0)
<1>0. /\ todo[i] \in Seq(File) /\ (\A j \in 1..Len(todo[i]) : todo[i][j] \in Born)
      /\ job \in Jobs /\ (job = "none" <=> todo[Serve] = <<>>) /\ pending \subseteq Born
  BY DEF IInv, TodoOK
<1> DEFINE q == Tail(todo[i])
<1>1. /\ q \in Seq(File) /\ Len(todo[i]) = Len(q) + 1 /\ Len(q) \in Nat
      /\ \A j \in 1..Len(q) : q[j] = todo[i][j + 1] /\ j + 1 \in 1..Len(todo[i])
  BY <1>0
<1>2. \A j \in 1..Len(q) : q[j] \in Born
  BY <1>0, <1>1
<1>3. todo' = [todo EXCEPT ![i] = q] /\ stat' = [stat EXCEPT ![i] = 0]
      /\ job' = IF i = Serve /\ q = <<>> THEN "none" ELSE job
  BY DEF GoesTo
<1> HIDE DEF q
<1>4. job' \in Jobs /\ (i = Serve => (job' = "none" <=> q = <<>>)) /\ (i # Serve => job' = job)
  BY <1>0, <1>3 DEF Jobs
<1>5. Moves(i, q, 0)
  BY <1>0, <1>1, <1>2, <1>3, <1>4 DEF Moves
<1> QED BY <1>5 DEF q

LEMMA StatsStep ==
  ASSUME IInv, NEW i \in Ingester, Stats(i)
  PROVE  IInv'
<1> DEFINE f == Head(todo[i])
           q == Tail(todo[i])
<1>0. /\ FilesOK /\ todo[i] # <<>> /\ stat[i] = 0 /\ UNCHANGED <<fileVars, ledgerVars>>
      /\ pending' = pending /\ missed' = missed /\ events' = events /\ TodoOK
      /\ todo[i] \in Seq(File) /\ todo \in [Ingester -> Seq(File)] /\ missed \subseteq File
  BY DEF Stats, IInv, histVars, TodoOK
<1>1. events' \in events..MaxEvents
  BY <1>0, LedgerAssumption DEF FilesOK, LedgerAssumption
<1>2. /\ LedgerOK' /\ FirstSessionKeeps' /\ cursor' = cursor /\ Watched' \subseteq Watched
      /\ \A g \in File : cursor'[g].lines \in Nat /\ cursor[g].lines <= cursor'[g].lines
  BY <1>0, <1>1, NothingRead
<1>3. f \in File /\ Len(text[f]) \in Nat /\ Size(f) \in Nat /\ Size(f) \div 2 = Len(text[f]) /\ f = todo[i][1]
  <2>1. f \in File /\ f = todo[i][1]
    BY <1>0
  <2>2. Len(text[f]) \in Nat
    BY <1>0, <2>1, TextSound
  <2>3. \A n \in Nat : 2 * n + 0 \in Nat /\ 2 * n + 1 \in Nat /\ (2 * n + 0) \div 2 = n /\ (2 * n + 1) \div 2 = n
    OBVIOUS
  <2>4. Size(f) = 2 * Len(text[f]) + 0 \/ Size(f) = 2 * Len(text[f]) + 1
    BY DEF Size, Bytes
  <2> QED BY <2>1, <2>2, <2>3, <2>4
<1>4. CASE f \in gone \/ Size(f) = cursor[f].size
  <2>1. GoesTo(i, q)
    BY <1>4 DEF Stats
  <2>2. Moves(i, q, 0)
    BY <1>0, <1>2, <2>1, PassesOn
  <2>3. f \in Watched' => Len(text[f]) <= cursor'[f].lines
    <3> SUFFICES ASSUME f \in Watched' PROVE Len(text[f]) <= cursor[f].lines
      BY <1>2
    <3>1. Size(f) = cursor[f].size
      BY <1>2, <1>4 DEF Watched
    <3>2. cursor[f].size \div 2 <= cursor[f].lines
      BY <1>3 DEF IInv, CursorsOK
    <3> QED BY <1>3, <3>1, <3>2
  <2> HIDE DEF f, q
  <2>4. QueueReadsFirst(q, 0) /\ (i = Serve => QueueIsDue(q, 0))
    BY <1>0, <2>2, <2>3, TailQueue DEF f, q
  <2> QED BY <1>2, <2>2, <2>4, MovesKeeps
<1>5. CASE ~(f \in gone \/ Size(f) = cursor[f].size)
  <2>1. PICK n \in Nat : n = Size(f)
    BY <1>3
  <2>2. stat' = [stat EXCEPT ![i] = n] /\ todo' = todo /\ job' = job
    BY <1>5, <2>1 DEF Stats
  <2>3. PICK t : t = todo[i]
    OBVIOUS
  <2>4. Moves(i, t, n)
    <3>1. todo' = [todo EXCEPT ![i] = t]
      BY <1>0, <2>2, <2>3
    <3>2. t \in Seq(File) /\ t # <<>> /\ (\A j \in 1..Len(t) : t[j] \in Born)
      BY <1>0, <2>3 DEF TodoOK
    <3>3. n \div 2 <= Len(text[Head(t)])
      BY <1>3, <2>1, <2>3
    <3>4. job \in Jobs /\ (job = "none" <=> todo[Serve] = <<>>) /\ pending \subseteq Born
      BY <1>0 DEF TodoOK
    <3>5. i = Serve => (job' = "none" <=> t = <<>>)
      BY <2>2, <2>3, <3>4
    <3> QED BY <1>0, <1>2, <2>1, <2>2, <3>1, <3>2, <3>3, <3>4, <3>5 DEF Moves
  <2>5. QueueReadsFirst(t, n)
    <3> SUFFICES \A j \in 1..Len(t) : \A g \in Watched' \ {t[j]} :
                    \/ Covers(cursor[g].lines, g, t[j])
                    \/ \E k \in 1..(j - 1) : /\ t[k] = g
                                             /\ k = 1 /\ n # 0 => Covers(n \div 2, g, t[j])
      BY <1>2 DEF QueueReadsFirst
    <3> TAKE j \in 1..Len(t)
    <3> TAKE g \in Watched' \ {t[j]}
    <3>1. g \in Watched \ {t[j]} /\ g \in File /\ t[j] \in File
      BY <1>0, <1>2, <2>3 DEF Watched
    <3>2. \/ Covers(cursor[g].lines, g, t[j])
          \/ \E k \in 1..(j - 1) : t[k] = g
      BY <2>3, <3>1 DEF IInv, OrderOK, ReadFirst
    <3>3. g = t[1] => Covers(n \div 2, g, t[j])
      <4> SUFFICES ASSUME g = t[1] PROVE Covers(n \div 2, g, t[j])
        OBVIOUS
      <4>1. n \div 2 = Len(text[g])
        BY <1>3, <2>1, <2>3
      <4>2. Covers(Len(text[g]), g, t[j])
        BY <1>0, <3>1, CoversAll
      <4> QED BY <4>1, <4>2
    <3> QED BY <3>2, <3>3
  <2>6. i = Serve => QueueIsDue(t, n)
    <3> SUFFICES ASSUME i = Serve, NEW g \in Watched', cursor[g].lines < Len(text[g])
                 PROVE  \/ g \in pending
                        \/ \E k \in 1..Len(t) : t[k] = g /\ (k = 1 /\ n # 0 => Len(text[g]) <= n \div 2)
      BY <1>0, <1>2 DEF QueueIsDue
    <3>1. g \in Watched /\ g \in File
      BY <1>2 DEF Watched
    <3>2. g \in pending \/ \E k \in 1..Len(t) : t[k] = g
      BY <2>3, <3>1 DEF IInv, OrderOK, Due
    <3>3. g = t[1] => Len(text[g]) <= n \div 2
      BY <1>3, <2>1, <2>3
    <3> QED BY <3>2, <3>3
  <2> QED BY <1>2, <2>4, <2>5, <2>6, MovesKeeps
<1> QED BY <1>4, <1>5

LEMMA ReadsStep ==
  ASSUME IInv, NEW i \in Ingester, Reads(i)
  PROVE  IInv'
<1> DEFINE f == Head(todo[i])
           q == Tail(todo[i])
<1>0. /\ todo[i] # <<>> /\ stat[i] # 0 /\ f = todo[i][1] /\ 1 \in 1..Len(todo[i])
      /\ f \in Born /\ f \in File /\ stat[i] \in Nat
      /\ stat[i] \div 2 <= Len(text[f]) /\ FilesOK /\ LedgerOK
  BY StatIs DEF Reads, IInv, LedgerOK
<1>1. /\ Ingested(f, stat[i]) /\ GoesTo(i, q)
      /\ UNCHANGED <<fileVars, histVars>> /\ pending' = pending /\ missed' = missed /\ gone' = gone
  BY ReadsAre DEF histVars, fileVars
<1>2. /\ LedgerOK' /\ \A g \in File : cursor'[g].lines \in Nat /\ cursor[g].lines <= cursor'[g].lines
      /\ f \notin gone => stat[i] \div 2 <= cursor'[f].lines
  BY <1>0, <1>1, IngestedKeepsLedger
<1>3. Watched' = Watched
  BY <1>1 DEF Watched
<1>4. Moves(i, q, 0)
  BY <1>0, <1>1, <1>2, PassesOn DEF IInv, TodoOK
<1>5. FirstSessionKeeps'
  <2> SUFFICES ASSUME NEW g \in Watched, NEW n \in 1..MaxEvents
               PROVE  row'[<<g, n>>].owner \in {g, NoFile} /\ turn'[<<g, n>>] \in {g, NoFile}
    BY <1>1 DEF FirstSessionKeeps, Watched
  <2>0. g \in File /\ NoFile \notin File
    BY LedgerAssumption DEF Watched, LedgerAssumption
  <2>1. row[<<g, n>>].owner \in {g, NoFile} /\ turn[<<g, n>>] \in {g, NoFile}
    BY DEF IInv, OrderOK, FirstSessionKeeps, Watched
  <2>2. CASE g = f
    <3>1. <<g, n>> \in Id
      BY <2>0 DEF Id
    <3>2. CASE UNCHANGED ledgerVars
      BY <2>1, <3>2 DEF ledgerVars
    <3>3. CASE ~UNCHANGED ledgerVars
      <4>1. \E from \in {0, cursor[f].lines} : \E r :
              ReadIs(r, row, turn, f, text[f], from, Len(text[f])) /\ ReadDone(f, from, r, stat[i])
        BY <1>1, <3>3 DEF Ingested
      <4>2. PICK from \in {0, cursor[f].lines} : \E r :
              ReadIs(r, row, turn, f, text[f], from, Len(text[f])) /\ ReadDone(f, from, r, stat[i])
        BY <4>1
      <4>3. PICK r : ReadIs(r, row, turn, f, text[f], from, Len(text[f])) /\ ReadDone(f, from, r, stat[i])
        BY <4>2
      <4>4. \A id \in Id : /\ row[id].owner # NoFile =>
                                 row'[id].owner = row[id].owner /\ row[id].out <= row'[id].out
                           /\ row[id].owner = NoFile => row'[id].owner \in {NoFile, f}
                           /\ turn[id] # NoFile => turn'[id] = turn[id]
                           /\ turn[id] = NoFile => turn'[id] \in {NoFile, f}
        <5> HIDE DEF f
        <5> QED BY <1>0, <4>3, OwnersStay
      <4> HIDE DEF f
      <4> QED BY <2>1, <2>2, <3>1, <4>4
    <3> QED BY <3>2, <3>3
  <2>3. CASE g # f
    <3>1. Covers(cursor[g].lines, g, f)
      <4>1. g \in Watched \ {todo[i][1]} /\ \A k \in 1..(1 - 1) : FALSE
        BY <1>0, <2>3
      <4>2. Covers(cursor[g].lines, g, todo[i][1])
        BY <1>0, <4>1 DEF IInv, OrderOK, ReadFirst
      <4> QED BY <1>0, <4>2
    <3> HIDE DEF f
    <3> QED BY <1>0, <1>1, <2>0, <2>1, <2>3, <3>1, ReadKeepsFirst
  <2> QED BY <2>2, <2>3
<1>6. f \in Watched' => stat[i] # 0 /\ stat[i] \div 2 <= cursor'[f].lines
  BY <1>0, <1>2, <1>3 DEF Watched
<1> HIDE DEF f, q
<1>7. QueueReadsFirst(q, 0) /\ (i = Serve => QueueIsDue(q, 0))
  BY <1>0, <1>1, <1>4, <1>6, TailQueue DEF f, q
<1> QED BY <1>2, <1>4, <1>5, <1>7, MovesKeeps

LEMMA FailsStep ==
  ASSUME IInv, NEW i \in Ingester, Fails(i)
  PROVE  IInv'
<1> DEFINE f == Head(todo[i])
           q == Tail(todo[i])
<1>0. /\ todo[i] # <<>> /\ f \in File /\ FilesOK /\ todo[i] \in Seq(File) /\ missed \subseteq File
      /\ UNCHANGED <<fileVars, ledgerVars>> /\ pending' = pending
  BY StatIs DEF Fails, IInv, TodoOK
<1>1. events' \in events..MaxEvents
  BY <1>0, CostsIs DEF Fails
<1>2. CASE i = Serve /\ job = "batch"
  <2>1. missed' = missed \cup {f} /\ GoesTo(i, q)
    BY <1>2 DEF Fails
  <2>2. /\ LedgerOK' /\ FirstSessionKeeps'
        /\ \A g \in File : cursor'[g].lines \in Nat /\ cursor[g].lines <= cursor'[g].lines
    BY <1>0, <1>1, <2>1, NothingRead
  <2>3. Moves(i, q, 0)
    BY <1>0, <2>1, <2>2, PassesOn
  <2>4. f \notin Watched'
    BY <2>1 DEF Watched
  <2> HIDE DEF f, q
  <2>5. QueueReadsFirst(q, 0) /\ (i = Serve => QueueIsDue(q, 0))
    BY <1>0, <2>3, <2>4, TailQueue DEF f, q
  <2> QED BY <2>2, <2>3, <2>5, MovesKeeps
<1>3. CASE ~(i = Serve /\ job = "batch")
  <2>1. missed' = missed \cup Range(todo[i]) /\ GoesTo(i, <<>>)
    BY <1>3 DEF Fails
  <2>2. Range(todo[i]) = {todo[i][j] : j \in 1..Len(todo[i])} /\ Range(todo[i]) \subseteq File
    BY <1>0 DEF Range
  <2>3. /\ LedgerOK' /\ FirstSessionKeeps' /\ cursor' = cursor /\ Watched' \subseteq Watched
        /\ \A g \in File : cursor'[g].lines \in Nat /\ cursor[g].lines <= cursor'[g].lines
    BY <1>0, <1>1, <2>1, NothingRead
  <2>4. Moves(i, <<>>, 0)
    <3>1. pending \subseteq Born /\ job \in Jobs
      BY DEF IInv, TodoOK
    <3>2. <<>> \in Seq(File) /\ Len(<<>>) = 0
      OBVIOUS
    <3> QED BY <1>0, <2>1, <2>2, <2>3, <3>1, <3>2 DEF Moves, GoesTo, Jobs
  <2>5. QueueReadsFirst(<<>>, 0)
    BY DEF QueueReadsFirst
  <2>6. i = Serve => QueueIsDue(<<>>, 0)
    <3> SUFFICES ASSUME i = Serve, NEW g \in Watched', cursor[g].lines < Len(text[g]) PROVE g \in pending
      BY <1>0, <2>3 DEF QueueIsDue
    <3>1. g \in Watched /\ g \notin Range(todo[i])
      BY <2>1, <2>3 DEF Watched
    <3>2. \A k \in 1..Len(todo[Serve]) : todo[Serve][k] # g
      BY <2>2, <3>1
    <3> QED BY <3>1, <3>2 DEF IInv, OrderOK, Due
  <2> QED BY <2>3, <2>4, <2>5, <2>6, MovesKeeps
<1> QED BY <1>2, <1>3

----
(***************************************************************************)
(* The invariant holds.                                                    *)
(***************************************************************************)
LEMMA InitKeeps ==
  ASSUME Init
  PROVE  IInv
<1>0. /\ born = <<>> /\ gone = {} /\ text = [f \in File |-> <<>>] /\ copy = [f \in File |-> <<>>]
      /\ torn = [f \in File |-> FALSE] /\ row = [id \in Id |-> NoRow]
      /\ turn = [id \in Id |-> NoFile] /\ busy = [f \in File |-> 0]
      /\ cursor = [f \in File |-> NoCursor] /\ todo = [i \in Ingester |-> <<>>]
      /\ stat = [i \in Ingester |-> 0] /\ job = "none" /\ pending = {} /\ events = 0 /\ missed = {}
      /\ NoFile \notin File /\ Serve \in Ingester /\ MaxEvents \in Nat
  BY LedgerAssumption DEF Init, LedgerAssumption
<1>1. \A f \in File : text[f] = <<>> /\ Len(text[f]) = 0 /\ Full(f) = <<>> /\ Len(Full(f)) = 0
  <2>1. <<>> \o <<>> = <<>> /\ Len(<<>>) = 0
    OBVIOUS
  <2> QED BY <1>0, <2>1 DEF Full
<1>2. Born = {} /\ Len(born) = 0 /\ <<>> \in Seq(Line) /\ <<>> \in Seq(File)
  BY <1>0 DEF Born
<1>3. FilesOK
  <2>1. \A f \in File : Sound(Full(f))
    <3>1. Sound(<<>>)
      <4>1. Len(<<>>) = 0
        OBVIOUS
      <4> QED BY <1>2, <4>1 DEF Sound, Climbs
    <3> QED BY <1>1, <3>1, Zenon
  <2>2. Shared
    BY <1>1 DEF Shared
  <2> QED BY <1>0, <1>1, <1>2, <2>1, <2>2 DEF FilesOK
<1>4. NoCursor \in [size : Nat, lines : Nat, act : Act] /\ NoCursor.size = 0 /\ NoCursor.lines = 0
      /\ NoCursor.act = NoAct
  BY <1>0 DEF NoCursor, NoAct, Act
<1>5. \A f \in File : cursor[f] = NoCursor /\ cursor[f].lines = 0
  BY <1>0, <1>4
<1>6. CursorsOK
  <2>1. \A f \in File : ActIs(NoAct, text[f], 0)
    BY <1>4, <1>0 DEF ActIs, NoAct, Act, Waits, PromptIs
  <2> QED BY <1>0, <1>1, <1>4, <1>5, <2>1 DEF CursorsOK
<1>7. TurnsOK
  BY <1>0, <1>5 DEF TurnsOK
<1>8. RowsOK
  BY <1>0, <1>5 DEF RowsOK, NoRow
<1>9. BusyOK
  <2>1. \A f \in File : ~NoAct.inTurn /\ ~InTurn(text[f], 0) /\ Cardinality(Worked(text[f], 0, 0)) = 0
    BY NothingWorked DEF NoAct, InTurn
  <2> QED BY <1>0, <1>4, <1>5, <2>1 DEF BusyOK
<1>10. TodoOK
  BY <1>0, <1>2 DEF TodoOK, Jobs
<1>11. ReadFirst
  BY <1>0, <1>2 DEF ReadFirst
<1>12. Due
  BY <1>0, <1>1, <1>5 DEF Due, Watched
<1>13. FirstSessionKeeps
  <2>1. \A f \in File, n \in 1..MaxEvents : <<f, n>> \in Id
    BY DEF Id
  <2> QED BY <1>0, <2>1 DEF FirstSessionKeeps, NoRow
<1> QED BY <1>3, <1>6, <1>7, <1>8, <1>9, <1>10, <1>11, <1>12, <1>13 DEF IInv, OrderOK

LEMMA NextKeeps ==
  ASSUME IInv, [Next]_vars
  PROVE  IInv'
<1>0. FilesOK /\ TodoOK
  BY DEF IInv
<1>1. ASSUME NEW f \in File, CopiesLine(f) PROVE IInv'
  BY <1>0, <1>1, CopiesStep, SessionKeeps
<1>2. ASSUME NEW f \in File, WritesPart(f) \/ Deletes(f) PROVE IInv'
  BY <1>0, <1>2, OtherSteps, SessionKeeps
<1>3. ASSUME NEW f \in File, NEW g \in File, Forks(f, g) PROVE IInv'
  BY <1>0, <1>3, ForksStep, SessionKeeps
<1>4. ASSUME NEW f \in File, NEW kind \in Kind, Writes(f, kind) PROVE IInv'
  BY <1>0, <1>4, WritesStep, SessionKeeps
<1>5. ASSUME NEW f \in File, NEW n \in DOMAIN text[f], Replays(f, n) PROVE IInv'
  BY <1>0, <1>5, ReplaysStep, SessionKeeps
<1>6. ASSUME NEW i \in Ingester, Sweep(i) \/ Stats(i) \/ Reads(i) \/ Fails(i) \/ Crash(i) PROVE IInv'
  BY <1>6, SweepStep, StatsStep, ReadsStep, FailsStep, CrashStep
<1>7. CASE IngestPaths
  BY <1>7, BatchStep
<1>8. CASE UNCHANGED vars
  <2>1. /\ UNCHANGED <<fileVars, ledgerVars, todo, stat, job>> /\ UNCHANGED <<born, text, copy>>
        /\ pending' = pending /\ missed' = missed /\ events' = events /\ gone' = gone /\ torn' = torn
    BY <1>8 DEF vars, fileVars, ingestVars, histVars
  <2>2. FilesOK' /\ GrowAll
    <3>1. events' \in events..MaxEvents /\ gone' \subseteq Born /\ torn' \in [File -> BOOLEAN]
      BY <1>0, <2>1, LedgerAssumption DEF FilesOK, LedgerAssumption
    <3> QED BY <1>0, <2>1, <3>1, FilesSame
  <2>3. Born' = Born
    BY <2>1 DEF Born
  <2>4. CoversKept
    BY <2>1 DEF CoversKept, Covers, Full
  <2>5. pending \subseteq Born /\ missed \subseteq File
    BY <1>0 DEF TodoOK
  <2>6. SessionStep
    BY <2>1, <2>2, <2>3, <2>4, <2>5 DEF SessionStep
  <2> QED BY <2>6, SessionKeeps
<1> QED BY <1>1, <1>2, <1>3, <1>4, <1>5, <1>6, <1>7, <1>8 DEF Next

LEMMA Inductive == Spec => []IInv
BY InitKeeps, NextKeeps, PTL DEF Spec

LEMMA DistinctLength ==
  ASSUME NEW b \in Seq(File), \A i, j \in 1..Len(b) : b[i] = b[j] => i = j
  PROVE  Len(b) = Cardinality({b[n] : n \in DOMAIN b})
<1> DEFINE D == {b[n] : n \in DOMAIN b}
           N == Len(b)
<1>1. N \in Nat /\ DOMAIN b = 1..N
  OBVIOUS
<1> DEFINE h == [n \in 1..N |-> b[n]]
<1>2. h \in [1..N -> D]
  BY <1>1
<1>3. \A i, j \in 1..N : h[i] = h[j] => i = j
  OBVIOUS
<1>4. \A d \in D : \E n \in 1..N : h[n] = d
  BY <1>1
<1> HIDE DEF h, D, N
<1>5. h \in Bijection(1..N, D)
  BY <1>2, <1>3, <1>4 DEF Bijection, Injection, Surjection, IsInjective
<1>6. ExistsBijection(1..N, D)
  BY <1>5 DEF ExistsBijection
<1>7. Cardinality(D) = N
  BY <1>1, <1>6, FS_CountingElements
<1> QED BY <1>7 DEF D, N

LEMMA IInvTypes ==
  ASSUME IInv
  PROVE  TypeOK
<1>1. FilesOK /\ CursorsOK /\ TurnsOK /\ RowsOK /\ BusyOK /\ TodoOK
  BY DEF IInv
<1>2. Len(born) = Cardinality(Born)
  BY <1>1, DistinctLength DEF FilesOK, Born
<1>3. \A i \in Ingester : todo[i] = <<>> => stat[i] = 0
  BY <1>1 DEF TodoOK
<1>4. \A f \in File : /\ cursor[f].size \in Nat /\ cursor[f].lines \in 0..Len(text[f])
                      /\ cursor[f].act \in [last : 0..MaxEvents, inTurn : BOOLEAN,
                                            prompt : Id \cup {NoId}, answered : BOOLEAN]
  BY <1>1 DEF CursorsOK, ActIs, Act
<1>5. pending \subseteq File
  BY <1>1, BornFiles DEF TodoOK
<1> QED BY <1>1, <1>2, <1>3, <1>4, <1>5 DEF TypeOK, FilesOK, TurnsOK, RowsOK, BusyOK, TodoOK, Jobs

----
\* Everything the ledger, the cursors and the ingesters hold is of its type; the
\* files at hand and the server's job go together.
THEOREM TypeCorrect == Spec => []TypeOK
BY Inductive, IInvTypes, PTL

\* Whatever the ingesters do between each other's steps, a response is in the
\* ledger exactly when a line of it was read, with its largest output (File and
\* Upsert of the ingest).
THEOREM LedgerHoldsWhatWasRead == Spec => []LedgerIsWhatWasRead
<1>1. IInv => LedgerIsWhatWasRead
  BY LedgerIsRead DEF IInv, LedgerOK
<1> QED BY <1>1, Inductive, PTL

\* A response and a turn stay the first session's: the ingesters read a fork behind
\* its parent, unless the parent was deleted or its event or reading was lost.
THEOREM FirstSessionIsBilled == Spec => []FirstSessionKeeps
<1>1. IInv => FirstSessionKeeps
  BY DEF IInv, OrderOK
<1> QED BY <1>1, Inductive, PTL

\* However the reads of a file were cut, one read of it from the top changes
\* nothing: neither rows and stamps nor turns, busy time and the cursor's state.
THEOREM RereadIsIdempotent == Spec => []RereadChangesNothing
<1>1. IInv => RereadChangesNothing
  BY RereadSame DEF IInv, LedgerOK
<1> QED BY <1>1, Inductive, PTL
====
