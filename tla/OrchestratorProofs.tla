---- MODULE OrchestratorProofs ----
(***************************************************************************)
(* Proofs about module Orchestrator, for any texts, notices, requests,     *)
(* calls and bounds: what the page's and the cron's transactions, which    *)
(* overlap and may be rolled back after their commands were written, leave *)
(* of the requests, and what the gate lets through.                        *)
(***************************************************************************)
EXTENDS Orchestrator, WellFoundedInduction, TLAPS

----
(***************************************************************************)
(* The invariant.                                                          *)
(***************************************************************************)
Ops == {"none", "start", "probe", "forward", "stop", "allow", "deny"}
Rows == Worker \cup {Kept, Lost}
Cmd == [op : Ops, text : Text \cup {NoText}, call : Call \cup {NoCall}, row : Rows]
Ev == [kind : {"ack", "stopped", "permission"}, op : Ops, row : Rows, ok : BOOLEAN, call : Call \cup {NoCall}]
Calls0 == [Call -> [what : Text \cup {NoText}, state : {"none", "parked", "let", "denied"}]]

\* An answer that lets a call through is to a call that was made, of a text that
\* is on record; an event tells of a call that was made.
Made(p) == p \in Call /\ call[p].state # "none"
GoodCmd == {c \in Cmd : c.op = "allow" => Made(c.call) /\ OnRecord(call[c.call].what)}
GoodEvent == {e \in Ev : e.kind = "permission" => e.call = NoCall \/ Made(e.call)}

SpoolOK ==
    /\ ids \in 0..MaxReq /\ call \in Calls0 /\ live \in BOOLEAN
    /\ cmds \in Seq(GoodCmd) /\ events \in Seq(GoodEvent)
    /\ Len(events) <= IF live THEN MaxEvents ELSE MaxEvents + 1

Orch == [gate : {"unchecked", "testing", "ok", "broken"}, runtime : {"stopped", "up"}, test : BOOLEAN]
Request == [text : Text \cup {NoText}, state : {"none"} \cup Open \cup Settled]

\* The relay's row and the requests of a database, or of a transaction's snapshot
\* of it: a test is open only while the gate is being tested, a relay that is
\* stopped has none, and n ids were handed out.
OrchOK(o) == o \in Orch /\ (o.test => o.gate = "testing") /\ (o.runtime = "stopped" => o = EmptyDb.orch)
ReqOK(q, n) == q \in [Req -> Request] /\ \A r \in Req : q[r].state # "none" => r <= n /\ q[r].text \in Text
DbOK(d, n) == d \in Database /\ OrchOK(d.orch) /\ ReqOK(d.req, n)

\* A person's message that waits though the test was passed.
Missed(q, r) == q[r].state = "queued" /\ q[r].text \notin Notices
NoneMissed(d) == d.orch.gate = "ok" => \A r \in Req : ~Missed(d.req, r)

\* A transaction that queues a person's message writes the relay's row too, be it
\* only to stamp it: that is what keeps the test from being passed beside it.
TxType == [at : {"none", "commit"}, new : Database, wrote : SUBSET Row, read : Nat, stale : SUBSET Row]
TxOK(t, n) ==
    /\ t \in TxType
    /\ t.at = "none" => t = NoTx
    /\ DbOK(t.new, n)
    /\ t.read > 0 => RunnerRow \in t.wrote
    /\ \A r \in t.wrote \cap Req : Missed(t.new.req, r) => OrchRow \in t.wrote

\* What a commit may do to a request: settle or hand over one that is open, or
\* make one that was not there.
MayWrite(a, b) == a.state \notin Settled /\ b.state # "none" /\ (a.state # "none" => b.text = a.text)

\* A transaction that may still commit, beside the rows d and m events: the events
\* it read are the first that are there, its rows follow on the committed ones,
\* and no message is missed by a gate that it opens.
TxFits(t, d, m) ==
    t.wrote \cap t.stale = {} =>
        /\ t.read <= m
        /\ \A r \in t.wrote \cap Req : MayWrite(d.req[r], t.new.req[r])
        /\ OrchRow \in t.wrote /\ t.new.orch.gate = "ok" =>
               \A r \in Req : ~Missed(IF r \in t.wrote THEN t.new.req ELSE d.req, r)

TxsOK == tx \in [Worker -> TxType] /\ \A w \in Worker : TxOK(tx[w], ids) /\ TxFits(tx[w], db, Len(events))

IInv ==
    /\ SpoolOK
    /\ DbOK(db, ids) /\ NoneMissed(db)
    /\ TxsOK
    /\ LetThroughIsOnRecord

----
(***************************************************************************)
(* Constants, and induction.                                               *)
(***************************************************************************)
LEMMA Consts ==
  /\ MaxReq \in Nat /\ MaxCalls \in Nat /\ MaxEvents \in Nat
  /\ Notices \subseteq Text /\ NoText \notin Text /\ Probe \notin Text /\ Probe # NoText
  BY OrchestratorAssumption

LEMMA RowFacts ==
  /\ OrchRow \in Row /\ RunnerRow \in Row /\ Req \subseteq Row /\ OrchRow \notin Req
  /\ RunnerRow \notin Req /\ RunnerRow # OrchRow /\ NoCall \notin Call
  BY Consts DEF Row, OrchRow, RunnerRow, Req, NoCall, Call

\* Induction, from the least element of a set of naturals, and the folds it gives.
LEMMA Induction ==
  ASSUME NEW S, 0 \in S, \A n \in Nat : n \in S => n + 1 \in S
  PROVE  Nat \subseteq S
<1> DEFINE T == Nat \ S
           R == {ss \in Nat \X Nat : ss[1] < ss[2]}
<1> SUFFICES ASSUME T # {} PROVE FALSE
  OBVIOUS
<1>1. IsWellFoundedOn(R, Nat)
  BY NatLessThanWellFounded, SMT DEF OpToRel
<1>2. PICK x \in T : \A y \in T : ~ (<<y, x>> \in R)
  <2> HIDE DEF R
  <2> QED BY <1>1, WFMin, Zenon
<1>3. x - 1 \in Nat /\ x - 1 < x /\ (x - 1) + 1 = x
  OBVIOUS
<1> QED BY <1>2, <1>3

Steps(W, N) == [W \X (1..N) -> W]
IsFold(f, W, a, N, step) == f \in [0..N -> W] /\ f[0] = a /\ \A i \in 1..N : f[i] = step[<<f[i - 1], i>>]

\* There is a fold of any step over any number of lines.
LEMMA FoldExists ==
  ASSUME NEW W, NEW a \in W, NEW N \in Nat, NEW step \in Steps(W, N)
  PROVE  \E f : IsFold(f, W, a, N, step)
<1> USE DEF Steps
<1> DEFINE Folds(f, n) == f[0] = a /\ \A i \in 1..n : f[i] = step[<<f[i - 1], i>>]
           S == {n \in Nat : n <= N => \E f \in [0..n -> W] : Folds(f, n)}
<1>1. 0 \in S
  <2>1. Folds([i \in 0..0 |-> a], 0) /\ [i \in 0..0 |-> a] \in [0..0 -> W]
    OBVIOUS
  <2> QED BY <2>1
<1>2. ASSUME NEW n \in Nat, n \in S PROVE n + 1 \in S
  <2> SUFFICES ASSUME n + 1 <= N PROVE \E f \in [0..(n + 1) -> W] : Folds(f, n + 1)
    OBVIOUS
  <2>1. PICK f \in [0..n -> W] : Folds(f, n)
    BY <1>2
  <2> DEFINE h == [i \in 0..(n + 1) |-> IF i = n + 1 THEN step[<<f[n], n + 1>>] ELSE f[i]]
  <2>2. f[n] \in W /\ n + 1 \in 1..N
    OBVIOUS
  <2>3. h \in [0..(n + 1) -> W]
    BY <2>2
  <2>4. h[0] = a
    BY <2>1
  <2>5. ASSUME NEW i \in 1..(n + 1) PROVE h[i] = step[<<h[i - 1], i>>]
    <3>1. CASE i = n + 1
      <4>1. h[n] = f[n] /\ i - 1 = n /\ h[i] = step[<<f[n], n + 1>>]
        BY <3>1
      <4> QED BY <3>1, <4>1
    <3>2. CASE i # n + 1
      <4>1. i \in 1..n /\ h[i] = f[i] /\ h[i - 1] = f[i - 1]
        BY <3>2
      <4> QED BY <2>1, <4>1
    <3> QED BY <3>1, <3>2
  <2> HIDE DEF h
  <2> QED BY <2>3, <2>4, <2>5
<1> HIDE DEF S
<1>3. N \in S
  BY <1>1, <1>2, Induction
<1> QED BY <1>3 DEF S, IsFold


\* Induction up to a bound.
LEMMA UpTo ==
  ASSUME NEW N \in Nat, NEW S, 0 \in S, \A n \in 0..(N - 1) : n \in S => n + 1 \in S
  PROVE  \A n \in 0..N : n \in S
<1> DEFINE U == {n \in Nat : n <= N => n \in S}
<1>1. 0 \in U
  OBVIOUS
<1>2. ASSUME NEW n \in Nat, n \in U PROVE n + 1 \in U
  BY <1>2
<1> HIDE DEF U
<1>3. Nat \subseteq U
  BY <1>1, <1>2, Induction
<1> QED BY <1>3 DEF U


\* What comes of one handler after another.
LEMMA Only == ASSUME NEW a PROVE (CHOOSE u \in {a} : TRUE) = a
  OBVIOUS

----
(***************************************************************************)
(* Handlers: a work is sound when its rows are, its commands are good, and *)
(* each request went on from what it was in b.                             *)
(***************************************************************************)
\* A request as a handler leaves it: it may be handed over or settled while it is
\* open, and its text stays.
Moved(a, b) == b = a \/ (a.state \in Open /\ b.text = a.text /\ b.state \in {"forwarded"} \cup Settled)
Follows(b, q) == \A r \in Req : Moved(b[r], q[r])

WorkType == [d : Database, out : Seq(GoodCmd), stamped : BOOLEAN, over : SUBSET Row]
Sound(w, b, n) == w \in WorkType /\ OrchOK(w.d.orch) /\ ReqOK(w.d.req, n) /\ Follows(b, w.d.req)

\* The parts of a work.
LEMMA WorkParts ==
  ASSUME NEW w \in WorkType
  PROVE  /\ w.d \in Database /\ w.d.orch \in Orch /\ w.d.req \in [Req -> Request]
         /\ w.d.observed \in SUBSET Notices
         /\ w.out \in Seq(GoodCmd) /\ w.stamped \in BOOLEAN /\ w.over \in SUBSET Row
         /\ w.d = [orch |-> w.d.orch, req |-> w.d.req, observed |-> w.d.observed]
         /\ w = [d |-> w.d, out |-> w.out, stamped |-> w.stamped, over |-> w.over]
  BY DEF WorkType, Database, Orch, Request

\* New requests, a new row of the relay, more commands.
SetReq(w, q) == [w EXCEPT !.d.req = q]
SetOrch(w, o) == [w EXCEPT !.d.orch = o]

LEMMA SetReqIs ==
  ASSUME NEW w \in WorkType, NEW q \in [Req -> Request]
  PROVE  /\ SetReq(w, q) \in WorkType /\ SetReq(w, q).d.req = q /\ SetReq(w, q).d.orch = w.d.orch
         /\ SetReq(w, q).d.observed = w.d.observed
         /\ SetReq(w, q).out = w.out /\ SetReq(w, q).stamped = w.stamped /\ SetReq(w, q).over = w.over
  BY DEF WorkType, Database, SetReq, Request

LEMMA SetOrchIs ==
  ASSUME NEW w \in WorkType, NEW o \in Orch
  PROVE  /\ SetOrch(w, o) \in WorkType /\ SetOrch(w, o).d.req = w.d.req /\ SetOrch(w, o).d.orch = o
         /\ SetOrch(w, o).d.observed = w.d.observed
         /\ SetOrch(w, o).out = w.out /\ SetOrch(w, o).stamped = w.stamped /\ SetOrch(w, o).over = w.over
  BY DEF WorkType, Database, SetOrch, Orch

LEMMA SubmitIs ==
  ASSUME NEW w \in WorkType, NEW cs \in Seq(GoodCmd)
  PROVE  /\ SubmitAll(w, cs) \in WorkType /\ SubmitAll(w, cs).d = w.d
         /\ SubmitAll(w, cs).out = w.out \o cs
         /\ SubmitAll(w, cs).stamped = w.stamped /\ SubmitAll(w, cs).over = w.over
<1> DEFINE S == Seq(GoodCmd)
           out == w.out \o cs
<1>1. w.out \in S
  BY WorkParts
<1>2. out \in S
  BY <1>1
<1> HIDE DEF S, out
<1>3. SubmitAll(w, cs) = [w EXCEPT !.out = out]
  BY DEF SubmitAll, out
<1>4. w \in [d : Database, out : S, stamped : BOOLEAN, over : SUBSET Row]
  BY DEF WorkType, S
<1>5. SubmitAll(w, cs) \in [d : Database, out : S, stamped : BOOLEAN, over : SUBSET Row]
  BY <1>2, <1>3, <1>4
<1> QED BY <1>3, <1>4, <1>5 DEF WorkType, S, out

\* Open requests that are handed over or settled.
Become1(w, R, s) == [r \in Req |-> IF r \in R THEN [w.d.req[r] EXCEPT !.state = s] ELSE w.d.req[r]]

LEMMA BecomeIs ==
  ASSUME NEW w \in WorkType, NEW R, NEW s \in {"forwarded"} \cup Settled
  PROVE  /\ Become(w, R, s) = SetReq(w, Become1(w, R, s))
         /\ Become1(w, R, s) \in [Req -> Request]
         /\ Become(w, R, s) \in WorkType
         /\ Become(w, R, s).d.req = Become1(w, R, s)
         /\ Become(w, R, s).d.orch = w.d.orch /\ Become(w, R, s).d.observed = w.d.observed
         /\ Become(w, R, s).out = w.out /\ Become(w, R, s).stamped = w.stamped /\ Become(w, R, s).over = w.over
<1>1. Become(w, R, s) = SetReq(w, Become1(w, R, s))
  BY DEF Become, SetReq, Become1
<1>2. Become1(w, R, s) \in [Req -> Request]
  <2>1. w.d.req \in [Req -> Request] /\ s \in {"none"} \cup Open \cup Settled
    BY WorkParts DEF Open
  <2>2. ASSUME NEW r \in Req PROVE [w.d.req[r] EXCEPT !.state = s] \in Request
    BY <2>1 DEF Request
  <2> QED BY <2>1, <2>2 DEF Become1
<1> QED BY <1>1, <1>2, SetReqIs

LEMMA BecomeSound ==
  ASSUME NEW w, NEW b, NEW n, Sound(w, b, n), NEW s \in {"forwarded"} \cup Settled, NEW R \in SUBSET Req,
         \A r \in R : w.d.req[r].state \in Open
  PROVE  /\ Sound(Become(w, R, s), b, n)
         /\ NoneMissed(w.d) => NoneMissed(Become(w, R, s).d)
         /\ \A r \in Req : Missed(Become(w, R, s).d.req, r) => Missed(w.d.req, r) /\ r \notin R
<1> DEFINE q == Become1(w, R, s)
           v == Become(w, R, s)
<1>1. w \in WorkType
  BY DEF Sound
<1>2. q \in [Req -> Request] /\ v \in WorkType /\ v.d.req = q /\ v.d.orch = w.d.orch
  BY <1>1, BecomeIs
<1>3. ASSUME NEW r \in Req
      PROVE  /\ r \in R => q[r].state = s /\ q[r].text = w.d.req[r].text
             /\ r \notin R => q[r] = w.d.req[r]
  <2>1. w.d.req[r] \in Request
    BY <1>1, WorkParts
  <2> QED BY <2>1 DEF Become1, Request
<1> HIDE DEF q, v
<1>4. ReqOK(q, n)
  BY <1>2, <1>3 DEF ReqOK, Sound, Open
<1>5. Follows(b, q)
  <2> SUFFICES ASSUME NEW r \in Req PROVE Moved(b[r], q[r])
    BY DEF Follows
  <2>1. Moved(b[r], w.d.req[r])
    BY DEF Sound, Follows
  <2>2. CASE r \in R
    <3>1. w.d.req[r].state \in Open /\ q[r].state = s /\ q[r].text = w.d.req[r].text
      BY <1>3, <2>2
    <3> QED BY <2>1, <3>1 DEF Moved
  <2>3. CASE r \notin R
    BY <1>3, <2>1, <2>3
  <2> QED BY <2>2, <2>3
<1>6. \A r \in Req : Missed(q, r) => Missed(w.d.req, r) /\ r \notin R
  <2> TAKE r \in Req
  <2>1. s # "queued"
    BY DEF Settled
  <2> QED BY <1>3, <2>1 DEF Missed
<1>7. Sound(v, b, n)
  BY <1>2, <1>4, <1>5 DEF Sound
<1>8. NoneMissed(w.d) => NoneMissed(v.d)
  BY <1>2, <1>6 DEF NoneMissed
<1> QED BY <1>2, <1>6, <1>7, <1>8 DEF v

\* A work that is sound and misses no message.
Fine(w, b, n) == Sound(w, b, n) /\ NoneMissed(w.d)

LEMMA BecomeFine ==
  ASSUME NEW w, NEW b, NEW n, Fine(w, b, n), NEW s \in {"forwarded"} \cup Settled, NEW R \in SUBSET Req,
         \A r \in R : w.d.req[r].state \in Open
  PROVE  /\ Fine(Become(w, R, s), b, n)
         /\ Become(w, R, s).d.orch = w.d.orch
         /\ Become(w, R, s).stamped = w.stamped /\ Become(w, R, s).over = w.over
<1>1. w \in WorkType
  BY DEF Fine, Sound
<1>2. Sound(Become(w, R, s), b, n) /\ NoneMissed(Become(w, R, s).d)
  BY BecomeSound DEF Fine
<1> QED BY <1>1, <1>2, BecomeIs DEF Fine

LEMMA OrchSound ==
  ASSUME NEW w, NEW b, NEW n, Sound(w, b, n), NEW o, OrchOK(o)
  PROVE  /\ Sound(SetOrch(w, o), b, n)
         /\ o.gate # "ok" \/ (NoneMissed(w.d) /\ o.gate = w.d.orch.gate) => Fine(SetOrch(w, o), b, n)
         /\ SetOrch(w, o).d.req = w.d.req /\ SetOrch(w, o).d.orch = o
         /\ SetOrch(w, o).stamped = w.stamped /\ SetOrch(w, o).over = w.over
<1>1. w \in WorkType /\ o \in Orch
  BY DEF Sound, OrchOK
<1>2. /\ SetOrch(w, o) \in WorkType /\ SetOrch(w, o).d.req = w.d.req /\ SetOrch(w, o).d.orch = o
      /\ SetOrch(w, o).stamped = w.stamped /\ SetOrch(w, o).over = w.over
  BY <1>1, SetOrchIs
<1> QED BY <1>2 DEF Sound, Fine, NoneMissed, Missed

\* The stamp, and what waited too long.
Mark(w, s, o) == [w EXCEPT !.stamped = s, !.over = o]
LEMMA MarkFine ==
  ASSUME NEW w, NEW b, NEW n, Sound(w, b, n), NEW s \in BOOLEAN, NEW o \in SUBSET Row
  PROVE  /\ Sound(Mark(w, s, o), b, n)
         /\ Mark(w, s, o).d = w.d /\ Mark(w, s, o).stamped = s /\ Mark(w, s, o).over = o
<1>1. w \in WorkType
  BY DEF Sound
<1>2. /\ Mark(w, s, o) \in WorkType
      /\ Mark(w, s, o).d = w.d /\ Mark(w, s, o).stamped = s /\ Mark(w, s, o).over = o
  BY <1>1 DEF WorkType, Mark
<1> QED BY <1>2 DEF Sound

LEMMA SubmitSound ==
  ASSUME NEW w, NEW b, NEW n, Sound(w, b, n), NEW cs \in Seq(GoodCmd)
  PROVE  /\ Sound(SubmitAll(w, cs), b, n) /\ SubmitAll(w, cs).d = w.d
         /\ SubmitAll(w, cs).stamped = w.stamped /\ SubmitAll(w, cs).over = w.over
<1>1. w \in WorkType
  BY DEF Sound
<1>2. /\ SubmitAll(w, cs) \in WorkType /\ SubmitAll(w, cs).d = w.d
      /\ SubmitAll(w, cs).stamped = w.stamped /\ SubmitAll(w, cs).over = w.over
  BY <1>1, SubmitIs
<1> QED BY <1>2 DEF Sound

LEMMA CommandGood ==
  ASSUME NEW op \in Ops, NEW text \in Text \cup {NoText}, NEW p \in Call \cup {NoCall},
         op = "allow" => Made(p) /\ OnRecord(call[p].what)
  PROVE  Command(op, text, p) \in GoodCmd
  BY DEF Command, GoodCmd, Cmd, Rows

LEMMA SubmitFine ==
  ASSUME NEW w, NEW b, NEW n, Sound(w, b, n), NEW op \in Ops, NEW p \in Call \cup {NoCall},
         op = "allow" => Made(p) /\ OnRecord(call[p].what)
  PROVE  /\ Sound(Submit(w, op, p), b, n) /\ Submit(w, op, p).d = w.d
         /\ Submit(w, op, p).stamped = w.stamped /\ Submit(w, op, p).over = w.over
<1>1. Command(op, NoText, p) \in GoodCmd
  BY CommandGood
<1> DEFINE c == Command(op, NoText, p)
<1> HIDE DEF c
<1>2. <<c>> \in Seq(GoodCmd)
  BY <1>1 DEF c
<1>3. Submit(w, op, p) = SubmitAll(w, <<c>>)
  BY DEF Submit, c
<1> QED BY <1>2, <1>3, SubmitSound

\* The requests of a set that a work hands over, as good commands.
LEMMA HandedGood ==
  ASSUME NEW w \in WorkType, NEW R
  PROVE  Handed(w, R) \in Seq(GoodCmd)
<1> DEFINE N == MaxReq
           W == Seq(GoodCmd)
           C(r) == Command("forward", w.d.req[r].text, NoCall)
           F(f) == [r \in 0..N |-> IF r = 0 THEN <<>>
                                   ELSE IF r \in R THEN Append(f[r - 1], C(r)) ELSE f[r - 1]]
           c == CHOOSE f : f = F(f)
           step == [p \in W \X (1..N) |-> IF p[2] \in R THEN Append(p[1], C(p[2])) ELSE p[1]]
<1>1. N \in Nat
  BY Consts
<1>2. ASSUME NEW r \in 1..N PROVE C(r) \in GoodCmd
  <2>1. w.d.req[r].text \in Text \cup {NoText}
    BY WorkParts DEF Req, Request
  <2>2. "forward" \in Ops /\ "forward" # "allow" /\ NoCall \in Call \cup {NoCall}
    BY DEF Ops
  <2> QED BY <2>1, <2>2, CommandGood
<1> HIDE DEF C
<1>3. step \in Steps(W, N)
  <2>1. ASSUME NEW p \in W \X (1..N)
        PROVE  (IF p[2] \in R THEN Append(p[1], C(p[2])) ELSE p[1]) \in W
    <3>1. p[1] \in W /\ p[2] \in 1..N
      OBVIOUS
    <3>2. C(p[2]) \in GoodCmd
      BY <1>2, <3>1
    <3> QED BY <3>1, <3>2
  <2> QED BY <2>1 DEF Steps
<1>4. \E f : IsFold(f, W, <<>>, N, step)
  <2>1. <<>> \in W
    OBVIOUS
  <2> HIDE DEF W, N, step
  <2> QED BY <1>1, <1>3, <2>1, FoldExists
<1>5. PICK f : IsFold(f, W, <<>>, N, step)
  BY <1>4
<1>6. f \in [0..N -> W] /\ f[0] = <<>> /\ \A i \in 1..N : f[i] = step[<<f[i - 1], i>>]
  BY <1>5, Zenon DEF IsFold
<1>7. \A i \in 1..N : f[i] = IF i \in R THEN Append(f[i - 1], C(i)) ELSE f[i - 1]
  <2> TAKE i \in 1..N
  <2>1. i - 1 \in 0..N
    BY <1>1
  <2>2. f[i - 1] \in W
    BY <1>6, <2>1
  <2> QED BY <1>6, <2>2
<1> HIDE DEF step
<1>8. f = F(f)
  <2> HIDE DEF W
  <2>1. ASSUME NEW n \in 0..N PROVE f[n] = F(f)[n]
    <3>1. CASE n = 0
      BY <1>6, <3>1
    <3>2. CASE n # 0
      <4>1. n \in 1..N
        BY <1>1, <3>2
      <4> QED BY <1>7, <3>2, <4>1
    <3> QED BY <3>1, <3>2
  <2>2. f = [n \in 0..N |-> f[n]] /\ F(f) = [n \in 0..N |-> F(f)[n]]
    BY <1>6
  <2> HIDE DEF F
  <2> QED BY <2>1, <2>2
<1>9. c = F(c)
  <2> HIDE DEF F
  <2> QED BY <1>8
<1>10. Handed(w, R) = c[N]
  BY Zenon DEF Handed, C
<1> HIDE DEF c
<1> DEFINE S == {n \in 0..N : c[n] \in W}
<1>11. 0 \in S
  BY <1>1, <1>9
<1>12. ASSUME NEW n \in 0..(N - 1), n \in S PROVE n + 1 \in S
  <2>1. n + 1 \in 0..N /\ n + 1 # 0 /\ (n + 1) - 1 = n /\ n + 1 \in 1..N
    BY <1>1
  <2>2. c[n + 1] = IF n + 1 \in R THEN Append(c[n], C(n + 1)) ELSE c[n]
    BY <1>9, <2>1
  <2>3. c[n] \in W /\ C(n + 1) \in GoodCmd
    BY <1>2, <1>12, <2>1
  <2>4. c[n + 1] \in W
    BY <2>2, <2>3
  <2> HIDE DEF W, N
  <2> QED BY <2>1, <2>4
<1> HIDE DEF S
<1>13. \A n \in 0..N : n \in S
  <2> HIDE DEF N
  <2> QED BY <1>1, <1>11, <1>12, UpTo
<1>14. N \in S
  BY <1>1, <1>13
<1> QED BY <1>10, <1>14 DEF S

LEMMA ForwardFine ==
  ASSUME NEW w, NEW b, NEW n, Sound(w, b, n), NEW R \in SUBSET Req, \A r \in R : w.d.req[r].state \in Open
  PROVE  /\ Sound(Forward(w, R), b, n)
         /\ NoneMissed(w.d) => NoneMissed(Forward(w, R).d)
         /\ Forward(w, R).d.orch = w.d.orch
         /\ \A r \in Req : Missed(Forward(w, R).d.req, r) => Missed(w.d.req, r) /\ r \notin R
<1> DEFINE v == SubmitAll(w, Handed(w, R))
<1>1. w \in WorkType
  BY DEF Sound
<1>2. Sound(v, b, n) /\ v.d = w.d
  BY <1>1, HandedGood, SubmitSound
<1>3. Forward(w, R) = Become(v, R, "forwarded")
  BY DEF Forward
<1> HIDE DEF v
<1>4. "forwarded" \in {"forwarded"} \cup Settled /\ v \in WorkType /\ \A r \in R : v.d.req[r].state \in Open
  BY <1>2 DEF Sound
<1>5. /\ Sound(Become(v, R, "forwarded"), b, n)
      /\ NoneMissed(v.d) => NoneMissed(Become(v, R, "forwarded").d)
      /\ \A r \in Req : Missed(Become(v, R, "forwarded").d.req, r) => Missed(v.d.req, r) /\ r \notin R
  BY <1>2, <1>4, BecomeSound
<1>6. Become(v, R, "forwarded").d.orch = v.d.orch
  BY <1>4, BecomeIs
<1> QED BY <1>2, <1>3, <1>5, <1>6

\* A process that stopped.
LEMMA StoppedFine ==
  ASSUME NEW w, NEW b, NEW n, Sound(w, b, n)
  PROVE  Fine(SetStopped(w), b, n)
<1> DEFINE v == SetOrch(w, EmptyDb.orch)
           R == In(w, Open)
<1>1. OrchOK(EmptyDb.orch) /\ EmptyDb.orch.gate # "ok"
  BY DEF OrchOK, Orch, EmptyDb
<1>2. Fine(v, b, n) /\ v.d.req = w.d.req
  BY <1>1, OrchSound
<1>3. SetStopped(w) = Become(v, R, "failed")
  BY DEF SetStopped, SetOrch
<1>4. R \in SUBSET Req /\ \A r \in R : v.d.req[r].state \in Open
  BY <1>2 DEF In
<1> HIDE DEF v, R
<1> QED BY <1>2, <1>3, <1>4, BecomeFine DEF Settled

\* A late test, and what waited too long: the relay's row either stays or has
\* its gate broken.
LateOrch(w) == IF ~w.d.orch.test \/ Test \notin w.over THEN w.d.orch ELSE [w.d.orch EXCEPT !.test = FALSE, !.gate = "broken"]

LEMMA LateTestFine ==
  ASSUME NEW w, NEW b, NEW n, Fine(w, b, n)
  PROVE  /\ Fine(LateTest(w), b, n)
         /\ LateTest(w).d.orch = LateOrch(w)
         /\ \A r \in Req : w.d.req[r].state = "forwarded" => LateTest(w).d.req[r].state = "forwarded"
<1> DEFINE o == [w.d.orch EXCEPT !.test = FALSE, !.gate = "broken"]
           v == SetOrch(w, o)
           R == In(w, {"queued"})
<1>1. Sound(w, b, n) /\ w \in WorkType /\ w.d.orch \in Orch /\ OrchOK(w.d.orch)
  BY WorkParts DEF Fine, Sound
<1>2. CASE ~w.d.orch.test \/ Test \notin w.over
  BY <1>2 DEF LateTest, LateOrch
<1>3. CASE w.d.orch.test /\ Test \in w.over
  <2>1. OrchOK(o) /\ o.gate # "ok"
    <3>1. EmptyDb.orch.test = FALSE
      BY DEF EmptyDb
    <3>2. w.d.orch.runtime # "stopped"
      BY <1>1, <1>3, <3>1 DEF OrchOK
    <3>3. o \in Orch /\ o.test = FALSE /\ o.gate = "broken" /\ o.runtime = w.d.orch.runtime
      BY <1>1 DEF Orch
    <3> HIDE DEF o
    <3> QED BY <3>2, <3>3 DEF OrchOK
  <2> HIDE DEF o
  <2>2. Fine(v, b, n) /\ v.d.req = w.d.req /\ v.d.orch = o
    BY <1>1, <2>1, OrchSound
  <2>3. LateTest(w) = Become(v, R, "failed")
    BY <1>3 DEF LateTest, SetOrch, o
  <2>4. R \in SUBSET Req /\ \A r \in R : v.d.req[r].state \in Open
    BY <2>2 DEF In, Open
  <2>5. \A r \in Req : w.d.req[r].state = "forwarded" => r \notin R
    BY DEF In
  <2> HIDE DEF v, R
  <2>6. Fine(Become(v, R, "failed"), b, n) /\ Become(v, R, "failed").d.orch = o
    BY <2>2, <2>4, BecomeFine DEF Settled
  <2>7. Become(v, R, "failed").d.req = Become1(v, R, "failed")
    BY <2>2, BecomeIs DEF Fine, Sound, Settled
  <2> QED BY <1>3, <2>2, <2>3, <2>5, <2>6, <2>7 DEF LateOrch, Become1, o
<1> QED BY <1>2, <1>3

LEMMA CatchUpFine ==
  ASSUME NEW w, NEW b, NEW n, Fine(w, b, n)
  PROVE  Fine(CatchUp(w), b, n) /\ CatchUp(w).d.orch = LateOrch(w)
<1> DEFINE Late(v) == Become(LateTest(v), In(v, {"forwarded"}) \cap v.over, "failed")
           R == In(w, {"forwarded"}) \cap w.over
<1>1. CatchUp(w) = Late(w)
  <2>1. CatchUp(w) = CHOOSE u \in {Late(v) : v \in {w}} : TRUE
    BY DEF CatchUp, Then
  <2>2. {Late(v) : v \in {w}} = {Late(w)}
    <3> HIDE DEF Late
    <3> QED OBVIOUS
  <2> HIDE DEF Late
  <2> QED BY <2>1, <2>2, Only, Zenon
<1>2. Fine(LateTest(w), b, n) /\ LateTest(w).d.orch = LateOrch(w)
  BY LateTestFine
<1>3. \A r \in R : r \in Req /\ LateTest(w).d.req[r].state \in Open
  BY LateTestFine DEF In, Open
<1>4. R \in SUBSET Req
  BY <1>3
<1> DEFINE v == LateTest(w)
<1> HIDE DEF R, v
<1>5. Fine(Become(v, R, "failed"), b, n) /\ Become(v, R, "failed").d.orch = v.d.orch
  BY <1>2, <1>3, <1>4, BecomeFine DEF Settled, v
<1> QED BY <1>1, <1>2, <1>5 DEF R, v

\* A start leaves the relay's session stamped, unless its row changed: the gate
\* of one whose gate was not good is not good afterwards.
LEMMA TestedFine ==
  ASSUME NEW w, NEW b, NEW n, Sound(w, b, n)
  PROVE  /\ Fine(Tested(w), b, n) /\ Tested(w).d.orch.gate = "testing"
         /\ Test \notin Tested(w).over
<1> DEFINE o == [gate |-> "testing", runtime |-> "up", test |-> TRUE]
           v == SetOrch(w, o)
           u == Mark(v, v.stamped, w.over \ {Test})
           op == IF Up(w) THEN "probe" ELSE "start"
<1>1. OrchOK(o) /\ o.gate # "ok" /\ o.gate = "testing"
  BY DEF OrchOK, Orch, EmptyDb
<1> HIDE DEF o
<1>2. Sound(v, b, n) /\ v.d.orch = o /\ v.over = w.over /\ v \in WorkType
  BY <1>1, OrchSound DEF Sound
<1>3. v.stamped \in BOOLEAN /\ w.over \ {Test} \in SUBSET Row
  BY <1>2, WorkParts
<1>4. Sound(u, b, n) /\ u.d = v.d /\ u.over = w.over \ {Test}
  <2> HIDE DEF v
  <2> QED BY <1>2, <1>3, MarkFine
<1>5. Tested(w) = Submit(u, op, NoCall)
  <2>1. u = [w EXCEPT !.d.orch = o, !.over = @ \ {Test}]
    BY <1>2 DEF SetOrch, Mark, WorkType, Sound
  <2> HIDE DEF u
  <2> QED BY <2>1 DEF Tested, o
<1>6. op \in Ops /\ op # "allow" /\ NoCall \in Call \cup {NoCall}
  BY DEF Ops
<1> HIDE DEF u, op, v
<1>7. Sound(Submit(u, op, NoCall), b, n) /\ Submit(u, op, NoCall).d = u.d /\ Submit(u, op, NoCall).over = u.over
  BY <1>4, <1>6, SubmitFine
<1> QED BY <1>1, <1>2, <1>4, <1>5, <1>7 DEF Fine, NoneMissed

LEMMA StampedFine ==
  ASSUME NEW w, NEW b, NEW n, Fine(w, b, n)
  PROVE  /\ Fine(Stamped(w), b, n) /\ Stamped(w).d = w.d
         /\ Stamped(w).stamped = (w.d.orch.gate = "testing")
<1>1. Sound(w, b, n) /\ w \in WorkType
  BY DEF Fine, Sound
<1>2. w.over \in SUBSET Row /\ (w.d.orch.gate = "testing") \in BOOLEAN
  BY <1>1, WorkParts
<1> DEFINE s == w.d.orch.gate = "testing"
<1>3. Stamped(w) = Mark(w, s, w.over)
  BY <1>1 DEF Stamped, Mark, WorkType
<1>4. s \in BOOLEAN
  OBVIOUS
<1> HIDE DEF s
<1>5. Sound(Mark(w, s, w.over), b, n) /\ Mark(w, s, w.over).d = w.d /\ Mark(w, s, w.over).stamped = s
  BY <1>1, <1>2, <1>4, MarkFine
<1> QED BY <1>3, <1>5 DEF Fine, s

\* What a start did to the relay's row is seen by another transaction.
Marked(w, o) == w.stamped \/ w.d.orch # o

LEMMA StartFine ==
  ASSUME NEW w, NEW b, NEW n, Fine(w, b, n)
  PROVE  /\ Fine(StartRelay(w), b, n)
         /\ ~Ready(w) => Marked(StartRelay(w), w.d.orch) /\ StartRelay(w).d.orch.gate # "ok"
<1> DEFINE idle == Up(w) /\ w.d.orch.gate \in {"ok", "testing"}
           v == IF idle THEN w ELSE Tested(w)
           u == CatchUp(v)
<1>1. StartRelay(w) = Stamped(u)
  <2>1. StartRelay(w) = Then(Then(v, CatchUp), Stamped)
    BY DEF StartRelay
  <2> HIDE DEF v, u, idle
  <2>2. Then(v, CatchUp) = u
    <3>1. {CatchUp(x) : x \in {v}} = {u}
      BY DEF u
    <3> QED BY <3>1, Only, Zenon DEF Then
  <2>3. Then(u, Stamped) = Stamped(u)
    <3>1. {Stamped(x) : x \in {u}} = {Stamped(u)}
      OBVIOUS
    <3> QED BY <3>1, Only, Zenon DEF Then
  <2> QED BY <2>1, <2>2, <2>3
<1>2. Fine(v, b, n)
  BY TestedFine DEF Fine
<1> HIDE DEF v
<1>3. Fine(u, b, n) /\ u.d.orch = LateOrch(v)
  BY <1>2, CatchUpFine
<1> HIDE DEF u
<1>4. Fine(Stamped(u), b, n) /\ Stamped(u).d = u.d /\ Stamped(u).stamped = (u.d.orch.gate = "testing")
  BY <1>3, StampedFine
<1>5. v \in WorkType /\ w \in WorkType /\ OrchOK(w.d.orch) /\ v.d.orch \in Orch /\ w.d.orch \in Orch
  BY <1>2, WorkParts DEF Fine, Sound
<1>6. ASSUME ~Ready(w) PROVE Marked(Stamped(u), w.d.orch) /\ u.d.orch.gate # "ok"
  <2>1. CASE idle
    <3>1. v = w /\ w.d.orch.gate = "testing"
      BY <1>6, <2>1 DEF v, Ready, GateOk
    <3>2. u.d.orch = w.d.orch \/ u.d.orch.gate = "broken"
      BY <1>3, <1>5, <3>1 DEF LateOrch, Orch
    <3> QED BY <1>4, <3>1, <3>2 DEF Marked
  <2>2. CASE ~idle
    <3>1. v.d.orch.gate = "testing" /\ Test \notin v.over
      BY <2>2, TestedFine DEF v, Fine
    <3>2. u.d.orch = v.d.orch
      BY <1>3, <3>1 DEF LateOrch
    <3> QED BY <1>4, <3>1, <3>2 DEF Marked
  <2> QED BY <2>1, <2>2
<1> QED BY <1>1, <1>4, <1>6

LEMMA StopRelayFine ==
  ASSUME NEW w, NEW b, NEW n, Fine(w, b, n), NEW op \in {"stop", "deny"}, NEW p \in Call \cup {NoCall}
  PROVE  Fine(Submit(w, op, p), b, n)
<1>1. Sound(w, b, n) /\ op \in Ops /\ op # "allow"
  BY DEF Fine, Ops
<1>2. Sound(Submit(w, op, p), b, n) /\ Submit(w, op, p).d = w.d
  BY <1>1, SubmitFine
<1> QED BY <1>2 DEF Fine

\* The supervisor.
LEMMA SuperviseFine ==
  ASSUME NEW w, NEW b, NEW n, Fine(w, b, n), NEW need \in BOOLEAN
  PROVE  Fine(SuperviseRelay(w, need), b, n)
<1> DEFINE v == IF Up(w) THEN CatchUp(w) ELSE w
           Keep(x) == IF need THEN KeepUp(x) ELSE x
<1>1. SuperviseRelay(w, need) = Keep(v)
  <2>1. SuperviseRelay(w, need) = CHOOSE u \in {Keep(x) : x \in {v}} : TRUE
    BY DEF SuperviseRelay, Then
  <2>2. {Keep(x) : x \in {v}} = {Keep(v)}
    <3> HIDE DEF Keep, v
    <3> QED OBVIOUS
  <2> HIDE DEF Keep, v
  <2> QED BY <2>1, <2>2, Only, Zenon
<1>2. Fine(v, b, n)
  BY CatchUpFine
<1> HIDE DEF v
<1>3. NoCall \in Call \cup {NoCall}
  OBVIOUS
<1>4. Fine(Submit(v, "stop", NoCall), b, n) /\ Fine(StartRelay(v), b, n)
  BY <1>2, <1>3, StopRelayFine, StartFine
<1>5. Fine(KeepUp(v), b, n)
  BY <1>2, <1>4 DEF KeepUp
<1> QED BY <1>1, <1>2, <1>5

\* A request that is new.
NewRow(q, r, text, s) == [q EXCEPT ![r] = [text |-> text, state |-> s]]
WithRow(w, r, text, s) == [w EXCEPT !.d.req[r] = [text |-> text, state |-> s]]

LEMMA NewRowSound ==
  ASSUME NEW w \in WorkType, NEW n \in Nat, DbOK(w.d, n), n + 1 \in Req,
         NEW text \in Text, NEW s \in {"queued", "failed"}
  PROVE  /\ Sound(WithRow(w, n + 1, text, s), NewRow(w.d.req, n + 1, text, s), n + 1)
         /\ WithRow(w, n + 1, text, s).d.req = NewRow(w.d.req, n + 1, text, s)
         /\ WithRow(w, n + 1, text, s).d.orch = w.d.orch
         /\ NewRow(w.d.req, n + 1, text, s) \in [Req -> Request]
         /\ NewRow(w.d.req, n + 1, text, s)[n + 1] = [text |-> text, state |-> s]
         /\ \A r \in Req \ {n + 1} : NewRow(w.d.req, n + 1, text, s)[r] = w.d.req[r]
<1> DEFINE x == [text |-> text, state |-> s]
           q == NewRow(w.d.req, n + 1, text, s)
           v == WithRow(w, n + 1, text, s)
<1>1. x \in Request /\ x.state # "none" /\ x.text \in Text
  BY DEF Request, Open, Settled
<1> HIDE DEF x
<1>2. w.d.req \in [Req -> Request]
  BY WorkParts
<1>3. q = [w.d.req EXCEPT ![n + 1] = x]
  BY DEF NewRow, x
<1>4. q \in [Req -> Request] /\ q[n + 1] = x /\ \A r \in Req \ {n + 1} : q[r] = w.d.req[r]
  BY <1>1, <1>2, <1>3
<1> HIDE DEF q
<1>5. v = SetReq(w, q)
  BY <1>3 DEF SetReq, WithRow, x
<1> HIDE DEF v
<1>6. v \in WorkType /\ v.d.req = q /\ v.d.orch = w.d.orch
  BY <1>4, <1>5, SetReqIs
<1>7. ReqOK(q, n + 1)
  <2> SUFFICES ASSUME NEW r \in Req, q[r].state # "none" PROVE r <= n + 1 /\ q[r].text \in Text
    BY <1>4 DEF ReqOK
  <2>1. r \in Nat
    BY DEF Req
  <2>2. CASE r = n + 1
    BY <1>1, <1>4, <2>2
  <2>3. CASE r # n + 1
    <3>1. q[r] = w.d.req[r]
      BY <1>4, <2>3
    <3>2. r <= n /\ w.d.req[r].text \in Text
      BY <3>1 DEF DbOK, ReqOK
    <3> QED BY <2>1, <3>1, <3>2
  <2> QED BY <2>2, <2>3
<1>8. Follows(q, q)
  BY DEF Follows, Moved
<1>9. Sound(v, q, n + 1)
  BY <1>6, <1>7, <1>8 DEF Sound, DbOK
<1> QED BY <1>4, <1>6, <1>9 DEF q, v, x

\* A relay that is not ready has no good gate.
LEMMA NotReady ==
  ASSUME NEW w, OrchOK(w.d.orch), ~Ready(w)
  PROVE  w.d.orch.gate # "ok"
  BY DEF OrchOK, Ready, GateOk, Up, EmptyDb

\* A request is queued: it is handed over when the relay is ready.
LEMMA QueueFine ==
  ASSUME NEW w \in WorkType, NEW n \in Nat, DbOK(w.d, n), NoneMissed(w.d), n + 1 \in Req, NEW text \in Text
  PROVE  /\ Fine(Queue(w, n + 1, text), NewRow(w.d.req, n + 1, text, "queued"), n + 1)
         /\ Queue(w, n + 1, text).d.orch = w.d.orch
         /\ Ready(w) => \A r \in Req : ~Missed(Queue(w, n + 1, text).d.req, r)
<1> DEFINE q == NewRow(w.d.req, n + 1, text, "queued")
           v == WithRow(w, n + 1, text, "queued")
           u == Queue(w, n + 1, text)
           Op(x) == IF Ready(x) THEN Forward(x, {n + 1}) ELSE x
<1>1. u = Op(v)
  <2>1. u = CHOOSE y \in {Op(x) : x \in {v}} : TRUE
    BY DEF Queue, Then, WithRow
  <2>2. {Op(x) : x \in {v}} = {Op(v)}
    <3> HIDE DEF Op, v
    <3> QED OBVIOUS
  <2> HIDE DEF Op, v, u
  <2> QED BY <2>1, <2>2, Only, Zenon
<1>2. /\ Sound(v, q, n + 1) /\ v.d.req = q /\ v.d.orch = w.d.orch
      /\ q[n + 1] = [text |-> text, state |-> "queued"]
      /\ \A r \in Req \ {n + 1} : q[r] = w.d.req[r]
  BY NewRowSound
<1>3. Ready(v) = Ready(w) /\ OrchOK(w.d.orch)
  BY <1>2 DEF Ready, GateOk, Up, DbOK
<1> HIDE DEF v, u, q
<1>4. CASE ~Ready(w)
  <2>1. w.d.orch.gate # "ok"
    BY <1>3, <1>4, NotReady
  <2> QED BY <1>1, <1>2, <1>3, <1>4, <2>1 DEF Fine, NoneMissed, v, u, q
<1>5. CASE Ready(w)
  <2>1. {n + 1} \in SUBSET Req /\ \A r \in {n + 1} : v.d.req[r].state \in Open
    BY <1>2 DEF Open
  <2>2. u = Forward(v, {n + 1})
    BY <1>1, <1>3, <1>5
  <2>3. /\ Sound(u, q, n + 1) /\ u.d.orch = v.d.orch
        /\ \A r \in Req : Missed(u.d.req, r) => Missed(v.d.req, r) /\ r \notin {n + 1}
    BY <1>2, <2>1, <2>2, ForwardFine
  <2>4. \A r \in Req : ~Missed(w.d.req, r)
    BY <1>5 DEF NoneMissed, Ready, GateOk
  <2>5. \A r \in Req : ~Missed(u.d.req, r)
    <3> SUFFICES ASSUME NEW r \in Req, Missed(u.d.req, r) PROVE FALSE
      OBVIOUS
    <3>1. Missed(q, r) /\ r # n + 1
      BY <1>2, <2>3
    <3>2. q[r] = w.d.req[r]
      BY <1>2, <3>1
    <3> QED BY <2>4, <3>1, <3>2 DEF Missed
  <2> QED BY <1>2, <2>3, <2>5 DEF Fine, NoneMissed, u, q
<1> QED BY <1>4, <1>5

----
(***************************************************************************)
(* The events.                                                             *)
(***************************************************************************)
\* A call is let through as a request that is on record.
LEMMA GateFine ==
  ASSUME NEW w, NEW p \in Call \cup {NoCall}, Fine(w, db.req, ids), call \in Calls0, p # NoCall => Made(p)
  PROVE  Fine(Gate(w, p), db.req, ids)
<1> DEFINE b == db.req
           text == IF p = NoCall THEN Probe ELSE call[p].what
           with == In(w, {"forwarded"})
           match == Match(w, text)
           deny == Submit(w, "deny", p)
<1>1. Sound(w, b, ids) /\ w \in WorkType /\ w.d.req \in [Req -> Request] /\ OrchOK(w.d.orch) /\ w.d.orch \in Orch
  BY WorkParts DEF Fine, Sound
<1>2. Fine(deny, b, ids) /\ deny.d = w.d
  <2>1. Sound(deny, b, ids) /\ deny.d = w.d
    BY <1>1, SubmitFine DEF Ops
  <2> QED BY <2>1 DEF Fine
<1>3. with \in SUBSET Req /\ match \in SUBSET with /\ \A r \in with : w.d.req[r].state = "forwarded"
  BY DEF In, Match
<1>4. ASSUME NEW R, R \in SUBSET with, R # {} PROVE Lowest(R) \in R
  <2>1. R \subseteq Nat
    BY <1>3, <1>4 DEF Req
  <2>2. \E r \in R : \A s \in R : r <= s
    <3> DEFINE Less == {ss \in Nat \X Nat : ss[1] < ss[2]}
    <3>1. IsWellFoundedOn(Less, Nat)
      BY NatLessThanWellFounded, SMT DEF OpToRel
    <3>2. PICK x \in R : \A y \in R : ~ (<<y, x>> \in Less)
      <4> HIDE DEF Less
      <4> QED BY <1>4, <2>1, <3>1, WFMin, Zenon
    <3> SUFFICES ASSUME NEW s \in R PROVE x <= s
      BY <2>1
    <3>3. x \in Nat /\ s \in Nat /\ ~(<<s, x>> \in Less)
      BY <2>1, <3>2
    <3> QED BY <3>3
  <2> QED BY <2>2 DEF Lowest
<1>5. CASE text = Probe
  <2> DEFINE o == [w.d.orch EXCEPT !.test = FALSE]
             o2 == [o EXCEPT !.gate = "ok"]
             v == SetOrch(deny, o)
             x == SetOrch(deny, o2)
             R == In(v, {"queued"})
  <2>1. CASE ~w.d.orch.test
    BY <1>2, <1>5, <2>1 DEF Gate
  <2>2. CASE w.d.orch.test
    <3>1. EmptyDb.orch.test = FALSE /\ w.d.orch.gate = "testing"
      BY <1>1, <2>2 DEF EmptyDb, OrchOK
    <3>2. w.d.orch.runtime # "stopped"
      BY <1>1, <2>2, <3>1 DEF OrchOK
    <3>3. /\ o \in Orch /\ o.test = FALSE /\ o.gate = "testing" /\ o.runtime # "stopped"
          /\ o2 \in Orch /\ o2.test = FALSE /\ o2.gate = "ok" /\ o2.runtime # "stopped"
      BY <1>1, <3>1, <3>2 DEF Orch
    <3>4. OrchOK(o) /\ OrchOK(o2)
      BY <3>3 DEF OrchOK
    <3>5. v = [deny EXCEPT !.d.orch.test = FALSE] /\ x = [v EXCEPT !.d.orch.gate = "ok"]
      <4> HIDE DEF deny
      <4>1. deny \in WorkType /\ deny.d.orch = w.d.orch
        BY <1>2 DEF Fine, Sound
      <4>2. deny.d = [orch |-> deny.d.orch, req |-> deny.d.req, observed |-> deny.d.observed]
        BY <4>1, WorkParts
      <4>3. deny = [d |-> deny.d, out |-> deny.out, stamped |-> deny.stamped, over |-> deny.over]
        BY <4>1, WorkParts
      <4> QED BY <4>1, <4>2, <4>3 DEF SetOrch
    <3> HIDE DEF o, o2, deny
    <3>6. Sound(v, b, ids) /\ v.d.orch = o /\ v.d.req = w.d.req
      BY <1>2, <3>4, OrchSound DEF Fine
    <3>7. Sound(x, b, ids) /\ x.d.orch = o2 /\ x.d.req = w.d.req
      BY <1>2, <3>4, OrchSound DEF Fine
    <3> HIDE DEF v, x
    <3>8. R \in SUBSET Req /\ \A r \in R : x.d.req[r].state \in Open
      BY <3>6, <3>7 DEF In, Open
    <3>9. /\ Sound(Forward(x, R), b, ids)
          /\ \A r \in Req : Missed(Forward(x, R).d.req, r) => Missed(x.d.req, r) /\ r \notin R
      BY <3>7, <3>8, ForwardFine
    <3>10. \A r \in Req : ~Missed(Forward(x, R).d.req, r)
      BY <3>6, <3>7, <3>9 DEF Missed, In
    <3>11. Gate(w, p) = Forward(x, R)
      <4>1. v.d.orch.gate = "testing"
        BY <3>3, <3>6
      <4> HIDE DEF R
      <4> QED BY <1>5, <2>2, <3>5, <4>1 DEF Gate, R, deny
    <3> QED BY <3>9, <3>10, <3>11 DEF Fine, NoneMissed
  <2> QED BY <2>1, <2>2
<1>6. CASE text # Probe /\ GateOk(w) /\ match # {}
  <2> DEFINE r == Lowest(match)
             allow == Submit(w, "allow", p)
  <2>1. r \in match /\ r \in Req /\ w.d.req[r].state = "forwarded" /\ w.d.req[r].text = text
    BY <1>3, <1>4, <1>6 DEF Match
  <2> HIDE DEF r
  <2>2. p # NoCall /\ p \in Call /\ text = call[p].what /\ Made(p)
    BY <1>6
  <2>3. OnRecord(call[p].what)
    <3>1. Moved(b[r], w.d.req[r])
      BY <1>1, <2>1 DEF Sound, Follows
    <3>2. b[r].state # "none" /\ b[r].text = text
      BY <2>1, <3>1 DEF Moved, Open
    <3> QED BY <2>1, <2>2, <3>2 DEF OnRecord
  <2>4. Sound(allow, b, ids) /\ allow.d = w.d
    BY <1>1, <2>2, <2>3, SubmitFine DEF Ops
  <2> HIDE DEF allow, match, text
  <2>5. Fine(allow, b, ids) /\ \A s \in {r} : allow.d.req[s].state \in Open
    BY <2>1, <2>4 DEF Fine, Open
  <2>6. {r} \in SUBSET Req
    BY <2>1
  <2>7. Fine(Become(allow, {r}, "sent"), b, ids)
    BY <2>5, <2>6, BecomeFine DEF Settled
  <2>8. Gate(w, p) = Become(allow, {r}, "sent")
    BY <1>6 DEF Gate, r, allow, match, text
  <2> QED BY <2>7, <2>8
<1>7. CASE text # Probe /\ ~(GateOk(w) /\ match # {})
  <2>1. CASE with = {}
    BY <1>2, <1>7, <2>1 DEF Gate
  <2>2. CASE with # {}
    <3> DEFINE r == Lowest(with)
    <3>1. r \in with /\ r \in Req /\ w.d.req[r].state = "forwarded"
      BY <1>3, <1>4, <2>2
    <3> HIDE DEF r, deny
    <3>2. {r} \in SUBSET Req /\ \A s \in {r} : deny.d.req[s].state \in Open
      BY <1>2, <3>1 DEF Open
    <3>3. Fine(Become(deny, {r}, "denied"), b, ids)
      BY <1>2, <3>2, BecomeFine DEF Settled
    <3>4. Gate(w, p) = Become(deny, {r}, "denied")
      BY <1>7, <2>2 DEF Gate, r, deny
    <3> QED BY <3>3, <3>4
  <2> QED BY <2>1, <2>2
<1> QED BY <1>5, <1>6, <1>7

\* The runner says that the process is up.
LEMMA AliveFine ==
  ASSUME NEW w, NEW b, NEW n, Fine(w, b, n)
  PROVE  Fine(Alive(w), b, n)
<1> DEFINE o == [w.d.orch EXCEPT !.runtime = "up"]
<1>1. Sound(w, b, n) /\ NoneMissed(w.d) /\ w.d.orch \in Orch /\ OrchOK(w.d.orch)
  BY WorkParts DEF Fine, Sound
<1>2. o \in Orch /\ o.test = w.d.orch.test /\ o.gate = w.d.orch.gate /\ o.runtime = "up"
  BY <1>1 DEF Orch
<1>3. Alive(w) = SetOrch(w, o)
  BY DEF Alive, SetOrch
<1> HIDE DEF o
<1>4. OrchOK(o)
  BY <1>1, <1>2 DEF OrchOK
<1> QED BY <1>1, <1>2, <1>3, <1>4, OrchSound

LEMMA ApplyFine ==
  ASSUME NEW w, NEW e \in GoodEvent, Fine(w, db.req, ids), call \in Calls0
  PROVE  Fine(ApplyEvent(w, e), db.req, ids)
<1>1. Fine(Alive(w), db.req, ids) /\ Fine(SetStopped(w), db.req, ids)
  BY AliveFine, StoppedFine DEF Fine
<1>2. CASE e.kind = "ack"
  <2>1. Fine(Acked(w, e), db.req, ids)
    BY <1>1 DEF Acked
  <2> QED BY <1>2, <2>1 DEF ApplyEvent
<1>3. CASE e.kind = "stopped"
  BY <1>1, <1>3 DEF ApplyEvent
<1>4. CASE e.kind = "permission"
  <2>1. e.call \in Call \cup {NoCall} /\ (e.call # NoCall => Made(e.call))
    BY <1>4 DEF GoodEvent, Ev
  <2>2. Fine(Gate(w, e.call), db.req, ids)
    BY <2>1, GateFine
  <2> QED BY <1>4, <2>2 DEF ApplyEvent
<1>5. e.kind \in {"ack", "stopped", "permission"}
  BY DEF GoodEvent, Ev
<1> QED BY <1>2, <1>3, <1>4, <1>5

\* A poll applies every event that is there.
LEMMA PollFine ==
  ASSUME NEW w, Fine(w, db.req, ids), call \in Calls0, events \in Seq(GoodEvent)
  PROVE  Fine(PollEvents(w), db.req, ids)
<1> DEFINE N == Len(events)
           W == {v \in WorkType : Fine(v, db.req, ids)}
           F(f) == [i \in 0..N |-> IF i = 0 THEN w ELSE Then(f[i - 1], LAMBDA v : ApplyEvent(v, events[i]))]
           c == CHOOSE f : f = F(f)
           step == [p \in W \X (1..N) |-> ApplyEvent(p[1], events[p[2]])]
<1>1. N \in Nat /\ w \in W
  BY DEF Fine, Sound
<1>2. ASSUME NEW v \in W, NEW i \in 1..N PROVE ApplyEvent(v, events[i]) \in W
  <2>1. events[i] \in GoodEvent
    OBVIOUS
  <2>2. Fine(ApplyEvent(v, events[i]), db.req, ids)
    BY <2>1, ApplyFine
  <2> QED BY <2>2 DEF Fine, Sound
<1> HIDE DEF W, N
<1>3. step \in Steps(W, N)
  BY <1>2 DEF Steps
<1>4. \E f : IsFold(f, W, w, N, step)
  <2> HIDE DEF step
  <2> QED BY <1>1, <1>3, FoldExists
<1>5. PICK f : IsFold(f, W, w, N, step)
  BY <1>4
<1>6. f \in [0..N -> W] /\ f[0] = w /\ \A i \in 1..N : f[i] = step[<<f[i - 1], i>>]
  BY <1>5, Zenon DEF IsFold
<1>7. \A i \in 1..N : f[i] = ApplyEvent(f[i - 1], events[i])
  <2> TAKE i \in 1..N
  <2>1. i - 1 \in 0..N
    BY <1>1
  <2>2. f[i - 1] \in W
    BY <1>6, <2>1
  <2> QED BY <1>6, <2>2
<1> HIDE DEF step
<1>8. ASSUME NEW g, NEW i PROVE Then(g[i - 1], LAMBDA v : ApplyEvent(v, events[i])) = ApplyEvent(g[i - 1], events[i])
  <2>1. {ApplyEvent(v, events[i]) : v \in {g[i - 1]}} = {ApplyEvent(g[i - 1], events[i])}
    OBVIOUS
  <2> QED BY <2>1, Only, Zenon DEF Then
<1> DEFINE G(g) == [i \in 0..N |-> IF i = 0 THEN w ELSE ApplyEvent(g[i - 1], events[i])]
<1>9. ASSUME NEW g PROVE F(g) = G(g)
  <2> DEFINE x(i) == IF i = 0 THEN w ELSE Then(g[i - 1], LAMBDA v : ApplyEvent(v, events[i]))
             y(i) == IF i = 0 THEN w ELSE ApplyEvent(g[i - 1], events[i])
  <2>1. ASSUME NEW i \in 0..N PROVE x(i) = y(i)
    BY <1>8, Zenon
  <2> HIDE DEF x, y
  <2>2. [i \in 0..N |-> x(i)] = [i \in 0..N |-> y(i)]
    BY <2>1
  <2> QED BY <2>2 DEF x, y
<1> HIDE DEF F
<1>10. f = G(f)
  <2>1. ASSUME NEW n \in 0..N PROVE f[n] = G(f)[n]
    <3>1. CASE n = 0
      BY <1>6, <3>1
    <3>2. CASE n # 0
      <4>1. n \in 1..N
        BY <1>1, <3>2
      <4> QED BY <1>7, <3>2, <4>1
    <3> QED BY <3>1, <3>2
  <2>2. f = [n \in 0..N |-> f[n]] /\ G(f) = [n \in 0..N |-> G(f)[n]]
    BY <1>6
  <2> HIDE DEF G
  <2> QED BY <2>1, <2>2
<1> HIDE DEF G
<1>11. f = F(f)
  BY <1>9, <1>10
<1>12. c = F(c)
  BY <1>11
<1>13. PollEvents(w) = c[N]
  BY Zenon DEF PollEvents, F, N
<1> HIDE DEF c
<1>14. c = G(c)
  BY <1>9, <1>12
<1> DEFINE S == {n \in 0..N : c[n] \in W}
<1>15. 0 \in S
  BY <1>1, <1>14 DEF G
<1>16. ASSUME NEW n \in 0..(N - 1), n \in S PROVE n + 1 \in S
  <2>1. n + 1 \in 0..N /\ n + 1 # 0 /\ (n + 1) - 1 = n /\ n + 1 \in 1..N
    BY <1>1
  <2>2. c[n + 1] = ApplyEvent(c[n], events[n + 1])
    BY <1>14, <2>1 DEF G
  <2> QED BY <1>2, <1>16, <2>1, <2>2
<1> HIDE DEF S
<1>17. \A n \in 0..N : n \in S
  BY <1>1, <1>15, <1>16, UpTo
<1>18. N \in S
  BY <1>1, <1>17
<1> QED BY <1>13, <1>18 DEF S, W

LEMMA ReconcileFine ==
  ASSUME NEW w, NEW b, NEW n, Fine(w, b, n)
  PROVE  Fine(Reconcile(w), b, n)
  BY StoppedFine DEF Reconcile, Fine

----
(***************************************************************************)
(* What a step leaves of the rest: commands and events that are good stay  *)
(* good, and a transaction that fits goes on fitting.                      *)
(***************************************************************************)
LEMMA SubSeqs ==
  ASSUME NEW A, NEW B, A \subseteq B, NEW s \in Seq(A)
  PROVE  s \in Seq(B)
  OBVIOUS

LEMMA GoodStays ==
  ASSUME \A p \in Call : Made(p) => Made(p)' /\ call'[p].what = call[p].what,
         \A text : OnRecord(text) => OnRecord(text)'
  PROVE  GoodCmd \subseteq GoodCmd' /\ GoodEvent \subseteq GoodEvent'
<1>1. ASSUME NEW c \in GoodCmd PROVE c \in GoodCmd'
  <2>1. c \in Cmd
    BY DEF GoodCmd
  <2>2. ASSUME c.op = "allow" PROVE Made(c.call)' /\ (OnRecord(call[c.call].what))'
    <3>1. Made(c.call) /\ OnRecord(call[c.call].what) /\ c.call \in Call
      BY <2>2 DEF GoodCmd, Made
    <3>2. Made(c.call)' /\ call'[c.call].what = call[c.call].what
      BY <3>1
    <3>3. OnRecord(call[c.call].what)'
      BY <3>1, <3>2 DEF OnRecord
    <3> QED BY <3>2, <3>3
  <2> QED BY <2>1, <2>2 DEF GoodCmd
<1>2. ASSUME NEW e \in GoodEvent PROVE e \in GoodEvent'
  <2>1. e \in Ev /\ (e.kind = "permission" /\ e.call # NoCall => Made(e.call))
    BY DEF GoodEvent
  <2>2. ASSUME e.kind = "permission", e.call # NoCall PROVE Made(e.call)'
    <3>1. Made(e.call) /\ e.call \in Call
      BY <2>1, <2>2 DEF Made
    <3> QED BY <3>1
  <2> QED BY <2>1, <2>2 DEF GoodEvent
<1> QED BY <1>1, <1>2

\* The row of a command may change.
LEMMA RowGood ==
  ASSUME NEW row \in Rows
  PROVE  /\ \A c \in GoodCmd : [c EXCEPT !.row = row] \in GoodCmd
         /\ \A e \in GoodEvent : [e EXCEPT !.row = row] \in GoodEvent
  BY DEF GoodCmd, Cmd, GoodEvent, Ev

LEMMA ClosesGood ==
  ASSUME NEW who, NEW row \in Rows
  PROVE  /\ \A s \in Seq(GoodCmd) : Closes(s, who, row) \in Seq(GoodCmd) /\ Len(Closes(s, who, row)) = Len(s)
         /\ \A s \in Seq(GoodEvent) : Closes(s, who, row) \in Seq(GoodEvent) /\ Len(Closes(s, who, row)) = Len(s)
<1>1. ASSUME NEW T, NEW s \in Seq(T), \A x \in T : [x EXCEPT !.row = row] \in T
      PROVE  Closes(s, who, row) \in Seq(T) /\ Len(Closes(s, who, row)) = Len(s)
  <2>1. \A i \in 1..Len(s) : s[i] \in T /\ [s[i] EXCEPT !.row = row] \in T
    BY <1>1
  <2> DEFINE N == Len(s)
             f == [i \in 1..N |-> IF s[i].row = who THEN [s[i] EXCEPT !.row = row] ELSE s[i]]
  <2>2. f \in [1..N -> T] /\ N \in Nat
    BY <2>1
  <2>3. Closes(s, who, row) = f
    BY DEF Closes
  <2> HIDE DEF f, N
  <2>4. f \in Seq(T) /\ Len(f) = N
    BY <2>2
  <2> QED BY <2>3, <2>4 DEF N
<1> QED BY <1>1, RowGood

LEMMA NoTxOK ==
  ASSUME NEW n \in Nat, NEW d, NEW m \in Nat
  PROVE  TxOK(NoTx, n) /\ TxFits(NoTx, d, m)
<1>1. EmptyDb \in Database /\ EmptyDb.orch \in Orch /\ EmptyDb.req \in [Req -> Request]
  BY DEF EmptyDb, Database, Orch, Request, NoReq
<1>2. DbOK(EmptyDb, n)
  BY <1>1 DEF DbOK, OrchOK, ReqOK, EmptyDb, NoReq
<1>3. NoTx \in TxType /\ NoTx.wrote = {} /\ NoTx.read = 0 /\ NoTx.new = EmptyDb
  BY <1>1 DEF NoTx, TxType
<1> QED BY <1>2, <1>3 DEF TxOK, TxFits

\* A transaction that fits goes on doing so when nothing but the number of ids
\* and of events grows.
LEMMA TxStays ==
  ASSUME NEW t, NEW d, NEW n \in Nat, NEW k \in Nat, n <= k, NEW m \in Nat, NEW l \in Nat, m <= l,
         TxOK(t, n), TxFits(t, d, m)
  PROVE  TxOK(t, k) /\ TxFits(t, d, l)
<1>1. t.read \in Nat
  BY DEF TxOK, TxType
<1>2. ReqOK(t.new.req, k)
  <2> SUFFICES ASSUME NEW r \in Req, t.new.req[r].state # "none" PROVE r <= k /\ t.new.req[r].text \in Text
    BY DEF ReqOK, TxOK, DbOK
  <2>1. r \in Nat /\ r <= n /\ t.new.req[r].text \in Text
    BY DEF TxOK, DbOK, ReqOK, Req
  <2> QED BY <2>1
<1>3. TxOK(t, k)
  BY <1>2 DEF TxOK, DbOK
<1>4. TxFits(t, d, l)
  BY <1>1 DEF TxFits
<1> QED BY <1>3, <1>4

\* A step of the runner or of its process leaves the rows and the transactions.
LEMMA RunnerKeeps ==
  ASSUME IInv, SpoolOK', UNCHANGED <<db, tx, ids>>, Len(events) <= Len(events'), LetThroughIsOnRecord'
  PROVE  IInv'
<1>1. ids \in Nat /\ Len(events) \in Nat /\ Len(events') \in Nat
  <2>1. ids \in 0..MaxReq /\ events \in Seq(GoodEvent) /\ events' \in Seq(GoodEvent')
    BY DEF IInv, SpoolOK
  <2> QED BY <2>1, Consts
<1>2. ASSUME NEW w \in Worker PROVE TxOK(tx[w], ids) /\ TxFits(tx[w], db, Len(events'))
  <2>1. TxOK(tx[w], ids) /\ TxFits(tx[w], db, Len(events))
    BY DEF IInv, TxsOK
  <2> QED BY <1>1, <2>1, TxStays
<1>3. TxsOK'
  BY <1>2 DEF IInv, TxsOK
<1>4. DbOK(db, ids)' /\ NoneMissed(db)'
  BY DEF IInv
<1> QED BY <1>3, <1>4 DEF IInv

----
(***************************************************************************)
(* The runner and its process.                                             *)
(***************************************************************************)
LEMMA OneMore ==
  ASSUME NEW T, NEW s \in Seq(T), NEW e \in T
  PROVE  Append(s, e) \in Seq(T) /\ Len(Append(s, e)) = Len(s) + 1 /\ Len(s) \in Nat
  OBVIOUS

LEMMA TailGood ==
  ASSUME NEW T, NEW s \in Seq(T), s # <<>>
  PROVE  Head(s) \in T /\ Tail(s) \in Seq(T)
  OBVIOUS

LEMMA AckGood ==
  ASSUME NEW c \in GoodCmd, NEW ok \in BOOLEAN
  PROVE  Ack(c, ok) \in GoodEvent
  BY DEF GoodCmd, Cmd, Ack, GoodEvent, Ev

LEMMA EventGood ==
  /\ Event("stopped", NoCall) \in GoodEvent
  /\ \A p \in Call \cup {NoCall} : (p # NoCall => Made(p)) => Event("permission", p) \in GoodEvent
  BY DEF Event, GoodEvent, Ev, Ops, Rows

\* Nothing is forgotten of a call.
LEMMA CallsStay ==
  ASSUME UNCHANGED db, \A p \in Call : call[p].state # "none" => call'[p].what = call[p].what /\ call'[p].state # "none"
  PROVE  GoodCmd \subseteq GoodCmd' /\ GoodEvent \subseteq GoodEvent' /\ \A text : OnRecord(text) => OnRecord(text)'
<1>1. \A text : OnRecord(text) => OnRecord(text)'
  BY DEF OnRecord
<1>2. \A p \in Call : Made(p) => Made(p)' /\ call'[p].what = call[p].what
  BY DEF Made
<1> QED BY <1>1, <1>2, GoodStays

LEMMA Answered ==
  ASSUME IInv, cmds # <<>>, Len(events) < MaxEvents, cmds' = Tail(cmds), NEW ok \in BOOLEAN, Answers(ok),
         UNCHANGED <<db, tx, ids, call>>, live' \in BOOLEAN
  PROVE  IInv'
<1>1. SpoolOK /\ LetThroughIsOnRecord
  BY DEF IInv
<1>2. GoodCmd \subseteq GoodCmd' /\ GoodEvent \subseteq GoodEvent'
  BY CallsStay
<1>3. Head(cmds) \in GoodCmd /\ Tail(cmds) \in Seq(GoodCmd)
  BY <1>1, TailGood DEF SpoolOK
<1>4. events' \in Seq(GoodEvent) /\ Len(events') = Len(events) + 1 /\ Len(events) \in Nat
  <2>1. Ack(Head(cmds), ok) \in GoodEvent
    BY <1>3, AckGood
  <2> QED BY <1>1, <2>1, OneMore DEF SpoolOK, Answers
<1>5. cmds' \in Seq(GoodCmd') /\ events' \in Seq(GoodEvent')
  BY <1>2, <1>3, <1>4, SubSeqs
<1>6. SpoolOK'
  BY <1>1, <1>4, <1>5, Consts DEF SpoolOK
<1>7. LetThroughIsOnRecord'
  BY <1>1 DEF LetThroughIsOnRecord, OnRecord
<1> QED BY <1>4, <1>6, <1>7, RunnerKeeps

LEMMA StartKeeps == IInv /\ HandleStart => IInv'
<1> SUFFICES ASSUME IInv, HandleStart PROVE IInv'
  OBVIOUS
<1>1. cmds # <<>> /\ Len(events) < MaxEvents /\ cmds' = Tail(cmds) /\ UNCHANGED <<db, tx, ids, call>>
  BY DEF HandleStart, Handles, dbVars
<1>2. live' \in BOOLEAN /\ \E ok \in BOOLEAN : Answers(ok)
  BY DEF HandleStart, IInv, SpoolOK
<1> QED BY <1>1, <1>2, Answered

LEMMA TurnKeeps == IInv /\ HandleTurn => IInv'
<1> SUFFICES ASSUME IInv, HandleTurn PROVE IInv'
  OBVIOUS
<1>1. cmds # <<>> /\ Len(events) < MaxEvents /\ cmds' = Tail(cmds) /\ UNCHANGED <<db, tx, ids, call>>
  BY DEF HandleTurn, Handles, dbVars
<1>2. Answers(live) /\ live \in BOOLEAN /\ live' = live
  BY DEF HandleTurn, IInv, SpoolOK
<1> QED BY <1>1, <1>2, Answered

\* An answer lets a call through only as a request on record.
LEMMA DecideKeeps == IInv /\ HandleDecide => IInv'
<1> SUFFICES ASSUME IInv, HandleDecide PROVE IInv'
  OBVIOUS
<1> DEFINE c == Head(cmds)
<1>1. SpoolOK /\ LetThroughIsOnRecord /\ call \in Calls0
  BY DEF IInv, SpoolOK
<1>2. cmds # <<>> /\ cmds' = Tail(cmds) /\ c.op \in {"allow", "deny"}
  BY DEF HandleDecide, Handles
<1>3. UNCHANGED <<db, tx, ids, events, live>>
  BY DEF HandleDecide, dbVars
<1>4. call' = [p \in Call |-> IF p = c.call /\ call[p].state = "parked"
                              THEN [call[p] EXCEPT !.state = IF c.op = "allow" THEN "let" ELSE "denied"]
                              ELSE call[p]]
  BY DEF HandleDecide
<1>5. c \in GoodCmd /\ Tail(cmds) \in Seq(GoodCmd)
  BY <1>1, <1>2, TailGood DEF SpoolOK
<1> HIDE DEF c
<1>6. ASSUME NEW p \in Call
      PROVE  /\ call'[p] \in [what : Text \cup {NoText}, state : {"none", "parked", "let", "denied"}]
             /\ call'[p].what = call[p].what
             /\ call[p].state # "none" => call'[p].state # "none"
             /\ call'[p].state = "let" => call[p].state = "let" \/ (p = c.call /\ c.op = "allow")
  <2>1. call[p] \in [what : Text \cup {NoText}, state : {"none", "parked", "let", "denied"}]
    BY <1>1 DEF Calls0
  <2> QED BY <1>4, <2>1
<1>7. call' \in Calls0
  BY <1>4, <1>6 DEF Calls0
<1>8. GoodCmd \subseteq GoodCmd' /\ GoodEvent \subseteq GoodEvent' /\ \A text : OnRecord(text) => OnRecord(text)'
  BY <1>3, <1>6, CallsStay
<1>9. cmds' \in Seq(GoodCmd') /\ events' \in Seq(GoodEvent')
  BY <1>1, <1>2, <1>3, <1>5, <1>8, SubSeqs DEF SpoolOK
<1>10. SpoolOK'
  BY <1>1, <1>3, <1>7, <1>9 DEF SpoolOK
<1>11. LetThroughIsOnRecord'
  <2> SUFFICES ASSUME NEW p \in Call, call'[p].state = "let" PROVE OnRecord(call[p].what)'
    BY DEF LetThroughIsOnRecord
  <2>1. call'[p].what = call[p].what
    BY <1>6
  <2>2. OnRecord(call[p].what)
    <3>1. CASE call[p].state = "let"
      BY <1>1, <3>1 DEF LetThroughIsOnRecord
    <3>2. CASE p = c.call /\ c.op = "allow"
      BY <1>5, <3>2 DEF GoodCmd
    <3> QED BY <1>6, <3>1, <3>2
  <2> QED BY <1>3, <2>1, <2>2 DEF OnRecord
<1>12. Len(events) <= Len(events')
  <2>1. Len(events) \in Nat
    BY <1>1 DEF SpoolOK
  <2> QED BY <1>3, <2>1
<1> QED BY <1>3, <1>10, <1>11, <1>12, RunnerKeeps

\* A process that ends has its parked calls denied, and says so once more at most.
LEMMA EndsKeeps ==
  ASSUME IInv, NEW es \in {<<>>, Stopped}, Ends(es), es = Stopped => live,
         cmds' \in Seq(GoodCmd), UNCHANGED <<db, tx, ids>>
  PROVE  IInv'
<1>1. SpoolOK /\ LetThroughIsOnRecord /\ call \in Calls0 /\ events \in Seq(GoodEvent) /\ Len(events) \in Nat
  BY DEF IInv, SpoolOK
<1>2. call' = Dropped /\ live' = FALSE
  BY DEF Ends
<1>3. ASSUME NEW p \in Call
      PROVE  /\ call'[p] \in [what : Text \cup {NoText}, state : {"none", "parked", "let", "denied"}]
             /\ call'[p].what = call[p].what
             /\ call[p].state # "none" => call'[p].state # "none"
             /\ call'[p].state = "let" => call[p].state = "let"
  <2>1. call[p] \in [what : Text \cup {NoText}, state : {"none", "parked", "let", "denied"}]
    BY <1>1 DEF Calls0
  <2> QED BY <1>2, <2>1 DEF Dropped
<1>4. call' \in Calls0
  BY <1>2, <1>3 DEF Calls0, Dropped
<1>5. GoodCmd \subseteq GoodCmd' /\ GoodEvent \subseteq GoodEvent' /\ \A text : OnRecord(text) => OnRecord(text)'
  BY <1>3, CallsStay
<1>6. events' \in Seq(GoodEvent) /\ Len(events) <= Len(events') /\ Len(events') <= MaxEvents + 1
  <2>1. CASE es = <<>>
    <3>1. events' = events
      BY <1>1, <2>1 DEF Ends
    <3> QED BY <1>1, <3>1, Consts DEF SpoolOK
  <2>2. CASE es = Stopped
    <3>1. events' = events \o Stopped /\ live
      BY <2>2 DEF Ends
    <3> DEFINE e == Event("stopped", NoCall)
    <3>2. e \in GoodEvent
      BY EventGood
    <3>3. events' = Append(events, e)
      <4> HIDE DEF e
      <4>1. events' = events \o <<e>>
        BY <3>1 DEF Stopped, e
      <4> QED BY <1>1, <3>2, <4>1
    <3> HIDE DEF e
    <3>4. events' \in Seq(GoodEvent) /\ Len(events') = Len(events) + 1
      BY <1>1, <3>2, <3>3, OneMore
    <3> QED BY <1>1, <3>1, <3>4, Consts DEF SpoolOK
  <2> QED BY <2>1, <2>2
<1>7. cmds' \in Seq(GoodCmd') /\ events' \in Seq(GoodEvent')
  BY <1>5, <1>6, SubSeqs
<1>8. SpoolOK'
  BY <1>1, <1>2, <1>4, <1>6, <1>7 DEF SpoolOK
<1>9. LetThroughIsOnRecord'
  BY <1>1, <1>3, <1>5 DEF LetThroughIsOnRecord, OnRecord
<1> QED BY <1>6, <1>8, <1>9, RunnerKeeps

LEMMA ExitsKeeps == IInv /\ Exits => IInv'
<1> SUFFICES ASSUME IInv, Exits PROVE IInv'
  OBVIOUS
<1>1. PICK es \in {<<>>, Stopped} : Ends(es)
  BY DEF Exits
<1>2. live /\ UNCHANGED <<db, tx, ids, cmds>> /\ cmds \in Seq(GoodCmd)
  BY DEF Exits, dbVars, IInv, SpoolOK
<1> QED BY <1>1, <1>2, EndsKeeps

LEMMA StopKeeps == IInv /\ HandleStop => IInv'
<1> SUFFICES ASSUME IInv, HandleStop PROVE IInv'
  OBVIOUS
<1> DEFINE es == IF live THEN Stopped ELSE <<>>
<1>1. Ends(es) /\ es \in {<<>>, Stopped} /\ cmds # <<>> /\ cmds' = Tail(cmds) /\ UNCHANGED <<db, tx, ids>>
  BY DEF HandleStop, Handles, dbVars
<1>2. es = Stopped => live
  <2>1. Stopped # <<>>
    BY DEF Stopped
  <2> QED BY <2>1
<1>3. cmds' \in Seq(GoodCmd)
  BY <1>1, TailGood DEF IInv, SpoolOK
<1> HIDE DEF es
<1> QED BY <1>1, <1>2, <1>3, EndsKeeps

LEMMA CallsKeep == ASSUME IInv, NEW p \in Call, NEW text \in Text, Calls(p, text) PROVE IInv'
<1>1. SpoolOK /\ LetThroughIsOnRecord /\ call \in Calls0 /\ events \in Seq(GoodEvent) /\ cmds \in Seq(GoodCmd)
  BY DEF IInv, SpoolOK
<1>2. /\ live /\ Len(events) < MaxEvents /\ call[p].state = "none"
      /\ call' = [call EXCEPT ![p] = [what |-> text, state |-> "parked"]]
      /\ events' = Append(events, Event("permission", p))
      /\ UNCHANGED <<db, tx, ids, cmds, live>>
  BY DEF Calls, dbVars
<1>3. call' \in Calls0
  BY <1>1, <1>2 DEF Calls0
<1>4. ASSUME NEW q \in Call
      PROVE  /\ q # p => call'[q] = call[q]
             /\ call'[p] = [what |-> text, state |-> "parked"]
  BY <1>1, <1>2 DEF Calls0
<1>5. GoodCmd \subseteq GoodCmd' /\ GoodEvent \subseteq GoodEvent' /\ \A t : OnRecord(t) => OnRecord(t)'
  <2>1. \A q \in Call : call[q].state # "none" => call'[q].what = call[q].what /\ call'[q].state # "none"
    BY <1>2, <1>4
  <2> QED BY <1>2, <2>1, CallsStay
<1>6. Event("permission", p) \in GoodEvent'
  <2>1. call'[p].state # "none"
    BY <1>4
  <2> QED BY <2>1 DEF Event, GoodEvent, Ev, Ops, Rows, Made
<1>7. cmds' \in Seq(GoodCmd') /\ events \in Seq(GoodEvent')
  BY <1>1, <1>2, <1>5, SubSeqs
<1> DEFINE G == GoodEvent'
           e == Event("permission", p)
<1>8. events' \in Seq(G) /\ Len(events') = Len(events) + 1 /\ Len(events) \in Nat
  <2>1. e \in G /\ events \in Seq(G) /\ events' = Append(events, e)
    BY <1>2, <1>6, <1>7
  <2> HIDE DEF G, e
  <2> QED BY <2>1, OneMore
<1>9. SpoolOK'
  BY <1>1, <1>2, <1>3, <1>7, <1>8, Consts DEF SpoolOK
<1>10. LetThroughIsOnRecord'
  <2> SUFFICES ASSUME NEW q \in Call, call'[q].state = "let" PROVE OnRecord(call[q].what)'
    BY DEF LetThroughIsOnRecord
  <2>1. q # p
    BY <1>4
  <2> QED BY <1>1, <1>2, <1>4, <2>1 DEF LetThroughIsOnRecord, OnRecord
<1> QED BY <1>2, <1>8, <1>9, <1>10, RunnerKeeps

LEMMA CallsProbeKeeps == IInv /\ CallsProbe => IInv'
<1> SUFFICES ASSUME IInv, CallsProbe PROVE IInv'
  OBVIOUS
<1>1. SpoolOK /\ LetThroughIsOnRecord /\ events \in Seq(GoodEvent) /\ cmds \in Seq(GoodCmd)
  BY DEF IInv, SpoolOK
<1>2. /\ Len(events) < MaxEvents
      /\ events' = Append(events, Event("permission", NoCall))
      /\ UNCHANGED <<db, tx, ids, cmds, live, call>>
  BY DEF CallsProbe, dbVars
<1> DEFINE e == Event("permission", NoCall)
<1>3. e \in GoodEvent
  BY EventGood
<1> HIDE DEF e
<1>4. events' \in Seq(GoodEvent) /\ Len(events') = Len(events) + 1 /\ Len(events) \in Nat
  BY <1>1, <1>2, <1>3, OneMore DEF e
<1>5. GoodCmd \subseteq GoodCmd' /\ GoodEvent \subseteq GoodEvent'
  BY <1>2, CallsStay
<1>6. cmds' \in Seq(GoodCmd') /\ events' \in Seq(GoodEvent')
  BY <1>1, <1>2, <1>4, <1>5, SubSeqs
<1>7. SpoolOK'
  BY <1>1, <1>2, <1>4, <1>6, Consts DEF SpoolOK
<1>8. LetThroughIsOnRecord'
  BY <1>1, <1>2 DEF LetThroughIsOnRecord, OnRecord
<1> QED BY <1>2, <1>4, <1>7, <1>8, RunnerKeeps

----
(***************************************************************************)
(* The workers' handlers.                                                  *)
(***************************************************************************)
\* What a handler starts from: the committed requests, or these and a new one.
Based(b, n) ==
    /\ b \in [Req -> Request]
    /\ \A r \in Req : b[r] = db.req[r] \/ (n = ids + 1 /\ r = n /\ b[r].state # "none")

\* A handler's transaction fits, when its work is fine.
LEMMA RunKeeps ==
  ASSUME IInv, NEW who \in Worker, NEW c, NEW w, NEW n \in {0, Len(events)}, Run(who, c, w, n),
         ids' \in {ids, ids + 1}, ids' <= MaxReq, NEW b, Based(b, ids'), Fine(w, b, ids'),
         \A r \in Req : Missed(w.d.req, r) /\ w.d.req[r] # db.req[r] => Marked(w, db.orch)
  PROVE  IInv'
<1> DEFINE wrote == Wrote(db, w) \cup (IF w.out # <<>> \/ n > 0 THEN {RunnerRow} ELSE {})
           t == [at |-> "commit", new |-> w.d, wrote |-> wrote, read |-> n, stale |-> {}]
           more == [i \in 1..Len(w.out) |-> [w.out[i] EXCEPT !.row = who]]
<1>1. /\ UNCHANGED <<db, events, live, call>>
      /\ cmds' = cmds \o more
      /\ tx' = IF wrote = {} THEN tx ELSE [tx EXCEPT ![who] = t]
  BY DEF Run, runnerVars
<1>2. /\ SpoolOK /\ LetThroughIsOnRecord /\ TxsOK /\ DbOK(db, ids) /\ NoneMissed(db)
      /\ ids \in Nat /\ ids' \in Nat /\ ids <= ids' /\ ids' \in 0..MaxReq /\ Len(events) \in Nat /\ n \in Nat
  BY Consts DEF IInv, SpoolOK
<1>3. /\ Sound(w, b, ids') /\ NoneMissed(w.d) /\ w \in WorkType /\ w.out \in Seq(GoodCmd)
      /\ w.d \in Database /\ w.d.req \in [Req -> Request]
  BY WorkParts DEF Fine, Sound
<1>4. GoodCmd \subseteq GoodCmd' /\ GoodEvent \subseteq GoodEvent'
  BY <1>1, CallsStay
<1>5. SpoolOK'
  <2>1. more \in Seq(GoodCmd)
    <3> DEFINE N == Len(w.out)
    <3>1. N \in Nat /\ \A i \in 1..N : w.out[i] \in GoodCmd
      BY <1>3
    <3>2. who \in Rows
      BY DEF Rows
    <3>3. \A i \in 1..N : [w.out[i] EXCEPT !.row = who] \in GoodCmd
      BY <3>1, <3>2, RowGood
    <3> HIDE DEF N
    <3>4. [i \in 1..N |-> [w.out[i] EXCEPT !.row = who]] \in Seq(GoodCmd)
      BY <3>1, <3>3
    <3> QED BY <3>4 DEF N
  <2> HIDE DEF more
  <2>2. cmds' \in Seq(GoodCmd)
    BY <1>1, <1>2, <2>1 DEF SpoolOK
  <2>3. cmds' \in Seq(GoodCmd') /\ events' \in Seq(GoodEvent')
    BY <1>1, <1>2, <1>4, <2>2, SubSeqs DEF SpoolOK
  <2> QED BY <1>1, <1>2, <2>3 DEF SpoolOK
<1>6. DbOK(db, ids') /\ TxOK(t, ids') /\ TxFits(t, db, Len(events))
  <2>1. ReqOK(db.req, ids')
    <3> SUFFICES ASSUME NEW r \in Req, db.req[r].state # "none" PROVE r <= ids' /\ db.req[r].text \in Text
      BY <1>2 DEF DbOK, ReqOK
    <3>1. r \in Nat /\ r <= ids /\ db.req[r].text \in Text
      BY <1>2 DEF DbOK, ReqOK, Req
    <3> QED BY <1>2, <3>1
  <2>2. DbOK(w.d, ids')
    BY <1>3 DEF Sound, DbOK
  <2>3. wrote \subseteq Row /\ (n > 0 => RunnerRow \in wrote) /\ wrote \cap Req = {r \in Req : w.d.req[r] # db.req[r]}
        /\ (OrchRow \in wrote <=> Marked(w, db.orch))
    BY RowFacts DEF Wrote, Marked
  <2> HIDE DEF wrote
  <2>4. t \in TxType /\ t.at = "commit" /\ t.new = w.d /\ t.wrote = wrote /\ t.read = n /\ t.stale = {}
    BY <1>2, <1>3, <2>3 DEF TxType
  <2> HIDE DEF t
  <2>5. TxOK(t, ids')
    BY <2>2, <2>3, <2>4 DEF TxOK
  <2>6. ASSUME NEW r \in t.wrote \cap Req PROVE MayWrite(db.req[r], t.new.req[r])
    <3>1. Moved(b[r], w.d.req[r]) /\ w.d.req[r] # db.req[r] /\ r \in Req
      BY <1>3, <2>3, <2>4 DEF Sound, Follows
    <3>2. CASE b[r] = db.req[r]
      BY <2>4, <3>1, <3>2 DEF Moved, MayWrite, Open, Settled
    <3>3. CASE ids' = ids + 1 /\ r = ids' /\ b[r].state # "none"
      <4>1. ~(r <= ids)
        BY <1>2, <3>3
      <4>2. db.req[r].state = "none"
        BY <1>2, <3>1, <4>1 DEF DbOK, ReqOK
      <4> QED BY <2>4, <3>1, <3>3, <4>2 DEF Moved, MayWrite, Open, Settled
    <3> QED BY <3>1, <3>2, <3>3 DEF Based
  <2>7. ASSUME t.new.orch.gate = "ok", NEW r \in Req
        PROVE  ~Missed(IF r \in t.wrote THEN t.new.req ELSE db.req, r)
    <3>1. ~Missed(w.d.req, r)
      BY <1>3, <2>4, <2>7 DEF NoneMissed
    <3>2. r \notin t.wrote => w.d.req[r] = db.req[r]
      BY <2>3, <2>4
    <3> QED BY <2>4, <3>1, <3>2 DEF Missed
  <2>8. TxFits(t, db, Len(events))
    BY <1>2, <2>4, <2>6, <2>7 DEF TxFits
  <2> QED BY <1>2, <2>1, <2>5, <2>8 DEF DbOK
<1> HIDE DEF wrote, more
<1>7. TxsOK'
  <2>1. t \in TxType
    BY <1>6 DEF TxOK
  <2> HIDE DEF t
  <2>2. tx' \in [Worker -> TxType]
    BY <1>1, <1>2, <2>1 DEF TxsOK
  <2>3. ASSUME NEW v \in Worker PROVE TxOK(tx'[v], ids') /\ TxFits(tx'[v], db, Len(events))
    <3>1. TxOK(tx[v], ids) /\ TxFits(tx[v], db, Len(events)) /\ tx \in [Worker -> TxType]
      BY <1>2 DEF TxsOK
    <3>2. TxOK(tx[v], ids') /\ TxFits(tx[v], db, Len(events))
      BY <1>2, <3>1, TxStays
    <3>3. tx'[v] = tx[v] \/ tx'[v] = t
      BY <1>1, <3>1
    <3> QED BY <1>6, <3>2, <3>3
  <2> QED BY <1>1, <2>2, <2>3 DEF TxsOK
<1>8. LetThroughIsOnRecord'
  BY <1>1, <1>2 DEF LetThroughIsOnRecord, OnRecord
<1>9. DbOK(db, ids)' /\ NoneMissed(db)'
  BY <1>1, <1>2, <1>6
<1> QED BY <1>5, <1>7, <1>8, <1>9 DEF IInv

\* A handler that makes no request.
LEMMA RunOnRows ==
  ASSUME IInv, NEW who \in Worker, NEW c, NEW w, NEW n \in {0, Len(events)}, Run(who, c, w, n),
         UNCHANGED ids, Fine(w, db.req, ids)
  PROVE  IInv'
<1>1. db.req \in [Req -> Request] /\ ids <= MaxReq /\ ids \in Nat
  BY Consts DEF IInv, DbOK, ReqOK, SpoolOK
<1>2. Based(db.req, ids')
  BY <1>1 DEF Based
<1>3. ASSUME NEW r \in Req, Missed(w.d.req, r), w.d.req[r] # db.req[r] PROVE FALSE
  <2>1. Moved(db.req[r], w.d.req[r])
    BY DEF Fine, Sound, Follows
  <2> QED BY <1>3, <2>1 DEF Moved, Missed, Settled
<1>4. Fine(w, db.req, ids') /\ ids' \in {ids, ids + 1} /\ ids' <= MaxReq
  BY <1>1
<1> QED BY <1>2, <1>3, <1>4, RunKeeps

\* The work every handler starts with.
LEMMA WorkFine ==
  ASSUME IInv, NEW over \in SUBSET Row
  PROVE  /\ Fine(Work(over), db.req, ids) /\ Work(over) \in WorkType
         /\ Work(over).d = db /\ DbOK(db, ids) /\ NoneMissed(db) /\ ids \in Nat
<1>1. DbOK(db, ids) /\ NoneMissed(db) /\ ids \in Nat
  BY Consts DEF IInv, SpoolOK
<1>2. Work(over) \in WorkType /\ Work(over).d = db
  <2>1. <<>> \in Seq(GoodCmd)
    OBVIOUS
  <2> QED BY <1>1, <2>1 DEF Work, WorkType, DbOK
<1>3. Follows(db.req, db.req)
  BY DEF Follows, Moved
<1> QED BY <1>1, <1>2, <1>3 DEF Fine, Sound, DbOK

LEMMA DueRows == Due \subseteq Row /\ Due \cup {BackOff} \subseteq Row /\ {} \subseteq Row
  BY RowFacts DEF Due, Test, BackOff

LEMMA PageStartKeeps == ASSUME IInv, NEW over \in SUBSET Row, PageStart(over) PROVE IInv'
<1>1. Fine(StartRelay(Work(over)), db.req, ids)
  BY WorkFine, StartFine
<1>2. Run("page", Button("start"), StartRelay(Work(over)), 0) /\ UNCHANGED ids /\ "page" \in Worker
  BY DEF PageStart, Worker
<1> QED BY <1>1, <1>2, RunOnRows

LEMMA PageStopKeeps == ASSUME IInv, NEW over \in SUBSET Row, PageStop(over) PROVE IInv'
<1> DEFINE w == Work(over)
           v == IF Up(w) THEN Submit(w, "stop", NoCall) ELSE w
           u == Then(v, CatchUp)
<1>1. Run("page", Button("stop"), u, 0) /\ UNCHANGED ids /\ "page" \in Worker
  BY DEF PageStop, Worker
<1>2. Fine(w, db.req, ids)
  BY WorkFine
<1> HIDE DEF w
<1>3. Fine(v, db.req, ids)
  BY <1>2, StopRelayFine
<1> HIDE DEF v
<1>4. u = CatchUp(v)
  <2>1. {CatchUp(x) : x \in {v}} = {CatchUp(v)}
    OBVIOUS
  <2> QED BY <2>1, Only, Zenon DEF Then
<1>5. Fine(u, db.req, ids)
  BY <1>3, <1>4, CatchUpFine
<1> HIDE DEF u
<1> QED BY <1>1, <1>5, RunOnRows

LEMMA PageLookKeeps == ASSUME IInv, NEW over \in SUBSET Row, PageLook(over) PROVE IInv'
<1>1. Fine(CatchUp(Work(over)), db.req, ids)
  BY WorkFine, CatchUpFine
<1>2. Run("page", NoClick, CatchUp(Work(over)), 0) /\ UNCHANGED ids /\ "page" \in Worker
  BY DEF PageLook, Worker
<1> QED BY <1>1, <1>2, RunOnRows

LEMMA CronPassesKeeps == ASSUME IInv, NEW over \in SUBSET Row, CronPasses(over) PROVE IInv'
<1> DEFINE w == Work(over)
           need == Needed(w)
<1>1. need \in BOOLEAN
  BY DEF Needed
<1>2. Fine(w, db.req, ids)
  BY WorkFine
<1>3. Run("cron", NoClick, SuperviseRelay(w, need), 0) /\ UNCHANGED ids /\ "cron" \in Worker
  BY DEF CronPasses, Worker
<1> HIDE DEF w, need
<1>4. Fine(SuperviseRelay(w, need), db.req, ids)
  BY <1>1, <1>2, SuperviseFine
<1> QED BY <1>3, <1>4, RunOnRows

LEMMA PollsKeep == ASSUME IInv, NEW who \in Worker, NEW c, Polls(who, c) PROVE IInv'
<1> DEFINE w == Work({})
           v == PollEvents(w)
           u == Then(v, Reconcile)
<1>1. Run(who, c, u, Len(events)) /\ UNCHANGED ids
  BY DEF Polls
<1>2. Fine(w, db.req, ids)
  BY WorkFine
<1> HIDE DEF w
<1>3. Fine(v, db.req, ids)
  BY <1>2, PollFine DEF IInv, SpoolOK
<1> HIDE DEF v
<1>4. u = Reconcile(v)
  <2>1. {Reconcile(x) : x \in {v}} = {Reconcile(v)}
    OBVIOUS
  <2> QED BY <2>1, Only, Zenon DEF Then
<1>5. Fine(u, db.req, ids)
  BY <1>3, <1>4, ReconcileFine
<1> HIDE DEF u
<1> QED BY <1>1, <1>5, RunOnRows

\* What is new, beside the committed requests.
LEMMA NewRowBased ==
  ASSUME IInv, ids' = ids + 1, ids < MaxReq, NEW text \in Text, NEW s \in {"queued", "failed"}
  PROVE  /\ ids' \in Req /\ ids' \in {ids, ids + 1} /\ ids' <= MaxReq
         /\ Based(NewRow(db.req, ids + 1, text, s), ids')
         /\ NewRow(db.req, ids + 1, text, s)[ids + 1] = [text |-> text, state |-> s]
<1>1. ids \in Nat /\ db.req \in [Req -> Request]
  BY Consts DEF IInv, SpoolOK, DbOK, ReqOK
<1>2. ids' \in Req /\ ids' <= MaxReq
  BY <1>1, Consts DEF Req
<1> DEFINE x == [text |-> text, state |-> s]
<1>3. x \in Request /\ x.state # "none"
  BY DEF Request, Open, Settled
<1> HIDE DEF x
<1>4. NewRow(db.req, ids + 1, text, s) = [db.req EXCEPT ![ids + 1] = x]
  BY DEF NewRow, x
<1> DEFINE q == NewRow(db.req, ids + 1, text, s)
<1> HIDE DEF q
<1>5. q \in [Req -> Request] /\ q[ids + 1] = x /\ \A r \in Req \ {ids + 1} : q[r] = db.req[r]
  BY <1>1, <1>2, <1>3, <1>4 DEF q
<1>6. Based(q, ids')
  BY <1>3, <1>5 DEF Based
<1> QED BY <1>2, <1>5, <1>6 DEF q, x

\* A message of a person: when it is not handed over, the relay's row is marked.
LEMMA PageSendKeeps ==
  ASSUME IInv, NEW text \in Text, NEW over \in SUBSET Row, PageSend(text, over)
  PROVE  IInv'
<1> DEFINE w == Work(over)
           n == ids + 1
           v == Queue(w, n, text)
           Op(x) == IF Ready(x) THEN x ELSE StartRelay(x)
           u == Op(v)
           q == NewRow(db.req, n, text, "queued")
           c == Click("send", text)
<1>1. Run("page", c, u, 0) /\ ids' = ids + 1 /\ ids < MaxReq /\ "page" \in Worker
  <2> DEFINE y == Then(v, LAMBDA x : IF Ready(x) THEN x ELSE StartRelay(x))
  <2>1. Run("page", c, y, 0) /\ ids' = ids + 1 /\ ids < MaxReq
    BY DEF PageSend, NextId
  <2>2. y = CHOOSE z \in {Op(x) : x \in {v}} : TRUE
    BY DEF Then
  <2>3. {Op(x) : x \in {v}} = {Op(v)}
    <3> HIDE DEF Op, v
    <3> QED OBVIOUS
  <2> HIDE DEF Op, v, y
  <2>4. y = Op(v)
    BY <2>2, <2>3, Only, Zenon
  <2> QED BY <2>1, <2>4 DEF Worker
<1>2. /\ Fine(w, db.req, ids) /\ w \in WorkType /\ w.d = db
      /\ DbOK(db, ids) /\ NoneMissed(db) /\ ids \in Nat
  BY WorkFine
<1>3. n \in Req /\ ids' = n /\ ids' \in {ids, ids + 1} /\ ids' <= MaxReq /\ Based(q, ids')
  BY <1>1, NewRowBased
<1> HIDE DEF w
<1>4. /\ Fine(v, q, n) /\ v.d.orch = db.orch
      /\ Ready(w) => \A r \in Req : ~Missed(v.d.req, r)
  BY <1>2, <1>3, QueueFine
<1>5. Ready(w) = Ready(v)
  BY <1>2, <1>4 DEF Ready, GateOk, Up
<1> HIDE DEF v, q, n
<1>6. Fine(u, q, ids')
  BY <1>3, <1>4, StartFine
<1>7. ASSUME NEW r \in Req, Missed(u.d.req, r) PROVE Marked(u, db.orch)
  <2>1. CASE Ready(v)
    BY <1>4, <1>5, <1>7, <2>1
  <2>2. CASE ~Ready(v)
    BY <1>4, <2>2, StartFine
  <2> QED BY <2>1, <2>2
<1> HIDE DEF u, c
<1> QED BY <1>1, <1>3, <1>6, <1>7, RunKeeps

\* A notice is no person's message: it marks nothing.
LEMMA RunNotice ==
  ASSUME IInv, NEW n \in Notices, NEW s \in {"queued", "failed"}, NEW w, ids' = ids + 1, ids < MaxReq,
         Run("cron", NoClick, w, 0), Fine(w, NewRow(db.req, ids + 1, n, s), ids + 1)
  PROVE  IInv'
<1> DEFINE q == NewRow(db.req, ids + 1, n, s)
<1>1. /\ n \in Text /\ ids' \in {ids, ids + 1} /\ ids' <= MaxReq /\ Based(q, ids')
      /\ q[ids + 1] = [text |-> n, state |-> s]
  BY Consts, NewRowBased
<1>2. Fine(w, q, ids') /\ "cron" \in Worker /\ 0 \in {0, Len(events)}
  BY DEF Worker
<1> HIDE DEF q
<1>3. ASSUME NEW r \in Req, Missed(w.d.req, r), w.d.req[r] # db.req[r] PROVE FALSE
  <2>1. Moved(q[r], w.d.req[r])
    BY <1>2 DEF Fine, Sound, Follows
  <2>2. CASE q[r] = db.req[r]
    BY <1>3, <2>1, <2>2 DEF Moved, Missed, Settled
  <2>3. CASE r = ids + 1
    <3>1. q[r].text = n
      BY <1>1, <2>3
    <3>2. w.d.req[r].text = n
      BY <2>1, <3>1 DEF Moved
    <3> QED BY <1>3, <3>2 DEF Missed
  <2> QED BY <1>1, <2>2, <2>3 DEF Based
<1> QED BY <1>1, <1>2, <1>3, RunKeeps

LEMMA CronNoticesKeeps ==
  ASSUME IInv, NEW n \in Notices, NEW over \in SUBSET Row, CronNotices(n, over)
  PROVE  IInv'
<1> DEFINE v == [Work(over) EXCEPT !.d.observed = @ \cup {n}]
           k == ids + 1
           x == Queue(v, k, n)
           Op(y) == IF Ready(y) THEN y ELSE SuperviseRelay(y, TRUE)
           w == Then(x, LAMBDA u : IF Ready(u) THEN u ELSE SuperviseRelay(u, TRUE))
           gone == WithRow(v, k, n, "failed")
<1>1. ids' = k /\ ids < MaxReq /\ (Run("cron", NoClick, SuperviseRelay(w, TRUE), 0) \/ Run("cron", NoClick, SuperviseRelay(gone, TRUE), 0))
  BY DEF CronNotices, NextId, WithRow
<1>2. /\ Work(over) \in WorkType /\ Work(over).d = db
      /\ DbOK(db, ids) /\ NoneMissed(db) /\ ids \in Nat
  BY WorkFine
<1>3. v \in WorkType /\ v.d.req = db.req /\ v.d.orch = db.orch
  BY <1>2 DEF WorkType, Database
<1>4. DbOK(v.d, ids) /\ NoneMissed(v.d)
  <2> HIDE DEF v
  <2>1. v.d \in Database
    BY <1>3, WorkParts
  <2> QED BY <1>2, <1>3, <2>1 DEF DbOK, NoneMissed
<1>5. n \in Text /\ k \in Req
  BY <1>1, <1>2, Consts DEF Req
<1>6. w = Op(x)
  <2>1. w = CHOOSE z \in {Op(y) : y \in {x}} : TRUE
    BY DEF Then
  <2>2. {Op(y) : y \in {x}} = {Op(x)}
    <3> HIDE DEF Op, x
    <3> QED OBVIOUS
  <2> HIDE DEF Op, x, w
  <2> QED BY <2>1, <2>2, Only, Zenon
<1> HIDE DEF v
<1>7. Fine(x, NewRow(v.d.req, k, n, "queued"), k)
  BY <1>2, <1>3, <1>4, <1>5, QueueFine
<1>8. Sound(gone, NewRow(v.d.req, k, n, "failed"), k) /\ gone.d.req = NewRow(v.d.req, k, n, "failed")
      /\ gone.d.orch = v.d.orch
      /\ NewRow(v.d.req, k, n, "failed")[k] = [text |-> n, state |-> "failed"]
      /\ \A r \in Req \ {k} : NewRow(v.d.req, k, n, "failed")[r] = v.d.req[r]
  BY <1>2, <1>3, <1>4, <1>5, NewRowSound
<1>9. Fine(gone, NewRow(v.d.req, k, n, "failed"), k)
  <2> HIDE DEF gone
  <2>1. ASSUME NEW r \in Req, Missed(gone.d.req, r) PROVE Missed(v.d.req, r)
    <3>1. r # k
      BY <1>8, <2>1 DEF Missed
    <3> QED BY <1>8, <2>1, <3>1 DEF Missed
  <2> QED BY <1>4, <1>8, <2>1 DEF Fine, NoneMissed
<1> HIDE DEF x, w, gone, k
<1>10. Fine(w, NewRow(v.d.req, k, n, "queued"), k)
  BY <1>6, <1>7, SuperviseFine
<1>11. Fine(SuperviseRelay(w, TRUE), NewRow(v.d.req, k, n, "queued"), k)
  BY <1>10, SuperviseFine
<1>12. Fine(SuperviseRelay(gone, TRUE), NewRow(v.d.req, k, n, "failed"), k)
  BY <1>9, SuperviseFine
<1>13. k = ids + 1
  BY DEF k
<1> QED BY <1>1, <1>3, <1>11, <1>12, <1>13, RunNotice

\* A commit that is not refused.  The other transaction is refused from then on
\* when it wrote one of the rows; what it wrote is otherwise as it was, and so
\* are the events it read.
LEMMA CommitKeeps == ASSUME IInv, NEW who \in Worker, Commit(who) PROVE IInv'
<1> DEFINE t == tx[who]
<1>1. /\ t.at = "commit" /\ t.wrote \cap t.stale = {}
      /\ db' = Merged(t)
      /\ tx' = [v \in Worker |-> IF v = who \/ tx[v] = NoTx THEN NoTx ELSE [tx[v] EXCEPT !.stale = @ \cup t.wrote]]
      /\ cmds' = Closes(cmds, who, Kept)
      /\ events' = Closes(SubSeq(events, t.read + 1, Len(events)), who, Kept)
      /\ UNCHANGED <<ids, live, call>>
  BY DEF Commit, Refused, runnerVars
<1>2. /\ SpoolOK /\ LetThroughIsOnRecord /\ TxsOK /\ DbOK(db, ids) /\ NoneMissed(db)
      /\ ids \in Nat /\ Len(events) \in Nat /\ events \in Seq(GoodEvent) /\ cmds \in Seq(GoodCmd)
  BY Consts DEF IInv, SpoolOK
<1>3. TxOK(t, ids) /\ TxFits(t, db, Len(events)) /\ t \in TxType
  BY <1>2 DEF TxsOK
<1>4. /\ t.read \in Nat /\ t.read <= Len(events) /\ DbOK(t.new, ids) /\ t.wrote \subseteq Row /\ t.stale \subseteq Row
      /\ \A r \in t.wrote \cap Req : MayWrite(db.req[r], t.new.req[r])
      /\ \A r \in t.wrote \cap Req : Missed(t.new.req, r) => OrchRow \in t.wrote
      /\ t.read > 0 => RunnerRow \in t.wrote
  BY <1>1, <1>3 DEF TxOK, TxFits, TxType
<1> HIDE DEF t
<1>5. /\ db'.orch = (IF OrchRow \in t.wrote THEN t.new.orch ELSE db.orch)
      /\ db'.req \in [Req -> Request]
      /\ \A r \in Req : db'.req[r] = (IF r \in t.wrote THEN t.new.req[r] ELSE db.req[r])
      /\ db' \in Database
  <2>1. /\ db.req \in [Req -> Request] /\ t.new.req \in [Req -> Request]
        /\ db.orch \in Orch /\ t.new.orch \in Orch
        /\ db.observed \in SUBSET Notices /\ t.new.observed \in SUBSET Notices
    BY <1>2, <1>4 DEF DbOK, Database, Orch, Request
  <2> DEFINE q == [r \in Req |-> IF r \in t.wrote THEN t.new.req[r] ELSE db.req[r]]
             o == IF OrchRow \in t.wrote THEN t.new.orch ELSE db.orch
             s == db.observed \cup t.new.observed
  <2>2. q \in [Req -> Request] /\ o \in Orch /\ s \in SUBSET Notices
    BY <2>1
  <2>3. db' = [orch |-> o, req |-> q, observed |-> s]
    BY <1>1 DEF Merged
  <2>4. \A r \in Req : q[r] = (IF r \in t.wrote THEN t.new.req[r] ELSE db.req[r])
    OBVIOUS
  <2> HIDE DEF q, o, s
  <2>5. db' \in [orch : Orch, req : [Req -> Request], observed : SUBSET Notices]
    BY <2>2, <2>3
  <2>6. db'.orch = o /\ db'.req = q
    BY <2>3
  <2> QED BY <2>2, <2>4, <2>5, <2>6 DEF o, Database, Orch, Request
<1>6. DbOK(db', ids)
  <2>1. OrchOK(db'.orch)
    BY <1>2, <1>4, <1>5 DEF DbOK
  <2>2. ReqOK(db'.req, ids)
    BY <1>2, <1>4, <1>5 DEF DbOK, ReqOK
  <2> QED BY <1>5, <2>1, <2>2 DEF DbOK
<1>7. \A r \in Req : db'.req[r] = db.req[r] \/ (r \in t.wrote /\ MayWrite(db.req[r], db'.req[r]))
  BY <1>4, <1>5
<1>8. \A r \in Req : Missed(db'.req, r) => Missed(IF r \in t.wrote THEN t.new.req ELSE db.req, r)
  BY <1>5 DEF Missed
<1>9. \A r \in Req : Missed(db'.req, r) => Missed(db.req, r) \/ OrchRow \in t.wrote
  BY <1>4, <1>8
<1>10. NoneMissed(db')
  <2> SUFFICES ASSUME db'.orch.gate = "ok", NEW r \in Req, Missed(db'.req, r) PROVE FALSE
    BY DEF NoneMissed
  <2>1. CASE OrchRow \in t.wrote
    <3>1. ~Missed(IF r \in t.wrote THEN t.new.req ELSE db.req, r)
      BY <1>1, <1>3, <1>5, <2>1 DEF TxFits, t
    <3> QED BY <1>8, <3>1
  <2>2. CASE OrchRow \notin t.wrote
    <3>1. ~Missed(db.req, r)
      BY <1>2, <1>5, <2>2 DEF NoneMissed
    <3> QED BY <1>9, <2>2, <3>1
  <2> QED BY <2>1, <2>2
<1>11. \A text : OnRecord(text) => OnRecord(text)'
  <2> SUFFICES ASSUME NEW text, OnRecord(text) PROVE OnRecord(text)'
    OBVIOUS
  <2>1. PICK r \in Req : db.req[r].state # "none" /\ db.req[r].text = text
    BY DEF OnRecord
  <2>2. db'.req[r].state # "none" /\ db'.req[r].text = text
    BY <1>7, <2>1 DEF MayWrite
  <2> QED BY <2>2 DEF OnRecord
<1>12. GoodCmd \subseteq GoodCmd' /\ GoodEvent \subseteq GoodEvent'
  <2>1. \A p \in Call : Made(p) => Made(p)' /\ call'[p].what = call[p].what
    BY <1>1 DEF Made
  <2> QED BY <1>11, <2>1, GoodStays
<1>13. /\ cmds' \in Seq(GoodCmd) /\ events' \in Seq(GoodEvent) /\ Len(events') <= Len(events)
       /\ Len(events') \in Nat
       /\ t.read = 0 => Len(events') = Len(events)
  <2> DEFINE s == SubSeq(events, t.read + 1, Len(events))
  <2>1. s \in Seq(GoodEvent) /\ Len(s) = Len(events) - t.read
    BY <1>2, <1>4
  <2> HIDE DEF s
  <2>2. Kept \in Rows
    BY DEF Rows
  <2>3. cmds' \in Seq(GoodCmd)
    BY <1>1, <1>2, <2>2, ClosesGood
  <2>4. events' \in Seq(GoodEvent) /\ Len(events') = Len(s)
    <3>1. events' = Closes(s, who, Kept)
      BY <1>1 DEF s
    <3> QED BY <2>1, <2>2, <3>1, ClosesGood, Zenon
  <2> QED BY <1>2, <1>4, <2>1, <2>3, <2>4
<1>14. SpoolOK'
  <2>1. cmds' \in Seq(GoodCmd') /\ events' \in Seq(GoodEvent')
    BY <1>12, <1>13, SubSeqs
  <2>2. Len(events') <= IF live THEN MaxEvents ELSE MaxEvents + 1
    BY <1>2, <1>13, Consts DEF SpoolOK
  <2> QED BY <1>1, <1>2, <2>1, <2>2 DEF SpoolOK
<1>15. ASSUME NEW v \in Worker PROVE tx'[v] \in TxType /\ TxOK(tx'[v], ids) /\ TxFits(tx'[v], db', Len(events'))
  <2>1. CASE v = who \/ tx[v] = NoTx
    <3>1. tx'[v] = NoTx
      BY <1>1, <2>1
    <3>2. TxOK(NoTx, ids) /\ TxFits(NoTx, db', Len(events'))
      BY <1>2, <1>13, NoTxOK
    <3> QED BY <3>1, <3>2 DEF TxOK
  <2>2. CASE v # who /\ tx[v] # NoTx
    <3> DEFINE x == tx[v]
               y == [x EXCEPT !.stale = @ \cup t.wrote]
    <3>1. tx'[v] = y
      BY <1>1, <2>2
    <3>2. x \in TxType /\ TxOK(x, ids) /\ TxFits(x, db, Len(events)) /\ x # NoTx
      BY <1>2, <2>2 DEF TxsOK
    <3> HIDE DEF x
    <3>3. /\ y \in TxType /\ y.at = x.at /\ y.new = x.new /\ y.wrote = x.wrote /\ y.read = x.read
          /\ y.stale = x.stale \cup t.wrote
      BY <1>4, <3>2 DEF TxType
    <3> HIDE DEF y
    <3>4. TxOK(y, ids)
      BY <3>2, <3>3 DEF TxOK
    <3>5. ASSUME y.wrote \cap y.stale = {}
          PROVE  /\ y.read <= Len(events')
                 /\ \A r \in y.wrote \cap Req : MayWrite(db'.req[r], y.new.req[r])
                 /\ OrchRow \in y.wrote /\ y.new.orch.gate = "ok" =>
                        \A r \in Req : ~Missed(IF r \in y.wrote THEN y.new.req ELSE db'.req, r)
      <4>1. x.wrote \cap x.stale = {} /\ x.wrote \cap t.wrote = {}
        BY <3>3, <3>5
      <4>2. y.read <= Len(events')
        <5>1. CASE x.read = 0
          BY <1>13, <3>3, <5>1
        <5>2. CASE x.read # 0
          <6>1. x.read > 0
            BY <3>2, <5>2 DEF TxType
          <6>2. RunnerRow \notin t.wrote
            BY <3>2, <4>1, <6>1 DEF TxOK
          <6>3. t.read = 0
            BY <1>4, <6>2
          <6> QED BY <1>13, <3>2, <3>3, <4>1, <6>3 DEF TxFits
        <5> QED BY <5>1, <5>2
      <4>3. \A r \in y.wrote \cap Req : MayWrite(db'.req[r], y.new.req[r])
        <5> TAKE r \in y.wrote \cap Req
        <5>1. r \notin t.wrote /\ r \in Req /\ r \in x.wrote
          BY <3>3, <4>1
        <5>2. db'.req[r] = db.req[r]
          BY <1>5, <5>1
        <5> QED BY <3>2, <3>3, <4>1, <5>1, <5>2 DEF TxFits
      <4>4. ASSUME OrchRow \in y.wrote, y.new.orch.gate = "ok", NEW r \in Req
            PROVE  ~Missed(IF r \in y.wrote THEN y.new.req ELSE db'.req, r)
        <5>1. ~Missed(IF r \in x.wrote THEN x.new.req ELSE db.req, r)
          BY <3>2, <3>3, <4>1, <4>4 DEF TxFits
        <5>2. OrchRow \notin t.wrote
          BY <3>3, <4>1, <4>4
        <5> QED BY <1>9, <3>3, <5>1, <5>2
      <4> QED BY <4>2, <4>3, <4>4
    <3>6. TxFits(y, db', Len(events'))
      BY <3>5 DEF TxFits
    <3> QED BY <3>1, <3>3, <3>4, <3>6
  <2> QED BY <2>1, <2>2
<1>16. TxsOK'
  <2>1. tx' \in [Worker -> TxType]
    BY <1>1, <1>15
  <2> QED BY <1>1, <1>15, <2>1 DEF TxsOK
<1>17. LetThroughIsOnRecord'
  <2> SUFFICES ASSUME NEW p \in Call, (call[p].state = "let")' PROVE OnRecord(call[p].what)'
    BY DEF LetThroughIsOnRecord
  <2>1. OnRecord(call[p].what) /\ call'[p] = call[p]
    BY <1>1, <1>2 DEF LetThroughIsOnRecord
  <2>2. PICK r \in Req : db.req[r].state # "none" /\ db.req[r].text = call[p].what
    BY <2>1 DEF OnRecord
  <2>3. db'.req[r].state # "none" /\ db'.req[r].text = call[p].what
    BY <1>7, <2>2 DEF MayWrite
  <2> QED BY <2>1, <2>3 DEF OnRecord
<1>18. DbOK(db, ids)' /\ NoneMissed(db)'
  BY <1>1, <1>6, <1>10
<1> QED BY <1>14, <1>16, <1>17, <1>18 DEF IInv

\* A commit settles only what is open.
LEMMA CommitSettles ==
  ASSUME IInv, NEW who \in Worker, Commit(who), NEW r \in Req, db.req[r].state \in Settled
  PROVE  db'.req[r] = db.req[r]
<1> DEFINE t == tx[who]
<1>1. t.wrote \cap t.stale = {} /\ db' = Merged(t)
  BY DEF Commit, Refused
<1>2. TxFits(t, db, Len(events))
  BY DEF IInv, TxsOK
<1> HIDE DEF t
<1>3. r \notin t.wrote
  BY <1>1, <1>2 DEF TxFits, MayWrite
<1> QED BY <1>1, <1>3 DEF Merged

LEMMA AbortKeeps == ASSUME IInv, NEW who \in Worker, Abort(who) PROVE IInv'
<1>1. /\ tx' = [tx EXCEPT ![who] = NoTx]
      /\ cmds' = Closes(cmds, who, Lost) /\ events' = Closes(events, who, Lost)
      /\ UNCHANGED <<db, ids, live, call>>
  BY DEF Abort, runnerVars
<1>2. /\ SpoolOK /\ LetThroughIsOnRecord /\ TxsOK /\ DbOK(db, ids) /\ NoneMissed(db)
      /\ ids \in Nat /\ Len(events) \in Nat /\ events \in Seq(GoodEvent) /\ cmds \in Seq(GoodCmd)
  BY Consts DEF IInv, SpoolOK
<1>3. Lost \in Rows
  BY DEF Rows
<1>4. cmds' \in Seq(GoodCmd) /\ events' \in Seq(GoodEvent) /\ Len(events') = Len(events)
  BY <1>1, <1>2, <1>3, ClosesGood
<1>5. GoodCmd \subseteq GoodCmd' /\ GoodEvent \subseteq GoodEvent'
  BY <1>1, CallsStay
<1>6. SpoolOK'
  <2>1. cmds' \in Seq(GoodCmd') /\ events' \in Seq(GoodEvent')
    BY <1>4, <1>5, SubSeqs
  <2> QED BY <1>1, <1>2, <1>4, <2>1 DEF SpoolOK
<1>7. TxOK(NoTx, ids) /\ TxFits(NoTx, db, Len(events)) /\ NoTx \in TxType
  BY <1>2, NoTxOK DEF TxOK
<1> DEFINE none == NoTx
<1> HIDE DEF none
<1>8. TxsOK'
  <2>1. tx \in [Worker -> TxType] /\ none \in TxType /\ tx' = [tx EXCEPT ![who] = none]
    BY <1>1, <1>2, <1>7 DEF TxsOK, none
  <2>2. tx' \in [Worker -> TxType]
    BY <2>1
  <2>3. ASSUME NEW v \in Worker PROVE TxOK(tx'[v], ids) /\ TxFits(tx'[v], db, Len(events))
    <3>1. tx'[v] = tx[v] \/ tx'[v] = none
      BY <2>1
    <3> QED BY <1>2, <1>7, <3>1 DEF TxsOK, none
  <2> QED BY <1>1, <1>4, <2>2, <2>3 DEF TxsOK
<1>9. LetThroughIsOnRecord'
  BY <1>1, <1>2 DEF LetThroughIsOnRecord, OnRecord
<1>10. DbOK(db, ids)' /\ NoneMissed(db)'
  BY <1>1, <1>2
<1> QED BY <1>6, <1>8, <1>9, <1>10 DEF IInv

\* What the invariant speaks of did not change.
LEMMA NothingKeeps ==
  ASSUME IInv, UNCHANGED <<db, tx, ids, cmds, events, live, call>>
  PROVE  IInv'
<1>1. GoodCmd' = GoodCmd /\ GoodEvent' = GoodEvent
  BY DEF GoodCmd, GoodEvent, Made, OnRecord
<1>2. SpoolOK'
  BY <1>1 DEF IInv, SpoolOK
<1>3. TxsOK' /\ LetThroughIsOnRecord' /\ DbOK(db, ids)' /\ NoneMissed(db)'
  BY DEF IInv, TxsOK, LetThroughIsOnRecord, OnRecord
<1> QED BY <1>2, <1>3 DEF IInv

----
(***************************************************************************)
(* The theorems.                                                           *)
(***************************************************************************)
LEMMA InitInv == Init => IInv
<1> SUFFICES ASSUME Init PROVE IInv
  OBVIOUS
<1>1. /\ db = EmptyDb /\ tx = [w \in Worker |-> NoTx] /\ cmds = <<>> /\ events = <<>> /\ live = FALSE
      /\ call = [p \in Call |-> [what |-> NoText, state |-> "none"]] /\ ids = 0
  BY DEF Init
<1>2. SpoolOK
  <2>1. call \in Calls0
    BY <1>1 DEF Calls0
  <2>2. cmds \in Seq(GoodCmd) /\ events \in Seq(GoodEvent) /\ Len(events) = 0
    BY <1>1
  <2>3. Len(events) <= IF live THEN MaxEvents ELSE MaxEvents + 1
    BY <1>1, <2>2, Consts
  <2>4. ids \in 0..MaxReq
    <3>1. ids = 0 /\ MaxReq \in Nat
      BY <1>1, Consts
    <3> QED BY <3>1
  <2>5. live \in BOOLEAN
    <3>1. live = FALSE
      BY DEF Init
    <3> QED BY <3>1, Zenon
  <2> QED BY <2>1, <2>2, <2>3, <2>4, <2>5 DEF SpoolOK
<1>3. TxOK(NoTx, 0) /\ TxFits(NoTx, db, 0) /\ NoTx \in TxType
  BY NoTxOK DEF TxOK
<1>4. DbOK(db, ids) /\ NoneMissed(db)
  <2>1. DbOK(EmptyDb, 0)
    BY <1>3 DEF TxOK, NoTx
  <2>2. NoneMissed(EmptyDb)
    BY DEF NoneMissed, EmptyDb
  <2> QED BY <1>1, <2>1, <2>2
<1>5. TxsOK
  BY <1>1, <1>3 DEF TxsOK
<1>6. LetThroughIsOnRecord
  BY <1>1 DEF LetThroughIsOnRecord
<1> QED BY <1>2, <1>4, <1>5, <1>6 DEF IInv

LEMMA NextKeeps == IInv /\ [Next]_vars => IInv'
<1> SUFFICES ASSUME IInv, [Next]_vars PROVE IInv'
  OBVIOUS
<1>1. CASE \E over \in SUBSET Due : PageActs(over)
  <2>1. PICK over \in SUBSET Due : PageActs(over)
    BY <1>1
  <2>2. over \in SUBSET Row
    BY DueRows
  <2> QED BY <2>1, <2>2, PageStartKeeps, PageStopKeeps, PageLookKeeps, PageSendKeeps DEF PageActs
<1>2. CASE \E over \in SUBSET (Due \cup {BackOff}) : CronPasses(over) \/ \E n \in Notices : CronNotices(n, over)
  <2>1. PICK over \in SUBSET (Due \cup {BackOff}) : CronPasses(over) \/ \E n \in Notices : CronNotices(n, over)
    BY <1>2
  <2>2. over \in SUBSET Row
    BY DueRows
  <2> QED BY <2>1, <2>2, CronPassesKeeps, CronNoticesKeeps
<1>3. CASE CronPolls \/ PagePolls
  BY <1>3, PollsKeep DEF CronPolls, PagePolls, Worker
<1>4. CASE GivesUp
  BY <1>4, NothingKeeps DEF GivesUp, spoolVars, runnerVars
<1>5. CASE \E who \in Worker : Commit(who) \/ Abort(who)
  BY <1>5, CommitKeeps, AbortKeeps
<1>6. CASE HandleStart \/ HandleTurn \/ HandleDecide \/ HandleStop \/ Exits
  BY <1>6, StartKeeps, TurnKeeps, DecideKeeps, StopKeeps, ExitsKeeps
<1>7. CASE CallsProbe \/ \E p \in Call, text \in Text : Calls(p, text)
  BY <1>7, CallsProbeKeeps, CallsKeep
<1>8. CASE UNCHANGED vars
  BY <1>8, NothingKeeps DEF vars, dbVars, spoolVars, runnerVars
<1> QED BY <1>1, <1>2, <1>3, <1>4, <1>5, <1>6, <1>7, <1>8 DEF Next

LEMMA Invariant == Spec => []IInv
  BY InitInv, NextKeeps, PTL DEF Spec

\* The rows and the transactions stay what they may be: a test is open only
\* while the gate is being tested, a transaction that may still commit has read
\* events that are still there, and no more events wait than the spool is allowed
\* (_set_runtime_state, _fd_orchestrator_catch_up, _poll_events).
THEOREM TypeCorrect == Spec => []TypeOK
<1>1. IInv => TypeOK
  <2> SUFFICES ASSUME IInv PROVE TypeOK
    OBVIOUS
  <2>1. db \in Database /\ (db.orch.test => db.orch.gate = "testing")
    BY DEF IInv, DbOK, OrchOK
  <2>2. \A r \in Req : db.req[r].state # "none" => r <= ids /\ db.req[r].text \in Text
    BY DEF IInv, DbOK, ReqOK
  <2>3. ASSUME NEW w \in Worker
        PROVE  tx[w].wrote \subseteq Row /\ (Refused(w) \/ tx[w].read <= Len(events)) /\ tx[w].new \in Database
    <3>1. TxOK(tx[w], ids) /\ TxFits(tx[w], db, Len(events))
      BY DEF IInv, TxsOK
    <3> QED BY <3>1 DEF TxOK, TxFits, TxType, Refused
  <2>4. Len(events) <= MaxEvents + 1
    <3>1. Len(events) \in Nat
      BY DEF IInv, SpoolOK
    <3> QED BY <3>1, Consts DEF IInv, SpoolOK
  <2> QED BY <2>1, <2>2, <2>3, <2>4 DEF TypeOK
<1> QED BY <1>1, Invariant, PTL

\* Nothing is let through without a request on record: not for a transaction that
\* was rolled back after its command files were written, and not for a request
\* that another transaction settled meanwhile (_fd_orchestrator_gate).
THEOREM LetThroughOnRecord == Spec => []LetThroughIsOnRecord
<1>1. IInv => LetThroughIsOnRecord
  BY DEF IInv
<1> QED BY <1>1, Invariant, PTL

\* When the gate test is passed, every message a person confirmed by then is
\* handed over: the page's transaction that queued one beside the test writes the
\* relay's row, and one of the two is refused (fd_orchestrator_start,
\* _fd_orchestrator_gate).
THEOREM NoMessageMissed == Spec => []NoMessageMissesTheTest
<1>1. IInv => NoMessageMissesTheTest
  BY DEF IInv, NoneMissed, Missed, NoMessageMissesTheTest, Waits
<1> QED BY <1>1, Invariant, PTL

\* What became of a request is final, whichever transactions overlap
\* (_fd_orchestrator_gate, _fd_orchestrator_catch_up, _set_runtime_state).
THEOREM SettledIsFinal == Spec => SettledStays
<1>1. IInv /\ [Next]_vars => [\A r \in Req : db.req[r].state \in Settled => db'.req[r] = db.req[r]]_vars
  <2> SUFFICES ASSUME IInv, Next, NEW r \in Req, db.req[r].state \in Settled
               PROVE  db'.req[r] = db.req[r]
    OBVIOUS
  <2>1. CASE \E who \in Worker : Commit(who)
    BY <2>1, CommitSettles
  <2>2. CASE ~ \E who \in Worker : Commit(who)
    <3>1. db' = db
      BY <2>2 DEF Next, PageActs, PageStart, PageStop, PageLook, PageSend, CronPasses, CronNotices, CronPolls,
                  PagePolls, Polls, Run, GivesUp, Abort, HandleStart, HandleTurn, HandleDecide, HandleStop,
                  Exits, CallsProbe, Calls, dbVars
    <3> QED BY <3>1
  <2> QED BY <2>1, <2>2
<1> QED BY <1>1, Invariant, PTL DEF Spec, SettledStays
====
