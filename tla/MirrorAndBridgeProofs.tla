---- MODULE MirrorAndBridgeProofs ----
(***************************************************************************)
(* Proofs about the two components that keep a session's turns in the      *)
(* database.                                                               *)
(*                                                                         *)
(* SessionMirror, for any lines, clicks and rewrites: of what was written  *)
(* since a person followed the session, no turn is skipped and no result   *)
(* misses its call, though the page may begin within a line, following     *)
(* goes off and on and the file is cut; a response is billed once, though  *)
(* its blocks are read in pieces and again; and the types.                 *)
(*                                                                         *)
(* ChatBridge, for any number of requests, polls and turns: no row waits   *)
(* for a result that was read before it, and an answer is off by no more   *)
(* turns than were lost or have no row.  The invariant speaks of any rows  *)
(* and results, so that it can be carried from one answer of a poll to the *)
(* next; a poll that is not committed is described by the answers it gave. *)
(***************************************************************************)
EXTENDS SessionMirror, ChatBridge, SequenceTheorems, FiniteSetTheorems, WellFoundedInduction, TLAPS

\* What the argument needs of the types.
Types ==
    /\ file \in Seq(Id) /\ made \in 0..Len(Script) /\ torn \in BOOLEAN
    /\ follow \in [bytes : Nat, lines : Nat] /\ since \in Nat /\ page.size \in Nat
    /\ seq \in [Id -> Nat]

\* NoTurnIsSkipped is not inductive: a cursor within a line, which would lose
\* the rest of it, is only there while the session is followed from there on.
TornAtStart == Within(follow.bytes) => since = follow.bytes

IInv == Types /\ TornAtStart /\ NoTurnIsSkipped

----
LEMMA Halves ==
  ASSUME NEW o \in Nat
  PROVE  /\ o \div 2 \in Nat /\ 2 * (o \div 2) <= o
         /\ FirstFrom(o) \in Nat /\ FirstFrom(o) > o \div 2
         /\ ~Within(o) => FirstFrom(o) = o \div 2 + 1 /\ 2 * (o \div 2) = o
         /\ Within(o) => 2 * FirstFrom(o) = o + 3
  BY DEF FirstFrom, Within

LEMMA ScriptIsFinite == Len(Script) \in Nat
  BY MirrorAssumption, LenProperties

LEMMA FileIsFinite ==
  ASSUME Types
  PROVE  /\ Len(file) \in Nat /\ Size \in Nat /\ Size >= 2 * Len(file) /\ Size <= 2 * Len(file) + 1
         /\ follow.bytes \in Nat /\ follow.lines \in Nat
         /\ \A i \in 1..Len(file) : file[i] \in Id
  BY LenProperties, ElementOfSeq DEF Types, Size

LEMMA InitIInv == Init => IInv
<1> SUFFICES ASSUME Init PROVE IInv
  OBVIOUS
<1>1. Types
  <2>1. file \in Seq(Id)
    BY EmptySeq DEF Init
  <2>2. made \in 0..Len(Script) /\ torn \in BOOLEAN /\ since \in Nat
    <3>1. made = 0 /\ torn = FALSE /\ since = 0
      BY DEF Init
    <3>2. 0 \in 0..Len(Script)
      BY ScriptIsFinite
    <3> QED BY <3>1, <3>2
  <2>3. follow \in [bytes : Nat, lines : Nat] /\ page.size \in Nat
    BY DEF Init, NoPage
  <2>4. seq \in [Id -> Nat]
    BY DEF Init
  <2> QED BY <2>1, <2>2, <2>3, <2>4 DEF Types
<1>2. follow.bytes = 0 /\ since = 0 /\ Len(file) = 0
  BY EmptySeq DEF Init
<1> QED BY <1>1, <1>2 DEF IInv, TornAtStart, NoTurnIsSkipped

\* Nothing that the argument speaks of changes, but for the page.
LEMMA Elsewhere ==
  ASSUME IInv, UNCHANGED <<file, made, torn, follow, since, seq>>, page'.size \in Nat
  PROVE  IInv'
  BY DEF IInv, Types, TornAtStart, NoTurnIsSkipped, Followed, Size

----
LEMMA WritesKeeps == ASSUME IInv, Writes PROVE IInv'
<1>1. Types /\ Size >= follow.bytes /\ UNCHANGED <<follow, since, seq, page>>
  BY DEF Writes, Noticed, IInv, followVars, pageVars
<1>2. CASE torn
  <2>0. /\ file' = Append(file, made + 1) /\ made' = made + 1 /\ torn' = ~torn /\ made < Len(Script)
    BY <1>2 DEF Writes
  <2>1. /\ file' = Append(file, made + 1) /\ made' = made + 1 /\ torn' = FALSE
        /\ made + 1 \in Id /\ made + 1 \in 0..Len(Script)
    <3>1. made \in 0..Len(Script)
      BY <1>1 DEF Types
    <3>2. made + 1 \in 1..Len(Script) /\ made + 1 \in 0..Len(Script)
      BY <2>0, <3>1, ScriptIsFinite
    <3> QED BY <1>2, <2>0, <3>2 DEF Id
  <2>2. /\ file' \in Seq(Id) /\ Len(file') = Len(file) + 1
        /\ \A i \in 1..Len(file) : file'[i] = file[i]
    BY <1>1, <2>1, AppendProperties DEF Types
  <2>3. Types'
    <3>1. made' \in 0..Len(Script) /\ torn' \in BOOLEAN
      BY <2>1
    <3> QED BY <1>1, <2>2, <3>1 DEF Types
  <2>4. ASSUME NEW i \in 1..Len(file'), Followed(i)', IsTurn(file'[i]) PROVE seq[file'[i]] # 0
    <3>1. 2 * i <= follow.bytes /\ 2 * (i - 1) >= since /\ i \in Nat
      BY <1>1, <2>4 DEF Followed
    <3>2. i \in 1..Len(file)
      BY <1>1, <2>2, <3>1, FileIsFinite
    <3>3. Followed(i) /\ file'[i] = file[i]
      BY <1>1, <2>2, <3>1, <3>2 DEF Followed
    <3> QED BY <2>4, <3>2, <3>3 DEF IInv, NoTurnIsSkipped
  <2> QED BY <1>1, <2>3, <2>4 DEF IInv, TornAtStart, NoTurnIsSkipped
<1>3. CASE ~torn
  <2>1. UNCHANGED <<file, made>> /\ torn' = TRUE
    BY <1>1, <1>3 DEF Writes, Types
  <2>2. Types'
    BY <1>1, <2>1 DEF Types
  <2>3. \A i \in 1..Len(file) : Followed(i)' => Followed(i)
    BY <1>1, <2>1 DEF Followed
  <2> QED BY <1>1, <2>1, <2>2, <2>3 DEF IInv, TornAtStart, NoTurnIsSkipped
<1> QED BY <1>1, <1>2, <1>3 DEF Types

\* A file that was cut is shorter than the cursor: nothing is said of it.
LEMMA RewritesKeeps == ASSUME IInv, Rewrites PROVE IInv'
<1>1. Types /\ Size = follow.bytes /\ ~torn /\ file # <<>> /\ file' = Tail(file)
      /\ UNCHANGED <<made, torn, follow, since, seq, page>>
  BY DEF Rewrites, IInv, followVars, pageVars
<1>2. file' \in Seq(Id) /\ Len(file') = Len(file) - 1
  BY <1>1, HeadTailProperties DEF Types
<1>3. Size' < follow.bytes
  BY <1>1, <1>2, FileIsFinite DEF Size, Types
<1>4. \A i : ~Followed(i)'
  BY <1>1, <1>2, <1>3, FileIsFinite DEF Followed, Types, Size
<1>5. Types'
  BY <1>1, <1>2 DEF Types
<1> QED BY <1>1, <1>4, <1>5 DEF IInv, TornAtStart, NoTurnIsSkipped

\* Nothing was written after the place a session is followed from, yet.
LEMMA StartKeeps == ASSUME IInv, StartCommits PROVE IInv'
<1>1. Types /\ page' = NoPage /\ follow' = [bytes |-> page.size, lines |-> Len(file)] /\ since' = page.size
      /\ UNCHANGED <<file, made, torn, seq>>
  BY DEF StartCommits, IInv, fileVars
<1>2. Types'
  BY <1>1, FileIsFinite DEF Types, NoPage
<1>3. \A i \in 1..Len(file) : ~Followed(i)'
  BY <1>1, FileIsFinite DEF Followed, Types
<1> QED BY <1>1, <1>2, <1>3 DEF IInv, TornAtStart, NoTurnIsSkipped

\* What a pass makes of the cursor.
LEMMA TickShape ==
  ASSUME IInv, NEW n \in 0..Len(Script), NEW a \in n..Len(Script), FollowTick(n, a)
  PROVE  LET cut == Size < follow.bytes
             offset == IF cut THEN 0 ELSE follow.bytes
             before == IF cut THEN 0 ELSE follow.lines
             fresh == {i \in Between(offset, n) : IsTurn(file[i])}
             put == {file[i] : i \in fresh}
         IN  /\ Types /\ n \in Nat /\ a \in Nat /\ n <= Len(file) /\ 2 * n >= offset
             /\ seq' = [l \in Id |-> IF l \in put
                          THEN before + (CHOOSE i \in fresh : file[i] = l) - (offset \div 2) ELSE seq[l]]
             /\ answered' = answered \cup Joined(Between(offset, n), seq')
             /\ follow' = [bytes |-> 2 * n, lines |-> before + n - (offset \div 2)]
             /\ since' = (IF cut THEN 0 ELSE since) /\ page' = NoPage
             /\ UNCHANGED <<file, made, torn>>
<1>1. Types /\ n \in Nat /\ a \in Nat /\ Len(file) \in Nat
  BY ScriptIsFinite, FileIsFinite DEF IInv
<1>2. n <= a /\ a <= Len(file)
  BY DEF FollowTick
<1>3. n <= Len(file)
  BY <1>1, <1>2
<1> QED BY <1>1, <1>3 DEF FollowTick, Wins, fileVars

\* A line behind the cursor was read in this pass, or was behind it before.
LEMMA TickFollows ==
  ASSUME IInv, NEW n \in 0..Len(Script), NEW a \in n..Len(Script), FollowTick(n, a),
         NEW i \in 1..Len(file), Followed(i)'
  PROVE  \/ i \in Between(IF Size < follow.bytes THEN 0 ELSE follow.bytes, n)
         \/ /\ Followed(i) /\ ~(Size < follow.bytes)
            /\ i < FirstFrom(follow.bytes)
<1> DEFINE cut == Size < follow.bytes
           offset == IF cut THEN 0 ELSE follow.bytes
<1>1. /\ Types /\ n \in Nat /\ follow'.bytes = 2 * n /\ since' = (IF cut THEN 0 ELSE since)
  BY TickShape
<1>2. i \in Nat /\ i <= n /\ 2 * (i - 1) >= since'
  <2>1. i \in Nat
    BY <1>1, FileIsFinite
  <2>2. 2 * i <= follow'.bytes /\ 2 * (i - 1) >= since'
    BY DEF Followed
  <2>3. 2 * i <= 2 * n /\ n \in Nat
    BY <1>1, <2>2
  <2>4. i <= n
    BY <2>1, <2>3
  <2> QED BY <2>1, <2>2, <2>4
<1>3. CASE FirstFrom(offset) <= i
  BY <1>2, <1>3 DEF Between
<1>4. CASE ~(FirstFrom(offset) <= i)
  <2>1. ~cut
    <3>1. CASE cut
      <4>1. offset = 0 /\ FirstFrom(0) = 1
        BY <3>1, Halves DEF FirstFrom
      <4> QED BY <1>2, <1>4, <4>1
    <3> QED BY <3>1
  <2>2. offset = follow.bytes /\ since' = since /\ Size >= follow.bytes
    BY <1>1, <2>1, FileIsFinite
  <2>3. ~Within(follow.bytes)
    <3>1. CASE Within(follow.bytes)
      <4>1. since = follow.bytes /\ 2 * FirstFrom(follow.bytes) = follow.bytes + 3 /\ FirstFrom(follow.bytes) \in Nat
        BY <1>1, <3>1, Halves, FileIsFinite DEF IInv, TornAtStart
      <4>2. i < FirstFrom(follow.bytes) /\ 2 * (i - 1) >= follow.bytes /\ follow.bytes \in Nat
        BY <1>1, <1>2, <1>4, <2>2, <4>1, FileIsFinite
      <4> QED BY <1>2, <4>1, <4>2
    <3> QED BY <3>1
  <2>4. 2 * i <= follow.bytes /\ i < FirstFrom(follow.bytes)
    <3>1. FirstFrom(follow.bytes) = follow.bytes \div 2 + 1 /\ 2 * (follow.bytes \div 2) = follow.bytes
          /\ follow.bytes \div 2 \in Nat /\ follow.bytes \in Nat
      BY <1>1, <2>3, Halves, FileIsFinite
    <3>2. ~(FirstFrom(follow.bytes) <= i)
      BY <1>4, <2>2
    <3> QED BY <1>2, <3>1, <3>2
  <2> QED BY <1>2, <2>1, <2>2, <2>4 DEF Followed
<1> QED BY <1>3, <1>4

\* A turn that is stored has a number, and keeps one.
LEMMA TickNumbers ==
  ASSUME IInv, NEW n \in 0..Len(Script), NEW a \in n..Len(Script), FollowTick(n, a)
  PROVE  LET offset == IF Size < follow.bytes THEN 0 ELSE follow.bytes
             put == {file[i] : i \in {j \in Between(offset, n) : IsTurn(file[j])}}
         IN  /\ \A l \in Id : seq'[l] \in Nat
             /\ \A l \in Id : l \in put => seq'[l] # 0
             /\ \A l \in Id : l \notin put => seq'[l] = seq[l]
<1> DEFINE cut == Size < follow.bytes
           offset == IF cut THEN 0 ELSE follow.bytes
           before == IF cut THEN 0 ELSE follow.lines
           fresh == {i \in Between(offset, n) : IsTurn(file[i])}
           put == {file[i] : i \in fresh}
<1>1. /\ Types /\ n \in Nat /\ a \in Nat /\ n <= Len(file) /\ 2 * n >= offset
      /\ seq' = [l \in Id |-> IF l \in put
                   THEN before + (CHOOSE i \in fresh : file[i] = l) - (offset \div 2) ELSE seq[l]]
      /\ follow' = [bytes |-> 2 * n, lines |-> before + n - (offset \div 2)]
      /\ since' = (IF cut THEN 0 ELSE since) /\ page' = NoPage
      /\ UNCHANGED <<file, made, torn>>
  BY TickShape
<1>2. offset \in Nat /\ before \in Nat
  BY <1>1, FileIsFinite
<1>3. \A l \in put : LET j == CHOOSE i \in fresh : file[i] = l
                        IN  j \in Nat /\ j > offset \div 2
  <2> SUFFICES ASSUME NEW l \in put
               PROVE  LET j == CHOOSE i \in fresh : file[i] = l IN j \in Nat /\ j > offset \div 2
    OBVIOUS
  <2> DEFINE j == CHOOSE i \in fresh : file[i] = l
  <2>1. j \in fresh
    BY DEF put
  <2>2. j \in 1..Len(file) /\ FirstFrom(offset) <= j
    BY <2>1 DEF Between
  <2> HIDE DEF j, offset
  <2>3. FirstFrom(offset) \in Nat /\ FirstFrom(offset) > offset \div 2 /\ offset \div 2 \in Nat
    BY <1>2, Halves
  <2>4. Len(file) \in Nat
    BY <1>1, FileIsFinite
  <2>5. j \in Nat /\ j > offset \div 2
    BY <2>2, <2>3, <2>4
  <2> QED BY <2>5 DEF j
<1>4. /\ \A l \in Id : seq'[l] \in Nat
      /\ \A l \in Id : l \in put => seq'[l] # 0
      /\ \A l \in Id : l \notin put => seq'[l] = seq[l]
  <2> SUFFICES ASSUME NEW l \in Id
               PROVE  seq'[l] \in Nat /\ (l \in put => seq'[l] # 0) /\ (l \notin put => seq'[l] = seq[l])
    OBVIOUS
  <2>1. CASE l \in put
    <3> DEFINE j == CHOOSE i \in fresh : file[i] = l
    <3>1. j \in Nat /\ j > offset \div 2
      BY <1>3, <2>1
    <3>2. seq'[l] = before + j - (offset \div 2)
      BY <1>1, <2>1
    <3> HIDE DEF j, before, offset
    <3>3. offset \div 2 \in Nat
      BY <1>2, Halves
    <3> QED BY <1>2, <2>1, <3>1, <3>2, <3>3
  <2>2. CASE l \notin put
    BY <1>1, <2>2 DEF Types
  <2> QED BY <2>1, <2>2
<1> QED BY <1>4

\* The pass that stores the turns.
LEMMA TickKeeps ==
  ASSUME IInv, NEW n \in 0..Len(Script), NEW a \in n..Len(Script), FollowTick(n, a)
  PROVE  IInv'
<1> DEFINE cut == Size < follow.bytes
           offset == IF cut THEN 0 ELSE follow.bytes
           before == IF cut THEN 0 ELSE follow.lines
           fresh == {i \in Between(offset, n) : IsTurn(file[i])}
           put == {file[i] : i \in fresh}
<1>1. /\ Types /\ n \in Nat /\ a \in Nat /\ n <= Len(file) /\ 2 * n >= offset
      /\ seq' = [l \in Id |-> IF l \in put
                   THEN before + (CHOOSE i \in fresh : file[i] = l) - (offset \div 2) ELSE seq[l]]
      /\ follow' = [bytes |-> 2 * n, lines |-> before + n - (offset \div 2)]
      /\ since' = (IF cut THEN 0 ELSE since) /\ page' = NoPage
      /\ UNCHANGED <<file, made, torn>>
  BY TickShape
<1>2. offset \in Nat /\ before \in Nat
  BY <1>1, FileIsFinite
<1>4. /\ \A l \in Id : seq'[l] \in Nat
      /\ \A l \in Id : l \in put => seq'[l] # 0
      /\ \A l \in Id : l \notin put => seq'[l] = seq[l]
  BY TickNumbers
<1>5. Types'
  <2>1. offset \div 2 \in Nat /\ 2 * (offset \div 2) <= offset
    BY <1>2, Halves
  <2> HIDE DEF before, offset
  <2>2. before + n - (offset \div 2) \in Nat /\ 2 * n \in Nat
    BY <1>1, <1>2, <2>1
  <2>3. follow' \in [bytes : Nat, lines : Nat]
    BY <1>1, <2>2
  <2>4. seq' \in [Id -> Nat]
    BY <1>1, <1>4
  <2>5. since' \in Nat
    BY <1>1 DEF Types
  <2> QED BY <1>1, <2>3, <2>4, <2>5 DEF Types, NoPage
<1>6. TornAtStart'
  BY <1>1 DEF TornAtStart, Within
<1>7. ASSUME NEW i \in 1..Len(file), Followed(i)', IsTurn(file[i]) PROVE seq'[file[i]] # 0
  <2>1. file[i] \in Id
    BY <1>1, FileIsFinite
  <2>2. CASE i \in Between(offset, n)
    BY <1>4, <1>7, <2>1, <2>2
  <2>3. CASE Followed(i)
    BY <1>4, <1>7, <2>1, <2>3 DEF IInv, NoTurnIsSkipped
  <2> QED BY <1>7, <2>2, <2>3, TickFollows
<1> QED BY <1>1, <1>5, <1>6, <1>7 DEF IInv, NoTurnIsSkipped

----
LEMMA NextIInv == IInv /\ [Next]_vars => IInv'
<1> SUFFICES ASSUME IInv, [Next]_vars PROVE IInv'
  OBVIOUS
<1> USE DEF fileVars, followVars, mapVars, spendVars, pageVars
<1>0. page.size \in Nat /\ NoPage.size \in Nat
  BY DEF IInv, Types, NoPage
<1>1. CASE Writes \/ Rewrites \/ StartCommits
  BY <1>1, WritesKeeps, RewritesKeeps, StartKeeps
<1>2. CASE StartReads
  <2>1. page'.size = Size
    BY <1>2 DEF StartReads
  <2> QED BY <1>2, <2>1, Elsewhere, FileIsFinite DEF StartReads, IInv
<1>3. CASE StartConflicts \/ StopFollowing \/ ApplyFollowing
  BY <1>0, <1>3, Elsewhere DEF StartConflicts, StopFollowing, ApplyFollowing, Wins
<1>4. ASSUME NEW n \in 0..Len(Script), ScanBatch(n) \/ RescanSpend(n) PROVE IInv'
  BY <1>0, <1>4, Elsewhere DEF ScanBatch, RescanSpend, SpendFrom, Wins
<1>5. ASSUME NEW n \in 0..Len(Script), NEW a \in n..Len(Script), FollowTick(n, a) PROVE IInv'
  BY <1>5, TickKeeps
<1>6. CASE RebuildAgents
  BY <1>0, <1>6, Elsewhere DEF RebuildAgents, Wins
<1>7. CASE UNCHANGED vars
  BY <1>0, <1>7, Elsewhere DEF vars
<1> QED BY <1>1, <1>2, <1>3, <1>4, <1>5, <1>6, <1>7 DEF Next

\* For any session, however following goes off and on and the file is cut or read
\* in pieces: a turn written since a person followed it is stored by the time
\* the cursor is past it.
THEOREM TurnsAreStored == Spec => []NoTurnIsSkipped
<1>1. IInv => NoTurnIsSkipped
  BY DEF IInv
<1> QED BY <1>1, InitIInv, NextIInv, PTL DEF Spec
----
(***************************************************************************)
(* Results.  The file is in the order of the session's lines, so a call    *)
(* that is stored only now has no result behind the cursor.                *)
(***************************************************************************)
InOrder == \A i \in 1..Len(file) : file[i] <= made /\ \A j \in 1..(i - 1) : file[j] < file[i]

JInv == InOrder /\ answered \subseteq Id /\ ResultsAreJoined

LEMMA OfIsEarlier == ASSUME NEW l \in Id PROVE Script[l].of \in Id \cup {0} /\ (Script[l].of # 0 => Script[l].of < l)
<1>1. Script[l] \in Line
  BY MirrorAssumption, ElementOfSeq DEF Id
<1> QED BY <1>1, MirrorAssumption DEF Line

LEMMA JoinedElsewhere ==
  ASSUME JInv, UNCHANGED <<file, made, torn, follow, since, seq, answered>> PROVE JInv'
  BY DEF JInv, InOrder, ResultsAreJoined, Followed, Size, LineAt

LEMMA WritesJoins == ASSUME IInv, JInv, Writes PROVE JInv'
<1>1. Types /\ UNCHANGED <<follow, since, seq, answered>>
  BY DEF Writes, IInv, followVars
<1>2. CASE torn
  <2>1. file' = Append(file, made + 1) /\ made' = made + 1 /\ made \in Nat /\ made + 1 \in Id
    BY <1>1, <1>2, ScriptIsFinite DEF Writes, Types, Id
  <2>2. /\ Len(file') = Len(file) + 1 /\ file'[Len(file) + 1] = made + 1
        /\ \A i \in 1..Len(file) : file'[i] = file[i]
    BY <1>1, <2>1, AppendProperties DEF Types
  <2>3. \A i \in 1..Len(file) : file[i] \in Nat /\ file[i] <= made
    BY <1>1, FileIsFinite, ScriptIsFinite DEF JInv, InOrder, Id
  <2>4. InOrder'
    <3> SUFFICES ASSUME NEW i \in 1..Len(file')
                 PROVE  file'[i] <= made + 1 /\ \A j \in 1..(i - 1) : file'[j] < file'[i]
      BY <2>1 DEF InOrder
    <3>1. CASE i \in 1..Len(file)
      <4>1. \A j \in 1..(i - 1) : j \in 1..Len(file)
        BY <3>1, <1>1, FileIsFinite
      <4> QED BY <2>1, <2>2, <2>3, <3>1, <4>1 DEF JInv, InOrder
    <3>2. CASE i = Len(file) + 1
      <4>1. \A j \in 1..(i - 1) : j \in 1..Len(file)
        BY <3>2, <1>1, FileIsFinite
      <4> QED BY <2>1, <2>2, <2>3, <3>2, <4>1
    <3> QED BY <2>2, <3>1, <3>2, <1>1, FileIsFinite
  <2>5. ASSUME NEW i \in 1..Len(file'), Followed(i)' PROVE i \in 1..Len(file) /\ Followed(i) /\ file'[i] = file[i]
    <3>1. Size >= follow.bytes
      BY DEF Writes, Noticed
    <3>2. 2 * i <= follow.bytes /\ i \in Nat
      BY <1>1, <2>2, <2>5, FileIsFinite DEF Followed
    <3>3. i \in 1..Len(file)
      BY <1>1, <2>2, <3>1, <3>2, FileIsFinite
    <3> QED BY <1>1, <2>2, <2>5, <3>1, <3>3 DEF Followed
  <2>6. ResultsAreJoined'
    BY <1>1, <2>5 DEF JInv, ResultsAreJoined, LineAt
  <2> QED BY <1>1, <2>4, <2>6 DEF JInv
<1>3. CASE ~torn
  <2>1. UNCHANGED <<file, made>>
    BY <1>3 DEF Writes
  <2>2. \A i \in 1..Len(file) : Followed(i)' => Followed(i)
    BY <1>1, <2>1 DEF Followed, Writes, Noticed
  <2> QED BY <1>1, <2>1, <2>2 DEF JInv, InOrder, ResultsAreJoined, LineAt
<1> QED BY <1>1, <1>2, <1>3 DEF Types

LEMMA RewritesJoins == ASSUME IInv, JInv, Rewrites PROVE JInv'
<1>1. Types /\ Size = follow.bytes /\ ~torn /\ file # <<>> /\ file' = Tail(file)
      /\ UNCHANGED <<made, torn, follow, since, seq, answered>>
  BY DEF Rewrites, IInv, followVars
<1>2. file' \in Seq(Id) /\ Len(file') = Len(file) - 1 /\ \A i \in 1..Len(file') : file'[i] = file[i + 1]
  BY <1>1, HeadTailProperties DEF Types
<1>3. \A i : ~Followed(i)'
  BY <1>1, <1>2, FileIsFinite DEF Followed, Types, Size
<1>4. InOrder'
  <2> SUFFICES ASSUME NEW i \in 1..Len(file')
               PROVE  file'[i] <= made /\ \A j \in 1..(i - 1) : file'[j] < file'[i]
    BY <1>1 DEF InOrder
  <2>1. i + 1 \in 1..Len(file) /\ \A j \in 1..(i - 1) : j + 1 \in 1..((i + 1) - 1) /\ j \in 1..Len(file')
    BY <1>1, <1>2, FileIsFinite
  <2> QED BY <1>2, <2>1 DEF JInv, InOrder
<1> QED BY <1>1, <1>3, <1>4 DEF JInv, ResultsAreJoined

LEMMA StartJoins == ASSUME IInv, JInv, StartCommits PROVE JInv'
<1>1. Types /\ follow' = [bytes |-> page.size, lines |-> Len(file)] /\ since' = page.size
      /\ UNCHANGED <<file, made, torn, seq, answered>>
  BY DEF StartCommits, IInv, fileVars
<1>2. \A i \in 1..Len(file) : ~Followed(i)'
  BY <1>1, FileIsFinite DEF Followed, Types
<1> QED BY <1>1, <1>2 DEF JInv, InOrder, ResultsAreJoined

LEMMA TickJoins ==
  ASSUME IInv, JInv, NEW n \in 0..Len(Script), NEW a \in n..Len(Script), FollowTick(n, a)
  PROVE  JInv'
<1> DEFINE cut == Size < follow.bytes
           offset == IF cut THEN 0 ELSE follow.bytes
           fresh == {i \in Between(offset, n) : IsTurn(file[i])}
           put == {file[i] : i \in fresh}
<1>1. /\ Types /\ UNCHANGED <<file, made>>
      /\ answered' = answered \cup Joined(Between(offset, n), seq')
      /\ \A l \in Id : l \notin put => seq'[l] = seq[l]
  BY TickShape
<1>2. ASSUME NEW i \in 1..Len(file), Followed(i)', LineAt(i).of # 0, seq'[LineAt(i).of] # 0
      PROVE  LineAt(i).of \in answered'
  <2> DEFINE c == LineAt(i).of
  <2>1. file[i] \in Id /\ c \in Id /\ c < file[i]
    BY <1>1, <1>2, FileIsFinite, OfIsEarlier DEF LineAt
  <2>2. CASE i \in Between(offset, n)
    BY <1>1, <1>2, <2>1, <2>2 DEF Joined
  <2>3. CASE Followed(i) /\ ~cut /\ i < FirstFrom(follow.bytes)
    <3>1. c \notin put
      <4> SUFFICES ASSUME NEW j \in fresh, file[j] = c PROVE FALSE
        OBVIOUS
      <4>1. j \in 1..Len(file) /\ FirstFrom(follow.bytes) <= j
        BY <2>3 DEF Between
      <4>2. FirstFrom(follow.bytes) \in Nat
        BY <1>1, FileIsFinite, Halves
      <4>3. i \in 1..(j - 1)
        BY <1>1, <2>3, <4>1, <4>2, FileIsFinite
      <4>4. file[i] < file[j]
        BY <4>1, <4>3 DEF JInv, InOrder
      <4> QED BY <2>1, <4>4, ScriptIsFinite DEF Id
    <3> QED BY <1>1, <1>2, <2>1, <2>3, <3>1 DEF JInv, ResultsAreJoined
  <2> QED BY <1>2, <2>2, <2>3, TickFollows
<1>3. answered' \subseteq Id
  BY <1>1 DEF JInv, Joined
<1> QED BY <1>1, <1>2, <1>3 DEF JInv, InOrder, ResultsAreJoined, LineAt

LEMMA NextJInv == IInv /\ JInv /\ [Next]_vars => JInv'
<1> SUFFICES ASSUME IInv, JInv, [Next]_vars PROVE JInv'
  OBVIOUS
<1> USE DEF fileVars, followVars, mapVars, spendVars, pageVars
<1>1. CASE Writes \/ Rewrites \/ StartCommits
  BY <1>1, WritesJoins, RewritesJoins, StartJoins
<1>2. CASE StartReads \/ StartConflicts \/ StopFollowing \/ ApplyFollowing \/ RebuildAgents
  BY <1>2, JoinedElsewhere DEF StartReads, StartConflicts, StopFollowing, ApplyFollowing, RebuildAgents
<1>3. ASSUME NEW n \in 0..Len(Script), ScanBatch(n) \/ RescanSpend(n) PROVE JInv'
  BY <1>3, JoinedElsewhere DEF ScanBatch, RescanSpend, SpendFrom
<1>4. ASSUME NEW n \in 0..Len(Script), NEW a \in n..Len(Script), FollowTick(n, a) PROVE JInv'
  BY <1>4, TickJoins
<1>5. CASE UNCHANGED vars
  BY <1>5, JoinedElsewhere DEF vars
<1> QED BY <1>1, <1>2, <1>3, <1>4, <1>5 DEF Next

\* For any session: a result behind the cursor is joined to its call, whether the
\* two were read in one pass or in different ones, before or after the file was cut.
THEOREM ResultsFindCalls == Spec => []ResultsAreJoined
<1>1. Init => JInv
  <2>1. Init => Len(file) = 0 /\ answered = {}
    BY EmptySeq DEF Init
  <2> QED BY <2>1 DEF JInv, InOrder, ResultsAreJoined
<1>2. JInv => ResultsAreJoined
  BY DEF JInv
<1> QED BY <1>1, <1>2, InitIInv, NextIInv, NextJInv, PTL DEF Spec

----
(***************************************************************************)
(* Sums over a finite set, in the order of its CHOOSE, and the largest of  *)
(* a response's blocks.                                                    *)
(***************************************************************************)
\* Induction, from the least element of a set of naturals, and the folds it gives.
LEMMA Induction ==
  ASSUME NEW S, 0 \in S, \A n \in Nat : n \in S => n + 1 \in S
  PROVE  Nat \subseteq S
<1> DEFINE T == Nat \ S
           R == {ss \in Nat \X Nat : ss[1] < ss[2]}
<1> SUFFICES ASSUME T # {} PROVE FALSE
  OBVIOUS
<1>1. IsWellFoundedOn(R, Nat)
  BY NatLessThanWellFounded, SMT DEF OpToRel
<1>2. PICK x \in T : \A y \in T : ~ (<<y, x>> \in R)
  <2> HIDE DEF R
  <2> QED BY <1>1, WFMin, Zenon
<1>3. x - 1 \in Nat /\ x - 1 < x /\ (x - 1) + 1 = x
  OBVIOUS
<1> QED BY <1>2, <1>3

Steps(W, N) == [W \X (1..N) -> W]
IsFold(f, W, a, N, step) == f \in [0..N -> W] /\ f[0] = a /\ \A i \in 1..N : f[i] = step[<<f[i - 1], i>>]

\* There is a fold of any step over any number of lines.
LEMMA FoldExists ==
  ASSUME NEW W, NEW a \in W, NEW N \in Nat, NEW step \in Steps(W, N)
  PROVE  \E f : IsFold(f, W, a, N, step)
<1> USE DEF Steps
<1> DEFINE Folds(f, n) == f[0] = a /\ \A i \in 1..n : f[i] = step[<<f[i - 1], i>>]
           S == {n \in Nat : n <= N => \E f \in [0..n -> W] : Folds(f, n)}
<1>1. 0 \in S
  <2>1. Folds([i \in 0..0 |-> a], 0) /\ [i \in 0..0 |-> a] \in [0..0 -> W]
    OBVIOUS
  <2> QED BY <2>1
<1>2. ASSUME NEW n \in Nat, n \in S PROVE n + 1 \in S
  <2> SUFFICES ASSUME n + 1 <= N PROVE \E f \in [0..(n + 1) -> W] : Folds(f, n + 1)
    OBVIOUS
  <2>1. PICK f \in [0..n -> W] : Folds(f, n)
    BY <1>2
  <2> DEFINE h == [i \in 0..(n + 1) |-> IF i = n + 1 THEN step[<<f[n], n + 1>>] ELSE f[i]]
  <2>2. f[n] \in W /\ n + 1 \in 1..N
    OBVIOUS
  <2>3. h \in [0..(n + 1) -> W]
    BY <2>2
  <2>4. h[0] = a
    BY <2>1
  <2>5. ASSUME NEW i \in 1..(n + 1) PROVE h[i] = step[<<h[i - 1], i>>]
    <3>1. CASE i = n + 1
      <4>1. h[n] = f[n] /\ i - 1 = n /\ h[i] = step[<<f[n], n + 1>>]
        BY <3>1
      <4> QED BY <3>1, <4>1
    <3>2. CASE i # n + 1
      <4>1. i \in 1..n /\ h[i] = f[i] /\ h[i - 1] = f[i - 1]
        BY <3>2
      <4> QED BY <2>1, <4>1
    <3> QED BY <3>1, <3>2
  <2> HIDE DEF h
  <2> QED BY <2>3, <2>4, <2>5
<1> HIDE DEF S
<1>3. N \in S
  BY <1>1, <1>2, Induction
<1> QED BY <1>3 DEF S, IsFold


\* Induction up to a bound.
LEMMA UpTo ==
  ASSUME NEW N \in Nat, NEW S, 0 \in S, \A n \in 0..(N - 1) : n \in S => n + 1 \in S
  PROVE  \A n \in 0..N : n \in S
<1> DEFINE U == {n \in Nat : n <= N => n \in S}
<1>1. 0 \in U
  OBVIOUS
<1>2. ASSUME NEW n \in Nat, n \in U PROVE n + 1 \in U
  BY <1>2
<1> HIDE DEF U
<1>3. Nat \subseteq U
  BY <1>1, <1>2, Induction
<1> QED BY <1>3 DEF U

One(s) == CHOOSE x \in s : TRUE
\* The recursion of a sum of f over the subsets of V.
SumStep(h, f, V) == [s \in SUBSET V |-> IF s = {} THEN 0 ELSE f[One(s)] + h[s \ {One(s)}]]
Sums(h, f, V) == h = SumStep(h, f, V)

LEMMA OneIsIn == ASSUME NEW s, s # {} PROVE One(s) \in s
  BY DEF One

\* Induction on the subsets of a finite set.
LEMMA SubsetInduction ==
  ASSUME NEW V, IsFiniteSet(V), NEW P, {} \in P,
         \A s \in SUBSET V : s # {} /\ s \ {One(s)} \in P => s \in P
  PROVE  \A s \in SUBSET V : s \in P
<1> DEFINE N == Cardinality(V)
           S == {n \in 0..N : \A s \in SUBSET V : Cardinality(s) <= n => s \in P}
<1>0. N \in Nat /\ \A s \in SUBSET V : IsFiniteSet(s) /\ Cardinality(s) \in Nat /\ Cardinality(s) <= N
  BY FS_CardinalityType, FS_Subset
<1>1. 0 \in S
  <2>1. ASSUME NEW s \in SUBSET V, Cardinality(s) <= 0 PROVE s \in P
    <3>1. s = {}
      BY <1>0, <2>1, FS_EmptySet
    <3> QED BY <3>1
  <2> QED BY <1>0, <2>1
<1>2. ASSUME NEW n \in 0..(N - 1), n \in S PROVE n + 1 \in S
  <2>1. ASSUME NEW s \in SUBSET V, Cardinality(s) <= n + 1 PROVE s \in P
    <3>1. CASE s = {}
      BY <3>1
    <3>2. CASE s # {}
      <4>1. One(s) \in s
        BY <3>2, OneIsIn
      <4>2. Cardinality(s \ {One(s)}) = Cardinality(s) - 1 /\ s \ {One(s)} \in SUBSET V
        BY <1>0, <4>1, FS_RemoveElement
      <4>3. Cardinality(s \ {One(s)}) <= n
        BY <1>0, <2>1, <4>2
      <4>4. s \ {One(s)} \in P
        BY <1>2, <4>2, <4>3
      <4> QED BY <3>2, <4>4
    <3> QED BY <3>1, <3>2
  <2>2. n + 1 \in 0..N
    BY <1>0
  <2> QED BY <2>1, <2>2
<1>3. \A n \in 0..N : n \in S
  <2> HIDE DEF S, N
  <2> QED BY <1>0, <1>1, <1>2, UpTo
<1> QED BY <1>0, <1>3

\* There is a sum, of naturals a natural.
LEMMA SumExists ==
  ASSUME NEW V, IsFiniteSet(V), NEW K \in {Nat, Int}, NEW f \in [V -> K]
  PROVE  \E h \in [SUBSET V -> K] : Sums(h, f, V)
<1> DEFINE N == Cardinality(V)
           W == [SUBSET V -> K]
           a == [s \in SUBSET V |-> 0]
           step == [p \in W \X (1..N) |-> SumStep(p[1], f, V)]
<1>0. N \in Nat /\ \A s \in SUBSET V : IsFiniteSet(s) /\ Cardinality(s) \in Nat /\ Cardinality(s) <= N
  BY FS_CardinalityType, FS_Subset
<1>1. a \in W
  OBVIOUS
<1>2. ASSUME NEW h \in W PROVE SumStep(h, f, V) \in W
  <2>1. ASSUME NEW s \in SUBSET V, s # {} PROVE f[One(s)] + h[s \ {One(s)}] \in K
    <3>1. f[One(s)] \in K /\ h[s \ {One(s)}] \in K
      BY <2>1, OneIsIn
    <3> HIDE DEF W
    <3> QED BY <3>1
  <2> QED BY <2>1 DEF SumStep
<1>3. step \in Steps(W, N)
  BY <1>2 DEF Steps
<1>4. PICK k : IsFold(k, W, a, N, step)
  <2> HIDE DEF W, a, step
  <2> QED BY <1>0, <1>1, <1>3, FoldExists
<1>5. k \in [0..N -> W] /\ k[0] = a /\ \A i \in 1..N : k[i] = SumStep(k[i - 1], f, V)
  <2>1. k \in [0..N -> W] /\ k[0] = a /\ \A i \in 1..N : k[i] = step[<<k[i - 1], i>>]
    BY <1>4, Zenon DEF IsFold
  <2>2. \A i \in 1..N : i - 1 \in 0..N
    BY <1>0
  <2> HIDE DEF W, N
  <2> QED BY <2>1, <2>2
<1> DEFINE Right(n) == \A s \in SUBSET V : Cardinality(s) <= n => k[n][s] = SumStep(k[n], f, V)[s]
           S == {n \in 0..N : Right(n)}
<1>6. 0 \in S
  <2>1. ASSUME NEW s \in SUBSET V, Cardinality(s) <= 0 PROVE k[0][s] = SumStep(k[0], f, V)[s]
    <3>1. s = {}
      BY <1>0, <2>1, FS_EmptySet
    <3> QED BY <1>5, <3>1 DEF SumStep
  <2> QED BY <1>0, <2>1
<1>7. ASSUME NEW n \in 0..(N - 1), n \in S PROVE n + 1 \in S
  <2>0. n + 1 \in 1..N /\ (n + 1) - 1 = n /\ n + 1 \in 0..N
    BY <1>0
  <2>1. k[n + 1] = SumStep(k[n], f, V)
    BY <1>5, <2>0
  <2>2. ASSUME NEW s \in SUBSET V, Cardinality(s) <= n + 1 PROVE k[n + 1][s] = SumStep(k[n + 1], f, V)[s]
    <3>1. CASE s = {}
      BY <2>1, <3>1 DEF SumStep
    <3>2. CASE s # {}
      <4>1. One(s) \in s
        BY <3>2, OneIsIn
      <4>2. Cardinality(s \ {One(s)}) = Cardinality(s) - 1 /\ s \ {One(s)} \in SUBSET V
        BY <1>0, <4>1, FS_RemoveElement
      <4>3. Cardinality(s \ {One(s)}) <= n
        BY <1>0, <2>2, <4>2
      <4>4. k[n][s \ {One(s)}] = SumStep(k[n], f, V)[s \ {One(s)}]
        BY <1>7, <4>2, <4>3
      <4>5. k[n + 1][s \ {One(s)}] = k[n][s \ {One(s)}]
        BY <2>1, <4>4
      <4>6. k[n + 1][s] = f[One(s)] + k[n][s \ {One(s)}]
        BY <2>1, <3>2 DEF SumStep
      <4>7. SumStep(k[n + 1], f, V)[s] = f[One(s)] + k[n + 1][s \ {One(s)}]
        BY <3>2 DEF SumStep
      <4> QED BY <4>5, <4>6, <4>7
    <3> QED BY <3>1, <3>2
  <2> HIDE DEF N
  <2> QED BY <2>0, <2>2
<1>8. Right(N)
  <2>1. \A n \in 0..N : n \in S
    <3> HIDE DEF S, N
    <3> QED BY <1>0, <1>6, <1>7, UpTo
  <2>2. N \in 0..N
    BY <1>0
  <2> QED BY <2>1, <2>2
<1>9. k[N] \in W /\ \A s \in SUBSET V : k[N][s] = SumStep(k[N], f, V)[s]
  BY <1>0, <1>5, <1>8
<1>10. k[N] = SumStep(k[N], f, V)
  <2>1. SumStep(k[N], f, V) \in W
    BY <1>2, <1>9
  <2> HIDE DEF N
  <2> QED BY <1>9, <2>1
<1> HIDE DEF N
<1> QED BY <1>9, <1>10 DEF Sums

\* There is one only.
LEMMA SumIsOne ==
  ASSUME NEW V, IsFiniteSet(V), NEW f, NEW h, NEW c, Sums(h, f, V), Sums(c, f, V)
  PROVE  h = c
<1> DEFINE P == {s \in SUBSET V : h[s] = c[s]}
<1>1. {} \in P
  <2>1. h[{}] = SumStep(h, f, V)[{}] /\ c[{}] = SumStep(c, f, V)[{}]
    BY DEF Sums
  <2> QED BY <2>1 DEF SumStep
<1>2. ASSUME NEW s \in SUBSET V, s # {}, s \ {One(s)} \in P PROVE s \in P
  <2>1. h[s] = SumStep(h, f, V)[s] /\ c[s] = SumStep(c, f, V)[s]
    BY DEF Sums
  <2>2. h[s] = f[One(s)] + h[s \ {One(s)}] /\ c[s] = f[One(s)] + c[s \ {One(s)}]
    BY <1>2, <2>1 DEF SumStep
  <2> QED BY <1>2, <2>2
<1>3. \A s \in SUBSET V : s \in P
  <2> HIDE DEF P
  <2> QED BY <1>1, <1>2, SubsetInduction
<1>4. h = [s \in SUBSET V |-> h[s]] /\ c = [s \in SUBSET V |-> c[s]]
  BY DEF Sums, SumStep
<1> QED BY <1>3, <1>4

Summed(h, f, V) == h \in [SUBSET V -> Int] /\ Sums(h, f, V)

\* The sum of two functions is the sum of their sums.
LEMMA SumOfBoth ==
  ASSUME NEW V, IsFiniteSet(V), NEW f \in [V -> Int], NEW g \in [V -> Int], NEW d \in [V -> Int],
         \A x \in V : g[x] = f[x] + d[x],
         NEW hf, NEW hg, NEW hd, Summed(hf, f, V), Summed(hg, g, V), Summed(hd, d, V)
  PROVE  hg[V] = hf[V] + hd[V]
<1> DEFINE P == {s \in SUBSET V : hg[s] = hf[s] + hd[s]}
<1>0. \A s \in SUBSET V : /\ hf[s] = SumStep(hf, f, V)[s] /\ hg[s] = SumStep(hg, g, V)[s]
                          /\ hd[s] = SumStep(hd, d, V)[s]
  BY DEF Sums, Summed
<1>1. {} \in P
  <2>1. hf[{}] = 0 /\ hg[{}] = 0 /\ hd[{}] = 0
    BY <1>0 DEF SumStep
  <2> QED BY <2>1
<1>2. ASSUME NEW s \in SUBSET V, s # {}, s \ {One(s)} \in P PROVE s \in P
  <2> DEFINE x == One(s)
             t == s \ {One(s)}
  <2>1. x \in V /\ t \in SUBSET V
    BY <1>2, OneIsIn
  <2>2. hf[s] = f[x] + hf[t] /\ hg[s] = g[x] + hg[t] /\ hd[s] = d[x] + hd[t]
    BY <1>0, <1>2 DEF SumStep
  <2>3. hg[t] = hf[t] + hd[t] /\ g[x] = f[x] + d[x]
    BY <1>2, <2>1
  <2>4. {f[x], d[x], g[x], hf[t], hd[t], hg[t]} \subseteq Int
    BY <2>1 DEF Summed
  <2> HIDE DEF x, t
  <2>5. hg[s] = hf[s] + hd[s]
    BY <2>2, <2>3, <2>4
  <2> QED BY <2>5
<1>3. \A s \in SUBSET V : s \in P
  <2> HIDE DEF P
  <2> QED BY <1>1, <1>2, SubsetInduction
<1> QED BY <1>3

\* The sums of the model are what the recursion says.
Sum(f) == MapThenSumSet(LAMBDA r : f[r], Response)
SumOfRaises(f, g) == MapThenSumSet(LAMBDA r : g[r] - f[r], Response)

LEMMA SumIs ==
  ASSUME NEW f, NEW h, Sums(h, f, Response)
  PROVE  Sum(f) = h[Response]
<1> DEFINE F(k) == [s \in SUBSET Response |-> IF s = {} THEN 0
                      ELSE f[CHOOSE x \in s : TRUE] + k[s \ {CHOOSE x \in s : TRUE}]]
           c == CHOOSE k : k = F(k)
<1>1. \A k : F(k) = SumStep(k, f, Response)
  BY DEF SumStep, One
<1>2. c = F(c)
  <2>1. h = F(h)
    BY <1>1 DEF Sums
  <2> HIDE DEF F
  <2> QED BY <2>1
<1>3. c = h
  <2>1. Sums(c, f, Response)
    <3> HIDE DEF c
    <3> QED BY <1>1, <1>2 DEF Sums
  <2> HIDE DEF c, F
  <2> QED BY <2>1, SumIsOne, MirrorAssumption
<1>4. Sum(f) = c[Response]
  BY Zenon DEF Sum, MapThenSumSet, MapThenFoldSet
<1> QED BY <1>3, <1>4

LEMMA SumOfRaisesIs ==
  ASSUME NEW f, NEW g, NEW d, d = [r \in Response |-> g[r] - f[r]], NEW h, Sums(h, d, Response)
  PROVE  SumOfRaises(f, g) = h[Response]
<1> DEFINE F(k) == [s \in SUBSET Response |-> IF s = {} THEN 0
                      ELSE g[CHOOSE x \in s : TRUE] - f[CHOOSE x \in s : TRUE]
                           + k[s \ {CHOOSE x \in s : TRUE}]]
           c == CHOOSE k : k = F(k)
<1>1. ASSUME NEW k PROVE F(k) = SumStep(k, d, Response)
  <2>1. \A s \in SUBSET Response : s # {} => d[One(s)] = g[One(s)] - f[One(s)]
    BY OneIsIn
  <2> QED BY <2>1 DEF SumStep, One
<1>2. c = F(c)
  <2>1. h = F(h)
    BY <1>1 DEF Sums
  <2> HIDE DEF F
  <2> QED BY <2>1
<1>3. c = h
  <2>1. Sums(c, d, Response)
    <3> HIDE DEF c
    <3> QED BY <1>1, <1>2 DEF Sums
  <2> HIDE DEF c, F
  <2> QED BY <2>1, SumIsOne, MirrorAssumption
<1>4. SumOfRaises(f, g) = c[Response]
  BY Zenon DEF SumOfRaises, MapThenSumSet, MapThenFoldSet
<1> QED BY <1>3, <1>4

\* A total that is the sum of f stays one when it is raised by as much as f is.
LEMMA TotalFollows ==
  ASSUME NEW f \in [Response -> Nat], NEW g \in [Response -> Nat]
  PROVE  Sum(f) + SumOfRaises(f, g) = Sum(g) /\ Sum(f) \in Nat
<1> DEFINE d == [r \in Response |-> g[r] - f[r]]
<1>1. d \in [Response -> Int] /\ f \in [Response -> Int] /\ g \in [Response -> Int]
      /\ \A r \in Response : g[r] = f[r] + d[r]
  OBVIOUS
<1>2. PICK hf \in [SUBSET Response -> Nat] : Sums(hf, f, Response)
  BY SumExists, MirrorAssumption
<1>3. PICK hg \in [SUBSET Response -> Nat] : Sums(hg, g, Response)
  BY SumExists, MirrorAssumption
<1>4. PICK hd \in [SUBSET Response -> Int] : Sums(hd, d, Response)
  <2> HIDE DEF d
  <2> QED BY <1>1, SumExists, MirrorAssumption
<1>5. Sum(f) = hf[Response] /\ Sum(g) = hg[Response]
  BY <1>2, <1>3, SumIs
<1>6. SumOfRaises(f, g) = hd[Response]
  BY <1>4, SumOfRaisesIs
<1>7. hg[Response] = hf[Response] + hd[Response]
  <2>1. Summed(hf, f, Response) /\ Summed(hg, g, Response) /\ Summed(hd, d, Response)
    BY <1>2, <1>3, <1>4 DEF Summed
  <2>2. \A x \in Response : g[x] = f[x] + d[x]
    BY <1>1
  <2>3. IsFiniteSet(Response)
    BY MirrorAssumption
  <2> HIDE DEF d
  <2> QED BY <1>1, <2>1, <2>2, <2>3, SumOfBoth
<1> QED BY <1>2, <1>5, <1>6, <1>7

\* A response's blocks among some lines have a largest.
Outs(S, r) == {Script[l].out : l \in {k \in S : Script[k].response = r}} \cup {0}

LEMMA OutIsNat == ASSUME NEW S \in SUBSET Id, NEW r PROVE Outs(S, r) \subseteq Nat
<1>1. \A l \in Id : Script[l] \in Line
  BY MirrorAssumption, ElementOfSeq DEF Id
<1>2. \A l \in Id : Script[l].out \in Nat
  BY <1>1 DEF Line
<1> QED BY <1>2 DEF Outs

LEMMA LargestIs ==
  ASSUME NEW S \in SUBSET Id, NEW r
  PROVE  /\ Largest(S, r) \in Nat /\ Largest(S, r) \in Outs(S, r)
         /\ \A p \in Outs(S, r) : p <= Largest(S, r)
<1> DEFINE N == Len(Script)
           Top(T) == \E o \in Outs(T, r) : \A p \in Outs(T, r) : p <= o
           U == {n \in 0..N : Top(S \cap (1..n))}
<1>0. N \in Nat
  BY ScriptIsFinite
<1>1. 0 \in U
  <2>1. S \cap (1..0) = {}
    OBVIOUS
  <2>2. Outs({}, r) = {0}
    BY DEF Outs
  <2>3. Top({})
    BY <2>2
  <2> QED BY <1>0, <2>1, <2>3
<1>2. ASSUME NEW n \in 0..(N - 1), n \in U PROVE n + 1 \in U
  <2> DEFINE T == S \cap (1..n)
             new == S \cap (1..(n + 1))
  <2>0. n + 1 \in 0..N /\ n + 1 \in Id /\ n \in Nat
    BY <1>0 DEF Id
  <2>1. PICK o \in Outs(T, r) : \A p \in Outs(T, r) : p <= o
    BY <1>2
  <2>2. new = T \cup (S \cap {n + 1})
    BY <2>0
  <2> HIDE DEF T, new
  <2>3. CASE n + 1 \in S /\ Script[n + 1].response = r
    <3>1. Outs(new, r) = Outs(T, r) \cup {Script[n + 1].out}
      BY <2>2, <2>3 DEF Outs
    <3>2. new \subseteq Id
      BY DEF new
    <3>3. Outs(new, r) \subseteq Nat
      BY <3>2, OutIsNat
    <3>4. ASSUME Script[n + 1].out <= o PROVE Top(new)
      <4>1. o \in Outs(new, r) /\ \A p \in Outs(new, r) : p <= o
        BY <2>1, <3>1, <3>4
      <4> QED BY <4>1
    <3>5. ASSUME ~(Script[n + 1].out <= o) PROVE Top(new)
      <4>0. {o, Script[n + 1].out} \subseteq Nat /\ o < Script[n + 1].out
        BY <2>1, <3>1, <3>3, <3>5
      <4>1. \A p \in Outs(new, r) : p <= Script[n + 1].out
        <5> TAKE p \in Outs(new, r)
        <5>1. p \in Nat /\ (p <= o \/ p = Script[n + 1].out)
          BY <2>1, <3>1, <3>3
        <5> QED BY <4>0, <5>1
      <4>2. Script[n + 1].out \in Outs(new, r)
        BY <3>1
      <4> QED BY <4>1, <4>2
    <3>6. Top(new)
      BY <3>4, <3>5
    <3> QED BY <2>0, <3>6 DEF new
  <2>4. CASE ~(n + 1 \in S /\ Script[n + 1].response = r)
    <3>1. Outs(new, r) = Outs(T, r)
      BY <2>2, <2>4 DEF Outs
    <3>2. Top(new)
      BY <2>1, <3>1
    <3> QED BY <2>0, <3>2 DEF new
  <2> QED BY <2>3, <2>4
<1>3. Top(S)
  <2>1. \A n \in 0..N : n \in U
    <3> HIDE DEF U, N
    <3> QED BY <1>0, <1>1, <1>2, UpTo
  <2>2. N \in 0..N
    BY <1>0
  <2>3. S \cap (1..N) = S
    BY Zenon DEF Id
  <2> QED BY <2>1, <2>2, <2>3
<1>4. Largest(S, r) = CHOOSE o \in Outs(S, r) : \A p \in Outs(S, r) : p <= o
  BY DEF Largest, Outs
<1> QED BY <1>3, <1>4, OutIsNat

LEMMA LargestOfBoth ==
  ASSUME NEW S \in SUBSET Id, NEW T \in SUBSET Id, NEW r
  PROVE  Largest(S \cup T, r) = IF Largest(S, r) >= Largest(T, r) THEN Largest(S, r) ELSE Largest(T, r)
<1>1. Outs(S \cup T, r) = Outs(S, r) \cup Outs(T, r)
  BY DEF Outs
<1>2. /\ Largest(S, r) \in Nat /\ Largest(S, r) \in Outs(S, r) /\ \A p \in Outs(S, r) : p <= Largest(S, r)
      /\ Largest(T, r) \in Nat /\ Largest(T, r) \in Outs(T, r) /\ \A p \in Outs(T, r) : p <= Largest(T, r)
  BY LargestIs
<1>3. /\ Largest(S \cup T, r) \in Nat /\ Largest(S \cup T, r) \in Outs(S \cup T, r)
      /\ \A p \in Outs(S \cup T, r) : p <= Largest(S \cup T, r)
  <2>1. S \cup T \in SUBSET Id
    OBVIOUS
  <2> QED BY <2>1, LargestIs
<1>4. Largest(S \cup T, r) >= Largest(S, r) /\ Largest(S \cup T, r) >= Largest(T, r)
  BY <1>1, <1>2, <1>3
<1>5. Largest(S \cup T, r) <= Largest(S, r) \/ Largest(S \cup T, r) <= Largest(T, r)
  BY <1>1, <1>2, <1>3
<1> QED BY <1>2, <1>3, <1>4, <1>5

----
(***************************************************************************)
(* What the responses cost.                                                *)
(***************************************************************************)
BInv == billed \subseteq Id /\ held \in [Response -> Nat] /\ total = Sum(held) /\ BilledOnce

LEMMA SpendKeeps ==
  ASSUME IInv, BInv, NEW offset, NEW n, SpendFrom(offset, n)
  PROVE  BInv'
<1> DEFINE read == {file[i] : i \in Between(offset, n)}
           now == [r \in Response |-> Billed(r, read)]
<1>1. /\ held' = now /\ billed' = billed \cup read
  BY DEF SpendFrom
<1>2. total' = total + SumOfRaises(held, now)
  BY Zenon DEF SpendFrom, SumOfRaises
<1>3. read \in SUBSET Id /\ billed \in SUBSET Id
  BY FileIsFinite DEF IInv, BInv, Between
<1>4. \A r \in Response : Largest(read, r) \in Nat /\ held[r] \in Nat /\ held[r] = Largest(billed, r)
  <2> HIDE DEF read
  <2> QED BY <1>3, LargestIs DEF BInv, BilledOnce
<1>5. \A r \in Response : now[r] = Largest(billed \cup read, r) /\ now[r] \in Nat
  <2> HIDE DEF read
  <2> QED BY <1>3, <1>4, LargestOfBoth DEF Billed
<1>6. now \in [Response -> Nat]
  <2> HIDE DEF read
  <2> QED BY <1>5
<1>7. total' = Sum(now)
  <2> HIDE DEF now
  <2> QED BY <1>2, <1>6, TotalFollows DEF BInv
<1>8. Sum(now) = Sum(held')
  BY <1>1
<1> HIDE DEF read, now
<1>9. total' = Sum(held)'
  BY <1>7, <1>8, Zenon DEF Sum, MapThenSumSet, MapThenFoldSet
<1>10. BilledOnce'
  <2>1. (total = MapThenSumSet(LAMBDA r : held[r], Response))'
    BY <1>9, Zenon DEF Sum
  <2> QED BY <1>1, <1>5, <2>1, Zenon DEF BilledOnce
<1> QED BY <1>1, <1>3, <1>5, <1>6, <1>9, <1>10 DEF BInv

LEMMA NextBInv == IInv /\ BInv /\ [Next]_vars => BInv'
<1> SUFFICES ASSUME IInv, BInv, [Next]_vars PROVE BInv'
  OBVIOUS
<1> USE DEF fileVars, followVars, mapVars, spendVars, pageVars
<1>0. ASSUME UNCHANGED <<total, held, billed>> PROVE BInv'
  <2>1. total' = Sum(held')
    BY <1>0 DEF BInv
  <2>2. total' = Sum(held)'
    BY <2>1, Zenon DEF Sum, MapThenSumSet, MapThenFoldSet
  <2>3. (total = MapThenSumSet(LAMBDA r : held[r], Response))'
    BY <2>2, Zenon DEF Sum
  <2>4. \A r \in Response : held'[r] = Largest(billed', r)
    BY <1>0 DEF BInv, BilledOnce
  <2>5. BilledOnce'
    BY <2>3, <2>4, Zenon DEF BilledOnce
  <2> QED BY <1>0, <2>2, <2>5 DEF BInv
<1>1. CASE Writes \/ Rewrites \/ StartReads \/ StartCommits \/ StartConflicts \/ StopFollowing \/ ApplyFollowing \/ RebuildAgents
  BY <1>0, <1>1 DEF Writes, Rewrites, StartReads, StartCommits, StartConflicts, StopFollowing, ApplyFollowing, RebuildAgents
<1>2. ASSUME NEW n \in 0..Len(Script), ScanBatch(n) \/ RescanSpend(n) PROVE BInv'
  BY <1>2, SpendKeeps DEF ScanBatch, RescanSpend
<1>3. ASSUME NEW n \in 0..Len(Script), NEW a \in n..Len(Script), FollowTick(n, a) PROVE BInv'
  BY <1>0, <1>3 DEF FollowTick
<1>4. CASE UNCHANGED vars
  BY <1>0, <1>4 DEF vars
<1> QED BY <1>1, <1>2, <1>3, <1>4 DEF Next

LEMMA InitBInv == Init => BInv
<1> SUFFICES ASSUME Init PROVE BInv
  OBVIOUS
<1> DEFINE zero == [r \in Response |-> 0]
<1>1. held = zero /\ total = 0 /\ billed = {}
  BY DEF Init
<1>2. zero \in [Response -> Nat]
  OBVIOUS
<1>3. Sum(zero) + SumOfRaises(zero, zero) = Sum(zero) /\ Sum(zero) \in Nat
  BY <1>2, TotalFollows
<1>4. Sum(zero) = 0
  <2>1. \A r \in Response : zero[r] = zero[r] + zero[r]
    OBVIOUS
  <2>2. PICK h \in [SUBSET Response -> Nat] : Sums(h, zero, Response)
    <3> HIDE DEF zero
    <3> QED BY <1>2, SumExists, MirrorAssumption
  <2>3. Summed(h, zero, Response) /\ zero \in [Response -> Int]
    BY <2>2 DEF Summed
  <2>4. h[Response] = h[Response] + h[Response]
    <3>1. IsFiniteSet(Response)
      BY MirrorAssumption
    <3> HIDE DEF zero
    <3> QED BY <2>1, <2>3, <3>1, SumOfBoth
  <2>5. Sum(zero) = h[Response] /\ h[Response] \in Nat
    <3> HIDE DEF zero
    <3> QED BY <2>2, SumIs
  <2> HIDE DEF zero
  <2>6. \A n \in Nat : n = n + n => n = 0
    OBVIOUS
  <2> QED BY <2>4, <2>5, <2>6, Zenon
<1>5. \A r \in Response : Largest({}, r) = 0
  <2>1. \A r : Outs({}, r) = {0}
    BY DEF Outs
  <2> QED BY <2>1, LargestIs
<1>6. Sum(held) = 0
  <2> HIDE DEF zero
  <2> QED BY <1>1, <1>4
<1>7. BilledOnce
  <2>1. total = MapThenSumSet(LAMBDA r : held[r], Response)
    BY <1>1, <1>6, Zenon DEF Sum
  <2> QED BY <1>1, <1>5, <2>1, Zenon DEF BilledOnce
<1> QED BY <1>1, <1>2, <1>6, <1>7 DEF BInv

\* For any lines, responses and readings of the file, again from its start or up to
\* any line: a response is billed once, at the largest of its blocks that were
\* read, and the session's total is the sum of what its responses are billed at.
THEOREM ResponsesAreBilledOnce == Spec => []BilledOnce
<1>1. BInv => BilledOnce
  BY DEF BInv
<1> QED BY <1>1, InitIInv, InitBInv, NextIInv, NextBInv, PTL DEF Spec

----
(***************************************************************************)
(* Types.  A cursor is not past what the session writes: the file has no   *)
(* more lines than were written, and the half of one only while there is   *)
(* one left.                                                               *)
(***************************************************************************)
Sizes ==
    /\ Len(file) <= made /\ (torn => made < Len(Script))
    /\ page.size \in 0..(2 * Len(Script)) /\ follow.bytes \in 0..(2 * Len(Script))
CallsAnswered == answered \subseteq {l \in Id : Script[l].kind = "call" /\ seq[l] # 0}

TInv == Sizes /\ CallsAnswered /\ returned \subseteq agents

LEMMA SizeFits == ASSUME IInv, Sizes PROVE Size \in 0..(2 * Len(Script))
<1>1. Len(file) \in Nat /\ made \in Nat /\ made <= Len(Script) /\ Len(file) <= made /\ torn \in BOOLEAN
  BY FileIsFinite, ScriptIsFinite DEF IInv, Types, Sizes
<1>2. CASE torn
  BY <1>1, <1>2, ScriptIsFinite DEF Sizes, Size
<1>3. CASE ~torn
  BY <1>1, <1>3, ScriptIsFinite DEF Size
<1> QED BY <1>2, <1>3

LEMMA WritesFits == ASSUME IInv, TInv, Writes PROVE TInv'
<1>1. Types /\ UNCHANGED <<follow, page, seq, answered, agents, returned>> /\ torn' = ~torn
  BY DEF Writes, IInv, followVars, mapVars, pageVars
<1>2. Len(file) \in Nat /\ made \in Nat /\ Len(file) <= made /\ made < Len(Script)
  BY <1>1, FileIsFinite, ScriptIsFinite DEF Types, TInv, Sizes, Writes
<1>3. CASE torn
  <2>1. file' = Append(file, made + 1) /\ made' = made + 1 /\ torn' = FALSE
    BY <1>3 DEF Writes
  <2>2. Len(file') = Len(file) + 1
    BY <1>1, <2>1, AppendProperties DEF Types
  <2> QED BY <1>1, <1>2, <2>1, <2>2 DEF TInv, Sizes, CallsAnswered
<1>4. CASE ~torn
  <2>1. UNCHANGED <<file, made>>
    BY <1>4 DEF Writes
  <2> QED BY <1>1, <1>2, <2>1 DEF TInv, Sizes, CallsAnswered
<1> QED BY <1>3, <1>4

LEMMA RewritesFits == ASSUME IInv, TInv, Rewrites PROVE TInv'
<1>1. Types /\ file # <<>> /\ file' = Tail(file)
      /\ UNCHANGED <<made, torn, follow, page, seq, answered, agents, returned>>
  BY DEF Rewrites, IInv, followVars, mapVars, pageVars
<1>2. Len(file') = Len(file) - 1 /\ Len(file) \in Nat /\ made \in Nat
  BY <1>1, HeadTailProperties, FileIsFinite, ScriptIsFinite DEF Types
<1> QED BY <1>1, <1>2 DEF TInv, Sizes, CallsAnswered

\* What the map keeps of an agent goes with its row.
LEMMA MapFits == ASSUME NEW from, NEW begin, NEW old, NEW n, Rebuild(from, begin, old, n) PROVE returned' \subseteq agents'
  BY DEF Rebuild, Kept

LEMMA TickFits ==
  ASSUME IInv, TInv, NEW n \in 0..Len(Script), NEW a \in n..Len(Script), FollowTick(n, a)
  PROVE  TInv'
<1> DEFINE offset == IF Size < follow.bytes THEN 0 ELSE follow.bytes
           put == {file[i] : i \in {j \in Between(offset, n) : IsTurn(file[j])}}
<1>1. /\ Types /\ n \in Nat /\ n <= Len(Script) /\ follow'.bytes = 2 * n /\ page' = NoPage
      /\ answered' = answered \cup Joined(Between(offset, n), seq') /\ UNCHANGED <<file, made, torn>>
  BY TickShape, ScriptIsFinite
<1>2. Sizes'
  BY <1>1, ScriptIsFinite DEF TInv, Sizes, NoPage
<1>3. ASSUME NEW l \in Id, seq[l] # 0 PROVE seq'[l] # 0
  BY <1>3, TickNumbers
<1>4. ASSUME NEW l \in Joined(Between(offset, n), seq') PROVE l \in Id /\ Script[l].kind = "call" /\ seq'[l] # 0
  <2>1. PICK i \in Between(offset, n) : LineAt(i).of = l
    BY <1>4 DEF Joined
  <2>2. l \in Id /\ seq'[l] # 0 /\ l # 0
    BY <1>4, ScriptIsFinite DEF Joined, Id
  <2>3. file[i] \in Id
    BY <1>1, <2>1, FileIsFinite DEF Between
  <2> QED BY <2>1, <2>2, <2>3, MirrorAssumption DEF LineAt
<1>5. CallsAnswered'
  BY <1>1, <1>3, <1>4 DEF TInv, CallsAnswered
<1>6. returned' \subseteq agents'
  BY MapFits DEF FollowTick
<1> QED BY <1>2, <1>5, <1>6 DEF TInv

LEMMA NextTInv == IInv /\ TInv /\ [Next]_vars => TInv'
<1> SUFFICES ASSUME IInv, TInv, [Next]_vars PROVE TInv'
  OBVIOUS
<1> USE DEF fileVars, followVars, mapVars, spendVars, pageVars
<1>0. Size \in 0..(2 * Len(Script)) /\ NoPage.size \in 0..(2 * Len(Script))
  BY SizeFits, ScriptIsFinite DEF TInv, NoPage
<1>1. ASSUME UNCHANGED <<file, made, torn, seq, answered>>, follow'.bytes \in 0..(2 * Len(Script)),
             page'.size \in 0..(2 * Len(Script)), returned' \subseteq agents'
      PROVE  TInv'
  BY <1>1 DEF TInv, Sizes, CallsAnswered
<1>2. returned \subseteq agents /\ page.size \in 0..(2 * Len(Script)) /\ follow.bytes \in 0..(2 * Len(Script))
  BY DEF TInv, Sizes
<1>3. CASE Writes \/ Rewrites
  BY <1>3, WritesFits, RewritesFits
<1>4. CASE StartReads
  BY <1>0, <1>1, <1>2, <1>4 DEF StartReads
<1>5. CASE StartCommits
  BY <1>0, <1>1, <1>2, <1>5 DEF StartCommits
<1>6. CASE StartConflicts \/ StopFollowing \/ ApplyFollowing
  BY <1>0, <1>1, <1>2, <1>6 DEF StartConflicts, StopFollowing, ApplyFollowing, Wins
<1>7. ASSUME NEW n \in 0..Len(Script), ScanBatch(n) \/ RescanSpend(n) PROVE TInv'
  BY <1>0, <1>1, <1>2, <1>7 DEF ScanBatch, RescanSpend, SpendFrom, Wins
<1>8. ASSUME NEW n \in 0..Len(Script), NEW a \in n..Len(Script), FollowTick(n, a) PROVE TInv'
  BY <1>8, TickFits
<1>9. CASE RebuildAgents
  <2>1. returned' \subseteq agents'
    BY <1>9, MapFits DEF RebuildAgents
  <2> QED BY <1>0, <1>1, <1>2, <1>9, <2>1 DEF RebuildAgents, Wins
<1>10. CASE UNCHANGED vars
  BY <1>1, <1>2, <1>10 DEF vars
<1> QED BY <1>3, <1>4, <1>5, <1>6, <1>7, <1>8, <1>9, <1>10 DEF Next

LEMMA InitTInv == Init => TInv
<1> SUFFICES ASSUME Init PROVE TInv
  OBVIOUS
<1>1. Len(file) = 0 /\ made = 0 /\ torn = FALSE /\ page.size = 0 /\ follow.bytes = 0 /\ answered = {} /\ returned = {}
  BY EmptySeq DEF Init, NoPage
<1> QED BY <1>1, ScriptIsFinite DEF TInv, Sizes, CallsAnswered

\* For any session: the variables keep their types; no cursor is past what the
\* session writes, only calls that are stored have an output, and only agents the
\* map has returned.
THEOREM TypeCorrect == Spec => []TypeOK
<1>1. IInv /\ BInv /\ TInv => TypeOK
  <2> SUFFICES ASSUME IInv, BInv, TInv PROVE TypeOK
    OBVIOUS
  <2>1. total \in Nat
    BY TotalFollows DEF BInv
  <2> QED BY <2>1 DEF TypeOK, IInv, Types, TInv, Sizes, CallsAnswered
<1> QED BY <1>1, InitIInv, InitBInv, InitTInv, NextIInv, NextBInv, NextTInv, PTL DEF Spec

----
(***************************************************************************)
(* What the rows may be at any time, for rows and results that need not be *)
(* the committed ones: a poll answers one row after the other.             *)
(***************************************************************************)
Sent == 1..Len(kind)
Held(rows) == {r \in Turn : rows[r].state # "none"}
Texts(rows) == UNION {rows[r].text : r \in Turn}

\* The turns whose results are still to be read, in the order they will be.
CmdTurns == {c.turn : c \in cmds}
Way(es) == es \o queue
OnWay(es) == CmdTurns \cup {Way(es)[i] : i \in 1..Len(Way(es))}

\* The rows of requests that are not committed.
AskedBy(w) == {r \in Turn : tx[w].at = "send" /\ tx[w].rows[r].state # "none"}
Asked == UNION {AskedBy(w) : w \in Worker}

\* p is run after t, or in either order.
Late(p, t, es) ==
    \/ p \in CmdTurns /\ \E j \in 1..Len(Way(es)) : Way(es)[j] = t
    \/ \E c, d \in cmds : c.turn = p /\ d.turn = t /\ d.seq <= c.seq
    \/ \E i, j \in 1..Len(Way(es)) : j < i /\ Way(es)[i] = p /\ Way(es)[j] = t

RowsFit(rows) ==
    \A r \in Turn : /\ rows[r].state = "answered" <=> rows[r].text # {}
                    /\ rows[r].state # "none" => r \in Sent /\ kind[r] = "ask"
                    /\ rows[r].state \in {"ended", "expired"} => ~carries
\* A waiting row has a turn whose result will be read, or was lost; as many as wait.
EnoughToCome(rows, es) ==
    Cardinality(In(rows, {"waiting"})) <= Cardinality(Held(rows) \cap (lost \cup OnWay(es)))
\* The rows are answered in order, each by a result of its own that was read.
OneEach(rows, es) ==
    /\ \A q \in In(rows, {"answered"}) : \A r \in In(rows, {"waiting"}) : q < r
    /\ \A r \in In(rows, {"answered"}) : \E t \in Sent : kind[t] # "effort" /\ rows[r].text = {t}
    /\ \A q, r \in In(rows, {"answered"}) : q # r => rows[q].text \cap rows[r].text = {}
    /\ Texts(rows) \cap OnWay(es) = {}
\* A row's turn is run before those behind the next row, and before that row's.
InTurn(rows, es, asked) ==
    \A p \in Held(rows), q \in Held(rows) \cup asked : p < q =>
        \A t \in Sent : q <= t => /\ ~Late(p, t, es)
                                  /\ carries /\ t \in Texts(rows) => p \notin OnWay(es)
Nearby(rows) ==
    \A r \in In(rows, {"answered"}) : \A t \in rows[r].text :
        /\ Cardinality({q \in Held(rows) : r < q /\ q <= t}) <= Cardinality({l \in lost : l < t})
        /\ t \in Held(rows) =>
               Cardinality({q \in Held(rows) : t <= q /\ q < r})
                   <= Cardinality({f \in {g \in Sent : kind[g] # "effort"} \ Held(rows) : f < r})

Good(rows, es, asked) ==
    /\ RowsFit(rows)
    /\ EnoughToCome(rows, es)
    /\ InTurn(rows, es, asked)
    /\ carries => OneEach(rows, es) /\ Nearby(rows)

----
Tx == [at : {"none", "send", "poll"}, rows : [Turn -> Row], next : Nat, read : Nat]
BridgeTypes ==
    /\ carries \in BOOLEAN /\ begun \in BOOLEAN /\ nextSeq \in Nat \ {0}
    /\ kind \in Seq({"ask", "effort", "prompt"}) /\ Len(kind) <= MaxTurns
    /\ wait \in [Turn -> Row] /\ tx \in [Worker -> Tx]
    /\ cmds \subseteq [turn : Turn, seq : Nat \ {0}] /\ lost \subseteq Turn
    /\ queue \in Seq(Turn) /\ events \in Seq(Turn) /\ (begun => queue # <<>>)
    /\ lines \in Seq([turn : Turn, what : {"prompt", "text"}]) /\ stored \in 0..Len(lines)

Unique(es) ==
    /\ \A c, d \in cmds : c.turn = d.turn => c = d
    /\ \A i, j \in 1..Len(Way(es)) : Way(es)[i] = Way(es)[j] => i = j
    /\ \A i \in 1..Len(Way(es)) : Way(es)[i] \notin CmdTurns
    /\ lost \cap OnWay(es) = {}
    /\ \A l \in lost : kind[l] = "ask"
    /\ OnWay(es) \cup lost \subseteq Sent

TxFit ==
    \A w \in Worker :
        /\ tx[w].at = "none" => tx[w] = NoTx
        /\ \A r \in Turn : tx[w].rows[r].state = "none" => tx[w].rows[r] = NoRow
        /\ tx[w].at # "poll" => tx[w].read = 0
        /\ tx[w].at = "poll" => tx[w].read <= Len(events) /\ tx[w].next = nextSeq
        /\ tx[w].at = "send" => nextSeq <= tx[w].next
SendsFit ==
    /\ \A w \in Worker : \A r \in AskedBy(w) :
        /\ tx[w].rows[r].state = "waiting" /\ tx[w].rows[r].text = {}
        /\ r \in Sent /\ kind[r] = "ask" /\ r \in lost \cup OnWay(events)
        /\ \A q \in Held(wait) : q < r
        /\ carries => \A t \in Texts(wait) : t < r
        /\ \A c \in cmds : c.turn = r => nextSeq <= c.seq /\ c.seq < tx[w].next
        /\ \A v \in Worker : \A s \in AskedBy(v) : r = s <=> v = w
NumbersFit == \A c \in cmds : c.turn \in Held(wait) => c.seq < nextSeq

\* A poll has answered the rows one after the other, by the results it read.
Answering(f, rows, es, n) ==
    f \in [0..n -> [Turn -> Row]] /\ f[0] = rows /\ \A i \in 1..n : f[i] = OnResult(f[i - 1], es[i])
PollsFit ==
    \A w \in Worker : tx[w].at = "poll" =>
        \E f : /\ Answering(f, wait, events, tx[w].read)
               /\ LET now == f[tx[w].read]
                  IN  tx[w].rows = [r \in Turn |-> IF now[r] # wait[r] THEN now[r] ELSE NoRow]

\* The runner's log of prompts and words.
LinesFit ==
    /\ carries => lines = <<>>
    /\ \A i \in 1..Len(lines) : lines[i].turn \in Sent
    /\ \A i, j \in 1..Len(lines) :
        lines[i].what = "prompt" /\ lines[j].what = "prompt" /\ lines[i].turn = lines[j].turn => i = j
    /\ \A i \in 1..Len(lines) : lines[i].what = "prompt" =>
        /\ lines[i].turn \notin CmdTurns
        /\ \A j \in 1..Len(queue) : lines[i].turn = queue[j] => j = 1 /\ begun
    /\ \A j \in 1..Len(lines) : lines[j].what = "text" =>
        \E i \in 1..(j - 1) : /\ lines[i] = [turn |-> lines[j].turn, what |-> "prompt"]
                              /\ \A k \in (i + 1)..(j - 1) : lines[k].what = "text"
    /\ begun /\ ~carries =>
        \E i \in 1..Len(lines) : /\ lines[i] = [turn |-> Head(queue), what |-> "prompt"]
                                 /\ \A k \in (i + 1)..Len(lines) : lines[k].what = "text"
\* A row's lines come after it was made.
LinesAfter ==
    /\ \A r \in Held(wait) : wait[r].after <= stored
    /\ \A w \in Worker : \A r \in AskedBy(w) : tx[w].rows[r].after <= stored
    /\ \A i \in 1..Len(lines) :
        /\ lines[i].turn \in Held(wait) => wait[lines[i].turn].after < i
        /\ \A w \in Worker : lines[i].turn \in AskedBy(w) => tx[w].rows[lines[i].turn].after < i

\* Nothing was lost, given up or sent by others, one at a time, so far.
SoFarOneByOne ==
    /\ ~carries /\ lost = {} /\ In(wait, {"expired"}) = {}
    /\ \A r \in Held(wait) : wait[r].alone
    /\ \A w \in Worker : \A r \in AskedBy(w) : tx[w].rows[r].alone
    /\ \A x, y \in Rowless : x = y
    /\ Rowless \subseteq Asked
PromptBy(b, n) == \E i \in 1..n : lines[i] = [turn |-> b, what |-> "prompt"]
OwnWords ==
    SoFarOneByOne =>
        /\ \A r \in Held(wait), s \in Held(wait) \cup Asked : r < s => wait[r].state = "answered"
        /\ \A r \in In(wait, {"answered"}) : PromptBy(r, stored) /\ Asks(wait[r].text) \subseteq {r} /\ wait[r].text \subseteq Sent
        /\ \A r, s \in Held(wait) : r < s => PromptBy(r, wait[s].after)
        /\ \A w \in Worker : \A s \in AskedBy(w) : \A r \in Held(wait) : PromptBy(r, tx[w].rows[s].after)

BridgeInv ==
    /\ BridgeTypes /\ Good(wait, events, Asked) /\ Unique(events)
    /\ TxFit /\ SendsFit /\ NumbersFit /\ PollsFit
WordsInv == LinesFit /\ LinesAfter /\ OwnWords

----
LEMMA TurnsAreNat ==
  /\ Turn \subseteq Nat /\ \A t \in Turn : t >= 1
  /\ IsFiniteSet(Turn) /\ \A S \in SUBSET Turn : IsFiniteSet(S) /\ Cardinality(S) \in Nat
<1>1. MaxTurns \in Nat
  BY BridgeAssumption
<1>2. IsFiniteSet(1..MaxTurns)
  BY <1>1, FS_Interval
<1>3. \A S \in SUBSET Turn : IsFiniteSet(S)
  BY <1>2, FS_Subset DEF Turn
<1> QED BY <1>1, <1>2, <1>3, FS_CardinalityType DEF Turn

LEMMA LeastIs ==
  ASSUME NEW S \in SUBSET Nat, S # {}
  PROVE  Min(S) \in S /\ \A y \in S : Min(S) <= y
<1> DEFINE R == {ss \in Nat \X Nat : ss[1] < ss[2]}
<1>1. IsWellFoundedOn(R, Nat)
  BY NatLessThanWellFounded, SMT DEF OpToRel
<1>2. S \subseteq Nat /\ S # {}
  OBVIOUS
<1>3. PICK x \in S : \A y \in S : ~ (<<y, x>> \in R)
  <2> HIDE DEF R
  <2> QED BY <1>1, <1>2, WFMin, Zenon
<1>4. ASSUME NEW y \in S PROVE x <= y
  <2>1. x \in Nat /\ y \in Nat
    BY <1>2
  <2>2. y < x => <<y, x>> \in R
    BY <2>1
  <2>3. ~ (<<y, x>> \in R)
    BY <1>3
  <2> QED BY <2>1, <2>2, <2>3
<1>5. \E z \in S : \A y \in S : z =< y
  BY <1>4
<1> QED BY <1>5 DEF Min

LEMMA NoRowIsTyped == NoRow \in Row /\ NoTx \in Tx /\ [r \in Turn |-> NoRow] \in [Turn -> Row]
  BY DEF NoRow, Row, NoTx, Tx

LEMMA AnsweredIs ==
  ASSUME NEW row \in Row, NEW S \in SUBSET Turn
  PROVE  /\ Answered(row, S) \in Row /\ Answered(row, S).state = "answered" /\ Answered(row, S).text = S
         /\ Answered(row, S).after = row.after /\ Answered(row, S).alone = row.alone
  BY DEF Answered, Row

LEMMA EndedIs ==
  ASSUME NEW row \in Row
  PROVE  /\ Ended(row) \in Row /\ Ended(row).state = "ended" /\ Ended(row).text = row.text
         /\ Ended(row).after = row.after /\ Ended(row).alone = row.alone
  BY DEF Ended, Row

\* One result answers the first row that waits, or none.
Hits(rows, t, m) ==
    /\ m \in In(rows, {"waiting"}) /\ kind[t] # "effort"
    /\ \A q \in In(rows, {"waiting"}) : m <= q
    /\ OnResult(rows, t) = [rows EXCEPT ![m] = IF carries THEN Answered(rows[m], {t}) ELSE Ended(rows[m])]
Misses(rows, t) ==
    (kind[t] = "effort" \/ In(rows, {"waiting"}) = {}) /\ OnResult(rows, t) = rows

LEMMA OnResultIs ==
  ASSUME NEW rows \in [Turn -> Row], NEW t \in Turn
  PROVE  /\ OnResult(rows, t) \in [Turn -> Row]
         /\ Misses(rows, t) \/ \E m \in Turn : Hits(rows, t, m)
<1>1. CASE kind[t] = "effort" \/ In(rows, {"waiting"}) = {}
  <2>1. OnResult(rows, t) = rows
    BY <1>1 DEF OnResult
  <2> QED BY <1>1, <2>1 DEF Misses
<1>2. CASE ~(kind[t] = "effort" \/ In(rows, {"waiting"}) = {})
  <2> DEFINE m == Min(In(rows, {"waiting"}))
  <2>1. In(rows, {"waiting"}) \in SUBSET Turn /\ In(rows, {"waiting"}) \in SUBSET Nat
    BY TurnsAreNat DEF In
  <2>2. m \in In(rows, {"waiting"}) /\ \A q \in In(rows, {"waiting"}) : m <= q
    BY <1>2, <2>1, LeastIs
  <2>3. OnResult(rows, t) = [rows EXCEPT ![m] = IF carries THEN Answered(rows[m], {t}) ELSE Ended(rows[m])]
    BY <1>2 DEF OnResult
  <2> HIDE DEF m
  <2>4. m \in Turn /\ Hits(rows, t, m)
    BY <1>2, <2>1, <2>2, <2>3 DEF Hits
  <2>5. Answered(rows[m], {t}) \in Row /\ Ended(rows[m]) \in Row
    BY <2>4, AnsweredIs, EndedIs
  <2>6. OnResult(rows, t) \in [Turn -> Row]
    BY <2>3, <2>5
  <2> QED BY <2>4, <2>6
<1> QED BY <1>1, <1>2

\* What a hit leaves of each row.
LEMMA HitRows ==
  ASSUME NEW rows \in [Turn -> Row], NEW t \in Turn, NEW m \in Turn, Hits(rows, t, m), NEW now, now = OnResult(rows, t)
  PROVE  /\ now \in [Turn -> Row]
         /\ rows[m].state = "waiting"
         /\ carries => now[m].state = "answered" /\ now[m].text = {t}
         /\ ~carries => now[m].state = "ended" /\ now[m].text = rows[m].text
         /\ now[m].after = rows[m].after /\ now[m].alone = rows[m].alone
         /\ \A r \in Turn \ {m} : now[r] = rows[r]
         /\ Held(now) = Held(rows)
         /\ In(now, {"waiting"}) = In(rows, {"waiting"}) \ {m}
         /\ m \in In(rows, {"waiting"})
<1>1. now = [rows EXCEPT ![m] = IF carries THEN Answered(rows[m], {t}) ELSE Ended(rows[m])] /\ now \in [Turn -> Row]
  BY OnResultIs DEF Hits
<1>2. rows[m].state = "waiting" /\ m \in In(rows, {"waiting"})
  BY DEF Hits, In
<1>3. now[m] = IF carries THEN Answered(rows[m], {t}) ELSE Ended(rows[m])
  BY <1>1
<1>4. /\ carries => now[m].state = "answered" /\ now[m].text = {t}
      /\ ~carries => now[m].state = "ended" /\ now[m].text = rows[m].text
      /\ now[m].after = rows[m].after /\ now[m].alone = rows[m].alone
  BY <1>3, AnsweredIs, EndedIs
<1>5. \A r \in Turn \ {m} : now[r] = rows[r]
  BY <1>1
<1>6. Held(now) = Held(rows) /\ In(now, {"waiting"}) = In(rows, {"waiting"}) \ {m}
  BY <1>2, <1>4, <1>5 DEF Held, In
<1> QED BY <1>1, <1>2, <1>4, <1>5, <1>6

----
(***************************************************************************)
(* The way of the turns.                                                   *)
(***************************************************************************)
LEMMA WayIs ==
  ASSUME NEW es \in Seq(Turn), queue \in Seq(Turn)
  PROVE  /\ Way(es) \in Seq(Turn) /\ Len(Way(es)) = Len(es) + Len(queue)
         /\ Len(es) \in Nat /\ Len(queue) \in Nat /\ Len(Way(es)) \in Nat
         /\ \A i \in 1..Len(Way(es)) : Way(es)[i] = IF i <= Len(es) THEN es[i] ELSE queue[i - Len(es)]
         /\ \A i \in 1..Len(Way(es)) : Way(es)[i] \in Turn
BY DEF Way

\* One result is read.
LEMMA WayTail ==
  ASSUME NEW es \in Seq(Turn), queue \in Seq(Turn), es # <<>>
  PROVE  /\ Tail(es) \in Seq(Turn) /\ Head(es) \in Turn
         /\ Len(Way(es)) = Len(Way(Tail(es))) + 1 /\ Len(Way(Tail(es))) \in Nat
         /\ Way(es)[1] = Head(es) /\ 1 \in 1..Len(Way(es))
         /\ \A i \in 1..Len(Way(Tail(es))) : i + 1 \in 1..Len(Way(es)) /\ Way(Tail(es))[i] = Way(es)[i + 1]
         /\ \A i \in 2..Len(Way(es)) : i - 1 \in 1..Len(Way(Tail(es))) /\ Way(Tail(es))[i - 1] = Way(es)[i]
<1>1. /\ Tail(es) \in Seq(Turn) /\ Len(Tail(es)) = Len(es) - 1 /\ Len(es) \in Nat /\ Len(es) >= 1
      /\ Head(es) \in Turn /\ Head(es) = es[1] /\ \A i \in 1..Len(Tail(es)) : Tail(es)[i] = es[i + 1]
  OBVIOUS
<1>2. /\ Len(Way(es)) = Len(es) + Len(queue) /\ Len(queue) \in Nat
      /\ \A i \in 1..Len(Way(es)) : Way(es)[i] = IF i <= Len(es) THEN es[i] ELSE queue[i - Len(es)]
  BY WayIs
<1>3. /\ Len(Way(Tail(es))) = Len(es) - 1 + Len(queue)
      /\ \A i \in 1..Len(Way(Tail(es))) :
            Way(Tail(es))[i] = IF i <= Len(es) - 1 THEN Tail(es)[i] ELSE queue[i - (Len(es) - 1)]
  BY <1>1, WayIs
<1>4. ASSUME NEW i \in 1..Len(Way(Tail(es)))
      PROVE  i + 1 \in 1..Len(Way(es)) /\ Way(Tail(es))[i] = Way(es)[i + 1]
  <2>1. i + 1 \in 1..Len(Way(es)) /\ i \in Nat /\ i >= 1
    BY <1>1, <1>2, <1>3
  <2>2. CASE i <= Len(es) - 1
    <3>1. Way(Tail(es))[i] = es[i + 1] /\ i + 1 <= Len(es)
      BY <1>1, <1>3, <2>1, <2>2
    <3> QED BY <1>2, <2>1, <3>1
  <2>3. CASE ~(i <= Len(es) - 1)
    <3>1. Way(Tail(es))[i] = queue[i - (Len(es) - 1)] /\ ~(i + 1 <= Len(es)) /\ i - (Len(es) - 1) = (i + 1) - Len(es)
      BY <1>1, <1>3, <2>1, <2>3
    <3> QED BY <1>2, <2>1, <3>1
  <2> QED BY <2>2, <2>3
<1>5. ASSUME NEW i \in 2..Len(Way(es))
      PROVE  i - 1 \in 1..Len(Way(Tail(es))) /\ Way(Tail(es))[i - 1] = Way(es)[i]
  <2>1. i - 1 \in 1..Len(Way(Tail(es))) /\ (i - 1) + 1 = i
    BY <1>1, <1>2, <1>3
  <2> QED BY <1>4, <2>1
<1>6. Way(es)[1] = Head(es) /\ 1 \in 1..Len(Way(es))
  BY <1>1, <1>2
<1> QED BY <1>1, <1>2, <1>3, <1>4, <1>5, <1>6

LEMMA UniqueTail ==
  ASSUME NEW es \in Seq(Turn), queue \in Seq(Turn), es # <<>>, Unique(es)
  PROVE  /\ Unique(Tail(es))
         /\ OnWay(Tail(es)) = OnWay(es) \ {Head(es)} /\ Head(es) \in OnWay(es) /\ Head(es) \in Sent
         /\ \A p, t : Late(p, t, Tail(es)) => Late(p, t, es)
         /\ \A p \in OnWay(Tail(es)) : Late(p, Head(es), es)
<1> DEFINE N == Len(Way(es))
           M == Len(Way(Tail(es)))
<1>1. /\ N = M + 1 /\ M \in Nat /\ Way(es)[1] = Head(es) /\ 1 \in 1..N
      /\ \A i \in 1..M : i + 1 \in 1..N /\ Way(Tail(es))[i] = Way(es)[i + 1]
      /\ \A i \in 2..N : i - 1 \in 1..M /\ Way(Tail(es))[i - 1] = Way(es)[i]
  BY WayTail
<1> HIDE DEF N, M
<1>2. Head(es) \notin CmdTurns /\ \A i \in 1..M : Way(Tail(es))[i] # Head(es)
  <2>1. \A i \in 1..M : i + 1 # 1
    BY <1>1
  <2> QED BY <1>1, <2>1 DEF Unique, N
<1>3. OnWay(Tail(es)) = OnWay(es) \ {Head(es)} /\ Head(es) \in OnWay(es)
  <2>1. OnWay(Tail(es)) = CmdTurns \cup {Way(Tail(es))[i] : i \in 1..M} /\ OnWay(es) = CmdTurns \cup {Way(es)[i] : i \in 1..N}
    BY DEF OnWay, M, N
  <2>2. \A i \in 1..N : i = 1 \/ i \in 2..N
    BY <1>1
  <2>3. {Way(Tail(es))[i] : i \in 1..M} \subseteq {Way(es)[i] : i \in 1..N}
    BY <1>1
  <2>4. {Way(es)[i] : i \in 1..N} \subseteq {Way(Tail(es))[i] : i \in 1..M} \cup {Head(es)}
    BY <1>1, <2>2
  <2>5. Head(es) \in {Way(es)[i] : i \in 1..N}
    BY <1>1
  <2> QED BY <1>2, <2>1, <2>3, <2>4, <2>5
<1>4. ASSUME NEW p, NEW t, Late(p, t, Tail(es)) PROVE Late(p, t, es)
  <2>1. CASE p \in CmdTurns /\ \E j \in 1..M : Way(Tail(es))[j] = t
    BY <1>1, <2>1 DEF Late, N
  <2>2. CASE \E c, d \in cmds : c.turn = p /\ d.turn = t /\ d.seq <= c.seq
    BY <2>2 DEF Late
  <2>3. CASE \E i, j \in 1..M : j < i /\ Way(Tail(es))[i] = p /\ Way(Tail(es))[j] = t
    <3>1. PICK i \in 1..M, j \in 1..M : j < i /\ Way(Tail(es))[i] = p /\ Way(Tail(es))[j] = t
      BY <2>3
    <3>2. /\ i + 1 \in 1..N /\ j + 1 \in 1..N /\ j + 1 < i + 1
          /\ Way(es)[i + 1] = p /\ Way(es)[j + 1] = t
      BY <1>1, <3>1
    <3> QED BY <3>2 DEF Late, N
  <2> QED BY <1>4, <2>1, <2>2, <2>3 DEF Late, M
<1>5. ASSUME NEW p \in OnWay(Tail(es)) PROVE Late(p, Head(es), es)
  <2>1. CASE p \in CmdTurns
    BY <1>1, <2>1 DEF Late, N
  <2>2. CASE \E i \in 1..M : Way(Tail(es))[i] = p
    <3>1. PICK i \in 1..M : Way(Tail(es))[i] = p
      BY <2>2
    <3>2. i + 1 \in 1..N /\ 1 < i + 1 /\ Way(es)[i + 1] = p
      BY <1>1, <3>1
    <3> QED BY <1>1, <3>2 DEF Late, N
  <2> QED BY <2>1, <2>2 DEF OnWay, M
<1>6. Unique(Tail(es))
  <2>1. \A i, j \in 1..M : Way(Tail(es))[i] = Way(Tail(es))[j] => i = j
    <3> SUFFICES ASSUME NEW i \in 1..M, NEW j \in 1..M, Way(Tail(es))[i] = Way(Tail(es))[j] PROVE i = j
      OBVIOUS
    <3>1. i + 1 = j + 1
      BY <1>1 DEF Unique, N
    <3> QED BY <1>1, <3>1
  <2>2. \A i \in 1..M : Way(Tail(es))[i] \notin CmdTurns
    BY <1>1 DEF Unique, N
  <2>3. lost \cap OnWay(Tail(es)) = {} /\ OnWay(Tail(es)) \cup lost \subseteq Sent
    BY <1>3 DEF Unique
  <2> QED BY <2>1, <2>2, <2>3 DEF Unique, M
<1> QED BY <1>3, <1>4, <1>5, <1>6 DEF Unique

----
(***************************************************************************)
(* Counting.                                                               *)
(***************************************************************************)
LEMMA Counts ==
  /\ \A S \in SUBSET Turn : Cardinality(S) \in Nat /\ (Cardinality(S) = 0 <=> S = {})
  /\ \A S, T \in SUBSET Turn : S \subseteq T => Cardinality(S) <= Cardinality(T)
  /\ \A S, T \in SUBSET Turn : Cardinality(S \cup T) <= Cardinality(S) + Cardinality(T)
  /\ \A S, T \in SUBSET Turn : S \cap T = {} => Cardinality(S \cup T) = Cardinality(S) + Cardinality(T)
  /\ \A S \in SUBSET Turn : \A x \in S : Cardinality(S \ {x}) = Cardinality(S) - 1
  /\ \A S \in SUBSET Turn : \A x \in Turn \ S : Cardinality(S \cup {x}) = Cardinality(S) + 1
  /\ \A S \in SUBSET Turn : \A x \in Turn : Cardinality(S) <= Cardinality(S \ {x}) + 1
<1>1. \A S \in SUBSET Turn : IsFiniteSet(S) /\ Cardinality(S) \in Nat
  BY TurnsAreNat
<1>2. \A S \in SUBSET Turn : Cardinality(S) = 0 <=> S = {}
  BY <1>1, FS_EmptySet
<1>3. ASSUME NEW S \in SUBSET Turn, NEW T \in SUBSET Turn, S \subseteq T PROVE Cardinality(S) <= Cardinality(T)
  <2>1. IsFiniteSet(T) /\ S \in SUBSET T
    BY <1>1, <1>3
  <2> QED BY <2>1, FS_Subset
<1>4. ASSUME NEW S \in SUBSET Turn, NEW T \in SUBSET Turn
      PROVE  /\ Cardinality(S \cup T) <= Cardinality(S) + Cardinality(T)
             /\ S \cap T = {} => Cardinality(S \cup T) = Cardinality(S) + Cardinality(T)
  <2>1. S \cap T \in SUBSET Turn
    OBVIOUS
  <2>2. Cardinality(S \cup T) = Cardinality(S) + Cardinality(T) - Cardinality(S \cap T)
    BY <1>1, FS_Union
  <2>3. Cardinality(S \cap T) \in Nat /\ (S \cap T = {} => Cardinality(S \cap T) = 0)
    BY <1>1, <1>2, <2>1
  <2> QED BY <1>1, <2>2, <2>3
<1>5. ASSUME NEW S \in SUBSET Turn, NEW x \in S PROVE Cardinality(S \ {x}) = Cardinality(S) - 1
  BY <1>1, FS_RemoveElement
<1>6. ASSUME NEW S \in SUBSET Turn, NEW x \in Turn \ S PROVE Cardinality(S \cup {x}) = Cardinality(S) + 1
  BY <1>1, FS_AddElement
<1>7. ASSUME NEW S \in SUBSET Turn, NEW x \in Turn PROVE Cardinality(S) <= Cardinality(S \ {x}) + 1
  <2> DEFINE a == Cardinality(S)
             b == Cardinality(S \ {x})
  <2>1. a \in Nat /\ b \in Nat
    BY <1>1
  <2>2. CASE x \in S
    <3>1. b = a - 1
      BY <1>5, <2>2
    <3> HIDE DEF a, b
    <3>2. a <= b + 1
      BY <2>1, <3>1
    <3> QED BY <3>2 DEF a, b
  <2>3. CASE x \notin S
    <3>1. b = a
      <4>1. S \ {x} = S
        BY <2>3
      <4> QED BY <4>1
    <3> HIDE DEF a, b
    <3>2. a <= b + 1
      BY <2>1, <3>1
    <3> QED BY <3>2 DEF a, b
  <2> QED BY <2>2, <2>3
<1> QED BY <1>1, <1>2, <1>3, <1>4, <1>5, <1>6, <1>7

LEMMA LastIs ==
  ASSUME NEW S \in SUBSET Turn, S # {}
  PROVE  \E x \in S : \A y \in S : y <= x
<1>1. MaxTurns \in Nat
  BY BridgeAssumption
<1> DEFINE T == {MaxTurns + 1 - y : y \in S}
<1>2. T \in SUBSET Turn /\ T # {}
  <2>1. ASSUME NEW y \in S PROVE MaxTurns + 1 - y \in Turn
    <3>1. y \in 1..MaxTurns
      BY DEF Turn
    <3> QED BY <1>1, <3>1 DEF Turn
  <2> QED BY <2>1
<1>3. Min(T) \in T /\ \A z \in T : Min(T) <= z
  <2> HIDE DEF T
  <2>1. T \in SUBSET Nat
    BY <1>2, TurnsAreNat
  <2> QED BY <1>2, <2>1, LeastIs
<1>4. PICK x \in S : Min(T) = MaxTurns + 1 - x
  BY <1>3
<1>5. ASSUME NEW y \in S PROVE y <= x
  <2>1. MaxTurns + 1 - x <= MaxTurns + 1 - y
    BY <1>3, <1>4
  <2> QED BY <1>1, <2>1, TurnsAreNat
<1> QED BY <1>5

\* A function tells the members of a set apart only when there are enough values.
LEMMA NoFewer ==
  ASSUME NEW S \in SUBSET Turn, NEW T \in SUBSET Turn, NEW f \in [S -> T],
         \A x, y \in S : f[x] = f[y] => x = y
  PROVE  Cardinality(S) <= Cardinality(T)
<1>1. IsFiniteSet(S) /\ IsFiniteSet(T) /\ Cardinality(S) \in Nat /\ Cardinality(T) \in Nat
  BY TurnsAreNat
<1>2. ~(Cardinality(T) < Cardinality(S))
  BY <1>1, FS_PigeonHole
<1> QED BY <1>1, <1>2

----
(***************************************************************************)
(* One result, for the rows as they are when it is read.                   *)
(***************************************************************************)
LEMMA SentIs ==
  ASSUME BridgeTypes
  PROVE  Len(kind) \in Nat /\ Sent \subseteq Turn /\ Sent \subseteq Nat
BY TurnsAreNat, BridgeAssumption DEF BridgeTypes, Sent, Turn

LEMMA HeldIs ==
  ASSUME NEW rows \in [Turn -> Row]
  PROVE  /\ Held(rows) \in SUBSET Turn /\ \A S : In(rows, S) \in SUBSET Turn
         /\ carries /\ RowsFit(rows) =>
               /\ Held(rows) = In(rows, {"waiting"}) \cup In(rows, {"answered"})
               /\ In(rows, {"waiting"}) \cap In(rows, {"answered"}) = {}
<1>1. \A r \in Turn : rows[r].state \in {"none", "waiting", "ended", "answered", "expired"}
  BY DEF Row
<1> QED BY <1>1 DEF Held, In, RowsFit

LEMMA StepEnough ==
  ASSUME BridgeTypes, NEW rows \in [Turn -> Row], NEW es \in Seq(Turn), es # <<>>, Unique(es),
         RowsFit(rows), EnoughToCome(rows, es), NEW now, now = OnResult(rows, Head(es))
  PROVE  EnoughToCome(now, Tail(es))
<1> DEFINE h == Head(es)
           X == Held(rows) \cap (lost \cup OnWay(es))
           Y == Held(rows) \cap (lost \cup OnWay(Tail(es)))
           W == In(rows, {"waiting"})
<1>1. queue \in Seq(Turn) /\ OnWay(Tail(es)) = OnWay(es) \ {h} /\ h \in Turn /\ h \in Sent
  BY UniqueTail, SentIs DEF BridgeTypes
<1>2. X \in SUBSET Turn /\ Y \in SUBSET Turn /\ W \in SUBSET Turn /\ X \ {h} \subseteq Y
  BY <1>1, HeldIs
<1>3. Cardinality(W) <= Cardinality(X)
  BY DEF EnoughToCome
<1> SUFFICES Cardinality(In(now, {"waiting"})) <= Cardinality(Held(now) \cap (lost \cup OnWay(Tail(es))))
  BY DEF EnoughToCome
<1>4. CASE Misses(rows, h)
  <2>1. now = rows
    BY <1>4 DEF Misses
  <2>2. CASE kind[h] = "effort"
    <3>1. h \notin Held(rows)
      BY <1>1, <2>2 DEF RowsFit, Held
    <3>2. X \subseteq Y
      BY <1>2, <3>1
    <3>3. Cardinality(X) <= Cardinality(Y) /\ Cardinality(X) \in Nat /\ Cardinality(Y) \in Nat /\ Cardinality(W) \in Nat
      BY <1>2, <3>2, Counts
    <3>4. Cardinality(W) <= Cardinality(Y)
      <4> HIDE DEF W, X, Y
      <4> QED BY <1>3, <3>3
    <3> QED BY <2>1, <3>4
  <2>3. CASE W = {}
    <3>1. Cardinality(W) = 0 /\ Cardinality(Y) \in Nat
      BY <1>2, <2>3, Counts
    <3>2. Cardinality(W) <= Cardinality(Y)
      <4> HIDE DEF W, Y
      <4> QED BY <3>1
    <3> QED BY <2>1, <3>2
  <2> QED BY <1>4, <2>2, <2>3 DEF Misses
<1>5. ASSUME NEW m \in Turn, Hits(rows, h, m) PROVE Cardinality(In(now, {"waiting"})) <= Cardinality(Held(now) \cap (lost \cup OnWay(Tail(es))))
  <2>1. Held(now) = Held(rows) /\ In(now, {"waiting"}) = W \ {m} /\ m \in W
    BY <1>1, <1>5, HitRows
  <2>2. Cardinality(W \ {m}) = Cardinality(W) - 1 /\ Cardinality(W) \in Nat
    BY <1>2, <2>1, Counts
  <2>3. Cardinality(X) <= Cardinality(X \ {h}) + 1
    BY <1>1, <1>2, Counts
  <2>4. /\ X \ {h} \in SUBSET Turn /\ Cardinality(X) \in Nat /\ Cardinality(Y) \in Nat
        /\ Cardinality(X \ {h}) \in Nat /\ Cardinality(X \ {h}) <= Cardinality(Y)
    BY <1>2, Counts
  <2>5. Cardinality(W \ {m}) <= Cardinality(Y)
    <3> HIDE DEF W, X, Y, h
    <3> QED BY <1>3, <2>2, <2>3, <2>4
  <2> QED BY <2>1, <2>5
<1> QED BY <1>1, <1>4, <1>5, OnResultIs

LEMMA TextsAfter ==
  ASSUME carries, NEW rows \in [Turn -> Row], NEW t \in Turn, NEW m \in Turn, Hits(rows, t, m), NEW now, now = OnResult(rows, t)
  PROVE  Texts(now) \subseteq Texts(rows) \cup {t}
<1>1. now[m].text = {t} /\ \A r \in Turn \ {m} : now[r] = rows[r]
  BY HitRows
<1>2. \A r \in Turn : now[r].text \subseteq rows[r].text \cup {t}
  BY <1>1
<1> QED BY <1>2 DEF Texts

LEMMA StepInTurn ==
  ASSUME BridgeTypes, NEW rows \in [Turn -> Row], NEW es \in Seq(Turn), es # <<>>, Unique(es),
         InTurn(rows, es, {}), NEW now, now = OnResult(rows, Head(es))
  PROVE  InTurn(now, Tail(es), {})
<1> DEFINE h == Head(es)
<1>1. /\ queue \in Seq(Turn) /\ OnWay(Tail(es)) = OnWay(es) \ {h} /\ h \in Turn /\ h \in Sent
      /\ \A p, t : Late(p, t, Tail(es)) => Late(p, t, es)
      /\ \A p \in OnWay(Tail(es)) : Late(p, h, es)
  BY UniqueTail, SentIs DEF BridgeTypes
<1>2. Held(now) = Held(rows) /\ (carries => Texts(now) \subseteq Texts(rows) \cup {h})
  <2>1. CASE Misses(rows, h)
    BY <2>1 DEF Misses
  <2>2. ASSUME NEW m \in Turn, Hits(rows, h, m) PROVE Held(now) = Held(rows) /\ (carries => Texts(now) \subseteq Texts(rows) \cup {h})
    BY <1>1, <2>2, HitRows, TextsAfter
  <2> QED BY <1>1, <2>1, <2>2, OnResultIs
<1> HIDE DEF h
<1> SUFFICES ASSUME NEW p \in Held(rows), NEW q \in Held(rows), p < q, NEW t \in Sent, q <= t
             PROVE  ~Late(p, t, Tail(es)) /\ (carries /\ t \in Texts(now) => p \notin OnWay(Tail(es)))
  BY <1>2 DEF InTurn
<1>3. ~Late(p, t, es) /\ (carries /\ t \in Texts(rows) => p \notin OnWay(es))
  BY DEF InTurn
<1> QED BY <1>1, <1>2, <1>3

LEMMA StepOneEach ==
  ASSUME BridgeTypes, carries, NEW rows \in [Turn -> Row], NEW es \in Seq(Turn), es # <<>>, Unique(es),
         OneEach(rows, es), NEW now, now = OnResult(rows, Head(es))
  PROVE  OneEach(now, Tail(es))
<1> DEFINE h == Head(es)
<1>1. /\ queue \in Seq(Turn) /\ OnWay(Tail(es)) = OnWay(es) \ {h} /\ h \in OnWay(es) /\ h \in Turn /\ h \in Sent
  BY UniqueTail, SentIs DEF BridgeTypes
<1> HIDE DEF h
<1>2. CASE Misses(rows, h)
  BY <1>1, <1>2 DEF Misses, OneEach, h
<1>3. ASSUME NEW m \in Turn, Hits(rows, h, m) PROVE OneEach(now, Tail(es))
  <2>1. /\ In(now, {"waiting"}) = In(rows, {"waiting"}) \ {m} /\ m \in In(rows, {"waiting"})
        /\ now[m].text = {h} /\ now[m].state = "answered" /\ \A r \in Turn \ {m} : now[r] = rows[r]
        /\ Texts(now) \subseteq Texts(rows) \cup {h}
    BY <1>1, <1>3, HitRows, TextsAfter DEF h
  <2>2. In(now, {"answered"}) = In(rows, {"answered"}) \cup {m} /\ m \notin In(rows, {"answered"})
    BY <2>1 DEF In
  <2>3. (\A q \in In(rows, {"waiting"}) : m <= q) /\ kind[h] # "effort"
    BY <1>3 DEF Hits
  <2>4. \A q \in In(now, {"answered"}) : \A r \in In(now, {"waiting"}) : q < r
    <3>1. \A r \in In(now, {"waiting"}) : m < r
      <4>1. In(rows, {"waiting"}) \subseteq Nat
        BY TurnsAreNat DEF In
      <4> QED BY <2>1, <2>3, <4>1
    <3> QED BY <2>1, <2>2, <3>1 DEF OneEach
  <2>5. \A r \in In(now, {"answered"}) : \E t \in Sent : kind[t] # "effort" /\ now[r].text = {t}
    <3>1. \A r \in In(rows, {"answered"}) : now[r] = rows[r]
      BY <2>1, <2>2 DEF In
    <3> QED BY <1>1, <2>1, <2>2, <2>3, <3>1 DEF OneEach
  <2>6. h \notin Texts(rows) /\ \A r \in In(rows, {"answered"}) : rows[r].text \subseteq Texts(rows) /\ now[r] = rows[r]
    BY <1>1, <2>1, <2>2 DEF OneEach, Texts, In
  <2>7. \A q, r \in In(now, {"answered"}) : q # r => now[q].text \cap now[r].text = {}
    BY <2>1, <2>2, <2>6 DEF OneEach
  <2>8. Texts(now) \cap OnWay(Tail(es)) = {}
    BY <1>1, <2>1 DEF OneEach
  <2> QED BY <2>4, <2>5, <2>7, <2>8 DEF OneEach
<1> QED BY <1>1, <1>2, <1>3, OnResultIs DEF h

\* The row that is answered: the turns between it and the turn that answers it.
LEMMA HitLater ==
  ASSUME BridgeTypes, carries, NEW rows \in [Turn -> Row], NEW es \in Seq(Turn), es # <<>>, Unique(es),
         RowsFit(rows), EnoughToCome(rows, es), OneEach(rows, es), InTurn(rows, es, {}),
         NEW h, h = Head(es), NEW m \in Turn, Hits(rows, h, m)
  PROVE  Cardinality({q \in Held(rows) : m < q /\ q <= h}) <= Cardinality({l \in lost : l < h})
<1> DEFINE H == Held(rows)
           W == In(rows, {"waiting"})
           X == H \cap (lost \cup OnWay(es))
           K == {q \in H : m < q /\ q <= h}
           L == {l \in lost : l < h}
           B == {q \in H : q < m}
           S == {q \in H : q <= h}
<1>1. /\ queue \in Seq(Turn) /\ OnWay(Tail(es)) = OnWay(es) \ {h} /\ h \in Turn /\ h \in Sent
      /\ \A p \in OnWay(Tail(es)) : Late(p, h, es)
      /\ Turn \subseteq Nat /\ lost \subseteq Turn
  BY UniqueTail, SentIs, TurnsAreNat DEF BridgeTypes
<1>2. /\ H \in SUBSET Turn /\ W \in SUBSET Turn /\ X \in SUBSET Turn /\ X \subseteq H /\ W \subseteq H
      /\ H = W \cup In(rows, {"answered"}) /\ m \in W /\ \A q \in W : m <= q
  BY HeldIs DEF Hits
<1>3. L \in SUBSET Turn /\ K \in SUBSET Turn /\ B \in SUBSET Turn /\ S \in SUBSET Turn
  BY <1>1, <1>2
<1>4. Cardinality(W) <= Cardinality(X)
  BY DEF EnoughToCome
<1>5. B = H \ W
  <2>1. \A q \in In(rows, {"answered"}) : q < m
    BY <1>2 DEF OneEach
  <2>2. \A q \in W : ~(q < m)
    BY <1>1, <1>2
  <2> QED BY <1>2, <2>1, <2>2
<1>6. CASE K = {}
  <2>1. Cardinality(K) = 0 /\ Cardinality(L) \in Nat
    BY <1>3, <1>6, Counts
  <2> HIDE DEF K, L
  <2>2. Cardinality(K) <= Cardinality(L)
    BY <2>1
  <2> QED BY <2>2 DEF K, L
<1>7. CASE K # {}
  <2>1. S = (B \cup {m}) \cup K /\ B \cap K = {} /\ m \notin B /\ m \notin K /\ m \in S
    <3>1. PICK q \in H : m < q /\ q <= h
      BY <1>7
    <3>2. m \in Nat /\ h \in Nat /\ \A y \in H : y \in Nat
      BY <1>1, <1>2
    <3>3. m < h /\ m \in H
      BY <1>2, <3>1, <3>2
    <3> HIDE DEF H
    <3>4. \A q1 \in H : /\ q1 <= h <=> q1 < m \/ q1 = m \/ (m < q1 /\ q1 <= h)
                       /\ ~(q1 < m /\ m < q1)
      BY <3>2, <3>3
    <3>5. m <= h /\ ~(m < m)
      BY <3>2, <3>3
    <3> QED BY <3>3, <3>4, <3>5
  <2>2. PICK x \in S : \A y \in S : y <= x
    BY <1>3, <2>1, LastIs
  <2>3. S \ {x} \subseteq (H \ X) \cup L
    <3> SUFFICES ASSUME NEW q \in S \ {x}, q \notin L PROVE q \in H \ X
      OBVIOUS
    <3>1. q \in H /\ x \in H /\ q < x /\ x <= h /\ q < h
      <4>1. h \in Nat /\ \A y \in H : y \in Nat
        BY <1>1, <1>2
      <4>2. q \in S /\ q # x /\ q <= x /\ q \in H /\ x \in H /\ x <= h
        BY <2>2
      <4> HIDE DEF H, S, L, X
      <4> QED BY <4>1, <4>2
    <3>2. ~Late(q, h, es)
      BY <1>1, <3>1 DEF InTurn
    <3>3. q \notin OnWay(es)
      BY <1>1, <3>1, <3>2
    <3> QED BY <3>1, <3>3
  <2> HIDE DEF H, W, X, K, L, B, S
  <2>4. H \ X \in SUBSET Turn /\ S \ {x} \in SUBSET Turn /\ (H \ X) \cup L \in SUBSET Turn
    BY <1>2, <1>3
  <2> DEFINE nH == Cardinality(H)
             nX == Cardinality(X)
             nW == Cardinality(W)
             nK == Cardinality(K)
             nL == Cardinality(L)
             nB == Cardinality(B)
             nS == Cardinality(S)
             nHX == Cardinality(H \ X)
  <2>5. nH \in Nat /\ nX \in Nat /\ nW \in Nat /\ nK \in Nat /\ nL \in Nat /\ nB \in Nat /\ nS \in Nat /\ nHX \in Nat
    BY <1>2, <1>3, <2>4, Counts
  <2>6. nH = nX + nHX
    <3>1. H = X \cup (H \ X) /\ X \cap (H \ X) = {}
      BY <1>2
    <3> QED BY <1>2, <2>4, <3>1, Counts
  <2>7. nH = nW + nB
    <3>1. H = W \cup B /\ W \cap B = {}
      BY <1>2, <1>5
    <3> QED BY <1>2, <1>3, <3>1, Counts
  <2>8. nS = (nB + 1) + nK
    <3>1. (B \cup {m}) \in SUBSET Turn /\ (B \cup {m}) \cap K = {} /\ m \in Turn \ B
      BY <1>3, <2>1
    <3>2. Cardinality(B \cup {m}) = nB + 1
      BY <1>3, <3>1, Counts
    <3>3. Cardinality((B \cup {m}) \cup K) = Cardinality(B \cup {m}) + nK
      BY <1>3, <3>1, Counts
    <3> QED BY <2>1, <3>2, <3>3
  <2>9. nS - 1 <= nHX + nL
    <3>1. Cardinality(S \ {x}) = nS - 1
      BY <1>3, Counts
    <3>2. Cardinality(S \ {x}) <= Cardinality((H \ X) \cup L)
      BY <2>3, <2>4, Counts
    <3>3. Cardinality((H \ X) \cup L) <= nHX + nL
      BY <1>3, <2>4, Counts
    <3>4. Cardinality((H \ X) \cup L) \in Nat
      BY <2>4, Counts
    <3> HIDE DEF nS, nHX, nL
    <3> QED BY <2>5, <3>1, <3>2, <3>3, <3>4
  <2>10. nW <= nX
    BY <1>4
  <2> HIDE DEF nH, nX, nW, nK, nL, nB, nS, nHX
  <2>11. nK <= nL
    BY <2>5, <2>6, <2>7, <2>8, <2>9, <2>10
  <2> QED BY <2>11 DEF nK, nL, K, L, H
<1> QED BY <1>6, <1>7

\* The row that is answered: the rows between the turn that answers it and it.
LEMMA HitEarlier ==
  ASSUME BridgeTypes, carries, NEW rows \in [Turn -> Row], NEW es \in Seq(Turn), es # <<>>, Unique(es),
         RowsFit(rows), OneEach(rows, es), InTurn(rows, es, {}),
         NEW h, h = Head(es), NEW m \in Turn, Hits(rows, h, m), h \in Held(rows)
  PROVE  Cardinality({q \in Held(rows) : h <= q /\ q < m})
             <= Cardinality({f \in {g \in Sent : kind[g] # "effort"} \ Held(rows) : f < m})
<1> DEFINE H == Held(rows)
           D == {q \in H : h <= q /\ q < m}
           E == {q \in H : q < h}
           F == {f \in {g \in Sent : kind[g] # "effort"} \ H : f < m}
           B == {q \in H : q < m}
           nD == Cardinality(D)
           nE == Cardinality(E)
           nF == Cardinality(F)
           nB == Cardinality(B)
<1>1. /\ queue \in Seq(Turn) /\ h \in OnWay(es) /\ h \in Sent /\ Sent \subseteq Turn
      /\ Turn \subseteq Nat /\ H \in SUBSET Turn /\ m \in H
      /\ H = In(rows, {"waiting"}) \cup In(rows, {"answered"})
      /\ \A q \in In(rows, {"waiting"}) : m <= q
  BY UniqueTail, SentIs, TurnsAreNat, HeldIs DEF BridgeTypes, Hits
<1>2. m \in Nat /\ h \in Nat /\ \A q \in H : q \in Nat
  BY <1>1
<1>3. /\ D \in SUBSET Turn /\ E \in SUBSET Turn /\ F \in SUBSET Turn /\ B \in SUBSET Turn
      /\ E \cup F \in SUBSET Turn
  BY <1>1
<1>4. nD \in Nat /\ nE \in Nat /\ nF \in Nat /\ nB \in Nat
  BY <1>3, Counts
<1>5. CASE D = {}
  <2>1. nD = 0
    BY <1>3, <1>5, Counts
  <2> HIDE DEF nD, nF
  <2>2. nD <= nF
    BY <1>4, <2>1
  <2> QED BY <2>2 DEF nD, nF
<1>6. CASE D # {}
  <2>1. h < m
    <3>1. PICK q \in H : h <= q /\ q < m
      BY <1>6
    <3> HIDE DEF H
    <3> QED BY <1>2, <3>1
  <2>2. B = D \cup E /\ D \cap E = {}
    <3> HIDE DEF H
    <3>1. \A q \in H : (q < m <=> (h <= q /\ q < m) \/ q < h) /\ ~(h <= q /\ q < h)
      BY <1>2, <2>1
    <3> QED BY <3>1
  <2>3. nB = nD + nE
    BY <1>3, <2>2, Counts
  <2>4. B \subseteq In(rows, {"answered"})
    <3>1. \A q \in In(rows, {"waiting"}) : ~(q < m)
      BY <1>1, <1>2
    <3> QED BY <1>1, <3>1
  <2>5. ASSUME NEW q \in B PROVE \E t \in E \cup F : rows[q].text = {t}
    <3>1. PICK t \in Sent : kind[t] # "effort" /\ rows[q].text = {t}
      BY <2>4 DEF OneEach
    <3>2. t \in Texts(rows) /\ t \notin OnWay(es) /\ t # h
      <4>1. q \in Turn
        BY <1>3
      <4>2. t \in Texts(rows)
        BY <3>1, <4>1 DEF Texts
      <4> QED BY <1>1, <4>2 DEF OneEach
    <3>3. t \in Nat
      BY <1>1
    <3>4. ~(m <= t)
      <4>1. h \in Held(rows) /\ m \in Held(rows) /\ h < m
        BY <1>1, <2>1
      <4> QED BY <1>1, <3>2, <4>1 DEF InTurn
    <3>5. t < m
      BY <1>2, <3>3, <3>4
    <3>6. CASE t \in H
      <4>1. ~(h < t)
        <5> SUFFICES ASSUME h < t PROVE FALSE
          OBVIOUS
        <5>1. t <= t
          BY <3>3
        <5> QED BY <1>1, <3>2, <3>6, <5>1 DEF InTurn
      <4>2. t < h
        BY <1>2, <3>2, <3>3, <4>1
      <4> QED BY <3>1, <3>6, <4>2
    <3>7. CASE t \notin H
      <4>1. t \in F
        BY <3>1, <3>5, <3>7
      <4> QED BY <3>1, <4>1
    <3> QED BY <3>6, <3>7
  <2> DEFINE g == [q \in B |-> CHOOSE t \in E \cup F : rows[q].text = {t}]
  <2>6. g \in [B -> E \cup F] /\ \A q \in B : rows[q].text = {g[q]}
    <3> HIDE DEF B, E, F
    <3> QED BY <2>5
  <2>7. \A x, y \in B : g[x] = g[y] => x = y
    <3> SUFFICES ASSUME NEW x \in B, NEW y \in B, g[x] = g[y], x # y PROVE FALSE
      OBVIOUS
    <3>1. rows[x].text = {g[x]} /\ rows[y].text = {g[x]}
      BY <2>6
    <3>2. rows[x].text \cap rows[y].text = {}
      BY <2>4 DEF OneEach
    <3> HIDE DEF g
    <3> QED BY <3>1, <3>2
  <2> HIDE DEF g, B, D, E, F, H
  <2>8. nB <= Cardinality(E \cup F)
    BY <1>3, <2>6, <2>7, NoFewer
  <2>9. Cardinality(E \cup F) <= nE + nF /\ Cardinality(E \cup F) \in Nat
    BY <1>3, Counts
  <2> HIDE DEF nB, nD, nE, nF
  <2>10. nD <= nF
    BY <1>4, <2>3, <2>8, <2>9
  <2> QED BY <2>10 DEF nD, nF, D, F, H
<1> QED BY <1>5, <1>6

LEMMA StepNearby ==
  ASSUME BridgeTypes, carries, NEW rows \in [Turn -> Row], NEW es \in Seq(Turn), es # <<>>, Unique(es),
         Good(rows, es, {}), NEW now, now = OnResult(rows, Head(es))
  PROVE  Nearby(now)
<1> DEFINE h == Head(es)
<1>1. h \in Turn
  OBVIOUS
<1>2. CASE Misses(rows, h)
  BY <1>2 DEF Misses, Good
<1>3. ASSUME NEW m \in Turn, Hits(rows, h, m) PROVE Nearby(now)
  <2>1. /\ now[m].text = {h} /\ \A r \in Turn \ {m} : now[r] = rows[r]
        /\ Held(now) = Held(rows)
    BY <1>3, HitRows
  <2>2. \A r \in In(now, {"answered"}) : r = m \/ (r \in In(rows, {"answered"}) /\ now[r] = rows[r])
    BY <2>1 DEF In
  <2>3. RowsFit(rows) /\ EnoughToCome(rows, es) /\ InTurn(rows, es, {}) /\ OneEach(rows, es) /\ Nearby(rows)
    BY DEF Good
  <2>4. Cardinality({q \in Held(rows) : m < q /\ q <= h}) <= Cardinality({l \in lost : l < h})
    BY <1>3, <2>3, HitLater
  <2>5. h \in Held(rows) =>
          Cardinality({q \in Held(rows) : h <= q /\ q < m})
             <= Cardinality({f \in {g \in Sent : kind[g] # "effort"} \ Held(rows) : f < m})
    BY <1>3, <2>3, HitEarlier
  <2> HIDE DEF h
  <2> SUFFICES ASSUME NEW r \in In(now, {"answered"}), NEW t \in now[r].text
        PROVE /\ Cardinality({q \in Held(rows) : r < q /\ q <= t}) <= Cardinality({l \in lost : l < t})
              /\ t \in Held(rows) =>
                   Cardinality({q \in Held(rows) : t <= q /\ q < r})
                       <= Cardinality({f \in {g \in Sent : kind[g] # "effort"} \ Held(rows) : f < r})
    BY <2>1, Zenon DEF Nearby
  <2>6. CASE r = m
    <3>1. t = h
      BY <2>1, <2>6
    <3> QED BY <2>4, <2>5, <2>6, <3>1
  <2>7. CASE r # m
    BY <2>2, <2>3, <2>7, Zenon DEF Nearby
  <2> QED BY <2>6, <2>7
<1> QED BY <1>1, <1>2, <1>3, OnResultIs

LEMMA StepGood ==
  ASSUME BridgeTypes, NEW rows \in [Turn -> Row], NEW es \in Seq(Turn), es # <<>>, Unique(es),
         Good(rows, es, {}), NEW now, now = OnResult(rows, Head(es))
  PROVE  now \in [Turn -> Row] /\ Good(now, Tail(es), {}) /\ Unique(Tail(es)) /\ Held(now) = Held(rows)
<1> DEFINE h == Head(es)
<1>1. h \in Turn /\ queue \in Seq(Turn)
  BY DEF BridgeTypes
<1>2. now \in [Turn -> Row]
  BY <1>1, OnResultIs
<1>3. RowsFit(now) /\ Held(now) = Held(rows)
  <2>1. CASE Misses(rows, h)
    BY <2>1 DEF Misses, Good
  <2>2. ASSUME NEW m \in Turn, Hits(rows, h, m) PROVE RowsFit(now) /\ Held(now) = Held(rows)
    <3>1. /\ rows[m].state = "waiting" /\ \A r \in Turn \ {m} : now[r] = rows[r]
          /\ Held(now) = Held(rows)
          /\ carries => now[m].state = "answered" /\ now[m].text = {h}
          /\ ~carries => now[m].state = "ended" /\ now[m].text = rows[m].text
      BY <1>1, <2>2, HitRows
    <3>2. RowsFit(rows)
      BY DEF Good
    <3>3. \A r \in Turn \ {m} : /\ now[r].state = "answered" <=> now[r].text # {}
                                /\ now[r].state # "none" => r \in Sent /\ kind[r] = "ask"
                                /\ now[r].state \in {"ended", "expired"} => ~carries
      BY <3>1, <3>2 DEF RowsFit
    <3>4. rows[m].text = {} /\ m \in Sent /\ kind[m] = "ask"
      BY <3>1, <3>2 DEF RowsFit
    <3>5. /\ now[m].state = "answered" <=> now[m].text # {}
          /\ now[m].state # "none" => m \in Sent /\ kind[m] = "ask"
          /\ now[m].state \in {"ended", "expired"} => ~carries
      BY <3>1, <3>4
    <3> SUFFICES ASSUME NEW r \in Turn
                 PROVE  /\ now[r].state = "answered" <=> now[r].text # {}
                        /\ now[r].state # "none" => r \in Sent /\ kind[r] = "ask"
                        /\ now[r].state \in {"ended", "expired"} => ~carries
      BY <3>1 DEF RowsFit
    <3>6. CASE r = m
      <4> SUFFICES /\ now[m].state = "answered" <=> now[m].text # {}
                   /\ now[m].state # "none" => m \in Sent /\ kind[m] = "ask"
                   /\ now[m].state \in {"ended", "expired"} => ~carries
        BY <3>6
      <4> QED BY <3>5
    <3>7. CASE r # m
      <4>1. now[r] = rows[r]
        BY <3>1, <3>7
      <4>2. /\ rows[r].state = "answered" <=> rows[r].text # {}
            /\ rows[r].state # "none" => r \in Sent /\ kind[r] = "ask"
            /\ rows[r].state \in {"ended", "expired"} => ~carries
        BY <3>2 DEF RowsFit
      <4> DEFINE x == rows[r]
      <4>3. /\ x.state = "answered" <=> x.text # {}
            /\ x.state # "none" => r \in Sent /\ kind[r] = "ask"
            /\ x.state \in {"ended", "expired"} => ~carries
        BY <4>2
      <4>4. now[r] = x
        BY <4>1
      <4> HIDE DEF x
      <4> QED BY <4>3, <4>4
    <3> QED BY <3>6, <3>7
  <2> QED BY <1>1, <2>1, <2>2, OnResultIs
<1>4. EnoughToCome(now, Tail(es)) /\ InTurn(now, Tail(es), {})
  BY StepEnough, StepInTurn DEF Good
<1>5. carries => OneEach(now, Tail(es)) /\ Nearby(now)
  BY StepOneEach, StepNearby DEF Good
<1> QED BY <1>1, <1>2, <1>3, <1>4, <1>5, UniqueTail DEF Good

----
(***************************************************************************)
(* All the results a poll reads.                                           *)
(***************************************************************************)
Rest(n) == SubSeq(events, n + 1, Len(events))

LEMMA RestIs ==
  ASSUME events \in Seq(Turn), NEW n \in 0..Len(events)
  PROVE  /\ Rest(n) \in Seq(Turn) /\ Len(Rest(n)) = Len(events) - n
         /\ \A i \in 1..(Len(events) - n) : Rest(n)[i] = events[n + i]
         /\ Rest(0) = events /\ Rest(Len(events)) = <<>>
         /\ n < Len(events) => /\ Rest(n) # <<>> /\ Head(Rest(n)) = events[n + 1]
                               /\ Tail(Rest(n)) = Rest(n + 1)
<1> DEFINE N == Len(events)
<1>1. N \in Nat /\ n \in Nat /\ n <= N
  OBVIOUS
<1>2. ASSUME NEW k \in 0..N
      PROVE  /\ Rest(k) \in Seq(Turn) /\ Len(Rest(k)) = N - k
             /\ \A i \in 1..(N - k) : Rest(k)[i] = events[k + i]
  <2>1. k \in Nat /\ k <= N /\ k + 1 \in 1..(N + 1)
    BY <1>1
  <2>2. k + 1 \in Int /\ N \in Int /\ \A i \in (k + 1)..N : events[i] \in Turn
    BY <1>1, <2>1
  <2>3. /\ Rest(k) \in Seq(Turn)
        /\ Len(Rest(k)) = IF k + 1 <= N THEN N - (k + 1) + 1 ELSE 0
        /\ \A i \in 1..(N - (k + 1) + 1) : Rest(k)[i] = events[(k + 1) + i - 1]
    BY <1>1, <2>1, <2>2 DEF Rest
  <2>4. N - (k + 1) + 1 = N - k
    BY <1>1, <2>1
  <2>5. Len(Rest(k)) = N - k
    <3>1. (IF k + 1 <= N THEN N - (k + 1) + 1 ELSE 0) = N - k
      <4> HIDE DEF N
      <4>1. CASE k + 1 <= N
        BY <2>4, <4>1
      <4>2. CASE ~(k + 1 <= N)
        <5>1. k = N
          BY <1>1, <2>1, <4>2
        <5> QED BY <1>1, <4>2, <5>1
      <4> QED BY <4>1, <4>2
    <3>2. Len(Rest(k)) = IF k + 1 <= N THEN N - (k + 1) + 1 ELSE 0
      BY <2>3
    <3> HIDE DEF N
    <3> QED BY <3>1, <3>2
  <2>6. ASSUME NEW i \in 1..(N - k) PROVE Rest(k)[i] = events[k + i]
    <3>1. (k + 1) + i - 1 = k + i
      BY <1>1, <2>1
    <3> QED BY <2>3, <2>4, <3>1
  <2> QED BY <2>3, <2>5, <2>6
<1>3. Rest(0) = events
  <2>1. 0 \in 0..N
    BY <1>1
  <2>2. Rest(0) \in Seq(Turn) /\ Len(Rest(0)) = N /\ \A i \in 1..N : Rest(0)[i] = events[i]
    BY <1>1, <1>2, <2>1
  <2> QED BY <2>2, SeqEqual
<1>4. Rest(N) = <<>>
  <2>1. N \in 0..N
    BY <1>1
  <2>2. Rest(N) \in Seq(Turn) /\ Len(Rest(N)) = 0
    BY <1>1, <1>2, <2>1
  <2> QED BY <2>2, EmptySeq
<1>5. ASSUME n < N PROVE Rest(n) # <<>> /\ Head(Rest(n)) = events[n + 1] /\ Tail(Rest(n)) = Rest(n + 1)
  <2>1. /\ Rest(n) \in Seq(Turn) /\ Len(Rest(n)) = N - n
        /\ \A i \in 1..(N - n) : Rest(n)[i] = events[n + i]
    BY <1>2
  <2>2. n + 1 \in 0..N /\ N - n >= 1 /\ 1 \in 1..(N - n)
    BY <1>1, <1>5
  <2>3. /\ Rest(n + 1) \in Seq(Turn) /\ Len(Rest(n + 1)) = N - (n + 1)
        /\ \A i \in 1..(N - (n + 1)) : Rest(n + 1)[i] = events[(n + 1) + i]
    BY <1>2, <2>2
  <2>4. Rest(n) # <<>> /\ Head(Rest(n)) = Rest(n)[1] /\ Rest(n)[1] = events[n + 1]
    BY <2>1, <2>2
  <2>5. /\ Tail(Rest(n)) \in Seq(Turn) /\ Len(Tail(Rest(n))) = (N - n) - 1
        /\ \A i \in 1..((N - n) - 1) : Tail(Rest(n))[i] = Rest(n)[i + 1]
    BY <2>1, <2>4, HeadTailProperties
  <2>6. (N - n) - 1 = N - (n + 1)
    BY <1>1
  <2>7. \A i \in 1..(N - (n + 1)) : Tail(Rest(n))[i] = Rest(n + 1)[i]
    <3> TAKE i \in 1..(N - (n + 1))
    <3>1. i \in 1..((N - n) - 1) /\ i + 1 \in 1..(N - n) /\ n + (i + 1) = (n + 1) + i
      BY <1>1
    <3> QED BY <2>1, <2>3, <2>5, <3>1
  <2> QED BY <2>3, <2>4, <2>5, <2>6, <2>7, SeqEqual
<1> QED BY <1>2, <1>3, <1>4, <1>5

LEMMA GoodAfter ==
  ASSUME BridgeTypes, Unique(events), NEW rows \in [Turn -> Row], Good(rows, events, {}),
         NEW N \in 0..Len(events), NEW f, Answering(f, rows, events, N)
  PROVE  \A n \in 0..N : /\ f[n] \in [Turn -> Row] /\ Good(f[n], Rest(n), {}) /\ Unique(Rest(n))
                         /\ Held(f[n]) = Held(rows)
<1> DEFINE S == {n \in 0..N : /\ f[n] \in [Turn -> Row] /\ Good(f[n], Rest(n), {}) /\ Unique(Rest(n))
                              /\ Held(f[n]) = Held(rows)}
<1>0. events \in Seq(Turn) /\ N \in Nat /\ N <= Len(events) /\ Len(events) \in Nat
  BY DEF BridgeTypes
<1>1. f \in [0..N -> [Turn -> Row]] /\ f[0] = rows /\ \A i \in 1..N : f[i] = OnResult(f[i - 1], events[i])
  BY DEF Answering
<1>2. 0 \in S
  <2>1. 0 \in 0..N /\ 0 \in 0..Len(events)
    BY <1>0
  <2>2. Rest(0) = events
    BY <1>0, <2>1, RestIs
  <2> QED BY <1>1, <2>1, <2>2
<1>3. ASSUME NEW n \in 0..(N - 1), n \in S PROVE n + 1 \in S
  <2>1. n \in 0..Len(events) /\ n < Len(events) /\ n + 1 \in 1..N /\ n + 1 \in 0..N /\ (n + 1) - 1 = n
    BY <1>0
  <2>2. Rest(n) \in Seq(Turn) /\ Rest(n) # <<>> /\ Head(Rest(n)) = events[n + 1] /\ Tail(Rest(n)) = Rest(n + 1)
    BY <1>0, <2>1, RestIs
  <2>3. f[n + 1] = OnResult(f[n], Head(Rest(n)))
    BY <1>1, <2>1, <2>2
  <2>4. f[n] \in [Turn -> Row] /\ Good(f[n], Rest(n), {}) /\ Unique(Rest(n)) /\ Held(f[n]) = Held(rows)
    BY <1>3
  <2>5. /\ f[n + 1] \in [Turn -> Row] /\ Good(f[n + 1], Rest(n + 1), {}) /\ Unique(Rest(n + 1))
        /\ Held(f[n + 1]) = Held(rows)
    BY <2>2, <2>3, <2>4, StepGood
  <2> QED BY <2>1, <2>5
<1> HIDE DEF S
<1>4. \A n \in 0..N : n \in S
  BY <1>0, <1>2, <1>3, UpTo
<1> QED BY <1>4 DEF S

\* What a poll does is to answer the rows one after the other.
LEMMA AppliedIs ==
  ASSUME BridgeTypes, NEW rows \in [Turn -> Row]
  PROVE  \E f : Answering(f, rows, events, Len(events)) /\ Applied(rows, events) = f[Len(events)]
<1> DEFINE N == Len(events)
           W == [Turn -> Row]
           F(f) == [i \in 0..N |-> IF i = 0 THEN rows ELSE OnResult(f[i - 1], events[i])]
           c == CHOOSE f : f = F(f)
           step == [p \in W \X (1..N) |-> OnResult(p[1], events[p[2]])]
<1>0. events \in Seq(Turn)
  BY DEF BridgeTypes
<1>1. N \in Nat /\ \A i \in 1..N : events[i] \in Turn
  BY <1>0
<1>2. step \in Steps(W, N)
  <2>1. ASSUME NEW p \in W \X (1..N) PROVE OnResult(p[1], events[p[2]]) \in W
    <3>1. p[1] \in [Turn -> Row] /\ events[p[2]] \in Turn
      BY <1>1
    <3> QED BY <3>1, OnResultIs
  <2> QED BY <2>1 DEF Steps
<1>3. PICK f : IsFold(f, W, rows, N, step)
  <2>1. rows \in W
    OBVIOUS
  <2> HIDE DEF W, N, step
  <2> QED BY <1>1, <1>2, <2>1, FoldExists
<1>4. f \in [0..N -> W] /\ f[0] = rows /\ \A i \in 1..N : f[i] = step[<<f[i - 1], i>>]
  BY <1>3, Zenon DEF IsFold
<1>5. \A i \in 1..N : f[i] = OnResult(f[i - 1], events[i])
  <2> TAKE i \in 1..N
  <2>1. i - 1 \in 0..N
    BY <1>1
  <2>2. f[i - 1] \in W
    BY <1>4, <2>1
  <2> QED BY <1>4, <2>2
<1> HIDE DEF step
<1>6. Answering(f, rows, events, N)
  BY <1>4, <1>5 DEF Answering
<1> HIDE DEF W
<1>7. f = F(f)
  <2>1. ASSUME NEW n \in 0..N PROVE f[n] = F(f)[n]
    <3>1. CASE n = 0
      BY <1>4, <3>1
    <3>2. CASE n # 0
      <4>1. n \in 1..N
        BY <1>1, <3>2
      <4> QED BY <1>5, <3>2, <4>1
    <3> QED BY <3>1, <3>2
  <2>2. f = [n \in 0..N |-> f[n]] /\ F(f) = [n \in 0..N |-> F(f)[n]]
    BY <1>4
  <2> HIDE DEF F
  <2> QED BY <2>1, <2>2
<1>8. c = F(c)
  <2> HIDE DEF F
  <2> QED BY <1>7
<1>9. Applied(rows, events) = c[N]
  BY Zenon DEF Applied
<1> HIDE DEF c
<1>10. c[0] = rows /\ \A i \in 1..N : c[i] = OnResult(c[i - 1], events[i])
  <2>1. c[0] = rows
    BY <1>1, <1>8
  <2>2. \A i \in 1..N : c[i] = OnResult(c[i - 1], events[i])
    <3> TAKE i \in 1..N
    <3>1. i \in 0..N /\ i # 0
      BY <1>1
    <3> QED BY <1>8, <3>1
  <2> QED BY <2>1, <2>2
<1>11. c[N] = f[N]
  <2> DEFINE S == {n \in 0..N : c[n] = f[n]}
  <2>1. 0 \in S
    BY <1>1, <1>4, <1>10
  <2>2. ASSUME NEW n \in 0..(N - 1), n \in S PROVE n + 1 \in S
    <3>1. n + 1 \in 1..N /\ n + 1 \in 0..N /\ (n + 1) - 1 = n
      BY <1>1
    <3> QED BY <1>5, <1>10, <2>2, <3>1
  <2> HIDE DEF S
  <2>3. \A n \in 0..N : n \in S
    BY <1>1, <2>1, <2>2, UpTo
  <2>4. N \in S
    BY <1>1, <2>3
  <2> QED BY <2>4 DEF S
<1> QED BY <1>6, <1>9, <1>11

\* A row that is not waiting stays, one that is has its answer or stays.
LEMMA RowsAfter ==
  ASSUME BridgeTypes, NEW rows \in [Turn -> Row], NEW N \in 0..Len(events), NEW f, Answering(f, rows, events, N)
  PROVE  \A n \in 0..N : \A r \in Turn :
            \/ f[n][r] = rows[r]
            \/ /\ rows[r].state = "waiting" /\ f[n][r].state = IF carries THEN "answered" ELSE "ended"
               /\ f[n][r].after = rows[r].after /\ f[n][r].alone = rows[r].alone
               /\ ~carries => f[n][r].text = rows[r].text
<1> DEFINE Fits(row, old) ==
              \/ row = old
              \/ /\ old.state = "waiting" /\ row.state = IF carries THEN "answered" ELSE "ended"
                 /\ row.after = old.after /\ row.alone = old.alone
                 /\ ~carries => row.text = old.text
           S == {n \in 0..N : \A r \in Turn : Fits(f[n][r], rows[r])}
<1>0. events \in Seq(Turn) /\ N \in Nat /\ N <= Len(events) /\ Len(events) \in Nat
  BY DEF BridgeTypes
<1>1. f \in [0..N -> [Turn -> Row]] /\ f[0] = rows /\ \A i \in 1..N : f[i] = OnResult(f[i - 1], events[i])
  BY DEF Answering
<1>2. 0 \in S
  BY <1>0, <1>1
<1>3. ASSUME NEW n \in 0..(N - 1), n \in S PROVE n + 1 \in S
  <2>1. n \in 0..N /\ n + 1 \in 1..N /\ n + 1 \in 0..N /\ (n + 1) - 1 = n /\ n + 1 \in 1..Len(events)
    BY <1>0
  <2>2. f[n + 1] = OnResult(f[n], events[n + 1]) /\ events[n + 1] \in Turn /\ f[n] \in [Turn -> Row]
    BY <1>0, <1>1, <2>1
  <2>3. ASSUME NEW r \in Turn PROVE Fits(f[n + 1][r], rows[r])
    <3>1. Fits(f[n][r], rows[r])
      BY <1>3
    <3>2. CASE Misses(f[n], events[n + 1])
      BY <2>2, <3>1, <3>2 DEF Misses
    <3>3. ASSUME NEW m \in Turn, Hits(f[n], events[n + 1], m) PROVE Fits(f[n + 1][r], rows[r])
      <4>1. /\ f[n][m].state = "waiting" /\ \A s \in Turn \ {m} : f[n + 1][s] = f[n][s]
            /\ f[n + 1][m].after = f[n][m].after /\ f[n + 1][m].alone = f[n][m].alone
            /\ carries => f[n + 1][m].state = "answered"
            /\ ~carries => f[n + 1][m].state = "ended" /\ f[n + 1][m].text = f[n][m].text
        BY <2>2, <3>3, HitRows
      <4>2. CASE r # m
        BY <3>1, <4>1, <4>2
      <4>3. CASE r = m
        <5>1. f[n][r] = rows[r]
          BY <3>1, <4>1, <4>3
        <5> QED BY <4>1, <4>3, <5>1
      <4> QED BY <4>2, <4>3
    <3> QED BY <2>2, <3>2, <3>3, OnResultIs
  <2> QED BY <2>1, <2>3
<1> HIDE DEF S
<1>4. \A n \in 0..N : n \in S
  BY <1>0, <1>2, <1>3, UpTo
<1> QED BY <1>4 DEF S
----
(***************************************************************************)
(* Steps that leave the rows and the kinds of turns alone.                 *)
(***************************************************************************)
\* No turn comes behind another that it was not behind, and asked turns are lost
\* or still to come.
WayStays ==
    /\ \A p, t \in Turn : Late(p, t, events)' => Late(p, t, events)
    /\ lost \subseteq lost' /\ OnWay(events)' \subseteq OnWay(events)
    /\ \A t \in lost \cup OnWay(events) : kind[t] = "ask" => t \in lost' \cup OnWay(events)'

LEMMA LostIs == ASSUME BridgeTypes PROVE lost \in SUBSET Turn /\ Asked \in SUBSET Turn
  BY DEF BridgeTypes, Asked, AskedBy

LEMMA GoodStays ==
  ASSUME BridgeTypes, BridgeTypes', Good(wait, events, Asked), UNCHANGED <<carries, wait, kind>>,
         WayStays, Asked' \subseteq Asked
  PROVE  Good(wait, events, Asked)'
<1>1. wait \in [Turn -> Row] /\ wait' = wait /\ kind' = kind /\ carries' = carries /\ Sent' = Sent
  BY DEF BridgeTypes, Sent
<1>2. RowsFit(wait) /\ EnoughToCome(wait, events) /\ InTurn(wait, events, Asked)
  BY DEF Good
<1>3. RowsFit(wait)'
  BY <1>1, <1>2 DEF RowsFit
<1>4. EnoughToCome(wait, events)'
  <2> DEFINE X == Held(wait) \cap (lost \cup OnWay(events))
             Y == Held(wait) \cap (lost' \cup OnWay(events)')
             nW == Cardinality(In(wait, {"waiting"}))
             nX == Cardinality(X)
             nY == Cardinality(Y)
  <2>1. \A r \in Held(wait) : kind[r] = "ask"
    BY <1>2 DEF RowsFit, Held
  <2>2. X \subseteq Y /\ X \in SUBSET Turn /\ Y \in SUBSET Turn
    BY <1>1, <2>1, HeldIs DEF WayStays
  <2> HIDE DEF X, Y
  <2>3. nX \in Nat /\ nY \in Nat /\ nX <= nY /\ nW \in Nat
    BY <1>1, <2>2, Counts, HeldIs
  <2>4. nW <= nX
    BY <1>2 DEF EnoughToCome, X
  <2>5. nW <= nY
    <3> HIDE DEF nW, nX, nY
    <3> QED BY <2>3, <2>4
  <2> QED BY <1>1, <2>5 DEF EnoughToCome, Y
<1>5. InTurn(wait, events, Asked)'
  <2> SUFFICES ASSUME NEW p \in Held(wait), NEW q \in Held(wait) \cup Asked', p < q, NEW t \in Sent, q <= t
               PROVE  ~Late(p, t, events)' /\ (carries /\ t \in Texts(wait) => p \notin OnWay(events)')
    BY <1>1 DEF InTurn
  <2>1. ~Late(p, t, events) /\ (carries /\ t \in Texts(wait) => p \notin OnWay(events))
    BY <1>2 DEF InTurn
  <2>2. p \in Turn /\ t \in Turn
    BY <1>1, HeldIs, SentIs
  <2> QED BY <2>1, <2>2 DEF WayStays
<1>6. ASSUME carries PROVE OneEach(wait, events)' /\ Nearby(wait)'
  <2>1. OneEach(wait, events) /\ Nearby(wait)
    BY <1>6 DEF Good
  <2>2. OneEach(wait, events)'
    <3>1. Texts(wait) \cap OnWay(events)' = {}
      BY <2>1 DEF OneEach, WayStays
    <3> QED BY <1>1, <2>1, <3>1 DEF OneEach
  <2>3. Nearby(wait)'
    <3>1. ASSUME NEW t, NEW n, n \in Nat, n <= Cardinality({l \in lost : l < t})
          PROVE  n <= Cardinality({l \in lost' : l < t})
      <4> DEFINE A == {l \in lost : l < t}
                 B == {l \in lost' : l < t}
      <4>1. A \in SUBSET Turn /\ B \in SUBSET Turn /\ A \subseteq B
        BY DEF BridgeTypes, WayStays
      <4> HIDE DEF A, B
      <4>2. Cardinality(A) \in Nat /\ Cardinality(B) \in Nat /\ Cardinality(A) <= Cardinality(B)
        BY <4>1, Counts
      <4>3. n <= Cardinality(A)
        BY <3>1 DEF A
      <4>4. n <= Cardinality(B)
        BY <3>1, <4>2, <4>3
      <4> QED BY <4>4 DEF B
    <3>2. \A r, t : Cardinality({q \in Held(wait) : r < q /\ q <= t}) \in Nat
      <4> TAKE r, t
      <4>1. {q \in Held(wait) : r < q /\ q <= t} \in SUBSET Turn
        BY <1>1, HeldIs
      <4> QED BY <4>1, Counts
    <3> SUFFICES ASSUME NEW r \in In(wait, {"answered"}), NEW t \in wait[r].text
          PROVE /\ Cardinality({q \in Held(wait) : r < q /\ q <= t}) <= Cardinality({l \in lost' : l < t})
                /\ t \in Held(wait) =>
                       Cardinality({q \in Held(wait) : t <= q /\ q < r})
                           <= Cardinality({f \in {g \in Sent : kind[g] # "effort"} \ Held(wait) : f < r})
      BY <1>1, Zenon DEF Nearby
    <3>3. /\ Cardinality({q \in Held(wait) : r < q /\ q <= t}) <= Cardinality({l \in lost : l < t})
          /\ t \in Held(wait) =>
                 Cardinality({q \in Held(wait) : t <= q /\ q < r})
                     <= Cardinality({f \in {g \in Sent : kind[g] # "effort"} \ Held(wait) : f < r})
      BY <2>1, Zenon DEF Nearby
    <3>4. Cardinality({q \in Held(wait) : r < q /\ q <= t}) <= Cardinality({l \in lost' : l < t})
      BY <3>1, <3>2, <3>3
    <3> QED BY <3>3, <3>4
  <2> QED BY <2>2, <2>3
<1> QED BY <1>1, <1>3, <1>4, <1>5, <1>6 DEF Good
\* A transaction ends or stays as it is.
TxEnds == \A w \in Worker : tx'[w] = tx[w] \/ tx'[w] = NoTx

LEMMA NoneAsked ==
  /\ NoTx.at = "none" /\ NoTx.read = 0 /\ \A r \in Turn : NoTx.rows[r] = NoRow
  /\ NoRow.state = "none" /\ NoRow.text = {}
  BY DEF NoTx, NoRow

\* An open transaction with new rows is as it was.
SameAsks == \A w \in Worker : AskedBy(w)' # {} => tx'[w] = tx[w]
SamePolls == \A w \in Worker : tx'[w].at = "poll" => tx'[w] = tx[w]

LEMMA EndsAreSame == ASSUME TxEnds PROVE SameAsks /\ SamePolls
<1>1. ASSUME NEW w \in Worker, tx'[w] = NoTx PROVE AskedBy(w)' = {} /\ tx'[w].at # "poll"
  BY <1>1, NoneAsked DEF AskedBy
<1> QED BY <1>1 DEF TxEnds, SameAsks, SamePolls

LEMMA AskedStay ==
  ASSUME SameAsks
  PROVE  (\A w \in Worker : AskedBy(w)' \subseteq AskedBy(w)) /\ Asked' \subseteq Asked
<1>1. ASSUME NEW w \in Worker PROVE AskedBy(w)' \subseteq AskedBy(w)
  <2>1. CASE AskedBy(w)' # {}
    BY <2>1 DEF AskedBy, SameAsks
  <2> QED BY <2>1
<1>2. Asked' \subseteq Asked
  BY <1>1 DEF Asked
<1> QED BY <1>1, <1>2

LEMMA TxStays ==
  ASSUME BridgeTypes, BridgeTypes', TxFit, TxEnds, nextSeq' = nextSeq, Len(events) <= Len(events)'
  PROVE  TxFit'
<1> SUFFICES ASSUME NEW w \in Worker
      PROVE  /\ tx'[w].at = "none" => tx'[w] = NoTx
             /\ \A r \in Turn : tx'[w].rows[r].state = "none" => tx'[w].rows[r] = NoRow
             /\ tx'[w].at # "poll" => tx'[w].read = 0
             /\ tx'[w].at = "poll" => tx'[w].read <= Len(events)' /\ tx'[w].next = nextSeq
             /\ tx'[w].at = "send" => nextSeq <= tx'[w].next
  BY DEF TxFit
<1>1. CASE tx'[w] = NoTx
  BY <1>1, NoneAsked
<1>2. CASE tx'[w] = tx[w]
  <2>1. /\ tx[w].at = "none" => tx[w] = NoTx
        /\ \A r \in Turn : tx[w].rows[r].state = "none" => tx[w].rows[r] = NoRow
        /\ tx[w].at # "poll" => tx[w].read = 0
        /\ tx[w].at = "poll" => tx[w].read <= Len(events) /\ tx[w].next = nextSeq
        /\ tx[w].at = "send" => nextSeq <= tx[w].next
    BY DEF TxFit
  <2>2. tx[w].read \in Nat /\ Len(events) \in Nat /\ Len(events)' \in Nat
    <3>1. tx \in [Worker -> Tx] /\ events \in Seq(Turn) /\ events' \in Seq(Turn)
      BY DEF BridgeTypes
    <3> QED BY <3>1 DEF Tx
  <2>3. tx[w].read <= Len(events) => tx[w].read <= Len(events)'
    BY <2>2
  <2> QED BY <1>2, <2>1, <2>3
<1> QED BY <1>1, <1>2 DEF TxEnds

LEMMA SendsStay ==
  ASSUME BridgeTypes, BridgeTypes', SendsFit, NumbersFit, SameAsks, UNCHANGED <<carries, wait, nextSeq, kind>>,
         WayStays, cmds' \subseteq cmds
  PROVE  SendsFit' /\ NumbersFit'
<1>1. Sent' = Sent /\ (\A w \in Worker : AskedBy(w)' \subseteq AskedBy(w)) /\ Asked' \subseteq Asked
  BY AskedStay DEF Sent
<1>2. NumbersFit'
  BY DEF NumbersFit
<1>3. SendsFit'
  <2> SUFFICES ASSUME NEW w \in Worker, NEW r \in AskedBy(w)'
        PROVE /\ tx'[w].rows[r].state = "waiting" /\ tx'[w].rows[r].text = {}
              /\ r \in Sent /\ kind[r] = "ask" /\ r \in lost' \cup OnWay(events)'
              /\ \A q \in Held(wait) : q < r
              /\ carries => \A t \in Texts(wait) : t < r
              /\ \A c \in cmds' : c.turn = r => nextSeq <= c.seq /\ c.seq < tx'[w].next
              /\ \A v \in Worker : \A s \in AskedBy(v)' : r = s <=> v = w
    BY <1>1 DEF SendsFit
  <2>1. tx'[w] = tx[w] /\ r \in AskedBy(w)
    BY <1>1 DEF SameAsks
  <2>2. /\ tx[w].rows[r].state = "waiting" /\ tx[w].rows[r].text = {}
        /\ r \in Sent /\ kind[r] = "ask" /\ r \in lost \cup OnWay(events)
        /\ \A q \in Held(wait) : q < r
        /\ carries => \A t \in Texts(wait) : t < r
        /\ \A c \in cmds : c.turn = r => nextSeq <= c.seq /\ c.seq < tx[w].next
        /\ \A v \in Worker : \A s \in AskedBy(v) : r = s <=> v = w
    BY <2>1 DEF SendsFit
  <2>3. r \in lost' \cup OnWay(events)'
    BY <2>2 DEF WayStays
  <2>4. \A v \in Worker : \A s \in AskedBy(v)' : r = s <=> v = w
    BY <1>1, <2>2
  <2> QED BY <2>1, <2>2, <2>3, <2>4
<1> QED BY <1>2, <1>3

\* What open polls have made of the rows.
LEMMA PollsStay ==
  ASSUME BridgeTypes, TxFit, PollsFit, SamePolls, UNCHANGED <<carries, wait>>,
         \A i \in 1..Len(events) : events'[i] = events[i] /\ kind'[events[i]] = kind[events[i]]
  PROVE  PollsFit'
<1> SUFFICES ASSUME NEW w \in Worker, tx'[w].at = "poll"
      PROVE  \E f : /\ Answering(f, wait, events, tx[w].read)'
                    /\ LET now == f[tx'[w].read]
                       IN  tx'[w].rows = [r \in Turn |-> IF now[r] # wait[r] THEN now[r] ELSE NoRow]
  BY DEF PollsFit
<1>1. tx'[w] = tx[w]
  BY DEF SamePolls
<1>2. PICK f : /\ Answering(f, wait, events, tx[w].read)
               /\ LET now == f[tx[w].read]
                  IN  tx[w].rows = [r \in Turn |-> IF now[r] # wait[r] THEN now[r] ELSE NoRow]
  BY <1>1 DEF PollsFit
<1>3. tx[w].read \in Nat /\ tx[w].read <= Len(events) /\ Len(events) \in Nat
  BY <1>1 DEF TxFit, BridgeTypes, Tx
<1> DEFINE n == tx[w].read
<1>4. \A i \in 1..n : events'[i] = events[i] /\ kind'[events[i]] = kind[events[i]]
  BY <1>3
<1>5. \A i \in 1..n : OnResult(f[i - 1], events[i])' = OnResult(f[i - 1], events[i])
  BY <1>4 DEF OnResult
<1>6. /\ f \in [0..n -> [Turn -> Row]] /\ f[0] = wait'
      /\ \A i \in 1..n : f[i] = OnResult(f[i - 1], events[i])'
  BY <1>2, <1>5 DEF Answering
<1>7. Answering(f, wait, events, tx[w].read)'
  BY <1>1, <1>6 DEF Answering
<1> QED BY <1>1, <1>2, <1>7

LEMMA Quiet ==
  ASSUME BridgeInv, BridgeTypes', Unique(events)', UNCHANGED <<carries, wait, nextSeq, kind>>,
         TxEnds, WayStays, cmds' \subseteq cmds,
         Len(events) <= Len(events)', \A i \in 1..Len(events) : events'[i] = events[i]
  PROVE  BridgeInv'
<1>1. Good(wait, events, Asked)'
  BY EndsAreSame, AskedStay, GoodStays DEF BridgeInv
<1>2. TxFit' /\ SendsFit' /\ NumbersFit'
  BY EndsAreSame, TxStays, SendsStay DEF BridgeInv
<1>3. PollsFit'
  BY EndsAreSame, PollsStay DEF BridgeInv
<1> QED BY <1>1, <1>2, <1>3 DEF BridgeInv
----
(***************************************************************************)
(* The runner's steps.                                                     *)
(***************************************************************************)
LEMMA SameWay ==
  ASSUME BridgeTypes, Unique(events), UNCHANGED <<cmds, lost, kind>>, Way(events)' = Way(events)
  PROVE  WayStays /\ Unique(events)'
<1>1. CmdTurns' = CmdTurns /\ OnWay(events)' = OnWay(events) /\ Sent' = Sent
  BY DEF CmdTurns, OnWay, Sent
<1>2. \A p, t : Late(p, t, events)' => Late(p, t, events)
  BY <1>1 DEF Late
<1>3. WayStays
  BY <1>1, <1>2 DEF WayStays
<1>4. Unique(events)'
  BY <1>1 DEF Unique
<1> QED BY <1>3, <1>4

LEMMA BeginsKeeps == ASSUME BridgeInv, Begins PROVE BridgeInv'
<1>1. UNCHANGED <<carries, wait, nextSeq, stored, tx, cmds, events, queue, kind, lost>> /\ begun' = TRUE /\ queue # <<>>
  BY DEF Begins, dbVars, spoolVars, histVars
<1>2. BridgeTypes /\ Unique(events)
  BY DEF BridgeInv
<1>3. BridgeTypes'
  <2>1. Head(queue) \in Turn
    BY <1>1, <1>2 DEF BridgeTypes
  <2> DEFINE line == [turn |-> Head(queue), what |-> "prompt"]
             L == [turn : Turn, what : {"prompt", "text"}]
  <2>2. lines' = IF carries THEN lines ELSE lines \o <<line>>
    BY DEF Begins, Transcribes
  <2>3. line \in L /\ lines \in Seq(L) /\ stored \in 0..Len(lines)
    BY <1>2, <2>1 DEF BridgeTypes
  <2> HIDE DEF line, L
  <2>4. lines' \in Seq(L) /\ Len(lines) <= Len(lines') /\ Len(lines') \in Nat /\ Len(lines) \in Nat
    BY <2>2, <2>3
  <2>5. lines' \in Seq(L) /\ stored \in 0..Len(lines')
    BY <2>3, <2>4
  <2> QED BY <1>1, <1>2, <2>5 DEF BridgeTypes, L
<1>4. WayStays /\ Unique(events)'
  <2>1. Way(events)' = Way(events)
    BY <1>1 DEF Way
  <2> QED BY <1>1, <1>2, <2>1, SameWay
<1>5. TxEnds /\ Len(events) <= Len(events)' /\ \A i \in 1..Len(events) : events'[i] = events[i]
  BY <1>1, <1>2 DEF TxEnds, BridgeTypes
<1> QED BY <1>1, <1>3, <1>4, <1>5, Quiet

LEMMA FollowsKeeps == ASSUME BridgeInv, Follows PROVE BridgeInv'
<1>1. /\ UNCHANGED <<carries, wait, nextSeq, tx, cmds, events, queue, begun, lines, kind, lost>>
      /\ stored' \in (stored + 1)..Len(lines)
  BY DEF Follows, spoolVars, sessionVars, histVars
<1>2. BridgeTypes /\ Unique(events)
  BY DEF BridgeInv
<1>3. BridgeTypes'
  <2>1. stored' \in 0..Len(lines)
    BY <1>1, <1>2 DEF BridgeTypes
  <2> QED BY <1>1, <1>2, <2>1 DEF BridgeTypes
<1>4. WayStays /\ Unique(events)'
  <2>1. Way(events)' = Way(events)
    BY <1>1 DEF Way
  <2> QED BY <1>1, <1>2, <2>1, SameWay
<1>5. TxEnds /\ Len(events) <= Len(events)' /\ \A i \in 1..Len(events) : events'[i] = events[i]
  BY <1>1, <1>2 DEF TxEnds, BridgeTypes
<1> QED BY <1>1, <1>3, <1>4, <1>5, Quiet

LEMMA AbortKeeps == ASSUME BridgeInv, NEW w \in Worker, Abort(w) PROVE BridgeInv'
<1>1. /\ UNCHANGED <<carries, wait, nextSeq, stored, cmds, events, queue, begun, lines, kind, lost>>
      /\ tx' = [tx EXCEPT ![w] = NoTx]
  BY DEF Abort, dbVars, spoolVars, sessionVars
<1>2. BridgeTypes /\ Unique(events)
  BY DEF BridgeInv
<1>3. BridgeTypes'
  <2>1. tx' \in [Worker -> Tx]
    BY <1>1, <1>2, NoRowIsTyped DEF BridgeTypes
  <2> QED BY <1>1, <1>2, <2>1 DEF BridgeTypes
<1>4. WayStays /\ Unique(events)'
  <2>1. Way(events)' = Way(events)
    BY <1>1 DEF Way
  <2> QED BY <1>1, <1>2, <2>1, SameWay
<1>5. TxEnds /\ Len(events) <= Len(events)' /\ \A i \in 1..Len(events) : events'[i] = events[i]
  <2>1. TxEnds
    BY <1>1, <1>2 DEF TxEnds, BridgeTypes
  <2> QED BY <1>1, <1>2, <2>1 DEF BridgeTypes
<1> QED BY <1>1, <1>3, <1>4, <1>5, Quiet

LEMMA EndsKeeps == ASSUME BridgeInv, Ends PROVE BridgeInv'
<1>1. /\ UNCHANGED <<carries, wait, nextSeq, stored, tx, cmds, kind, lost>> /\ begun' = FALSE
      /\ queue' = Tail(queue) /\ events' = Append(events, Head(queue))
  BY DEF Ends, dbVars, histVars
<1>2. BridgeTypes /\ Unique(events)
  BY DEF BridgeInv
<1>3. /\ Head(queue) \in Turn /\ Tail(queue) \in Seq(Turn) /\ events' \in Seq(Turn) /\ queue' \in Seq(Turn)
      /\ Len(events') = Len(events) + 1 /\ Len(events) \in Nat
      /\ \A i \in 1..Len(events) : events'[i] = events[i]
  <2>1. queue # <<>>
    BY <1>2 DEF BridgeTypes, Ends
  <2> QED BY <1>1, <1>2, <2>1 DEF BridgeTypes
<1>4. BridgeTypes'
  <2> DEFINE line == [turn |-> Head(queue), what |-> "text"]
             L == [turn : Turn, what : {"prompt", "text"}]
  <2>1. PICK said \in {<<>>, <<line>>} : lines' = IF carries THEN lines ELSE lines \o said
    BY DEF Ends, Transcribes
  <2>2. line \in L /\ lines \in Seq(L) /\ stored \in 0..Len(lines)
    BY <1>2, <1>3 DEF BridgeTypes
  <2> HIDE DEF line, L
  <2>3. said \in Seq(L)
    <3>1. <<>> \in Seq(L) /\ <<line>> \in Seq(L)
      BY <2>2
    <3> QED BY <2>1, <3>1
  <2>4. lines' \in Seq(L) /\ Len(lines) <= Len(lines') /\ Len(lines') \in Nat /\ Len(lines) \in Nat
    BY <2>1, <2>2, <2>3
  <2>5. lines' \in Seq(L) /\ stored \in 0..Len(lines')
    BY <2>2, <2>4
  <2> QED BY <1>1, <1>2, <1>3, <2>5 DEF BridgeTypes, L
<1>5. Way(events)' = Way(events)
  <2> DEFINE h == Head(queue)
             t == Tail(queue)
  <2>1. queue \in Seq(Turn) /\ queue = <<h>> \o t /\ h \in Turn /\ t \in Seq(Turn)
    BY <1>2 DEF BridgeTypes, Ends
  <2>2. Append(events, h) = events \o <<h>> /\ events \in Seq(Turn) /\ <<h>> \in Seq(Turn)
    BY <1>2, <2>1 DEF BridgeTypes
  <2> HIDE DEF h, t
  <2>3. (events \o <<h>>) \o t = events \o (<<h>> \o t)
    BY <2>1, <2>2, ConcatAssociative
  <2>4. Way(events)' = Append(events, h) \o t
    BY <1>1 DEF Way, h, t
  <2> QED BY <2>1, <2>2, <2>3, <2>4 DEF Way
<1>6. WayStays /\ Unique(events)'
  BY <1>1, <1>2, <1>5, SameWay
<1>7. TxEnds /\ Len(events) <= Len(events)'
  BY <1>1, <1>3 DEF TxEnds
<1> QED BY <1>1, <1>3, <1>4, <1>6, <1>7, Quiet
LEMMA HandlesKeeps == ASSUME BridgeInv, NEW c \in cmds, Handles(c) PROVE BridgeInv'
<1> DEFINE W == Way(events)
           N == Len(W)
<1>1. /\ UNCHANGED <<carries, wait, nextSeq, stored, tx, begun, events, lines, kind>> /\ cmds' = cmds \ {c}
      /\ \A d \in cmds : c.seq <= d.seq
      /\ \/ queue' = Append(queue, c.turn) /\ lost' = lost
         \/ lost' = lost \cup Asks({c.turn}) /\ queue' = queue
  BY DEF Handles, dbVars, WorkLeft, IsNext
<1>2. BridgeTypes /\ Unique(events) /\ events \in Seq(Turn) /\ queue \in Seq(Turn)
  BY DEF BridgeInv, BridgeTypes
<1>3. c.turn \in Turn /\ c.turn \in CmdTurns /\ CmdTurns' = CmdTurns \ {c.turn}
  <2>1. c.turn \in Turn /\ \A d \in cmds : d.turn = c.turn => d = c
    BY <1>2 DEF BridgeTypes, Unique
  <2> QED BY <1>1, <2>1 DEF CmdTurns
<1>4. W \in Seq(Turn) /\ N \in Nat /\ \A i \in 1..N : W[i] \in Turn /\ W[i] \notin CmdTurns
  BY <1>2, WayIs DEF Unique
<1>5. BridgeTypes'
  <2>1. queue' \in Seq(Turn) /\ lost' \subseteq Turn /\ (begun => queue' # <<>>)
    <3>1. lost \subseteq Turn /\ (begun => queue # <<>>)
      BY <1>2 DEF BridgeTypes
    <3>2. Asks({c.turn}) \subseteq Turn
      BY <1>3 DEF Asks
    <3>3. Append(queue, c.turn) \in Seq(Turn) /\ Append(queue, c.turn) # <<>>
      BY <1>2, <1>3
    <3> QED BY <1>1, <1>2, <3>1, <3>2, <3>3
  <2> QED BY <1>1, <1>2, <2>1 DEF BridgeTypes
<1>6. TxEnds /\ Len(events) <= Len(events)' /\ \A i \in 1..Len(events) : events'[i] = events[i]
  BY <1>1, <1>2 DEF TxEnds, BridgeTypes
<1>7. WayStays /\ Unique(events)'
  <2>1. CASE queue' = Append(queue, c.turn) /\ lost' = lost
    <3> DEFINE V == Way(events)'
    <3>1. V = Append(W, c.turn)
      <4>0. Append(queue, c.turn) = queue \o <<c.turn>>
        BY <1>2, <1>3, AppendIsConcat
      <4>1. V = events \o Append(queue, c.turn) /\ Append(queue, c.turn) = queue \o <<c.turn>>
        BY <1>1, <2>1, <4>0 DEF Way
      <4>2. events \o (queue \o <<c.turn>>) = (events \o queue) \o <<c.turn>> /\ <<c.turn>> \in Seq(Turn)
        BY <1>2, <1>3, ConcatAssociative
      <4>3. V = W \o <<c.turn>>
        BY <4>1, <4>2 DEF Way
      <4> HIDE DEF W, V
      <4> QED BY <1>3, <1>4, <4>3
    <3> HIDE DEF W, V
    <3>2. Len(V) = N + 1 /\ V[N + 1] = c.turn /\ \A i \in 1..N : V[i] = W[i] /\ i \in 1..(N + 1)
      BY <1>3, <1>4, <3>1
    <3> HIDE DEF N
    <3>3. \A i \in 1..(N + 1) : i = N + 1 \/ i \in 1..N
      BY <1>4
    <3>4. OnWay(events)' = OnWay(events)
      <4>1. OnWay(events)' = CmdTurns' \cup {V[i] : i \in 1..(N + 1)}
        BY <3>2 DEF OnWay, V
      <4>2. OnWay(events) = CmdTurns \cup {W[i] : i \in 1..N}
        BY DEF OnWay, W, N
      <4>3. {V[i] : i \in 1..(N + 1)} = {W[i] : i \in 1..N} \cup {c.turn}
        <5>1. N + 1 \in 1..(N + 1)
          BY <1>4
        <5> QED BY <3>2, <3>3, <5>1
      <4> QED BY <1>3, <4>1, <4>2, <4>3
    <3>5. ASSUME NEW p \in Turn, NEW t \in Turn, Late(p, t, events)' PROVE Late(p, t, events)
      <4>1. \/ p \in CmdTurns' /\ \E j \in 1..(N + 1) : V[j] = t
            \/ \E a, b \in cmds' : a.turn = p /\ b.turn = t /\ b.seq <= a.seq
            \/ \E i, j \in 1..(N + 1) : j < i /\ V[i] = p /\ V[j] = t
        BY <3>2, <3>5 DEF Late, V
      <4>2. CASE p \in CmdTurns' /\ \E j \in 1..(N + 1) : V[j] = t
        <5>1. PICK j \in 1..(N + 1) : V[j] = t
          BY <4>2
        <5>2. CASE j \in 1..N
          BY <1>3, <3>2, <4>2, <5>1, <5>2 DEF Late, W, N
        <5>3. CASE j = N + 1
          <6>1. t = c.turn
            BY <3>2, <5>1, <5>3
          <6>2. PICK a \in cmds : a.turn = p
            BY <1>1, <4>2 DEF CmdTurns
          <6> QED BY <1>1, <6>1, <6>2 DEF Late
        <5> QED BY <3>3, <5>2, <5>3
      <4>3. CASE \E a, b \in cmds' : a.turn = p /\ b.turn = t /\ b.seq <= a.seq
        BY <1>1, <4>3 DEF Late
      <4>4. CASE \E i, j \in 1..(N + 1) : j < i /\ V[i] = p /\ V[j] = t
        <5>1. PICK i \in 1..(N + 1), j \in 1..(N + 1) : j < i /\ V[i] = p /\ V[j] = t
          BY <4>4
        <5>2. j \in 1..N /\ W[j] = t
          BY <1>4, <3>2, <5>1
        <5>3. CASE i \in 1..N
          <6>1. W[i] = p
            BY <3>2, <5>1, <5>3
          <6> QED BY <5>1, <5>2, <5>3, <6>1 DEF Late, W, N
        <5>4. CASE i = N + 1
          <6>1. p \in CmdTurns
            BY <1>3, <3>2, <5>1, <5>4
          <6> QED BY <5>2, <6>1 DEF Late, W, N
        <5> QED BY <3>3, <5>3, <5>4
      <4> QED BY <4>1, <4>2, <4>3, <4>4
    <3>6. WayStays
      BY <2>1, <3>4, <3>5 DEF WayStays
    <3>7. Unique(events)'
      <4>1. ASSUME NEW i \in 1..(N + 1), NEW j \in 1..(N + 1), V[i] = V[j] PROVE i = j
        <5>1. \A k \in 1..N : V[k] # c.turn
          BY <1>3, <1>4, <3>2
        <5>2. \A a, b \in 1..N : W[a] = W[b] => a = b
          BY <1>2 DEF Unique, W, N
        <5> QED BY <3>2, <3>3, <4>1, <5>1, <5>2
      <4>2. \A i \in 1..(N + 1) : V[i] \notin CmdTurns'
        BY <1>3, <1>4, <3>2, <3>3
      <4>3. \A a, b \in cmds' : a.turn = b.turn => a = b
        BY <1>1, <1>2 DEF Unique
      <4>4. /\ lost' \cap OnWay(events)' = {} /\ OnWay(events)' \cup lost' \subseteq Sent'
            /\ \A l \in lost' : kind'[l] = "ask"
        BY <1>1, <1>2, <2>1, <3>4 DEF Unique, Sent
      <4> QED BY <3>2, <4>1, <4>2, <4>3, <4>4 DEF Unique, V
    <3> QED BY <3>6, <3>7
  <2>2. CASE lost' = lost \cup Asks({c.turn}) /\ queue' = queue
    <3>1. Way(events)' = W /\ Sent' = Sent
      BY <1>1, <2>2 DEF Way, Sent
    <3>2. OnWay(events)' = OnWay(events) \ {c.turn} /\ c.turn \in OnWay(events)
      <4>1. OnWay(events)' = CmdTurns' \cup {W[i] : i \in 1..N}
        BY <3>1 DEF OnWay
      <4>2. OnWay(events) = CmdTurns \cup {W[i] : i \in 1..N}
        BY DEF OnWay
      <4>3. c.turn \notin {W[i] : i \in 1..N}
        BY <1>3, <1>4
      <4> QED BY <1>3, <4>1, <4>2, <4>3
    <3>3. \A p, t \in Turn : Late(p, t, events)' => Late(p, t, events)
      BY <1>1, <1>3, <3>1 DEF Late
    <3>4. WayStays
      <4>1. kind[c.turn] = "ask" => c.turn \in Asks({c.turn})
        BY DEF Asks
      <4> QED BY <2>2, <3>2, <3>3, <4>1 DEF WayStays
    <3>5. Unique(events)'
      <4>1. \A l \in Asks({c.turn}) : l = c.turn /\ kind[l] = "ask"
        BY DEF Asks
      <4>2. /\ lost' \cap OnWay(events)' = {} /\ OnWay(events)' \cup lost' \subseteq Sent'
            /\ \A l \in lost' : kind'[l] = "ask"
        BY <1>1, <1>2, <2>2, <3>1, <3>2, <4>1 DEF Unique
      <4>3. /\ \A a, b \in cmds' : a.turn = b.turn => a = b
            /\ \A i, j \in 1..N : W[i] = W[j] => i = j
            /\ \A i \in 1..N : W[i] \notin CmdTurns'
        BY <1>1, <1>2, <1>3, <1>4 DEF Unique
      <4> QED BY <3>1, <4>2, <4>3 DEF Unique
    <3> QED BY <3>4, <3>5
  <2> QED BY <1>1, <2>1, <2>2
<1> QED BY <1>1, <1>5, <1>6, <1>7, Quiet
LEMMA DiesKeeps == ASSUME BridgeInv, Dies PROVE BridgeInv'
<1> DEFINE W == Way(events)
           Q == {queue[i] : i \in 1..Len(queue)}
           E == {events[i] : i \in 1..Len(events)}
<1>1. /\ UNCHANGED <<carries, wait, nextSeq, stored, tx, cmds, events, lines, kind>>
      /\ queue' = <<>> /\ begun' = FALSE /\ lost' = lost \cup Asks(Q)
  BY DEF Dies, dbVars, spoolVars
<1>2. BridgeTypes /\ Unique(events) /\ events \in Seq(Turn) /\ queue \in Seq(Turn)
  BY DEF BridgeInv, BridgeTypes
<1>3. /\ W \in Seq(Turn) /\ Len(W) = Len(events) + Len(queue) /\ Len(events) \in Nat /\ Len(queue) \in Nat
      /\ \A i \in 1..Len(W) : W[i] = IF i <= Len(events) THEN events[i] ELSE queue[i - Len(events)]
      /\ \A i \in 1..Len(W) : W[i] \in Turn
  BY <1>2, WayIs
<1>4. Way(events)' = events
  BY <1>1, <1>2 DEF Way
<1> HIDE DEF W
<1>5. \A i \in 1..Len(events) : i \in 1..Len(W) /\ W[i] = events[i]
  BY <1>3
<1>6. ASSUME NEW i \in 1..Len(queue)
      PROVE  /\ Len(events) + i \in 1..Len(W) /\ W[Len(events) + i] = queue[i]
             /\ \A j \in 1..Len(events) : events[j] # queue[i]
  <2> DEFINE k == Len(events) + i
  <2>1. k \in 1..Len(W) /\ ~(k <= Len(events)) /\ k - Len(events) = i
    BY <1>3
  <2>2. W[k] = queue[i]
    BY <1>3, <2>1
  <2>3. \A j \in 1..Len(events) : j # k
    BY <1>3
  <2> QED BY <1>2, <1>5, <2>1, <2>2, <2>3 DEF Unique, W
<1>7. /\ OnWay(events)' = CmdTurns \cup E /\ OnWay(events) = (CmdTurns \cup E) \cup Q
      /\ Q \cap (CmdTurns \cup E) = {} /\ Sent' = Sent /\ CmdTurns' = CmdTurns
  <2>1. OnWay(events)' = CmdTurns \cup E /\ Sent' = Sent /\ CmdTurns' = CmdTurns
    BY <1>1, <1>4 DEF OnWay, CmdTurns, Sent
  <2>2. {W[i] : i \in 1..Len(W)} = E \cup Q
    <3>1. \A i \in 1..Len(W) : i \in 1..Len(events) \/ i - Len(events) \in 1..Len(queue)
      BY <1>3
    <3>2. \A i \in 1..Len(W) : W[i] \in E \cup Q
      BY <1>3, <1>5, <3>1
    <3>3. E \cup Q \subseteq {W[i] : i \in 1..Len(W)}
      BY <1>5, <1>6
    <3> QED BY <3>2, <3>3
  <2>3. OnWay(events) = CmdTurns \cup (E \cup Q)
    BY <2>2 DEF OnWay, W
  <2>4. Q \cap (CmdTurns \cup E) = {}
    <3>1. \A i \in 1..Len(queue) : queue[i] \notin CmdTurns
      BY <1>2, <1>6 DEF Unique, W
    <3>2. \A i \in 1..Len(queue) : queue[i] \notin E
      BY <1>6
    <3> QED BY <3>1, <3>2
  <2> QED BY <2>1, <2>3, <2>4
<1>8. Q \subseteq Turn
  BY <1>2
<1> HIDE DEF Q, E
<1>9. BridgeTypes'
  <2>1. lost' \subseteq Turn /\ queue' \in Seq(Turn)
    BY <1>1, <1>2, <1>8 DEF BridgeTypes, Asks
  <2> QED BY <1>1, <1>2, <2>1 DEF BridgeTypes
<1>10. TxEnds /\ Len(events) <= Len(events)' /\ \A i \in 1..Len(events) : events'[i] = events[i]
  BY <1>1, <1>3 DEF TxEnds
<1>11. WayStays
  <2>1. ASSUME NEW p \in Turn, NEW t \in Turn, Late(p, t, events)' PROVE Late(p, t, events)
    <3>1. \/ p \in CmdTurns /\ \E j \in 1..Len(events) : events[j] = t
          \/ \E a, b \in cmds : a.turn = p /\ b.turn = t /\ b.seq <= a.seq
          \/ \E i, j \in 1..Len(events) : j < i /\ events[i] = p /\ events[j] = t
      BY <1>1, <1>4, <1>7, <2>1 DEF Late
    <3> QED BY <1>5, <3>1 DEF Late, W
  <2>2. \A t \in Q : kind[t] = "ask" => t \in Asks(Q)
    BY DEF Asks
  <2> QED BY <1>1, <1>7, <2>1, <2>2 DEF WayStays
<1>12. Unique(events)'
  <2>1. \A l \in Asks(Q) : l \in Q /\ kind[l] = "ask"
    BY DEF Asks
  <2>2. /\ lost' \cap OnWay(events)' = {} /\ OnWay(events)' \cup lost' \subseteq Sent'
        /\ \A l \in lost' : kind'[l] = "ask"
    BY <1>1, <1>2, <1>7, <2>1 DEF Unique
  <2>3. /\ \A a, b \in cmds : a.turn = b.turn => a = b
        /\ \A i, j \in 1..Len(events) : events[i] = events[j] => i = j
        /\ \A i \in 1..Len(events) : events[i] \notin CmdTurns
    BY <1>2, <1>5 DEF Unique, W
  <2> QED BY <1>1, <1>4, <1>7, <2>2, <2>3 DEF Unique
<1> QED BY <1>1, <1>9, <1>10, <1>11, <1>12, Quiet

----
(***************************************************************************)
(* Transactions.                                                           *)
(***************************************************************************)
LEMMA GoodForNone ==
  ASSUME NEW rows, NEW es, NEW asked, Good(rows, es, asked)
  PROVE  Good(rows, es, {})
BY DEF Good, InTurn

LEMMA PollsKeeps == ASSUME BridgeInv, NEW w \in Worker, Polls(w) PROVE BridgeInv'
<1> DEFINE now == Applied(wait, events)
           new == [r \in Turn |-> IF now[r] # wait[r] THEN now[r] ELSE NoRow]
           x == [NoTx EXCEPT !.at = "poll", !.next = nextSeq, !.read = Len(events), !.rows = new]
<1>1. /\ UNCHANGED <<carries, wait, nextSeq, stored, cmds, events, queue, begun, lines, kind, lost>>
      /\ tx' = [tx EXCEPT ![w] = x]
  BY DEF Polls, dbVars, spoolVars, sessionVars, histVars
<1>2. BridgeTypes /\ Unique(events) /\ events \in Seq(Turn) /\ wait \in [Turn -> Row] /\ nextSeq \in Nat
  BY DEF BridgeInv, BridgeTypes
<1>3. PICK f : Answering(f, wait, events, Len(events)) /\ now = f[Len(events)]
  BY <1>2, AppliedIs
<1>4. Len(events) \in Nat /\ Len(events) \in 0..Len(events)
  BY <1>2
<1>5. now \in [Turn -> Row]
  BY <1>3, <1>4 DEF Answering
<1>6. \A r \in Turn : now[r] # wait[r] => now[r].state # "none"
  <2> TAKE r \in Turn
  <2>1. now[r] = wait[r] \/ now[r].state = IF carries THEN "answered" ELSE "ended"
    BY <1>2, <1>3, <1>4, RowsAfter
  <2> QED BY <2>1
<1> HIDE DEF now
<1>7. new \in [Turn -> Row] /\ \A r \in Turn : new[r].state = "none" => new[r] = NoRow
  BY <1>2, <1>5, <1>6, NoRowIsTyped
<1> HIDE DEF new
<1>8. x \in Tx /\ x.at = "poll" /\ x.next = nextSeq /\ x.read = Len(events) /\ x.rows = new
  BY <1>2, <1>4, <1>7 DEF NoTx, Tx
<1> HIDE DEF x
<1>9. BridgeTypes'
  <2>1. tx' \in [Worker -> Tx]
    BY <1>1, <1>2, <1>8 DEF BridgeTypes
  <2> QED BY <1>1, <1>2, <2>1 DEF BridgeTypes
<1>10. WayStays /\ Unique(events)'
  <2>1. Way(events)' = Way(events)
    BY <1>1 DEF Way
  <2> QED BY <1>1, <1>2, <2>1, SameWay
<1>11. tx \in [Worker -> Tx] /\ tx'[w] = x /\ \A v \in Worker \ {w} : tx'[v] = tx[v]
  BY <1>1, <1>2 DEF BridgeTypes
<1>12. SameAsks
  <2>1. AskedBy(w)' = {}
    BY <1>8, <1>11 DEF AskedBy
  <2> QED BY <1>11, <2>1 DEF SameAsks
<1>13. Good(wait, events, Asked)'
  BY <1>1, <1>2, <1>9, <1>10, <1>12, AskedStay, GoodStays DEF BridgeInv
<1>14. SendsFit' /\ NumbersFit'
  BY <1>1, <1>2, <1>9, <1>10, <1>12, SendsStay DEF BridgeInv
<1>15. TxFit'
  <2> SUFFICES ASSUME NEW v \in Worker
        PROVE  /\ tx'[v].at = "none" => tx'[v] = NoTx
               /\ \A r \in Turn : tx'[v].rows[r].state = "none" => tx'[v].rows[r] = NoRow
               /\ tx'[v].at # "poll" => tx'[v].read = 0
               /\ tx'[v].at = "poll" => tx'[v].read <= Len(events) /\ tx'[v].next = nextSeq
               /\ tx'[v].at = "send" => nextSeq <= tx'[v].next
    BY <1>1 DEF TxFit
  <2>1. CASE v = w
    BY <1>4, <1>7, <1>8, <1>11, <2>1
  <2>2. CASE v # w
    <3>1. tx'[v] = tx[v]
      BY <1>11, <2>2
    <3> QED BY <3>1 DEF BridgeInv, TxFit
  <2> QED BY <2>1, <2>2
<1>16. PollsFit'
  <2>1. ASSUME NEW v \in Worker, tx'[v].at = "poll"
        PROVE  \E g : /\ Answering(g, wait, events, tx'[v].read)
                      /\ tx'[v].rows = [r \in Turn |-> IF g[tx'[v].read][r] # wait[r] THEN g[tx'[v].read][r] ELSE NoRow]
    <3>1. CASE v = w
      <4>1. x.rows = [r \in Turn |-> IF f[Len(events)][r] # wait[r] THEN f[Len(events)][r] ELSE NoRow]
        BY <1>3, <1>8 DEF new
      <4>2. tx'[v].read = Len(events) /\ tx'[v].rows = x.rows
        BY <1>8, <1>11, <3>1
      <4>3. Answering(f, wait, events, tx'[v].read)
        BY <1>3, <4>2
      <4> QED BY <4>1, <4>2, <4>3
    <3>2. CASE v # w
      <4>1. tx'[v] = tx[v]
        BY <1>11, <3>2
      <4> QED BY <2>1, <4>1 DEF BridgeInv, PollsFit
    <3> QED BY <3>1, <3>2
  <2>2. \A rows, t : OnResult(rows, t)' = OnResult(rows, t)
    BY <1>1 DEF OnResult
  <2>3. ASSUME NEW v \in Worker, tx'[v].at = "poll"
        PROVE  \E g : /\ Answering(g, wait, events, tx[v].read)'
                      /\ tx'[v].rows = [r \in Turn |-> IF g[tx'[v].read][r] # wait[r] THEN g[tx'[v].read][r] ELSE NoRow]
    <3>1. PICK g : /\ Answering(g, wait, events, tx'[v].read)
                   /\ tx'[v].rows = [r \in Turn |-> IF g[tx'[v].read][r] # wait[r] THEN g[tx'[v].read][r] ELSE NoRow]
      BY <2>1, <2>3
    <3>2. Answering(g, wait, events, tx[v].read)'
      BY <1>1, <2>2, <3>1 DEF Answering
    <3> QED BY <3>1, <3>2
  <2>4. wait' = wait
    BY <1>1
  <2> QED BY <2>3, <2>4 DEF PollsFit
<1> QED BY <1>9, <1>10, <1>13, <1>14, <1>15, <1>16 DEF BridgeInv
\* The turns of a request come after all others, its commands after all that were committed.
SendShape(w, new, asks, C) ==
    /\ UNCHANGED <<carries, wait, nextSeq, stored, events, queue, begun, lines, lost>>
    /\ Len(kind') <= MaxTurns /\ kind' \in Seq({"ask", "effort", "prompt"})
    /\ \A t \in Sent : kind'[t] = kind[t]
    /\ Sent' = Sent \cup new /\ \A t \in new : t \notin Sent /\ \A s \in Sent : s < t
    /\ cmds' = cmds \cup C /\ new = {c.turn : c \in C}
    /\ \A c, d \in C : c.turn = d.turn => c = d
    /\ asks \subseteq new /\ \A r, s \in asks : r = s
    /\ \A r \in asks : kind'[r] = "ask"
    /\ tx'[w].next \in Nat /\ tx'[w].next >= nextSeq
    /\ \A c \in C : nextSeq <= c.seq /\ c.seq < tx'[w].next
    /\ tx'[w].at = "send" /\ tx'[w].read = 0
    /\ tx'[w].rows = [r \in Turn |-> IF r \in asks THEN Waiting(wait) ELSE NoRow]
    /\ tx' = [tx EXCEPT ![w] = tx'[w]]

LEMMA SendsShape ==
  ASSUME BridgeTypes, NEW w \in Worker, NEW parts \in Requests, Sends(w, parts)
  PROVE  \E new \in SUBSET Turn, asks \in SUBSET Turn, C \in SUBSET [turn : Turn, seq : Nat \ {0}] :
            SendShape(w, new, asks, C)
<1> DEFINE first == Len(kind) + 1
           new == first..(Len(kind) + Len(parts))
           asks == {t \in new : parts[t - Len(kind)] = "ask"}
           C == {[turn |-> t, seq |-> nextSeq + t - first] : t \in new}
           K == {"ask", "effort", "prompt"}
<1>1. /\ Len(kind) + Len(parts) <= MaxTurns /\ kind' = kind \o parts /\ cmds' = cmds \cup C
      /\ tx' = [tx EXCEPT ![w] = [NoTx EXCEPT
               !.at = "send", !.next = nextSeq + Len(parts),
               !.rows = [r \in Turn |-> IF r \in asks THEN Waiting(wait) ELSE NoRow]]]
      /\ UNCHANGED <<carries, wait, nextSeq, stored, events, queue, begun, lines, lost>>
  BY DEF Sends, dbVars, sessionVars
<1>2. kind \in Seq(K) /\ Len(kind) \in Nat /\ nextSeq \in Nat \ {0} /\ MaxTurns \in Nat
      /\ tx \in [Worker -> Tx]
  BY BridgeAssumption DEF BridgeTypes
<1>3. parts \in Seq(K) /\ Len(parts) \in {1, 2} /\ (parts[1] = "ask" => Len(parts) = 1)
  <2>1. CASE parts = <<"ask">>
    BY <2>1
  <2>2. CASE parts = <<"effort", "ask">>
    BY <2>2
  <2>3. CASE parts = <<"prompt">>
    BY <2>3
  <2> QED BY <2>1, <2>2, <2>3 DEF Requests
<1>4. /\ kind' \in Seq(K) /\ Len(kind') = Len(kind) + Len(parts)
      /\ \A t \in 1..Len(kind) : kind'[t] = kind[t]
      /\ \A t \in new : kind'[t] = parts[t - Len(kind)]
  BY <1>1, <1>2, <1>3
<1>5. Sent' = 1..(Len(kind) + Len(parts)) /\ Sent = 1..Len(kind)
  BY <1>4 DEF Sent
<1> DEFINE k == Len(kind)
           n == Len(parts)
<1>6. k \in Nat /\ n \in {1, 2} /\ k + n <= MaxTurns
  BY <1>1, <1>2, <1>3
<1>7. /\ new \subseteq Turn /\ 1..(k + n) = 1..k \cup new
      /\ \A t \in new : t \notin 1..k /\ \A s \in 1..k : s < t
      /\ \A t \in new : t \in Nat /\ t - first >= 0 /\ t - first < n
  <2> HIDE DEF k, n
  <2> QED BY <1>2, <1>6 DEF Turn, k, n
<1>8. \A t \in new : nextSeq + t - first \in Nat \ {0} /\ nextSeq <= nextSeq + t - first /\ nextSeq + t - first < nextSeq + n
  <2> TAKE t \in new
  <2>1. t - first \in Int /\ t - first >= 0 /\ t - first < n /\ t \in Nat /\ first \in Nat
    BY <1>2, <1>7
  <2>2. nextSeq + t - first = nextSeq + (t - first)
    BY <1>2, <2>1
  <2> HIDE DEF first, new, k, n
  <2> QED BY <1>2, <1>6, <2>1, <2>2
<1>9. \A r, s \in asks : r = s
  <2> SUFFICES ASSUME NEW r \in asks, NEW s \in asks, r # s PROVE FALSE
    OBVIOUS
  <2>1. r - k \in 1..n /\ s - k \in 1..n /\ r - k # s - k
    BY <1>2, <1>3
  <2>2. parts[r - k] = "ask" /\ parts[s - k] = "ask"
    OBVIOUS
  <2>3. r - k = 1 \/ s - k = 1
    <3> HIDE DEF k, n, asks
    <3> QED BY <1>6, <2>1
  <2>4. n = 1
    BY <1>3, <2>2, <2>3
  <2> QED BY <2>1, <2>4
<1>10. /\ tx'[w].next = nextSeq + n /\ tx'[w].at = "send" /\ tx'[w].read = 0
       /\ tx'[w].rows = [r \in Turn |-> IF r \in asks THEN Waiting(wait) ELSE NoRow]
       /\ tx' = [tx EXCEPT ![w] = tx'[w]]
  <2> DEFINE y == [NoTx EXCEPT !.at = "send", !.next = nextSeq + Len(parts),
                       !.rows = [r \in Turn |-> IF r \in asks THEN Waiting(wait) ELSE NoRow]]
  <2>1. y.next = nextSeq + n /\ y.at = "send" /\ y.read = 0
        /\ y.rows = [r \in Turn |-> IF r \in asks THEN Waiting(wait) ELSE NoRow]
    BY DEF NoTx
  <2> HIDE DEF asks
  <2>2. tx' = [tx EXCEPT ![w] = y]
    BY <1>1
  <2> HIDE DEF y
  <2>3. tx'[w] = y
    BY <1>2, <2>2
  <2> QED BY <2>1, <2>2, <2>3
<1>11. tx'[w].next \in Nat /\ tx'[w].next >= nextSeq
  <2> HIDE DEF n
  <2> QED BY <1>2, <1>6, <1>10
<1>12. /\ C \in SUBSET [turn : Turn, seq : Nat \ {0}] /\ new = {c.turn : c \in C}
       /\ \A c, d \in C : c.turn = d.turn => c = d
       /\ \A c \in C : nextSeq <= c.seq /\ c.seq < nextSeq + n
  <2>0. \A c \in C : c.turn \in new /\ c.seq = nextSeq + c.turn - first /\ c = [turn |-> c.turn, seq |-> c.seq]
    OBVIOUS
  <2>1. \A t \in new : \E c \in C : c.turn = t
    <3> HIDE DEF new, first
    <3>1. \A t \in new : [turn |-> t, seq |-> nextSeq + t - first] \in C
      OBVIOUS
    <3>2. \A t \in new : [turn |-> t, seq |-> nextSeq + t - first].turn = t
      OBVIOUS
    <3> HIDE DEF C
    <3> QED BY <3>1, <3>2, Zenon
  <2>2. \A c \in C : c.turn \in Turn /\ c.seq \in Nat \ {0} /\ nextSeq <= c.seq /\ c.seq < nextSeq + n
    <3> HIDE DEF C, new, first, n
    <3> QED BY <1>7, <1>8, <2>0
  <2>3. \A c, d \in C : c.turn = d.turn => c = d
    <3> HIDE DEF C, new, first, n
    <3> QED BY <2>0
  <2>4. new = {c.turn : c \in C}
    <3> HIDE DEF C, new, first, n
    <3> QED BY <2>0, <2>1
  <2>5. C \subseteq [turn : Turn, seq : Nat \ {0}]
    <3>1. \A c \in C : c \in [turn : Turn, seq : Nat \ {0}]
      <4> HIDE DEF C, new, first, n
      <4> QED BY <2>0, <2>2
    <3> HIDE DEF C
    <3> QED BY <3>1
  <2> HIDE DEF C, new, first, n
  <2> QED BY <2>2, <2>3, <2>4, <2>5
<1>13. asks \subseteq new /\ \A r \in asks : kind'[r] = "ask"
  BY <1>4
<1>14. Len(kind') <= MaxTurns /\ \A t \in Sent : kind'[t] = kind[t]
  BY <1>1, <1>4, <1>5
<1>15. Sent' = Sent \cup new /\ \A t \in new : t \notin Sent /\ \A s \in Sent : s < t
  BY <1>5, <1>7
<1> HIDE DEF C, asks, new, first, n, k
<1>16. new \in SUBSET Turn /\ asks \in SUBSET Turn
  BY <1>7, <1>13
<1>17. SendShape(w, new, asks, C)
  BY <1>1, <1>4, <1>9, <1>10, <1>11, <1>12, <1>13, <1>14, <1>15 DEF SendShape, K
<1> QED BY <1>12, <1>16, <1>17, Zenon
LEMMA SendsKeeps == ASSUME BridgeInv, NEW w \in Worker, NEW parts \in Requests, Sends(w, parts) PROVE BridgeInv'
<1>1. BridgeTypes /\ Unique(events) /\ events \in Seq(Turn) /\ queue \in Seq(Turn)
      /\ wait \in [Turn -> Row] /\ nextSeq \in Nat \ {0} /\ tx \in [Worker -> Tx]
  BY DEF BridgeInv, BridgeTypes
<1>2. PICK new \in SUBSET Turn, asks \in SUBSET Turn, C \in SUBSET [turn : Turn, seq : Nat \ {0}] :
         SendShape(w, new, asks, C)
  BY <1>1, SendsShape
<1>3. /\ UNCHANGED <<carries, wait, nextSeq, stored, events, queue, begun, lines, lost>>
      /\ Len(kind') <= MaxTurns /\ kind' \in Seq({"ask", "effort", "prompt"})
      /\ \A t \in Sent : kind'[t] = kind[t]
      /\ Sent' = Sent \cup new
      /\ \A t \in new : t \notin Sent /\ \A s \in Sent : s < t
      /\ cmds' = cmds \cup C /\ new = {c.turn : c \in C}
      /\ \A c, d \in C : c.turn = d.turn => c = d
      /\ asks \subseteq new /\ \A r, s \in asks : r = s
      /\ \A r \in asks : kind'[r] = "ask"
  BY <1>2 DEF SendShape
<1>4. /\ tx'[w].next \in Nat /\ tx'[w].next >= nextSeq
      /\ \A c \in C : nextSeq <= c.seq /\ c.seq < tx'[w].next
      /\ tx'[w].at = "send" /\ tx'[w].read = 0
      /\ tx'[w].rows = [r \in Turn |-> IF r \in asks THEN Waiting(wait) ELSE NoRow]
      /\ tx' = [tx EXCEPT ![w] = tx'[w]]
  BY <1>2 DEF SendShape
<1>5. \A v \in Worker \ {w} : tx'[v] = tx[v]
  BY <1>1, <1>4
<1>6. /\ Waiting(wait) \in Row /\ Waiting(wait).state = "waiting" /\ Waiting(wait).text = {}
      /\ NoRow \in Row /\ NoRow.state = "none"
  BY <1>1, NoRowIsTyped DEF Waiting, Row, NoRow, BridgeTypes
<1>7. BridgeTypes'
  <2>1. tx' \in [Worker -> Tx]
    <3>1. tx'[w].rows \in [Turn -> Row]
      BY <1>4, <1>6
    <3>2. tx'[w] \in Tx
      <4> DEFINE rs == [r \in Turn |-> IF r \in asks THEN Waiting(wait) ELSE NoRow]
      <4>1. tx'[w] = [at |-> "send", rows |-> rs, next |-> tx'[w].next, read |-> 0]
        BY <1>1, <1>4 DEF Sends, NoTx
      <4>2. rs \in [Turn -> Row]
        BY <1>6
      <4> HIDE DEF rs
      <4> QED BY <1>4, <4>1, <4>2 DEF Tx
    <3> QED BY <1>1, <1>4, <3>2
  <2>2. cmds' \subseteq [turn : Turn, seq : Nat \ {0}]
    BY <1>1, <1>3 DEF BridgeTypes
  <2> QED BY <1>1, <1>3, <2>1, <2>2 DEF BridgeTypes
<1>8. /\ Sent \subseteq Turn /\ Turn \subseteq Nat /\ Held(wait) \subseteq Sent /\ lost \subseteq Sent
      /\ CmdTurns \subseteq Sent /\ \A i \in 1..Len(Way(events)) : Way(events)[i] \in Sent
      /\ RowsFit(wait)
  BY <1>1, SentIs, TurnsAreNat DEF BridgeInv, Good, RowsFit, Held, Unique, OnWay
<1>9. Way(events)' = Way(events) /\ CmdTurns' = CmdTurns \cup new /\ OnWay(events)' = OnWay(events) \cup new
  <2>1. Way(events)' = Way(events) /\ CmdTurns' = CmdTurns \cup new
    BY <1>3 DEF Way, CmdTurns
  <2> QED BY <2>1 DEF OnWay
<1>10. AskedBy(w)' = asks /\ \A v \in Worker \ {w} : AskedBy(v)' = AskedBy(v)
  BY <1>4, <1>5, <1>6 DEF AskedBy
<1>11. /\ \A q \in Asked' : q \in Asked \/ q \in new
       /\ \A v \in Worker : AskedBy(v) \subseteq Sent
  <2>1. \A v \in Worker : AskedBy(v) \subseteq Sent
    BY DEF BridgeInv, SendsFit
  <2> QED BY <1>3, <1>10, <2>1 DEF Asked
<1>12. Unique(events)'
  <2>1. \A a, b \in cmds' : a.turn = b.turn => a = b
    <3>1. \A a \in cmds : a.turn \in Sent
      BY <1>8 DEF CmdTurns
    <3>2. \A a \in C : a.turn \notin Sent
      BY <1>3
    <3>3. \A a, b \in cmds : a.turn = b.turn => a = b
      BY <1>1 DEF Unique
    <3> SUFFICES ASSUME NEW a \in cmds \cup C, NEW b \in cmds \cup C, a.turn = b.turn PROVE a = b
      BY <1>3
    <3>4. CASE a \in cmds /\ b \in cmds
      BY <3>3, <3>4
    <3>5. CASE a \in C /\ b \in C
      BY <1>3, <3>5
    <3> QED BY <3>1, <3>2, <3>4, <3>5
  <2>2. \A i \in 1..Len(Way(events)) : Way(events)[i] \notin CmdTurns'
    BY <1>1, <1>3, <1>8, <1>9 DEF Unique
  <2>3. lost' \cap OnWay(events)' = {}
    BY <1>1, <1>3, <1>8, <1>9 DEF Unique
  <2>4. (\A l \in lost' : kind'[l] = "ask") /\ OnWay(events)' \cup lost' \subseteq Sent'
    BY <1>1, <1>3, <1>8, <1>9 DEF Unique
  <2>5. \A i, j \in 1..Len(Way(events)) : Way(events)[i] = Way(events)[j] => i = j
    BY <1>1 DEF Unique
  <2> QED BY <1>9, <2>1, <2>2, <2>3, <2>4, <2>5 DEF Unique
<1>13. TxFit'
  <2> SUFFICES ASSUME NEW v \in Worker
        PROVE  /\ tx'[v].at = "none" => tx'[v] = NoTx
               /\ \A r \in Turn : tx'[v].rows[r].state = "none" => tx'[v].rows[r] = NoRow
               /\ tx'[v].at # "poll" => tx'[v].read = 0
               /\ tx'[v].at = "poll" => tx'[v].read <= Len(events) /\ tx'[v].next = nextSeq
               /\ tx'[v].at = "send" => nextSeq <= tx'[v].next
    BY <1>3 DEF TxFit
  <2>1. CASE v = w
    <3>1. nextSeq <= tx'[w].next
      BY <1>1, <1>4
    <3> QED BY <1>4, <1>6, <2>1, <3>1
  <2>2. CASE v # w
    <3>1. tx'[v] = tx[v]
      BY <1>5, <2>2
    <3> QED BY <3>1 DEF BridgeInv, TxFit
  <2> QED BY <2>1, <2>2
<1>14. carries => Texts(wait) \subseteq Sent
  <2> SUFFICES ASSUME carries, NEW r \in Turn, NEW t \in wait[r].text PROVE t \in Sent
    BY DEF Texts
  <2>1. r \in In(wait, {"answered"})
    BY <1>8 DEF RowsFit, In
  <2> QED BY <2>1 DEF BridgeInv, Good, OneEach
<1>15. SendsFit' /\ NumbersFit'
  <2>1. SendsFit'
    <3> SUFFICES ASSUME NEW v \in Worker, NEW r \in AskedBy(v)'
          PROVE /\ tx'[v].rows[r].state = "waiting" /\ tx'[v].rows[r].text = {}
                /\ r \in Sent' /\ kind'[r] = "ask" /\ r \in lost' \cup OnWay(events)'
                /\ \A q \in Held(wait) : q < r
                /\ carries => \A t \in Texts(wait) : t < r
                /\ \A c \in cmds' : c.turn = r => nextSeq <= c.seq /\ c.seq < tx'[v].next
                /\ \A u \in Worker : \A s \in AskedBy(u)' : r = s <=> u = v
      BY <1>3 DEF SendsFit
    <3>1. CASE v = w
      <4>1. r \in asks /\ r \in new /\ r \in Turn /\ r \notin Sent /\ \A s \in Sent : s < r
        BY <1>3, <1>10, <3>1
      <4>2. tx'[v].rows[r].state = "waiting" /\ tx'[v].rows[r].text = {}
        BY <1>4, <1>6, <3>1, <4>1
      <4>3. r \in Sent' /\ kind'[r] = "ask" /\ r \in lost' \cup OnWay(events)'
        BY <1>3, <1>9, <4>1
      <4>4. (\A q \in Held(wait) : q < r) /\ (carries => \A t \in Texts(wait) : t < r)
        BY <1>8, <1>14, <4>1
      <4>5. \A c \in cmds' : c.turn = r => nextSeq <= c.seq /\ c.seq < tx'[v].next
        <5>1. \A c \in cmds : c.turn # r
          BY <1>8, <4>1 DEF CmdTurns
        <5> QED BY <1>3, <1>4, <3>1, <5>1
      <4>6. ASSUME NEW u \in Worker, NEW s \in AskedBy(u)' PROVE r = s <=> u = v
        <5>1. CASE u = w
          BY <1>3, <1>10, <3>1, <4>1, <5>1
        <5>2. CASE u # w
          BY <1>10, <1>11, <3>1, <4>1, <5>2
        <5> QED BY <5>1, <5>2
      <4> QED BY <4>2, <4>3, <4>4, <4>5, <4>6
    <3>2. CASE v # w
      <4>1. tx'[v] = tx[v] /\ r \in AskedBy(v) /\ r \in Sent
        BY <1>5, <1>10, <1>11, <3>2
      <4>2. /\ tx[v].rows[r].state = "waiting" /\ tx[v].rows[r].text = {}
            /\ kind[r] = "ask" /\ r \in lost \cup OnWay(events)
            /\ \A q \in Held(wait) : q < r
            /\ carries => \A t \in Texts(wait) : t < r
            /\ \A c \in cmds : c.turn = r => nextSeq <= c.seq /\ c.seq < tx[v].next
            /\ \A u \in Worker : \A s \in AskedBy(u) : r = s <=> u = v
        BY <4>1 DEF BridgeInv, SendsFit
      <4>3. r \in Sent' /\ kind'[r] = "ask" /\ r \in lost' \cup OnWay(events)'
        BY <1>3, <1>9, <4>1, <4>2
      <4>4. \A c \in cmds' : c.turn = r => nextSeq <= c.seq /\ c.seq < tx'[v].next
        <5>1. \A c \in C : c.turn # r
          BY <1>3, <4>1
        <5> QED BY <1>3, <4>1, <4>2, <5>1
      <4>5. ASSUME NEW u \in Worker, NEW s \in AskedBy(u)' PROVE r = s <=> u = v
        <5>1. CASE u = w
          <6>1. s \notin Sent
            BY <1>3, <1>10, <5>1
          <6> QED BY <3>2, <4>1, <5>1, <6>1
        <5>2. CASE u # w
          BY <1>10, <4>2, <5>2
        <5> QED BY <5>1, <5>2
      <4> QED BY <4>1, <4>2, <4>3, <4>4, <4>5
    <3> QED BY <3>1, <3>2
  <2>2. NumbersFit'
    <3>1. \A c \in C : c.turn \notin Held(wait)
      BY <1>3, <1>8
    <3> QED BY <1>3, <3>1 DEF BridgeInv, NumbersFit
  <2> QED BY <2>1, <2>2
<1>16. PollsFit'
  <2>1. \A i \in 1..Len(events) : events'[i] = events[i] /\ kind'[events[i]] = kind[events[i]]
    <3> TAKE i \in 1..Len(events)
    <3>1. i \in 1..Len(Way(events)) /\ Way(events)[i] = events[i]
      BY <1>1, WayIs
    <3> QED BY <1>3, <1>8, <3>1
  <2>2. SamePolls
    BY <1>4, <1>5 DEF SamePolls
  <2> QED BY <1>1, <1>3, <2>1, <2>2, PollsStay DEF BridgeInv
<1>17. Good(wait, events, Asked)'
  <2>0. Good(wait, events, Asked)
    BY DEF BridgeInv
  <2>1. RowsFit(wait)'
    BY <1>3, <1>8 DEF RowsFit
  <2>2. EnoughToCome(wait, events)'
    <3> DEFINE X == Held(wait) \cap (lost \cup OnWay(events))
               Y == Held(wait) \cap (lost \cup (OnWay(events) \cup new))
    <3>1. X \subseteq Y /\ X \in SUBSET Turn /\ Y \in SUBSET Turn
      BY <1>1, HeldIs
    <3>2. X = Y
      BY <1>3, <1>8
    <3>3. Cardinality(In(wait, {"waiting"})) <= Cardinality(Y)
      BY <2>0, <3>2 DEF Good, EnoughToCome
    <3> QED BY <1>3, <1>9, <3>3 DEF EnoughToCome
  <2>3. InTurn(wait, events, Asked)'
    <3> SUFFICES ASSUME NEW p \in Held(wait), NEW q \in Held(wait) \cup Asked', p < q, NEW t \in Sent', q <= t
                 PROVE  ~Late(p, t, events)' /\ (carries /\ t \in Texts(wait) => p \notin OnWay(events)')
      BY <1>3 DEF InTurn
    <3>1. p \in Sent /\ p \notin new
      BY <1>3, <1>8
    <3>2. CASE t \in Sent
      <4>1. q \in Held(wait) \cup Asked
        <5>1. t \in Nat /\ q \in Nat
          <6>1. q \in Sent \/ q \in new
            BY <1>8, <1>11 DEF Asked
          <6> QED BY <1>8, <3>2, <6>1
        <5>2. q \notin new
          <6> SUFFICES ASSUME q \in new PROVE FALSE
            OBVIOUS
          <6>1. t < q
            BY <1>3, <3>2
          <6> QED BY <5>1, <6>1
        <5> QED BY <1>11, <5>2
      <4>2. ~Late(p, t, events) /\ (carries /\ t \in Texts(wait) => p \notin OnWay(events))
        BY <2>0, <3>2, <4>1 DEF Good, InTurn
      <4>3. ASSUME Late(p, t, events)' PROVE Late(p, t, events)
        <5>1. \A c \in cmds' : c.turn \in Sent => c \in cmds
          BY <1>3
        <5> QED BY <1>9, <3>1, <3>2, <4>3, <5>1 DEF Late
      <4> QED BY <1>9, <3>1, <4>2, <4>3
    <3>3. CASE t \in new
      <4>1. t \notin Sent
        BY <1>3, <3>3
      <4>2. \A i \in 1..Len(Way(events)) : Way(events)[i] # t
        BY <1>8, <4>1
      <4>3. ASSUME NEW c \in cmds', NEW d \in cmds', c.turn = p, d.turn = t PROVE ~(d.seq <= c.seq)
        <5>1. c \in cmds
          BY <1>3, <3>1, <4>3
        <5>2. d \in C
          BY <1>3, <1>8, <4>1, <4>3 DEF CmdTurns
        <5>3. c.seq < nextSeq /\ nextSeq <= d.seq
          BY <1>4, <4>3, <5>1, <5>2 DEF BridgeInv, NumbersFit
        <5>4. c.seq \in Nat /\ d.seq \in Nat
          BY <1>1, <5>1, <5>2 DEF BridgeTypes
        <5> QED BY <1>1, <5>3, <5>4
      <4>4. ~Late(p, t, events)'
        BY <1>9, <4>2, <4>3 DEF Late
      <4> QED BY <1>14, <4>1, <4>4
    <3> QED BY <1>3, <3>2, <3>3
  <2>4. ASSUME carries PROVE OneEach(wait, events)' /\ Nearby(wait)'
    <3>1. OneEach(wait, events) /\ Nearby(wait)
      BY <2>0, <2>4 DEF Good
    <3>2. OneEach(wait, events)'
      <4>1. Texts(wait) \cap OnWay(events)' = {}
        BY <1>3, <1>9, <1>14, <2>4, <3>1 DEF OneEach
      <4>2. \A r \in In(wait, {"answered"}) : \E t \in Sent' : kind'[t] # "effort" /\ wait[r].text = {t}
        BY <1>3, <3>1 DEF OneEach
      <4> QED BY <1>3, <3>1, <4>1, <4>2 DEF OneEach
    <3>3. Nearby(wait)'
      <4> SUFFICES ASSUME NEW r \in In(wait, {"answered"}), NEW t \in wait[r].text
            PROVE /\ Cardinality({q \in Held(wait) : r < q /\ q <= t}) <= Cardinality({l \in lost : l < t})
                  /\ t \in Held(wait) =>
                         Cardinality({q \in Held(wait) : t <= q /\ q < r})
                             <= Cardinality({f \in {g \in Sent' : kind'[g] # "effort"} \ Held(wait) : f < r})
        BY <1>3 DEF Nearby
      <4> DEFINE A == {f \in {g \in Sent : kind[g] # "effort"} \ Held(wait) : f < r}
                 B == {f \in {g \in Sent' : kind'[g] # "effort"} \ Held(wait) : f < r}
                 D == {q \in Held(wait) : t <= q /\ q < r}
      <4>1. /\ Cardinality({q \in Held(wait) : r < q /\ q <= t}) <= Cardinality({l \in lost : l < t})
            /\ t \in Held(wait) => Cardinality(D) <= Cardinality(A)
        BY <3>1, Zenon DEF Nearby
      <4>2. A \subseteq B /\ A \in SUBSET Turn /\ B \in SUBSET Turn /\ D \in SUBSET Turn
        BY <1>3, <1>8
      <4> HIDE DEF A, B, D
      <4>3. Cardinality(A) <= Cardinality(B) /\ Cardinality(A) \in Nat /\ Cardinality(B) \in Nat /\ Cardinality(D) \in Nat
        BY <4>2, Counts
      <4>4. t \in Held(wait) => Cardinality(D) <= Cardinality(B)
        BY <4>1, <4>3
      <4> QED BY <4>1, <4>4 DEF B, D
    <3> QED BY <3>2, <3>3
  <2> QED BY <1>3, <2>1, <2>2, <2>3, <2>4 DEF Good
<1> QED BY <1>7, <1>12, <1>13, <1>15, <1>16, <1>17 DEF BridgeInv
LEMMA CommitShape ==
  ASSUME BridgeTypes, TxFit, NEW w \in Worker, Commit(w)
  PROVE  /\ UNCHANGED <<carries, stored, cmds, queue, begun, lines, kind, lost>>
         /\ tx[w].at \in {"send", "poll"} /\ tx[w].read \in 0..Len(events) /\ tx[w] \in Tx
         /\ wait' = [r \in Turn |-> IF tx[w].rows[r] # NoRow THEN tx[w].rows[r] ELSE wait[r]]
         /\ nextSeq' = tx[w].next /\ nextSeq <= nextSeq'
         /\ events' = Rest(tx[w].read) /\ (tx[w].at = "send" => events' = events)
         /\ tx' = [v \in Worker |-> NoTx]
         /\ Asked' = {} /\ TxFit' /\ SendsFit' /\ PollsFit' /\ BridgeTypes'
<1>1. /\ UNCHANGED <<carries, stored, cmds, queue, begun, lines, kind, lost>> /\ tx[w] # NoTx
      /\ wait' = [r \in Turn |-> IF tx[w].rows[r] # NoRow THEN tx[w].rows[r] ELSE wait[r]]
      /\ nextSeq' = tx[w].next
      /\ events' = Rest(tx[w].read)
      /\ tx' = [v \in Worker |-> NoTx]
  BY DEF Commit, sessionVars, histVars, Rest, Left
<1>2. tx[w] \in Tx /\ events \in Seq(Turn) /\ wait \in [Turn -> Row] /\ nextSeq \in Nat \ {0}
  BY DEF BridgeTypes
<1>3. tx[w].at \in {"send", "poll"} /\ tx[w].read \in 0..Len(events)
  <2>1. Len(events) \in Nat /\ tx[w].read \in Nat /\ tx[w].at \in {"none", "send", "poll"}
    BY <1>2 DEF Tx
  <2>2. tx[w].at # "none" /\ (tx[w].at # "poll" => tx[w].read = 0) /\ (tx[w].at = "poll" => tx[w].read <= Len(events))
    BY <1>1 DEF TxFit
  <2> QED BY <2>1, <2>2
<1>4. tx[w].next \in Nat /\ nextSeq <= tx[w].next
  <2>1. /\ tx[w].at = "poll" => tx[w].next = nextSeq
        /\ tx[w].at = "send" => nextSeq <= tx[w].next
    BY DEF TxFit
  <2> QED BY <1>2, <1>3, <2>1 DEF Tx
<1>5. tx[w].at = "send" => events' = events
  <2> SUFFICES ASSUME tx[w].at = "send" PROVE events' = events
    OBVIOUS
  <2>1. tx[w].read = 0 /\ 0 \in 0..Len(events)
    <3>1. tx[w].at # "poll"
      OBVIOUS
    <3> QED BY <1>3, <3>1 DEF TxFit
  <2>2. Rest(0) = events
    BY <1>2, <2>1, RestIs
  <2> QED BY <1>1, <2>1, <2>2
<1>6. \A v \in Worker : tx'[v] = NoTx
  BY <1>1
<1>7. (\A v \in Worker : AskedBy(v)' = {}) /\ Asked' = {}
  <2>1. \A v \in Worker : AskedBy(v)' = {}
    BY <1>6, NoneAsked DEF AskedBy
  <2> QED BY <2>1 DEF Asked
<1>8. TxFit'
  BY <1>6, NoneAsked DEF TxFit
<1>9. SendsFit'
  BY <1>7 DEF SendsFit
<1>10. PollsFit'
  BY <1>6, NoneAsked DEF PollsFit
<1>11. BridgeTypes'
  <2>1. wait' \in [Turn -> Row]
    <3>1. tx[w].rows \in [Turn -> Row]
      BY <1>2 DEF Tx
    <3> QED BY <1>1, <1>2, <3>1
  <2>2. tx' \in [Worker -> Tx]
    BY <1>1, NoRowIsTyped
  <2>3. events' \in Seq(Turn)
    BY <1>1, <1>2, <1>3, RestIs
  <2>4. nextSeq' \in Nat \ {0}
    BY <1>1, <1>2, <1>4
  <2> QED BY <1>1, <2>1, <2>2, <2>3, <2>4 DEF BridgeTypes
<1> QED BY <1>1, <1>2, <1>3, <1>4, <1>5, <1>7, <1>8, <1>9, <1>10, <1>11

\* What a poll commits: the rows answered by the results it read.
LEMMA PollCommits ==
  ASSUME BridgeInv, NEW w \in Worker, Commit(w), tx[w].at = "poll"
  PROVE  /\ Good(wait', Rest(tx[w].read), {}) /\ Unique(Rest(tx[w].read)) /\ Held(wait') = Held(wait)
         /\ \A r \in Turn :
               \/ wait'[r] = wait[r]
               \/ /\ wait[r].state = "waiting" /\ wait'[r].state = IF carries THEN "answered" ELSE "ended"
                  /\ wait'[r].after = wait[r].after /\ wait'[r].alone = wait[r].alone
                  /\ ~carries => wait'[r].text = wait[r].text
<1> DEFINE n == tx[w].read
<1>1. BridgeTypes /\ TxFit /\ Unique(events) /\ wait \in [Turn -> Row] /\ Good(wait, events, {})
  BY GoodForNone DEF BridgeInv, BridgeTypes
<1>2. n \in 0..Len(events) /\ n \in 0..n
      /\ wait' = [r \in Turn |-> IF tx[w].rows[r] # NoRow THEN tx[w].rows[r] ELSE wait[r]]
  BY <1>1, CommitShape
<1>3. PICK f : /\ Answering(f, wait, events, n)
               /\ tx[w].rows = [r \in Turn |-> IF f[n][r] # wait[r] THEN f[n][r] ELSE NoRow]
  BY DEF BridgeInv, PollsFit
<1>4. f[n] \in [Turn -> Row] /\ Good(f[n], Rest(n), {}) /\ Unique(Rest(n)) /\ Held(f[n]) = Held(wait)
  BY <1>1, <1>2, <1>3, GoodAfter
<1>5. \A r \in Turn :
         \/ f[n][r] = wait[r]
         \/ /\ wait[r].state = "waiting" /\ f[n][r].state = IF carries THEN "answered" ELSE "ended"
            /\ f[n][r].after = wait[r].after /\ f[n][r].alone = wait[r].alone
            /\ ~carries => f[n][r].text = wait[r].text
  BY <1>1, <1>2, <1>3, RowsAfter
<1>6. wait' = f[n]
  <2>1. ASSUME NEW r \in Turn PROVE wait'[r] = f[n][r]
    <3>1. f[n][r] # wait[r] => f[n][r] # NoRow
      <4>1. f[n][r] # wait[r] => f[n][r].state # "none"
        BY <1>5
      <4> QED BY <4>1, NoneAsked
    <3>2. tx[w].rows[r] = IF f[n][r] # wait[r] THEN f[n][r] ELSE NoRow
      BY <1>3
    <3> QED BY <1>2, <3>1, <3>2
  <2>2. wait' = [r \in Turn |-> wait'[r]] /\ f[n] = [r \in Turn |-> f[n][r]]
    BY <1>2, <1>4
  <2> QED BY <2>1, <2>2
<1> QED BY <1>4, <1>5, <1>6

\* What a request commits: its row, after all others.
LEMMA SendCommits ==
  ASSUME BridgeInv, NEW w \in Worker, Commit(w), tx[w].at = "send"
  PROVE  \/ wait' = wait /\ AskedBy(w) = {}
         \/ \E r \in Turn : /\ AskedBy(w) = {r} /\ wait'[r] = tx[w].rows[r] /\ wait[r].state = "none"
                            /\ \A s \in Turn \ {r} : wait'[s] = wait[s]
<1>1. BridgeTypes /\ TxFit /\ SendsFit /\ wait \in [Turn -> Row]
  BY DEF BridgeInv, BridgeTypes
<1>2. wait' = [r \in Turn |-> IF tx[w].rows[r] # NoRow THEN tx[w].rows[r] ELSE wait[r]]
  BY <1>1, CommitShape
<1>3. \A r \in Turn : r \in AskedBy(w) <=> tx[w].rows[r] # NoRow
  BY <1>1, NoneAsked DEF AskedBy, TxFit
<1>4. CASE AskedBy(w) = {}
  <2>1. \A r \in Turn : wait'[r] = wait[r]
    BY <1>2, <1>3, <1>4
  <2>2. wait = [r \in Turn |-> wait[r]] /\ wait' = [r \in Turn |-> wait'[r]]
    BY <1>1, <1>2
  <2>3. wait' = wait
    BY <2>1, <2>2
  <2> QED BY <1>4, <2>3
<1>5. CASE AskedBy(w) # {}
  <2>1. PICK r \in AskedBy(w) : TRUE
    BY <1>5
  <2>2. AskedBy(w) = {r}
    <3>1. \A s \in AskedBy(w) : r = s
      BY <1>1, <2>1 DEF SendsFit
    <3> QED BY <2>1, <3>1
  <2>3. r \in Turn /\ wait[r].state = "none"
    <3>1. r \in Turn /\ \A q \in Held(wait) : q < r
      BY <1>1, <2>1 DEF SendsFit, AskedBy
    <3>2. r \in Nat /\ ~(r < r)
      BY <3>1, TurnsAreNat
    <3>3. r \notin Held(wait)
      BY <3>1, <3>2
    <3> QED BY <3>1, <3>3 DEF Held
  <2>4. wait'[r] = tx[w].rows[r] /\ \A s \in Turn \ {r} : wait'[s] = wait[s]
    BY <1>2, <1>3, <2>2, <2>3
  <2> QED BY <2>2, <2>3, <2>4
<1> QED BY <1>4, <1>5
LEMMA GoodNext ==
  ASSUME UNCHANGED <<carries, cmds, queue, kind, lost>>, NEW es, events' = es, Asked' = {},
         NEW rows, wait' = rows, Good(rows, es, {}), Unique(es)
  PROVE  Good(wait, events, Asked)' /\ Unique(events)'
<1>1. /\ Way(events)' = Way(es) /\ CmdTurns' = CmdTurns /\ Sent' = Sent /\ OnWay(events)' = OnWay(es)
  BY DEF Way, CmdTurns, Sent, OnWay
<1>2. \A p, t : Late(p, t, events)' <=> Late(p, t, es)
  BY <1>1 DEF Late
<1>3. RowsFit(wait)' /\ EnoughToCome(wait, events)'
  BY <1>1 DEF Good, RowsFit, EnoughToCome
<1>4. InTurn(wait, events, Asked)'
  BY <1>1, <1>2 DEF Good, InTurn
<1>5. carries => OneEach(wait, events)'
  BY <1>1 DEF Good, OneEach
<1>6. carries => Nearby(wait)'
  BY <1>1 DEF Good, Nearby
<1>7. Unique(events)'
  BY <1>1 DEF Unique
<1> QED BY <1>3, <1>4, <1>5, <1>6, <1>7 DEF Good

\* A new row, after all others, whose turn is to come.
LEMMA GoodWithRow ==
  ASSUME BridgeTypes, Good(wait, events, Asked), NEW r \in Turn, NEW rows \in [Turn -> Row],
         rows[r].state = "waiting", rows[r].text = {}, wait[r].state = "none",
         \A s \in Turn \ {r} : rows[s] = wait[s],
         r \in Asked, r \in Sent, kind[r] = "ask", r \in lost \cup OnWay(events),
         \A q \in Held(wait) : q < r, carries => \A t \in Texts(wait) : t < r
  PROVE  Good(rows, events, {})
<1>1. wait \in [Turn -> Row] /\ Turn \subseteq Nat /\ r \in Nat /\ Sent \subseteq Turn
  BY TurnsAreNat, SentIs DEF BridgeTypes
<1>2. RowsFit(wait) /\ EnoughToCome(wait, events) /\ InTurn(wait, events, Asked)
  BY DEF Good
<1>3. /\ Held(rows) = Held(wait) \cup {r} /\ r \notin Held(wait) /\ Held(wait) \in SUBSET Turn
      /\ In(rows, {"waiting"}) = In(wait, {"waiting"}) \cup {r} /\ r \notin In(wait, {"waiting"})
      /\ In(rows, {"answered"}) = In(wait, {"answered"}) /\ In(wait, {"waiting"}) \in SUBSET Turn
  <2>1. Held(wait) \in SUBSET Turn /\ In(wait, {"waiting"}) \in SUBSET Turn
    BY <1>1, HeldIs
  <2> QED BY <2>1 DEF Held, In
<1>4. Texts(rows) = Texts(wait)
  <2>1. wait[r].text = {}
    BY <1>2 DEF RowsFit
  <2>2. \A s \in Turn : rows[s].text = wait[s].text
    BY <2>1
  <2> QED BY <2>2 DEF Texts
<1>5. RowsFit(rows)
  <2> SUFFICES ASSUME NEW s \in Turn
               PROVE  /\ rows[s].state = "answered" <=> rows[s].text # {}
                      /\ rows[s].state # "none" => s \in Sent /\ kind[s] = "ask"
                      /\ rows[s].state \in {"ended", "expired"} => ~carries
    BY DEF RowsFit
  <2>1. CASE s = r
    BY <2>1
  <2>2. CASE s # r
    <3>1. rows[s] = wait[s]
      BY <2>2
    <3>2. /\ wait[s].state = "answered" <=> wait[s].text # {}
          /\ wait[s].state # "none" => s \in Sent /\ kind[s] = "ask"
          /\ wait[s].state \in {"ended", "expired"} => ~carries
      BY <1>2 DEF RowsFit
    <3> DEFINE x == wait[s]
    <3>3. /\ x.state = "answered" <=> x.text # {}
          /\ x.state # "none" => s \in Sent /\ kind[s] = "ask"
          /\ x.state \in {"ended", "expired"} => ~carries
      BY <3>2
    <3>4. rows[s] = x
      BY <3>1
    <3> HIDE DEF x
    <3> QED BY <3>3, <3>4
  <2> QED BY <2>1, <2>2
<1>6. EnoughToCome(rows, events)
  <2> DEFINE W == In(wait, {"waiting"})
             X == Held(wait) \cap (lost \cup OnWay(events))
             nW == Cardinality(W)
             nX == Cardinality(X)
  <2>1. nW <= nX
    BY <1>2 DEF EnoughToCome
  <2>2. X \in SUBSET Turn /\ W \in SUBSET Turn /\ r \in Turn \ X /\ r \in Turn \ W
    BY <1>3
  <2>3. Held(rows) \cap (lost \cup OnWay(events)) = X \cup {r} /\ In(rows, {"waiting"}) = W \cup {r}
    BY <1>3
  <2>4. nW \in Nat /\ nX \in Nat /\ Cardinality(W \cup {r}) = nW + 1 /\ Cardinality(X \cup {r}) = nX + 1
    BY <2>2, Counts
  <2> HIDE DEF nW, nX, W, X
  <2>5. Cardinality(W \cup {r}) <= Cardinality(X \cup {r})
    BY <2>1, <2>4
  <2> QED BY <2>3, <2>5 DEF EnoughToCome
<1>7. InTurn(rows, events, {})
  <2> SUFFICES ASSUME NEW p \in Held(rows), NEW q \in Held(rows), p < q, NEW t \in Sent, q <= t
               PROVE  ~Late(p, t, events) /\ (carries /\ t \in Texts(rows) => p \notin OnWay(events))
    BY DEF InTurn
  <2>1. p \in Held(wait)
    <3>1. p # r
      <4> SUFFICES ASSUME p = r PROVE FALSE
        OBVIOUS
      <4>1. q < r \/ q = r
        BY <1>3
      <4>2. q \in Nat
        BY <1>1, <1>3
      <4> QED BY <1>1, <4>1, <4>2
    <3> QED BY <1>3, <3>1
  <2>2. q \in Held(wait) \cup Asked
    BY <1>3
  <2> QED BY <1>2, <1>4, <2>1, <2>2 DEF InTurn
<1>8. ASSUME carries PROVE OneEach(rows, events) /\ Nearby(rows)
  <2>1. OneEach(wait, events) /\ Nearby(wait)
    BY <1>8 DEF Good
  <2>2. \A q \in In(wait, {"answered"}) : q \in Held(wait) /\ q < r /\ q # r /\ rows[q] = wait[q]
    <3>1. \A q \in In(wait, {"answered"}) : q \in Held(wait) /\ q \in Turn
      BY DEF In, Held
    <3> QED BY <1>3, <3>1
  <2>3. OneEach(rows, events)
    <3>1. \A q \in In(rows, {"answered"}) : \A s \in In(rows, {"waiting"}) : q < s
      BY <1>3, <2>1, <2>2 DEF OneEach
    <3>2. /\ \A s \in In(rows, {"answered"}) : \E t \in Sent : kind[t] # "effort" /\ rows[s].text = {t}
          /\ \A q, s \in In(rows, {"answered"}) : q # s => rows[q].text \cap rows[s].text = {}
      BY <1>3, <2>1, <2>2 DEF OneEach
    <3> QED BY <1>4, <2>1, <3>1, <3>2 DEF OneEach
  <2>4. Nearby(rows)
    <3> DEFINE Free(H) == {g \in Sent : kind[g] # "effort"} \ H
    <3> SUFFICES ASSUME NEW s \in In(rows, {"answered"}), NEW t \in rows[s].text
          PROVE /\ Cardinality({q \in Held(rows) : s < q /\ q <= t}) <= Cardinality({l \in lost : l < t})
                /\ t \in Held(rows) =>
                       Cardinality({q \in Held(rows) : t <= q /\ q < s})
                           <= Cardinality({f \in Free(Held(rows)) : f < s})
      BY Zenon DEF Nearby
    <3>1. s \in In(wait, {"answered"}) /\ t \in wait[s].text /\ s < r /\ s \in Turn
      BY <1>3, <2>2 DEF In
    <3>2. t < r /\ t \in Turn /\ t \in Nat
      <4>1. t \in Texts(wait)
        BY <3>1 DEF Texts
      <4>2. t \in Turn
        BY <1>1, <3>1 DEF Row
      <4> QED BY <1>1, <1>8, <4>1, <4>2
    <3>3. /\ Cardinality({q \in Held(wait) : s < q /\ q <= t}) <= Cardinality({l \in lost : l < t})
          /\ t \in Held(wait) =>
                 Cardinality({q \in Held(wait) : t <= q /\ q < s})
                     <= Cardinality({f \in Free(Held(wait)) : f < s})
      BY <2>1, <3>1, Zenon DEF Nearby
    <3>4. ~(r <= t) /\ ~(r < s) /\ s \in Nat
      <4>1. s \in Nat /\ s < r
        BY <1>1, <3>1
      <4>2. t \in Nat /\ t < r
        BY <3>2
      <4>3. r \in Nat
        BY <1>1
      <4> QED BY ONLY <4>1, <4>2, <4>3
    <3>5. /\ {q \in Held(rows) : s < q /\ q <= t} = {q \in Held(wait) : s < q /\ q <= t}
          /\ {q \in Held(rows) : t <= q /\ q < s} = {q \in Held(wait) : t <= q /\ q < s}
          /\ {f \in Free(Held(rows)) : f < s} = {f \in Free(Held(wait)) : f < s}
      <4>1. {q \in Held(rows) : s < q /\ q <= t} = {q \in Held(wait) : s < q /\ q <= t}
        BY <1>3, <3>4
      <4>2. {q \in Held(rows) : t <= q /\ q < s} = {q \in Held(wait) : t <= q /\ q < s}
        BY <1>3, <3>4
      <4>3. {f \in Free(Held(rows)) : f < s} = {f \in Free(Held(wait)) : f < s}
        BY <1>3, <3>4
      <4> QED BY <4>1, <4>2, <4>3
    <3>6. t \in Held(rows) => t \in Held(wait)
      <4>1. t # r
        BY <1>1, <3>2
      <4> QED BY <1>3, <4>1
    <3> HIDE DEF Free
    <3> QED BY <3>3, <3>5, <3>6
  <2> QED BY <2>3, <2>4
<1> QED BY <1>5, <1>6, <1>7, <1>8 DEF Good

LEMMA CommitKeeps == ASSUME BridgeInv, NEW w \in Worker, Commit(w) PROVE BridgeInv'
<1>1. BridgeTypes /\ TxFit /\ SendsFit /\ NumbersFit /\ Unique(events) /\ Good(wait, events, Asked)
      /\ nextSeq \in Nat
  BY DEF BridgeInv, BridgeTypes
<1>2. /\ UNCHANGED <<carries, cmds, queue, kind, lost>>
      /\ tx[w].at \in {"send", "poll"} /\ nextSeq' = tx[w].next /\ nextSeq <= nextSeq' /\ tx[w] \in Tx
      /\ events' = Rest(tx[w].read) /\ (tx[w].at = "send" => events' = events)
      /\ Asked' = {} /\ TxFit' /\ SendsFit' /\ PollsFit' /\ BridgeTypes'
  BY <1>1, CommitShape
<1>3. \A c \in cmds : c.seq \in Nat
  BY <1>1 DEF BridgeTypes
<1>4. CASE tx[w].at = "poll"
  <2>1. Good(wait', Rest(tx[w].read), {}) /\ Unique(Rest(tx[w].read)) /\ Held(wait') = Held(wait)
    BY <1>4, PollCommits
  <2>2. Good(wait, events, Asked)' /\ Unique(events)'
    BY <1>2, <2>1, GoodNext
  <2>3. NumbersFit'
    <3>1. nextSeq' \in Nat
      BY <1>2 DEF Tx
    <3> QED BY <1>1, <1>2, <1>3, <2>1, <3>1 DEF NumbersFit
  <2> QED BY <1>2, <2>2, <2>3 DEF BridgeInv
<1>5. CASE tx[w].at = "send"
  <2>1. nextSeq' \in Nat /\ events' = events /\ wait' \in [Turn -> Row]
    BY <1>2, <1>5 DEF Tx, BridgeTypes
  <2>2. CASE wait' = wait
    <3>1. Good(wait, events, {})
      BY <1>1, GoodForNone
    <3>2. Good(wait, events, Asked)' /\ Unique(events)'
      BY <1>1, <1>2, <2>1, <2>2, <3>1, GoodNext
    <3>3. NumbersFit'
      BY <1>1, <1>2, <1>3, <2>1, <2>2 DEF NumbersFit
    <3> QED BY <1>2, <3>2, <3>3 DEF BridgeInv
  <2>3. ASSUME NEW r \in Turn, AskedBy(w) = {r}, wait'[r] = tx[w].rows[r], wait[r].state = "none",
               \A s \in Turn \ {r} : wait'[s] = wait[s]
        PROVE  BridgeInv'
    <3>1. /\ tx[w].rows[r].state = "waiting" /\ tx[w].rows[r].text = {}
          /\ r \in Sent /\ kind[r] = "ask" /\ r \in lost \cup OnWay(events)
          /\ \A q \in Held(wait) : q < r
          /\ carries => \A t \in Texts(wait) : t < r
          /\ \A c \in cmds : c.turn = r => c.seq < tx[w].next
      BY <1>1, <2>3 DEF SendsFit
    <3>2. r \in Asked
      BY <2>3 DEF Asked
    <3>3. Good(wait', events, {})
      BY <1>1, <2>1, <2>3, <3>1, <3>2, GoodWithRow
    <3>4. Good(wait, events, Asked)' /\ Unique(events)'
      BY <1>1, <1>2, <2>1, <3>3, GoodNext
    <3>5. NumbersFit'
      <4>1. \A s \in Held(wait') : s = r \/ s \in Held(wait)
        BY <2>3 DEF Held
      <4> SUFFICES ASSUME NEW c \in cmds, c.turn \in Held(wait') PROVE c.seq < nextSeq'
        BY <1>2 DEF NumbersFit
      <4>2. CASE c.turn = r
        BY <1>2, <3>1, <4>2
      <4>3. CASE c.turn \in Held(wait)
        <5>1. c.seq < nextSeq
          BY <1>1, <4>3 DEF NumbersFit
        <5> QED BY <1>1, <1>2, <1>3, <2>1, <5>1
      <4> QED BY <4>1, <4>2, <4>3
    <3> QED BY <1>2, <3>4, <3>5 DEF BridgeInv
  <2> QED BY <1>5, <2>2, <2>3, SendCommits
<1> QED BY <1>2, <1>4, <1>5
----
(***************************************************************************)
(* The answers read from the transcript.                                   *)
(***************************************************************************)
Prompts(row) == {i \in (row.after + 1)..stored : IsPrompt(lines[i])}

LEMMA AnswerTextIs ==
  ASSUME BridgeTypes, NEW row \in Row, AnswerText(row) # {}
  PROVE  /\ AnswerText(row) \in SUBSET Turn
         /\ \E first \in Prompts(row) :
               /\ \A k \in Prompts(row) : first <= k
               /\ \A u \in AnswerText(row) :
                     \E j \in (first + 1)..stored :
                        /\ lines[j] = [turn |-> u, what |-> "text"]
                        /\ \A k \in (first + 1)..j : ~IsPrompt(lines[k])
<1> DEFINE P == Prompts(row)
           first == Min(P)
           B == (P \ {first}) \cup {stored + 1}
           before == Min(B)
<1>1. /\ stored \in Nat /\ Len(lines) \in Nat /\ stored <= Len(lines) /\ row.after \in Nat
      /\ \A i \in 1..Len(lines) : lines[i] \in [turn : Turn, what : {"prompt", "text"}]
  <2>1. lines \in Seq([turn : Turn, what : {"prompt", "text"}]) /\ stored \in 0..Len(lines)
    BY DEF BridgeTypes
  <2>2. row.after \in Nat
    BY DEF Row
  <2>3. Len(lines) \in Nat /\ \A i \in 1..Len(lines) : lines[i] \in [turn : Turn, what : {"prompt", "text"}]
    BY <2>1, LenProperties, ElementOfSeq
  <2> QED BY <2>1, <2>2, <2>3
<1>2. P \in SUBSET Nat /\ \A i \in P : i >= 1 /\ i <= stored
  BY <1>1 DEF Prompts
<1>3. P # {} /\ AnswerText(row) = {lines[i].turn : i \in {j \in (first + 1)..(before - 1) : lines[j].what = "text"}}
  BY DEF AnswerText, Prompts
<1>4. first \in P /\ \A k \in P : first <= k
  <2> HIDE DEF P
  <2> QED BY <1>2, <1>3, LeastIs
<1>5. before \in B /\ \A k \in B : before <= k
  <2>1. B \in SUBSET Nat /\ B # {}
    <3>1. stored + 1 \in Nat
      BY <1>1
    <3> HIDE DEF P, first
    <3> QED BY <1>2, <3>1
  <2> HIDE DEF B
  <2> QED BY <2>1, LeastIs
<1>6. before \in Nat /\ before <= stored + 1 /\ first \in Nat /\ first >= 1
  <2> HIDE DEF P, first, before
  <2>1. B \subseteq Nat
    <3>1. stored + 1 \in Nat
      BY <1>1
    <3> QED BY <1>2, <3>1
  <2> QED BY <1>2, <1>4, <1>5, <2>1
<1>7. ASSUME NEW u \in AnswerText(row)
      PROVE  /\ u \in Turn
             /\ \E j \in (first + 1)..stored :
                   /\ lines[j] = [turn |-> u, what |-> "text"]
                   /\ \A k \in (first + 1)..j : ~IsPrompt(lines[k])
  <2>1. PICK j \in (first + 1)..(before - 1) : lines[j].what = "text" /\ u = lines[j].turn
    BY <1>3
  <2> HIDE DEF P, first, before
  <2>2. j \in (first + 1)..stored /\ j \in 1..Len(lines) /\ j < before
    BY <1>1, <1>6, <2>1
  <2>3. lines[j] = [turn |-> u, what |-> "text"] /\ u \in Turn
    BY <1>1, <2>1, <2>2
  <2>4. ASSUME NEW k \in (first + 1)..j PROVE ~IsPrompt(lines[k])
    <3> SUFFICES ASSUME IsPrompt(lines[k]) PROVE FALSE
      OBVIOUS
    <3>1. k \in (row.after + 1)..stored /\ k # first /\ k <= j
      <4>1. first >= row.after + 1
        BY <1>1, <1>4 DEF P, Prompts
      <4> QED BY <1>1, <1>6, <2>2, <4>1
    <3>2. k \in B
      BY <3>1 DEF P, Prompts
    <3>3. before <= k
      BY <1>5, <3>2
    <3> QED BY <1>1, <1>6, <2>2, <3>1, <3>3
  <2> QED BY <2>2, <2>3, <2>4
<1> HIDE DEF P, first, before, B
<1>8. AnswerText(row) \in SUBSET Turn
  BY <1>7
<1> QED BY <1>4, <1>7, <1>8 DEF P

\* Only rows whose turn ended change.
LEMMA ResumesShape ==
  ASSUME BridgeTypes, RowsFit(wait), NEW late \in SUBSET In(wait, {"ended"}), Resumes(late)
  PROVE  /\ UNCHANGED <<carries, nextSeq, stored, tx, cmds, events, queue, begun, lines, kind, lost>>
         /\ ~carries /\ wait' \in [Turn -> Row]
         /\ \A r \in Turn :
               \/ wait'[r] = wait[r]
               \/ /\ wait[r].state = "ended" /\ wait[r].text = {} /\ kind[r] = "ask" /\ r \in Sent
                  /\ wait'[r].after = wait[r].after /\ wait'[r].alone = wait[r].alone
                  /\ \/ /\ wait'[r].state = "answered" /\ wait'[r].text = AnswerText(wait[r])
                        /\ AnswerText(wait[r]) # {}
                     \/ wait'[r].state = "expired" /\ wait'[r].text = {}
         /\ Held(wait') = Held(wait) /\ In(wait', {"waiting"}) = In(wait, {"waiting"})
<1>1. /\ wait' = [r \in Turn |->
            IF wait[r].state # "ended" THEN wait[r]
            ELSE IF AnswerText(wait[r]) # {} THEN Answered(wait[r], AnswerText(wait[r]))
            ELSE IF r \in late THEN [wait[r] EXCEPT !.state = "expired"] ELSE wait[r]]
      /\ wait' # wait
      /\ UNCHANGED <<carries, nextSeq, stored, tx, cmds, events, queue, begun, lines, kind, lost>>
  BY DEF Resumes, spoolVars, sessionVars, histVars
<1>2. wait \in [Turn -> Row]
  BY DEF BridgeTypes
<1>3. ASSUME NEW r \in Turn
      PROVE  /\ wait'[r] \in Row
             /\ \/ wait'[r] = wait[r]
                \/ /\ wait[r].state = "ended" /\ wait[r].text = {} /\ kind[r] = "ask" /\ r \in Sent
                   /\ wait'[r].after = wait[r].after /\ wait'[r].alone = wait[r].alone
                   /\ \/ /\ wait'[r].state = "answered" /\ wait'[r].text = AnswerText(wait[r])
                         /\ AnswerText(wait[r]) # {}
                      \/ wait'[r].state = "expired" /\ wait'[r].text = {}
  <2>1. wait[r] \in Row
    BY <1>2
  <2>2. wait[r].state = "ended" => wait[r].text = {} /\ kind[r] = "ask" /\ r \in Sent
    BY DEF RowsFit
  <2>3. CASE wait'[r] = wait[r]
    BY <2>1, <2>3
  <2>4. CASE wait[r].state = "ended" /\ AnswerText(wait[r]) # {} /\ wait'[r] = Answered(wait[r], AnswerText(wait[r]))
    <3>1. AnswerText(wait[r]) \in SUBSET Turn
      BY <2>1, <2>4, AnswerTextIs
    <3>2. /\ wait'[r] \in Row /\ wait'[r].state = "answered" /\ wait'[r].text = AnswerText(wait[r])
          /\ wait'[r].after = wait[r].after /\ wait'[r].alone = wait[r].alone
      BY <2>1, <2>4, <3>1, AnsweredIs
    <3> QED BY <2>2, <2>4, <3>2
  <2>5. CASE wait[r].state = "ended" /\ wait'[r] = [wait[r] EXCEPT !.state = "expired"]
    <3>1. /\ wait'[r] \in Row /\ wait'[r].state = "expired" /\ wait'[r].text = wait[r].text
          /\ wait'[r].after = wait[r].after /\ wait'[r].alone = wait[r].alone
      BY <2>1, <2>5 DEF Row
    <3> QED BY <2>2, <2>5, <3>1
  <2>6. wait'[r] = IF wait[r].state # "ended" THEN wait[r]
            ELSE IF AnswerText(wait[r]) # {} THEN Answered(wait[r], AnswerText(wait[r]))
            ELSE IF r \in late THEN [wait[r] EXCEPT !.state = "expired"] ELSE wait[r]
    BY <1>1
  <2> QED BY <2>3, <2>4, <2>5, <2>6
<1>4. wait' \in [Turn -> Row]
  BY <1>1, <1>3
<1>5. \E r \in Turn : wait'[r] # wait[r]
  <2> SUFFICES ASSUME \A r \in Turn : wait'[r] = wait[r] PROVE FALSE
    OBVIOUS
  <2>1. wait' = [r \in Turn |-> wait'[r]] /\ wait = [r \in Turn |-> wait[r]]
    BY <1>2, <1>4
  <2>2. wait' = wait
    BY <2>1
  <2> QED BY <1>1, <2>2
<1>6. ~carries
  BY <1>3, <1>5 DEF RowsFit
<1>7. \A r \in Turn : /\ wait'[r].state = "none" <=> wait[r].state = "none"
                      /\ wait'[r].state = "waiting" <=> wait[r].state = "waiting"
  <2> TAKE r \in Turn
  <2>1. CASE wait'[r] = wait[r]
    BY <2>1
  <2>2. CASE wait[r].state = "ended" /\ wait'[r].state \in {"answered", "expired"}
    BY <2>2
  <2> QED BY <1>3, <2>1, <2>2
<1>8. Held(wait') = Held(wait) /\ In(wait', {"waiting"}) = In(wait, {"waiting"})
  BY <1>7 DEF Held, In
<1> QED BY <1>1, <1>3, <1>4, <1>6, <1>8
\* An open poll's answers go to waiting rows, whatever becomes of the others.
LEMMA AnswersElsewhere ==
  ASSUME ~carries, UNCHANGED <<carries, kind, events>>, wait \in [Turn -> Row], wait' \in [Turn -> Row],
         BridgeTypes, NEW n \in 0..Len(events), NEW f, Answering(f, wait, events, n),
         \A r \in Turn : wait[r].state = "waiting" <=> wait'[r].state = "waiting",
         \A r \in Turn : wait[r].state = "waiting" => wait'[r] = wait[r]
  PROVE  \E g : /\ Answering(g, wait, events, n)'
                /\ \A r \in Turn : g[n][r] = IF wait[r].state = "waiting" THEN f[n][r] ELSE wait'[r]
<1>1. events \in Seq(Turn) /\ n \in Nat /\ n <= Len(events) /\ \A i \in 1..n : events[i] \in Turn
  BY DEF BridgeTypes
<1>2. f \in [0..n -> [Turn -> Row]] /\ f[0] = wait /\ \A i \in 1..n : f[i] = OnResult(f[i - 1], events[i])
  BY DEF Answering
<1>12. PICK g : g = [i \in 0..n |-> [r \in Turn |-> IF wait[r].state = "waiting" THEN f[i][r] ELSE wait'[r]]]
  OBVIOUS
<1>3. g \in [0..n -> [Turn -> Row]] /\ \A i \in 0..n : \A r \in Turn : g[i][r] = IF wait[r].state = "waiting" THEN f[i][r] ELSE wait'[r]
  BY <1>2, <1>12
<1>4. \A i \in 0..n : f[i] \in [Turn -> Row] /\ g[i] \in [Turn -> Row]
  BY <1>2, <1>3
<1>5. g[0] = wait'
  <2>1. 0 \in 0..n
    BY <1>1
  <2>2. \A r \in Turn : g[0][r] = wait'[r]
    BY <1>2, <1>3, <2>1
  <2>3. g[0] \in [Turn -> Row]
    BY <1>4, <2>1
  <2> QED BY <2>2, <2>3
<1>6. \A i \in 0..n : \A r \in Turn : wait[r].state # "waiting" => f[i][r] = wait[r]
  BY <1>1, RowsAfter
<1>7. ASSUME NEW i \in 1..n PROVE g[i] = OnResult(g[i - 1], events[i])
  <2> DEFINE a == f[i - 1]
             b == g[i - 1]
             e == events[i]
  <2>1. i - 1 \in 0..n /\ i \in 0..n /\ e \in Turn /\ f[i] = OnResult(a, e)
    BY <1>1, <1>2
  <2>2. a \in [Turn -> Row] /\ b \in [Turn -> Row] /\ g[i] \in [Turn -> Row] /\ f[i] \in [Turn -> Row]
    BY <1>4, <2>1
  <2>3. \A r \in Turn : /\ b[r] = IF wait[r].state = "waiting" THEN a[r] ELSE wait'[r]
                        /\ g[i][r] = IF wait[r].state = "waiting" THEN f[i][r] ELSE wait'[r]
                        /\ wait[r].state # "waiting" => a[r] = wait[r]
    BY <1>3, <1>6, <2>1
  <2> HIDE DEF a, b, e
  <2>4. In(a, {"waiting"}) = In(b, {"waiting"})
    BY <2>3 DEF In
  <2>5. CASE kind[e] = "effort" \/ In(a, {"waiting"}) = {}
    <3>1. OnResult(a, e) = a /\ OnResult(b, e) = b
      BY <2>4, <2>5 DEF OnResult
    <3>2. \A r \in Turn : g[i][r] = b[r]
      BY <2>1, <2>3, <3>1
    <3>3. g[i] = b
      BY <2>2, <3>2
    <3> QED BY <3>1, <3>3 DEF b, e
  <2>6. CASE ~(kind[e] = "effort" \/ In(a, {"waiting"}) = {})
    <3> DEFINE m == Min(In(a, {"waiting"}))
    <3>1. In(a, {"waiting"}) \in SUBSET Nat
      BY TurnsAreNat DEF In
    <3>2. m \in In(a, {"waiting"})
      BY <2>6, <3>1, LeastIs
    <3>3. OnResult(a, e) = [a EXCEPT ![m] = Ended(a[m])] /\ OnResult(b, e) = [b EXCEPT ![m] = Ended(b[m])]
      BY <2>4, <2>6 DEF OnResult
    <3> HIDE DEF m
    <3>4. m \in Turn /\ wait[m].state = "waiting" /\ b[m] = a[m]
      BY <2>3, <3>2 DEF In
    <3>5. Ended(a[m]) \in Row
      BY <2>2, <3>4, EndedIs
    <3>6. \A r \in Turn : g[i][r] = IF r = m THEN Ended(b[m]) ELSE b[r]
      <4> TAKE r \in Turn
      <4>1. f[i][r] = IF r = m THEN Ended(a[m]) ELSE a[r]
        BY <2>1, <2>2, <3>3, <3>4
      <4> QED BY <2>3, <3>4, <4>1
    <3>7. g[i] = [b EXCEPT ![m] = Ended(b[m])]
      BY <2>2, <3>4, <3>6
    <3> QED BY <3>3, <3>7 DEF b, e
  <2> QED BY <2>5, <2>6
<1>8. \A rows, t : OnResult(rows, t)' = OnResult(rows, t)
  BY DEF OnResult
<1>9. Answering(g, wait, events, n)'
  <2>1. g \in [0..n -> [Turn -> Row]]
    BY <1>3
  <2>3. \A i \in 1..n : g[i] = OnResult(g[i - 1], events[i])'
    <3> TAKE i \in 1..n
    <3>1. g[i] = OnResult(g[i - 1], events[i])
      BY <1>7
    <3>2. /\ kind' = kind /\ carries' = carries /\ events' = events
      OBVIOUS
    <3> QED BY <3>1, <3>2 DEF OnResult
  <2> QED BY <1>5, <2>1, <2>3 DEF Answering
<1>10. n \in 0..n
  BY <1>1
<1>11. \A r \in Turn : g[n][r] = IF wait[r].state = "waiting" THEN f[n][r] ELSE wait'[r]
  BY <1>3, <1>10
<1> QED BY <1>9, <1>11, Zenon

LEMMA ResumesKeeps == ASSUME BridgeInv, NEW late \in SUBSET In(wait, {"ended"}), Resumes(late) PROVE BridgeInv'
<1>1. /\ BridgeTypes /\ RowsFit(wait) /\ EnoughToCome(wait, events) /\ InTurn(wait, events, Asked)
      /\ Unique(events) /\ TxFit /\ SendsFit /\ NumbersFit /\ PollsFit /\ wait \in [Turn -> Row]
  BY DEF BridgeInv, Good, BridgeTypes
<1>2. /\ UNCHANGED <<carries, nextSeq, stored, tx, cmds, events, queue, begun, lines, kind, lost>>
      /\ ~carries /\ wait' \in [Turn -> Row]
      /\ Held(wait') = Held(wait) /\ In(wait', {"waiting"}) = In(wait, {"waiting"})
  BY <1>1, ResumesShape
<1>3. \A r \in Turn :
         \/ wait'[r] = wait[r]
         \/ /\ wait[r].state = "ended" /\ wait[r].text = {} /\ kind[r] = "ask" /\ r \in Sent
            /\ \/ wait'[r].state = "answered" /\ wait'[r].text # {}
               \/ wait'[r].state = "expired" /\ wait'[r].text = {}
  <2> TAKE r \in Turn
  <2>1. \/ wait'[r] = wait[r]
        \/ /\ wait[r].state = "ended" /\ wait[r].text = {} /\ kind[r] = "ask" /\ r \in Sent
           /\ wait'[r].after = wait[r].after /\ wait'[r].alone = wait[r].alone
           /\ \/ /\ wait'[r].state = "answered" /\ wait'[r].text = AnswerText(wait[r])
                 /\ AnswerText(wait[r]) # {}
              \/ wait'[r].state = "expired" /\ wait'[r].text = {}
    BY <1>1, ResumesShape
  <2> QED BY <2>1
<1>4. BridgeTypes'
  BY <1>1, <1>2 DEF BridgeTypes
<1>5. /\ Sent' = Sent /\ Asked' = Asked /\ OnWay(events)' = OnWay(events)
      /\ (\A v \in Worker : AskedBy(v)' = AskedBy(v)) /\ \A p, t : Late(p, t, events)' <=> Late(p, t, events)
  BY <1>2 DEF Sent, Asked, AskedBy, OnWay, Way, CmdTurns, Late
<1>6. RowsFit(wait)'
  <2> SUFFICES ASSUME NEW r \in Turn
               PROVE  /\ wait'[r].state = "answered" <=> wait'[r].text # {}
                      /\ wait'[r].state # "none" => r \in Sent /\ kind[r] = "ask"
                      /\ wait'[r].state \in {"ended", "expired"} => ~carries
    BY <1>2, <1>5 DEF RowsFit
  <2>1. CASE wait'[r] = wait[r]
    <3> DEFINE x == wait[r]
    <3>1. /\ x.state = "answered" <=> x.text # {}
          /\ x.state # "none" => r \in Sent /\ kind[r] = "ask"
      BY <1>1 DEF RowsFit
    <3>2. wait'[r] = x
      BY <2>1
    <3> HIDE DEF x
    <3> QED BY <1>2, <3>1, <3>2
  <2>2. CASE wait'[r] # wait[r]
    BY <1>2, <1>3, <2>2
  <2> QED BY <2>1, <2>2
<1>7. EnoughToCome(wait, events)'
  BY <1>1, <1>2, <1>5 DEF EnoughToCome
<1>8. InTurn(wait, events, Asked)'
  BY <1>1, <1>2, <1>5 DEF InTurn
<1>9. Good(wait, events, Asked)'
  BY <1>2, <1>6, <1>7, <1>8 DEF Good
<1>10. Unique(events)' /\ TxFit' /\ NumbersFit'
  <2>1. Unique(events)'
    BY <1>1, <1>2, <1>5 DEF Unique, Way, CmdTurns
  <2>2. TxFit'
    BY <1>1, <1>2 DEF TxFit
  <2>3. NumbersFit'
    BY <1>1, <1>2 DEF NumbersFit
  <2> QED BY <2>1, <2>2, <2>3
<1>11. SendsFit'
  BY <1>1, <1>2, <1>5 DEF SendsFit
<1>12. PollsFit'
  <2>1. \A r \in Turn : /\ wait[r].state = "waiting" <=> wait'[r].state = "waiting"
                        /\ wait[r].state = "waiting" => wait'[r] = wait[r]
    <3> TAKE r \in Turn
    <3>1. CASE wait'[r] = wait[r]
      BY <3>1
    <3>2. CASE wait[r].state = "ended" /\ wait'[r].state \in {"answered", "expired"}
      BY <3>2
    <3> QED BY <1>3, <3>1, <3>2
  <2>2. ASSUME NEW w \in Worker, tx[w].at = "poll"
        PROVE  \E g : /\ Answering(g, wait, events, tx[w].read)'
                      /\ tx[w].rows = [r \in Turn |-> IF g[tx[w].read][r] # wait'[r] THEN g[tx[w].read][r] ELSE NoRow]
    <3> DEFINE n == tx[w].read
    <3>1. PICK f : /\ Answering(f, wait, events, n)
                   /\ tx[w].rows = [r \in Turn |-> IF f[n][r] # wait[r] THEN f[n][r] ELSE NoRow]
      BY <1>1, <2>2 DEF PollsFit
    <3>2. n \in 0..Len(events) /\ n \in 0..n
      <4>1. n \in Nat /\ Len(events) \in Nat /\ n <= Len(events)
        BY <1>1, <2>2 DEF TxFit, BridgeTypes, Tx
      <4> QED BY <4>1
    <3>3. PICK g : /\ Answering(g, wait, events, n)'
                   /\ \A r \in Turn : g[n][r] = IF wait[r].state = "waiting" THEN f[n][r] ELSE wait'[r]
      BY <1>1, <1>2, <2>1, <3>1, <3>2, AnswersElsewhere
    <3>4. \A r \in Turn : wait[r].state # "waiting" => f[n][r] = wait[r]
      BY <1>1, <3>1, <3>2, RowsAfter
    <3>5. \A r \in Turn : (IF f[n][r] # wait[r] THEN f[n][r] ELSE NoRow) = (IF g[n][r] # wait'[r] THEN g[n][r] ELSE NoRow)
      BY <2>1, <3>3, <3>4
    <3>6. tx[w].rows = [r \in Turn |-> IF g[n][r] # wait'[r] THEN g[n][r] ELSE NoRow]
      BY <3>1, <3>5
    <3>7. Answering(g, wait, events, tx[w].read)'
      BY <1>2, <3>3
    <3> QED BY <3>6, <3>7
  <2>3. tx' = tx
    BY <1>2
  <2> QED BY <2>2, <2>3 DEF PollsFit
<1> QED BY <1>4, <1>9, <1>10, <1>11, <1>12 DEF BridgeInv
----
(***************************************************************************)
(* The first state, and what follows of the rows.                          *)
(***************************************************************************)
LEMMA InitKeeps == BridgeInit => BridgeInv /\ WordsInv
<1> SUFFICES ASSUME BridgeInit PROVE BridgeInv /\ WordsInv
  OBVIOUS
<1>1. /\ carries \in BOOLEAN /\ wait = [r \in Turn |-> NoRow] /\ nextSeq = 1 /\ stored = 0
      /\ tx = [w \in Worker |-> NoTx] /\ cmds = {} /\ queue = <<>> /\ begun = FALSE /\ events = <<>>
      /\ lines = <<>> /\ kind = <<>> /\ lost = {}
  BY DEF BridgeInit
<1>2. /\ \A r \in Turn : wait[r].state = "none" /\ wait[r].text = {}
      /\ \A w \in Worker : tx[w] = NoTx
  BY <1>1, NoneAsked
<1>3. BridgeTypes
  <2>1. wait \in [Turn -> Row] /\ tx \in [Worker -> Tx]
    BY <1>1, NoRowIsTyped
  <2>2. Len(kind) = 0 /\ Len(lines) = 0 /\ 0 <= MaxTurns
    BY <1>1, BridgeAssumption
  <2>3. /\ kind \in Seq({"ask", "effort", "prompt"}) /\ queue \in Seq(Turn) /\ events \in Seq(Turn)
        /\ lines \in Seq([turn : Turn, what : {"prompt", "text"}])
    BY <1>1
  <2>4. cmds \subseteq [turn : Turn, seq : Nat \ {0}] /\ lost \subseteq Turn /\ (begun => queue # <<>>)
    BY <1>1
  <2>5. nextSeq \in Nat \ {0}
    BY <1>1
  <2>7. begun \in BOOLEAN
    BY <1>1, Zenon
  <2>6. stored \in 0..Len(lines) /\ Len(kind) <= MaxTurns
    BY <1>1, <2>2
  <2> QED BY <1>1, <2>1, <2>3, <2>4, <2>5, <2>6, <2>7 DEF BridgeTypes
<1>4. /\ Held(wait) = {} /\ (\A S : In(wait, S \ {"none"}) = {}) /\ Texts(wait) = {}
      /\ (\A w \in Worker : AskedBy(w) = {}) /\ Asked = {} /\ Sent = {}
  <2>1. Held(wait) = {} /\ (\A S : In(wait, S \ {"none"}) = {}) /\ Texts(wait) = {}
    BY <1>2 DEF Held, In, Texts
  <2>2. \A w \in Worker : AskedBy(w) = {}
    BY <1>2, NoneAsked DEF AskedBy
  <2>3. Sent = {}
    BY <1>1 DEF Sent
  <2> QED BY <2>1, <2>2, <2>3 DEF Asked
<1>5. Way(events) = <<>> /\ Len(Way(events)) = 0 /\ CmdTurns = {} /\ OnWay(events) = {}
  <2>1. Way(events) = <<>> /\ CmdTurns = {}
    BY <1>1 DEF Way, CmdTurns
  <2>2. Len(Way(events)) = 0
    BY <2>1
  <2> QED BY <2>1, <2>2 DEF OnWay
<1>6. In(wait, {"waiting"}) = {} /\ In(wait, {"answered"}) = {} /\ In(wait, {"expired"}) = {}
  BY <1>2 DEF In
<1>7. Good(wait, events, Asked)
  <2>1. RowsFit(wait)
    BY <1>2 DEF RowsFit
  <2>2. EnoughToCome(wait, events)
    <3>1. Held(wait) \cap (lost \cup OnWay(events)) = {}
      BY <1>4
    <3>2. Cardinality({}) \in Nat
      BY Counts
    <3> QED BY <1>6, <3>1, <3>2 DEF EnoughToCome
  <2>3. InTurn(wait, events, Asked) /\ OneEach(wait, events) /\ Nearby(wait)
    BY <1>4, <1>5, <1>6 DEF InTurn, OneEach, Nearby
  <2> QED BY <2>1, <2>2, <2>3 DEF Good
<1>8. Unique(events)
  BY <1>1, <1>5 DEF Unique
<1>9. TxFit /\ SendsFit /\ NumbersFit /\ PollsFit
  <2>1. TxFit
    BY <1>2, NoneAsked DEF TxFit
  <2>2. SendsFit
    BY <1>4 DEF SendsFit
  <2>3. NumbersFit
    BY <1>1 DEF NumbersFit
  <2>4. PollsFit
    BY <1>2, NoneAsked DEF PollsFit
  <2> QED BY <2>1, <2>2, <2>3, <2>4
<1>10. LinesFit /\ LinesAfter
  <2>1. LinesFit
    BY <1>1 DEF LinesFit
  <2>2. LinesAfter
    BY <1>1, <1>4 DEF LinesAfter
  <2> QED BY <2>1, <2>2
<1>11. OwnWords
  BY <1>4, <1>6 DEF OwnWords
<1> QED BY <1>3, <1>7, <1>8, <1>9, <1>10, <1>11 DEF BridgeInv, WordsInv

\* What the rows promise, in the specification's words.
LEMMA WaysAre ==
  ASSUME BridgeTypes
  PROVE  OnTheWay = OnWay(events) /\ Held(wait) = Rows
<1>1. events \in Seq(Turn) /\ queue \in Seq(Turn)
  BY DEF BridgeTypes
<1>2. /\ Len(events) \in Nat /\ Len(queue) \in Nat /\ Len(Way(events)) = Len(events) + Len(queue)
      /\ \A i \in 1..Len(Way(events)) : Way(events)[i] = IF i <= Len(events) THEN events[i] ELSE queue[i - Len(events)]
  BY <1>1, WayIs
<1> DEFINE W == Way(events)
           E == {events[i] : i \in 1..Len(events)}
           Q == {queue[i] : i \in 1..Len(queue)}
<1>3. \A i \in 1..Len(events) : i \in 1..Len(W) /\ W[i] = events[i]
  BY <1>2
<1>4. \A i \in 1..Len(queue) : Len(events) + i \in 1..Len(W) /\ W[Len(events) + i] = queue[i]
  <2> TAKE i \in 1..Len(queue)
  <2> DEFINE k == Len(events) + i
  <2>1. k \in 1..Len(W) /\ ~(k <= Len(events)) /\ k - Len(events) = i
    BY <1>2
  <2> QED BY <1>2, <2>1
<1>5. \A i \in 1..Len(W) : i \in 1..Len(events) \/ i - Len(events) \in 1..Len(queue)
  BY <1>2
<1>6. \A i \in 1..Len(W) : W[i] \in E \cup Q
  <2> TAKE i \in 1..Len(W)
  <2>1. CASE i \in 1..Len(events)
    BY <1>3, <2>1
  <2>2. CASE ~(i \in 1..Len(events))
    <3>1. ~(i <= Len(events)) /\ i - Len(events) \in 1..Len(queue)
      BY <1>2, <1>5, <2>2
    <3>2. W[i] = queue[i - Len(events)]
      BY <1>2, <3>1
    <3> QED BY <3>1, <3>2
  <2> QED BY <2>1, <2>2
<1>7. {W[i] : i \in 1..Len(W)} = E \cup Q
  BY <1>3, <1>4, <1>6
<1>8. OnWay(events) = CmdTurns \cup (E \cup Q)
  BY <1>7 DEF OnWay, W
<1>9. OnTheWay = OnWay(events)
  BY <1>8 DEF OnTheWay, CmdTurns
<1> QED BY <1>9 DEF Held, Rows

LEMMA TypesFollow == ASSUME BridgeInv PROVE BridgeTypeOK
<1>1. BridgeTypes /\ RowsFit(wait) /\ TxFit /\ Unique(events)
  BY DEF BridgeInv, Good
<1>2. wait \in [Turn -> Row] /\ nextSeq \in Nat \ {0} /\ stored \in 0..Len(lines)
  BY <1>1 DEF BridgeTypes
<1>3. \A r \in Turn : /\ wait[r].state = "answered" <=> wait[r].text # {}
                      /\ wait[r].state # "none" => kind[r] = "ask"
                      /\ wait[r].state \in {"ended", "expired"} => ~carries
  BY <1>1 DEF RowsFit
<1>4. \A w \in Worker : tx[w].read <= Len(events)
  <2> TAKE w \in Worker
  <2>1. Len(events) \in Nat
    BY <1>1 DEF BridgeTypes
  <2>2. tx[w].read = 0 \/ tx[w].read <= Len(events)
    BY <1>1 DEF TxFit
  <2> QED BY <2>1, <2>2
<1>5. {c.turn : c \in cmds} \cap {queue[i] : i \in 1..Len(queue)} = {}
  <2>1. /\ Len(events) \in Nat /\ Len(queue) \in Nat /\ Len(Way(events)) = Len(events) + Len(queue)
        /\ \A i \in 1..Len(Way(events)) : Way(events)[i] = IF i <= Len(events) THEN events[i] ELSE queue[i - Len(events)]
    BY <1>1, WayIs DEF BridgeTypes
  <2>2. ASSUME NEW i \in 1..Len(queue) PROVE queue[i] \notin CmdTurns
    <3> DEFINE k == Len(events) + i
    <3>1. k \in 1..Len(Way(events)) /\ ~(k <= Len(events)) /\ k - Len(events) = i
      BY <2>1
    <3>2. Way(events)[k] = queue[i]
      BY <2>1, <3>1
    <3> QED BY <1>1, <3>1, <3>2 DEF Unique
  <2> QED BY <2>2 DEF CmdTurns
<1> QED BY <1>2, <1>3, <1>4, <1>5 DEF BridgeTypeOK

LEMMA NoneIsStranded == ASSUME BridgeInv PROVE NoWaitIsStranded
<1>1. BridgeTypes /\ EnoughToCome(wait, events) /\ OnTheWay = OnWay(events) /\ Held(wait) = Rows
  BY WaysAre DEF BridgeInv, Good
<1> DEFINE H == Rows
           B == Rows \cap OnTheWay
           W == In(wait, {"waiting"})
<1>2. lost \in SUBSET Turn /\ H \in SUBSET Turn /\ B \in SUBSET Turn /\ W \in SUBSET Turn
  BY <1>1, LostIs DEF Rows, In
<1>3. Cardinality(W) <= Cardinality(H \cap (lost \cup OnTheWay))
  BY <1>1 DEF EnoughToCome
<1>4. H \cap (lost \cup OnTheWay) \subseteq lost \cup B
  OBVIOUS
<1> DEFINE X == H \cap (lost \cup OnTheWay)
<1>5. X \in SUBSET Turn /\ X \subseteq lost \cup B /\ lost \cup B \in SUBSET Turn /\ Cardinality(W) <= Cardinality(X)
  BY <1>2, <1>3, <1>4
<1> HIDE DEF H, B, W, X
<1>6. Cardinality(X) <= Cardinality(lost \cup B) /\ Cardinality(lost \cup B) <= Cardinality(lost) + Cardinality(B)
  BY <1>2, <1>5, Counts
<1>7. /\ Cardinality(X) \in Nat /\ Cardinality(lost \cup B) \in Nat /\ Cardinality(lost) \in Nat /\ Cardinality(B) \in Nat
      /\ Cardinality(W) \in Nat
  BY <1>2, <1>5, Counts
<1>8. Cardinality(W) <= Cardinality(lost) + Cardinality(B)
  BY ONLY <1>5, <1>6, <1>7
<1> QED BY <1>8 DEF NoWaitIsStranded, W, B

LEMMA CarriedAreNear == ASSUME BridgeInv PROVE CarriedAnswersStayNear
<1> SUFFICES ASSUME carries, NEW r \in In(wait, {"answered"})
             PROVE  /\ \A t \in wait[r].text : Near(r, t)
                    /\ \A q \in In(wait, {"answered"}) \ {r} : wait[q].text \cap wait[r].text = {}
  BY DEF CarriedAnswersStayNear
<1>1. /\ BridgeTypes /\ OneEach(wait, events) /\ Nearby(wait) /\ Held(wait) = Rows
      /\ r \in Turn /\ r \in Rows
  <2>1. BridgeTypes /\ OneEach(wait, events) /\ Nearby(wait) /\ Held(wait) = Rows
    BY WaysAre DEF BridgeInv, Good
  <2> QED BY <2>1 DEF In, Rows
<1>2. \A q \in In(wait, {"answered"}) \ {r} : wait[q].text \cap wait[r].text = {}
  BY <1>1 DEF OneEach
<1>3. ASSUME NEW t \in wait[r].text PROVE Near(r, t)
  <2> DEFINE A == {q \in Rows : r < q /\ q <= t}
             L == {l \in lost : l < t}
             B == {q \in Rows : t <= q /\ q < r}
             F == {f \in Rowless : f < r}
  <2>1. {g \in Sent : kind[g] # "effort"} \ Held(wait) = Rowless
    BY <1>1 DEF Rowless, Sent
  <2>2. Cardinality(A) <= Cardinality(L) /\ (t \in Rows => Cardinality(B) <= Cardinality(F))
    BY <1>1, <2>1 DEF Nearby
  <2>3. t \in Sent /\ kind[t] # "effort" /\ t \in Turn /\ t \in Nat /\ r \in Nat
    <3>1. PICK u \in Sent : kind[u] # "effort" /\ wait[r].text = {u}
      BY <1>1 DEF OneEach
    <3> QED BY <1>1, <3>1, SentIs, TurnsAreNat
  <2>4. A \in SUBSET Turn /\ L \in SUBSET Turn /\ B \in SUBSET Turn /\ F \in SUBSET Turn
    <3>1. Rows \subseteq Turn /\ lost \subseteq Turn /\ Rowless \subseteq Turn
      BY <1>1, SentIs, LostIs DEF Rows, Rowless, Sent
    <3> QED BY <3>1
  <2>5. ASSUME t # r PROVE lost \cup Rowless # {}
    <3>1. CASE t \notin Rows
      BY <2>3, <3>1 DEF Rowless, Sent
    <3>2. CASE t \in Rows /\ r < t
      <4>1. t \in A
        BY <2>3, <3>2
      <4> HIDE DEF A, L
      <4>2. /\ Cardinality(A) \in Nat /\ Cardinality(L) \in Nat
            /\ Cardinality(A) # 0 /\ (Cardinality(L) = 0 <=> L = {})
        BY <2>4, <4>1, Counts
      <4>3. L # {}
        BY <2>2, <4>2
      <4> QED BY <4>3 DEF L
    <3>3. CASE t \in Rows /\ t < r
      <4>1. t \in B
        BY <2>3, <3>3
      <4>2. Cardinality(B) <= Cardinality(F)
        BY <2>2, <3>3
      <4> HIDE DEF B, F
      <4>3. /\ Cardinality(B) \in Nat /\ Cardinality(F) \in Nat
            /\ Cardinality(B) # 0 /\ (Cardinality(F) = 0 <=> F = {})
        BY <2>4, <4>1, Counts
      <4>4. F # {}
        BY <4>2, <4>3
      <4> QED BY <4>4 DEF F
    <3> QED BY <2>3, <2>5, <3>1, <3>2, <3>3
  <2> QED BY <2>2, <2>5 DEF Near
<1> QED BY <1>2, <1>3
----
(***************************************************************************)
(* The runner's log of prompts and words.                                  *)
(***************************************************************************)
LEMMA LinesAre ==
  ASSUME BridgeTypes
  PROVE  /\ Len(lines) \in Nat /\ stored \in Nat /\ stored <= Len(lines)
         /\ \A i \in 1..Len(lines) : lines[i] \in [turn : Turn, what : {"prompt", "text"}]
<1> DEFINE L == [turn : Turn, what : {"prompt", "text"}]
<1>1. lines \in Seq(L) /\ stored \in 0..Len(lines)
  BY DEF BridgeTypes
<1> HIDE DEF L
<1>2. Len(lines) \in Nat /\ \A i \in 1..Len(lines) : lines[i] \in L
  BY <1>1, LenProperties, ElementOfSeq
<1> QED BY <1>1, <1>2 DEF L

\* The lines so far stay.
LinesStay == Len(lines) <= Len(lines') /\ \A i \in 1..Len(lines) : lines'[i] = lines[i]

LEMMA PromptsStay ==
  ASSUME BridgeTypes, BridgeTypes', LinesStay, NEW n \in Nat, n <= Len(lines), NEW m \in Nat, n <= m
  PROVE  \A b : PromptBy(b, n) => PromptBy(b, m)'
<1> SUFFICES ASSUME NEW b, PromptBy(b, n) PROVE \E i \in 1..m : lines'[i] = [turn |-> b, what |-> "prompt"]
  BY DEF PromptBy
<1>1. PICK i \in 1..n : lines[i] = [turn |-> b, what |-> "prompt"]
  BY DEF PromptBy
<1>2. i \in 1..Len(lines) /\ i \in 1..m
  BY LinesAre
<1>3. lines'[i] = [turn |-> b, what |-> "prompt"]
  BY <1>1, <1>2 DEF LinesStay
<1> QED BY <1>2, <1>3

\* Rows that are not committed are no rows yet, and come after all that are.
LEMMA AskedAre ==
  ASSUME BridgeInv
  PROVE  /\ Held(wait) = Rows /\ Held(wait) \subseteq Nat /\ Asked \subseteq Nat
         /\ \A s \in Asked : s \in Rowless /\ s \in Sent /\ kind[s] = "ask" /\ \A q \in Held(wait) : q < s
<1>1. BridgeTypes /\ SendsFit /\ Held(wait) = Rows /\ Held(wait) \in SUBSET Turn
  BY DEF BridgeInv, Held, Rows
<1>2. Asked \in SUBSET Turn
  BY <1>1, LostIs
<1>3. ASSUME NEW s \in Asked PROVE s \in Rowless /\ s \in Sent /\ kind[s] = "ask" /\ \A q \in Held(wait) : q < s
  <2>1. PICK w \in Worker : s \in AskedBy(w)
    BY DEF Asked
  <2>2. s \in Sent /\ kind[s] = "ask" /\ \A q \in Held(wait) : q < s
    BY <1>1, <2>1 DEF SendsFit
  <2>3. s \in Nat
    BY <1>2, TurnsAreNat
  <2>4. s \notin Held(wait)
    <3> SUFFICES ASSUME s \in Held(wait) PROVE FALSE
      OBVIOUS
    <3>1. s < s
      BY <2>2
    <3> QED BY <2>3, <3>1
  <2>5. s \in Rowless
    BY <1>1, <2>2, <2>4 DEF Rowless, Sent
  <2> QED BY <2>2, <2>5
<1> QED BY <1>1, <1>2, <1>3, TurnsAreNat

\* The uncommitted rows stay as they are.
AsksStay ==
    \A w \in Worker : AskedBy(w)' = AskedBy(w) /\ \A r \in AskedBy(w) : tx'[w].rows[r] = tx[w].rows[r]

LEMMA LinesAfterStays ==
  ASSUME BridgeTypes, BridgeTypes', LinesAfter, UNCHANGED wait, AsksStay, LinesStay, stored <= stored'
  PROVE  LinesAfter'
<1>1. /\ Len(lines) \in Nat /\ stored \in Nat /\ stored <= Len(lines) /\ Len(lines') \in Nat /\ stored' \in Nat
      /\ \A i \in 1..Len(lines) : lines'[i] = lines[i]
  BY LinesAre DEF LinesStay, BridgeTypes
<1>2. wait' = wait /\ Held(wait)' = Held(wait) /\ \A r \in Held(wait) : wait[r].after \in Nat
  BY DEF Held, BridgeTypes, Row
<1>3. \A w \in Worker : \A r \in AskedBy(w) : tx[w].rows[r].after \in Nat
  BY DEF AskedBy, BridgeTypes, Tx, Row
<1>4. \A r \in Held(wait) : wait[r].after <= stored'
  <2> TAKE r \in Held(wait)
  <2>1. wait[r].after <= stored /\ wait[r].after \in Nat
    BY <1>2 DEF LinesAfter
  <2> QED BY <1>1, <2>1
<1>5. \A w \in Worker : \A r \in AskedBy(w) : tx'[w].rows[r].after <= stored'
  <2> TAKE w \in Worker
  <2> TAKE r \in AskedBy(w)
  <2>1. tx[w].rows[r].after <= stored /\ tx[w].rows[r].after \in Nat /\ tx'[w].rows[r] = tx[w].rows[r]
    BY <1>3 DEF LinesAfter, AsksStay
  <2> QED BY <1>1, <2>1
<1>6. ASSUME NEW i \in 1..Len(lines')
      PROVE  /\ lines'[i].turn \in Held(wait) => wait[lines'[i].turn].after < i
             /\ \A w \in Worker : lines'[i].turn \in AskedBy(w) => tx'[w].rows[lines'[i].turn].after < i
  <2> DEFINE t == lines'[i].turn
  <2> SUFFICES /\ t \in Held(wait) => wait[t].after < i
               /\ \A w \in Worker : t \in AskedBy(w) => tx'[w].rows[t].after < i
    OBVIOUS
  <2>1. CASE i <= Len(lines)
    <3>1. i \in 1..Len(lines)
      BY <1>1, <2>1
    <3>2. t = lines[i].turn
      BY <1>1, <3>1
    <3>3. t \in Held(wait) => wait[t].after < i
      BY <3>1, <3>2 DEF LinesAfter
    <3>4. ASSUME NEW w \in Worker, t \in AskedBy(w) PROVE tx'[w].rows[t].after < i
      <4>1. tx[w].rows[t].after < i
        BY <3>1, <3>2, <3>4 DEF LinesAfter
      <4>2. tx'[w].rows[t] = tx[w].rows[t]
        BY <3>4 DEF AsksStay
      <4> QED BY <4>1, <4>2
    <3> QED BY <3>3, <3>4
  <2>2. CASE i > Len(lines)
    <3>0. i \in Nat
      BY <1>1
    <3> HIDE DEF t
    <3>1. t \in Held(wait) => wait[t].after < i
      <4> SUFFICES ASSUME t \in Held(wait) PROVE wait[t].after < i
        OBVIOUS
      <4>1. wait[t].after <= stored /\ wait[t].after \in Nat
        BY <1>2 DEF LinesAfter
      <4> QED BY <1>1, <2>2, <3>0, <4>1
    <3>2. ASSUME NEW w \in Worker, t \in AskedBy(w) PROVE tx'[w].rows[t].after < i
      <4>1. tx[w].rows[t].after <= stored /\ tx[w].rows[t].after \in Nat /\ tx'[w].rows[t] = tx[w].rows[t]
        BY <1>3, <3>2 DEF LinesAfter, AsksStay
      <4> QED BY <1>1, <2>2, <3>0, <4>1
    <3> QED BY <3>1, <3>2
  <2> QED BY <1>1, <2>1, <2>2
<1>7. \A w \in Worker : AskedBy(w)' = AskedBy(w)
  BY DEF AsksStay
<1> QED BY <1>2, <1>4, <1>5, <1>6, <1>7 DEF LinesAfter

\* Nothing that a row or a request is taken by changes.
LEMMA OwnWordsStay ==
  ASSUME BridgeInv, BridgeTypes', LinesAfter, OwnWords, UNCHANGED <<wait, carries, kind>>, lost \subseteq lost',
         AsksStay, LinesStay, stored <= stored'
  PROVE  OwnWords'
<1>1. /\ BridgeTypes /\ Len(lines) \in Nat /\ stored \in Nat /\ stored <= Len(lines) /\ stored' \in Nat
      /\ wait' = wait /\ Held(wait)' = Held(wait) /\ Rowless' = Rowless /\ (\A S : In(wait, S)' = In(wait, S))
  <2>1. BridgeTypes
    BY DEF BridgeInv
  <2>2. Held(wait)' = Held(wait) /\ Rowless' = Rowless /\ (\A S : In(wait, S)' = In(wait, S))
    BY DEF Held, Rowless, Rows, In
  <2> QED BY <2>1, <2>2, LinesAre DEF BridgeTypes
<1>2. (\A w \in Worker : AskedBy(w)' = AskedBy(w)) /\ Asked' = Asked
  BY DEF AsksStay, Asked
<1>3. \A w \in Worker : \A r \in AskedBy(w) : tx'[w].rows[r] = tx[w].rows[r]
  BY DEF AsksStay
<1> SUFFICES ASSUME SoFarOneByOne'
             PROVE  /\ \A r \in Held(wait), s \in Held(wait) \cup Asked : r < s => wait[r].state = "answered"
                    /\ \A r \in In(wait, {"answered"}) : PromptBy(r, stored)' /\ Asks(wait[r].text)' \subseteq {r} /\ wait[r].text \subseteq Sent'
                    /\ \A r, s \in Held(wait) : r < s => PromptBy(r, wait[s].after)'
                    /\ \A w \in Worker : \A s \in AskedBy(w) : \A r \in Held(wait) : PromptBy(r, tx[w].rows[s].after)'
  BY <1>1, <1>2 DEF OwnWords
<1>4. SoFarOneByOne
  <2>1. /\ ~carries /\ lost = {} /\ In(wait, {"expired"}) = {}
        /\ (\A r \in Held(wait) : wait[r].alone) /\ (\A x, y \in Rowless : x = y) /\ Rowless \subseteq Asked
    BY <1>1, <1>2 DEF SoFarOneByOne
  <2>2. \A w \in Worker : \A r \in AskedBy(w) : tx[w].rows[r].alone
    BY <1>2, <1>3 DEF SoFarOneByOne
  <2> QED BY <2>1, <2>2 DEF SoFarOneByOne
<1>5. /\ \A r \in Held(wait), s \in Held(wait) \cup Asked : r < s => wait[r].state = "answered"
      /\ \A r \in In(wait, {"answered"}) : PromptBy(r, stored) /\ Asks(wait[r].text) \subseteq {r} /\ wait[r].text \subseteq Sent
      /\ \A r, s \in Held(wait) : r < s => PromptBy(r, wait[s].after)
      /\ \A w \in Worker : \A s \in AskedBy(w) : \A r \in Held(wait) : PromptBy(r, tx[w].rows[s].after)
  BY <1>4 DEF OwnWords
<1>6. \A r \in In(wait, {"answered"}) : PromptBy(r, stored)' /\ Asks(wait[r].text)' \subseteq {r} /\ wait[r].text \subseteq Sent'
  <2>1. \A r : PromptBy(r, stored) => PromptBy(r, stored)'
    <3>1. \A i \in 1..stored : i \in 1..stored' /\ lines'[i] = lines[i]
      BY <1>1 DEF LinesStay
    <3> QED BY <3>1 DEF PromptBy
  <2>2. Sent' = Sent
    BY DEF Sent
  <2> QED BY <1>1, <1>5, <2>1, <2>2 DEF Asks
<1>7. ASSUME NEW n \in Nat, n <= stored, NEW r, PromptBy(r, n) PROVE \E i \in 1..n : lines'[i] = [turn |-> r, what |-> "prompt"]
  <2>1. \A i \in 1..n : lines'[i] = lines[i]
    BY <1>1, <1>7 DEF LinesStay
  <2> QED BY <1>7, <2>1 DEF PromptBy
<1>8. \A r, s \in Held(wait) : r < s => PromptBy(r, wait[s].after)'
  <2> SUFFICES ASSUME NEW r \in Held(wait), NEW s \in Held(wait), r < s
               PROVE  \E i \in 1..wait[s].after : lines'[i] = [turn |-> r, what |-> "prompt"]
    BY <1>1 DEF PromptBy
  <2>1. wait[s].after \in Nat /\ wait[s].after <= stored
    BY <1>1 DEF LinesAfter, Held, BridgeTypes, Row
  <2> QED BY <1>5, <1>7, <2>1
<1>9. \A w \in Worker : \A s \in AskedBy(w) : \A r \in Held(wait) : PromptBy(r, tx[w].rows[s].after)'
  <2> SUFFICES ASSUME NEW w \in Worker, NEW s \in AskedBy(w), NEW r \in Held(wait)
               PROVE  \E i \in 1..tx'[w].rows[s].after : lines'[i] = [turn |-> r, what |-> "prompt"]
    BY DEF PromptBy
  <2>1. tx[w].rows[s].after \in Nat /\ tx[w].rows[s].after <= stored
    <3>1. tx[w] \in Tx /\ s \in Turn
      BY <1>1 DEF BridgeTypes, AskedBy
    <3> QED BY <3>1 DEF LinesAfter, Tx, Row
  <2>2. \E i \in 1..tx[w].rows[s].after : lines'[i] = [turn |-> r, what |-> "prompt"]
    BY <1>5, <1>7, <2>1
  <2> QED BY <1>3, <2>2
<1> QED BY <1>5, <1>6, <1>8, <1>9
\* No line is added.
LEMMA LinesFitStays ==
  ASSUME LinesFit, UNCHANGED <<carries, lines>>, Sent \subseteq Sent',
         \A t \in Sent : t \in CmdTurns' => t \in CmdTurns,
         \A j \in 1..Len(queue') : /\ begun => begun'
                                   /\ \/ queue'[j] \in CmdTurns
                                      \/ j \in 1..Len(queue) /\ queue'[j] = queue[j],
         begun' => begun /\ Head(queue') = Head(queue)
  PROVE  LinesFit'
<1>1. \A i \in 1..Len(lines) : lines[i].what = "prompt" =>
         /\ lines[i].turn \notin CmdTurns'
         /\ \A j \in 1..Len(queue') : lines[i].turn = queue'[j] => j = 1 /\ begun'
  <2> SUFFICES ASSUME NEW i \in 1..Len(lines), lines[i].what = "prompt"
               PROVE  /\ lines[i].turn \notin CmdTurns'
                      /\ \A j \in 1..Len(queue') : lines[i].turn = queue'[j] => j = 1 /\ begun'
    OBVIOUS
  <2>1. /\ lines[i].turn \in Sent /\ lines[i].turn \notin CmdTurns
        /\ \A j \in 1..Len(queue) : lines[i].turn = queue[j] => j = 1 /\ begun
    BY DEF LinesFit
  <2> QED BY <2>1
<1>2. begun' /\ ~carries =>
        \E i \in 1..Len(lines) : /\ lines[i] = [turn |-> Head(queue'), what |-> "prompt"]
                                 /\ \A k \in (i + 1)..Len(lines) : lines[k].what = "text"
  BY DEF LinesFit
<1>3. /\ carries => lines = <<>>
      /\ \A i \in 1..Len(lines) : lines[i].turn \in Sent'
      /\ \A i, j \in 1..Len(lines) :
           lines[i].what = "prompt" /\ lines[j].what = "prompt" /\ lines[i].turn = lines[j].turn => i = j
      /\ \A j \in 1..Len(lines) : lines[j].what = "text" =>
           \E i \in 1..(j - 1) : /\ lines[i] = [turn |-> lines[j].turn, what |-> "prompt"]
                                 /\ \A k \in (i + 1)..(j - 1) : lines[k].what = "text"
  BY DEF LinesFit
<1>4. lines' = lines /\ carries' = carries
  OBVIOUS
<1> QED BY <1>1, <1>2, <1>3, <1>4 DEF LinesFit

\* A step of the runner or of the readers: rows and requests stay.
LEMMA QuietWords ==
  ASSUME BridgeInv, BridgeInv', WordsInv, LinesFit', UNCHANGED <<wait, carries, kind>>, lost \subseteq lost',
         AsksStay, LinesStay, stored <= stored'
  PROVE  WordsInv'
<1>1. BridgeTypes /\ BridgeTypes' /\ LinesAfter /\ OwnWords
  BY DEF BridgeInv, WordsInv
<1>2. LinesAfter'
  BY <1>1, LinesAfterStays
<1>3. OwnWords'
  BY <1>1, OwnWordsStay
<1> QED BY <1>2, <1>3 DEF WordsInv

LEMMA SameAsksStay == ASSUME tx' = tx PROVE AsksStay
  BY DEF AsksStay, AskedBy

LEMMA HandlesWords == ASSUME BridgeInv, BridgeInv', WordsInv, NEW c \in cmds, Handles(c) PROVE WordsInv'
<1>1. /\ UNCHANGED <<carries, wait, stored, tx, lines, kind, begun>> /\ cmds' = cmds \ {c} /\ lost \subseteq lost'
      /\ queue' = Append(queue, c.turn) \/ queue' = queue
  BY DEF Handles, dbVars
<1>2. BridgeTypes /\ LinesFit
  BY DEF BridgeInv, WordsInv
<1>3. /\ queue \in Seq(Turn) /\ Len(queue) \in Nat /\ (begun => queue # <<>>) /\ c.turn \in Turn /\ c.turn \in CmdTurns
      /\ stored \in Nat
  BY <1>2, LinesAre DEF BridgeTypes, CmdTurns
<1>4. /\ \A j \in 1..Len(queue') : queue'[j] \in CmdTurns \/ (j \in 1..Len(queue) /\ queue'[j] = queue[j])
      /\ begun => Head(queue') = Head(queue)
  <2>1. CASE queue' = queue
    BY <2>1
  <2>2. CASE queue' = Append(queue, c.turn)
    <3> DEFINE x == c.turn
               q == Append(queue, x)
    <3>1. x \in Turn
      BY <1>3
    <3> HIDE DEF x
    <3>2. /\ Len(q) = Len(queue) + 1 /\ q[Len(queue) + 1] = x /\ \A j \in 1..Len(queue) : q[j] = queue[j]
      BY <1>3, <3>1
    <3>3. \A j \in 1..Len(q) : j = Len(queue) + 1 \/ j \in 1..Len(queue)
      BY <1>3, <3>2
    <3>4. begun => Head(q) = Head(queue)
      BY <1>3, <3>1
    <3> HIDE DEF q
    <3>5. queue' = q /\ x \in CmdTurns
      BY <1>3, <2>2 DEF q, x
    <3>6. \A j \in 1..Len(q) : q[j] \in CmdTurns \/ (j \in 1..Len(queue) /\ q[j] = queue[j])
      <4> TAKE j \in 1..Len(q)
      <4>1. CASE j = Len(queue) + 1
        BY <3>2, <3>5, <4>1
      <4>2. CASE j \in 1..Len(queue)
        BY <3>2, <4>2
      <4> QED BY <3>3, <4>1, <4>2
    <3>7. begun => Head(queue') = Head(queue)
      BY <3>4, <3>5, Zenon
    <3> QED BY <3>5, <3>6, <3>7, Zenon
  <2> QED BY <1>1, <2>1, <2>2
<1>5. CmdTurns' \subseteq CmdTurns /\ Sent' = Sent /\ begun' = begun /\ AsksStay /\ LinesStay /\ stored <= stored'
  <2>1. CmdTurns' \subseteq CmdTurns /\ Sent' = Sent /\ begun' = begun
    BY <1>1 DEF CmdTurns, Sent
  <2>2. AsksStay
    BY <1>1, SameAsksStay
  <2>3. LinesStay /\ stored <= stored'
    BY <1>1, <1>2, LinesAre DEF LinesStay
  <2> QED BY <2>1, <2>2, <2>3
<1>6. LinesFit'
  BY <1>1, <1>2, <1>4, <1>5, LinesFitStays
<1> QED BY <1>1, <1>5, <1>6, QuietWords

LEMMA DiesWords == ASSUME BridgeInv, BridgeInv', WordsInv, Dies PROVE WordsInv'
<1>1. /\ UNCHANGED <<carries, wait, stored, tx, cmds, lines, kind>> /\ lost \subseteq lost' /\ queue' = <<>> /\ begun' = FALSE
  BY DEF Dies, dbVars, spoolVars
<1>2. BridgeTypes /\ LinesFit
  BY DEF BridgeInv, WordsInv
<1>3. CmdTurns' = CmdTurns /\ Sent' = Sent /\ AsksStay /\ LinesStay /\ stored <= stored'
  <2>1. CmdTurns' = CmdTurns /\ Sent' = Sent
    BY <1>1 DEF CmdTurns, Sent
  <2>2. AsksStay
    BY <1>1, SameAsksStay
  <2>3. LinesStay /\ stored <= stored'
    BY <1>1, <1>2, LinesAre DEF LinesStay
  <2> QED BY <2>1, <2>2, <2>3
<1>4. 1..Len(queue') = {}
  BY <1>1
<1>5. LinesFit'
  BY <1>1, <1>2, <1>3, <1>4, LinesFitStays
<1> QED BY <1>1, <1>3, <1>5, QuietWords

LEMMA FollowsWords == ASSUME BridgeInv, BridgeInv', WordsInv, Follows PROVE WordsInv'
<1>1. /\ UNCHANGED <<carries, wait, tx, cmds, queue, begun, lines, kind, lost>> /\ stored' \in (stored + 1)..Len(lines)
  BY DEF Follows, spoolVars, sessionVars, histVars
<1>2. BridgeTypes /\ LinesFit
  BY DEF BridgeInv, WordsInv
<1>3. AsksStay /\ LinesStay /\ stored <= stored'
  <2>1. AsksStay
    BY <1>1, SameAsksStay
  <2>2. LinesStay /\ stored <= stored'
    BY <1>1, <1>2, LinesAre DEF LinesStay
  <2> QED BY <2>1, <2>2
<1>4. LinesFit'
  BY <1>1, <1>2 DEF LinesFit, Sent, CmdTurns
<1> QED BY <1>1, <1>3, <1>4, QuietWords

LEMMA PollsWords == ASSUME BridgeInv, BridgeInv', WordsInv, NEW w \in Worker, Polls(w) PROVE WordsInv'
<1>1. /\ UNCHANGED <<carries, wait, stored, cmds, queue, begun, lines, kind, lost>> /\ tx[w] = NoTx
      /\ \E t : tx' = [tx EXCEPT ![w] = t] /\ t.at = "poll"
  <2> DEFINE t == [NoTx EXCEPT !.at = "poll", !.next = nextSeq, !.read = Len(events),
               !.rows = [r \in Turn |-> IF Applied(wait, events)[r] # wait[r] THEN Applied(wait, events)[r] ELSE NoRow]]
  <2>1. /\ UNCHANGED <<carries, wait, stored, cmds, queue, begun, lines, kind, lost>> /\ tx[w] = NoTx
        /\ tx' = [tx EXCEPT ![w] = t]
    BY DEF Polls, dbVars, spoolVars, sessionVars, histVars
  <2>2. t.at = "poll"
    BY DEF NoTx
  <2> HIDE DEF t
  <2> QED BY <2>1, <2>2
<1>2. BridgeTypes /\ LinesFit
  BY DEF BridgeInv, WordsInv
<1>3. \A v \in Worker : v # w => tx'[v] = tx[v]
  BY <1>1, <1>2 DEF BridgeTypes
<1>4. AskedBy(w) = {} /\ AskedBy(w)' = {}
  <2>1. tx'[w].at = "poll"
    BY <1>1, <1>2 DEF BridgeTypes
  <2> QED BY <1>1, <2>1, NoneAsked DEF AskedBy
<1>5. AsksStay
  <2>1. ASSUME NEW v \in Worker
        PROVE  AskedBy(v)' = AskedBy(v) /\ \A r \in AskedBy(v) : tx'[v].rows[r] = tx[v].rows[r]
    <3>1. CASE v = w
      BY <1>4, <3>1
    <3>2. CASE v # w
      BY <1>3, <3>2 DEF AskedBy
    <3> QED BY <3>1, <3>2
  <2> QED BY <2>1 DEF AsksStay
<1>6. LinesStay /\ stored <= stored'
  BY <1>1, <1>2, LinesAre DEF LinesStay
<1>7. LinesFit'
  BY <1>1, <1>2 DEF LinesFit, Sent, CmdTurns
<1> QED BY <1>1, <1>5, <1>6, <1>7, QuietWords

LEMMA AbortWords == ASSUME BridgeInv, BridgeInv', WordsInv, NEW w \in Worker, Abort(w) PROVE WordsInv'
<1>1. /\ UNCHANGED <<carries, wait, nextSeq, stored, cmds, events, queue, begun, lines, kind, lost>>
      /\ tx' = [tx EXCEPT ![w] = NoTx]
  BY DEF Abort, dbVars, spoolVars, sessionVars
<1>2. BridgeTypes /\ LinesFit /\ LinesAfter /\ SendsFit
  BY DEF BridgeInv, WordsInv
<1>3. (\A v \in Worker : v # w => tx'[v] = tx[v] /\ AskedBy(v)' = AskedBy(v)) /\ AskedBy(w)' = {}
  <2>1. tx'[w] = NoTx /\ \A v \in Worker : v # w => tx'[v] = tx[v]
    BY <1>1, <1>2 DEF BridgeTypes
  <2> QED BY <2>1, NoneAsked DEF AskedBy
<1>4. LinesFit'
  BY <1>1, <1>2 DEF LinesFit, Sent, CmdTurns
<1>5. CASE AskedBy(w) = {}
  <2>1. AsksStay
    <3>1. ASSUME NEW v \in Worker
          PROVE  AskedBy(v)' = AskedBy(v) /\ \A r \in AskedBy(v) : tx'[v].rows[r] = tx[v].rows[r]
      <4>1. CASE v = w
        BY <1>3, <1>5, <4>1
      <4>2. CASE v # w
        BY <1>3, <4>2
      <4> QED BY <4>1, <4>2
    <3> QED BY <3>1 DEF AsksStay
  <2>2. LinesStay /\ stored <= stored'
    BY <1>1, <1>2, LinesAre DEF LinesStay
  <2> QED BY <1>1, <1>4, <2>1, <2>2, QuietWords
<1>6. CASE AskedBy(w) # {}
  <2>1. PICK r \in AskedBy(w) : TRUE
    BY <1>6
  <2>2. r \in Rowless /\ r \notin Asked'
    <3>1. r \in Rowless
      BY <2>1, AskedAre DEF Asked
    <3>2. \A v \in Worker : r \notin AskedBy(v)'
      <4> SUFFICES ASSUME NEW v \in Worker, r \in AskedBy(v)' PROVE FALSE
        OBVIOUS
      <4>1. v # w /\ r \in AskedBy(v)
        BY <1>3
      <4> QED BY <1>2, <2>1, <4>1 DEF SendsFit
    <3> QED BY <3>1, <3>2 DEF Asked
  <2>3. Rowless' = Rowless
    BY <1>1 DEF Rowless, Rows
  <2>4. OwnWords'
    BY <2>2, <2>3 DEF OwnWords, SoFarOneByOne
  <2>5. LinesAfter'
    <3>1. Held(wait)' = Held(wait)
      BY <1>1 DEF Held
    <3>2. \A v \in Worker : AskedBy(v)' \subseteq AskedBy(v) /\ \A s \in AskedBy(v)' : tx'[v].rows[s] = tx[v].rows[s]
      <4>1. ASSUME NEW v \in Worker
            PROVE  AskedBy(v)' \subseteq AskedBy(v) /\ \A s \in AskedBy(v)' : tx'[v].rows[s] = tx[v].rows[s]
        <5>1. CASE v = w
          BY <1>3, <5>1
        <5>2. CASE v # w
          BY <1>3, <5>2
        <5> QED BY <5>1, <5>2
      <4> QED BY <4>1
    <3> QED BY <1>1, <1>2, <3>1, <3>2 DEF LinesAfter
  <2> QED BY <1>4, <2>4, <2>5 DEF WordsInv
<1> QED BY <1>5, <1>6
\* A turn begins: its prompt is the one line of its own.
LEMMA BeginsWords == ASSUME BridgeInv, BridgeInv', WordsInv, Begins PROVE WordsInv'
<1> DEFINE h == Head(queue)
           line == [turn |-> h, what |-> "prompt"]
           n == Len(lines)
<1>1. /\ UNCHANGED <<carries, wait, stored, tx, cmds, queue, kind, lost>> /\ begun' = TRUE /\ ~begun /\ queue # <<>>
      /\ lines' = IF carries THEN lines ELSE lines \o <<line>>
  BY DEF Begins, Transcribes, dbVars, spoolVars, histVars
<1>2. BridgeTypes /\ LinesFit /\ Unique(events) /\ carries \in BOOLEAN
  BY DEF BridgeInv, WordsInv, BridgeTypes
<1>3. /\ queue \in Seq(Turn) /\ h \in Turn /\ h = queue[1] /\ 1 \in 1..Len(queue) /\ n \in Nat /\ stored \in Nat
      /\ stored <= n
  BY <1>1, <1>2, LinesAre DEF BridgeTypes
<1>4. h \in Sent /\ h \notin CmdTurns /\ \A j \in 1..Len(queue) : queue[j] = h => j = 1
  <2>1. /\ Len(events) \in Nat /\ Len(queue) \in Nat /\ Len(Way(events)) = Len(events) + Len(queue)
        /\ \A i \in 1..Len(Way(events)) : Way(events)[i] = IF i <= Len(events) THEN events[i] ELSE queue[i - Len(events)]
    BY <1>2, WayIs DEF BridgeTypes
  <2>2. \A i \in 1..Len(queue) : Len(events) + i \in 1..Len(Way(events)) /\ Way(events)[Len(events) + i] = queue[i]
    <3> TAKE i \in 1..Len(queue)
    <3> DEFINE k == Len(events) + i
    <3>1. k \in 1..Len(Way(events)) /\ ~(k <= Len(events)) /\ k - Len(events) = i
      BY <2>1
    <3> QED BY <2>1, <3>1
  <2> HIDE DEF h
  <2>3. h \in Sent /\ h \notin CmdTurns
    BY <1>2, <1>3, <2>2 DEF Unique, OnWay
  <2>4. ASSUME NEW j \in 1..Len(queue), queue[j] = h PROVE j = 1
    <3>1. Len(events) + j = Len(events) + 1
      BY <1>2, <1>3, <2>2, <2>4 DEF Unique
    <3> QED BY <2>1, <3>1
  <2> QED BY <2>3, <2>4
<1>5. AsksStay
  BY <1>1, SameAsksStay
<1>6. CASE carries
  <2>1. lines' = lines
    BY <1>1, <1>6
  <2>2. LinesStay /\ stored <= stored'
    BY <1>1, <1>3, <2>1 DEF LinesStay
  <2>3. LinesFit'
    <3>1. lines = <<>> /\ carries' /\ lines' = <<>>
      BY <1>1, <1>2, <1>6, <2>1 DEF LinesFit
    <3> QED BY <3>1 DEF LinesFit
  <2> QED BY <1>1, <1>5, <2>2, <2>3, QuietWords
<1>7. CASE ~carries
  <2> HIDE DEF h
  <2>1. lines' = Append(lines, line)
    <3>1. lines \in Seq([turn : Turn, what : {"prompt", "text"}]) /\ line \in [turn : Turn, what : {"prompt", "text"}]
      BY <1>2, <1>3 DEF BridgeTypes
    <3> HIDE DEF line
    <3> QED BY <1>1, <1>7, <3>1
  <2>2. /\ Len(lines') = n + 1 /\ lines'[n + 1] = line /\ \A i \in 1..n : lines'[i] = lines[i]
    BY <1>2, <2>1 DEF BridgeTypes
  <2>3. LinesStay /\ stored <= stored'
    BY <1>1, <1>3, <2>2 DEF LinesStay
  <2>4. \A i \in 1..Len(lines') : i = n + 1 \/ i \in 1..n
    BY <1>3, <2>2
  <2>5. line.what = "prompt" /\ line.turn = h
    OBVIOUS
  <2> HIDE DEF line, n
  <2>6. Sent' = Sent /\ CmdTurns' = CmdTurns /\ queue' = queue /\ begun' = TRUE
    BY <1>1 DEF Sent, CmdTurns
  <2>7. \A i \in 1..Len(lines') : lines'[i].turn \in Sent
    BY <1>2, <1>4, <2>2, <2>4, <2>5 DEF LinesFit, n
  <2>8. ASSUME NEW i \in 1..n, lines[i].what = "prompt" PROVE lines[i].turn # h
    BY <1>1, <1>2, <1>3, <2>8 DEF LinesFit, n
  <2>9. \A i, j \in 1..Len(lines') :
          lines'[i].what = "prompt" /\ lines'[j].what = "prompt" /\ lines'[i].turn = lines'[j].turn => i = j
    <3>1. \A i, j \in 1..n :
            lines[i].what = "prompt" /\ lines[j].what = "prompt" /\ lines[i].turn = lines[j].turn => i = j
      BY <1>2 DEF LinesFit, n
    <3> QED BY <2>2, <2>4, <2>5, <2>8, <3>1
  <2>10. \A i \in 1..Len(lines') : lines'[i].what = "prompt" =>
           /\ lines'[i].turn \notin CmdTurns
           /\ \A j \in 1..Len(queue) : lines'[i].turn = queue[j] => j = 1
    <3>1. \A i \in 1..n : lines[i].what = "prompt" =>
           /\ lines[i].turn \notin CmdTurns
           /\ \A j \in 1..Len(queue) : lines[i].turn = queue[j] => j = 1
      BY <1>2 DEF LinesFit, n
    <3> QED BY <1>4, <2>2, <2>4, <2>5, <3>1
  <2>11. \A j \in 1..Len(lines') : lines'[j].what = "text" =>
           \E i \in 1..(j - 1) : /\ lines'[i] = [turn |-> lines'[j].turn, what |-> "prompt"]
                                 /\ \A k \in (i + 1)..(j - 1) : lines'[k].what = "text"
    <3> SUFFICES ASSUME NEW j \in 1..n, lines[j].what = "text"
                 PROVE  \E i \in 1..(j - 1) : /\ lines'[i] = [turn |-> lines[j].turn, what |-> "prompt"]
                                              /\ \A k \in (i + 1)..(j - 1) : lines'[k].what = "text"
      BY <2>2, <2>4, <2>5
    <3>1. PICK i \in 1..(j - 1) : /\ lines[i] = [turn |-> lines[j].turn, what |-> "prompt"]
                                  /\ \A k \in (i + 1)..(j - 1) : lines[k].what = "text"
      BY <1>2 DEF LinesFit, n
    <3>2. i \in 1..n /\ \A k \in (i + 1)..(j - 1) : k \in 1..n
      BY <1>3 DEF n
    <3> QED BY <2>2, <3>1, <3>2
  <2>12. \E i \in 1..Len(lines') : /\ lines'[i] = [turn |-> h, what |-> "prompt"]
                                   /\ \A k \in (i + 1)..Len(lines') : lines'[k].what = "text"
    <3>1. n + 1 \in 1..Len(lines') /\ (n + 1 + 1)..Len(lines') = {}
      BY <1>3, <2>2 DEF n
    <3> QED BY <2>2, <3>1 DEF line
  <2>13. LinesFit'
    <3>1. \A i \in 1..Len(lines') : lines'[i].what = "prompt" =>
             /\ lines'[i].turn \notin CmdTurns'
             /\ \A j \in 1..Len(queue') : lines'[i].turn = queue'[j] => j = 1 /\ begun'
      BY <2>6, <2>10
    <3>2. begun' /\ ~carries' =>
             \E i \in 1..Len(lines') : /\ lines'[i] = [turn |-> Head(queue'), what |-> "prompt"]
                                      /\ \A k \in (i + 1)..Len(lines') : lines'[k].what = "text"
      BY <2>6, <2>12 DEF h
    <3>3. \A i \in 1..Len(lines') : lines'[i].turn \in Sent'
      BY <2>6, <2>7
    <3>4. carries' => lines' = <<>>
      BY <1>1, <1>7
    <3> QED BY <2>9, <2>11, <3>1, <3>2, <3>3, <3>4 DEF LinesFit
  <2> QED BY <1>1, <1>5, <2>3, <2>13, QuietWords
<1> QED BY <1>2, <1>6, <1>7

\* It ends: what it said stands right after its prompt.
LEMMA EndsWords == ASSUME BridgeInv, BridgeInv', WordsInv, Ends PROVE WordsInv'
<1> DEFINE h == Head(queue)
           line == [turn |-> h, what |-> "text"]
           n == Len(lines)
<1>1. /\ UNCHANGED <<carries, wait, stored, tx, cmds, kind, lost>> /\ begun' = FALSE /\ begun
      /\ queue' = Tail(queue) /\ \E said \in {<<>>, <<line>>} : lines' = IF carries THEN lines ELSE lines \o said
  BY DEF Ends, Transcribes, dbVars, histVars
<1>2. BridgeTypes /\ LinesFit /\ Unique(events) /\ carries \in BOOLEAN
  BY DEF BridgeInv, WordsInv, BridgeTypes
<1>3. /\ queue \in Seq(Turn) /\ queue # <<>> /\ h \in Turn /\ n \in Nat /\ stored \in Nat /\ stored <= n
      /\ Len(queue) \in Nat /\ Len(Tail(queue)) = Len(queue) - 1 /\ \A j \in 1..Len(Tail(queue)) : Tail(queue)[j] = queue[j + 1]
  BY <1>1, <1>2, LinesAre DEF BridgeTypes
<1>4. AsksStay /\ Sent' = Sent /\ CmdTurns' = CmdTurns
  BY <1>1, SameAsksStay DEF Sent, CmdTurns
<1>5. \A i \in 1..n : lines[i].what = "prompt" => \A j \in 1..Len(queue') : lines[i].turn # queue'[j]
  <2> SUFFICES ASSUME NEW i \in 1..n, lines[i].what = "prompt", NEW j \in 1..Len(queue'), lines[i].turn = queue'[j] PROVE FALSE
    OBVIOUS
  <2>1. j + 1 \in 1..Len(queue) /\ j + 1 # 1 /\ lines[i].turn = queue[j + 1]
    BY <1>1, <1>3
  <2> QED BY <1>2, <2>1 DEF LinesFit
<1>6. CASE lines' = lines
  <2>1. LinesStay /\ stored <= stored'
    BY <1>1, <1>3, <1>6 DEF LinesStay
  <2>2. LinesFit'
    <3>1. \A i \in 1..n : lines[i].what = "prompt" =>
             /\ lines[i].turn \notin CmdTurns
             /\ \A j \in 1..Len(queue') : lines[i].turn = queue'[j] => j = 1 /\ begun'
      BY <1>2, <1>5 DEF LinesFit
    <3>2. /\ carries => lines = <<>>
          /\ \A i \in 1..n : lines[i].turn \in Sent'
          /\ \A i, j \in 1..n : lines[i].what = "prompt" /\ lines[j].what = "prompt" /\ lines[i].turn = lines[j].turn => i = j
          /\ \A j \in 1..n : lines[j].what = "text" =>
               \E i \in 1..(j - 1) : /\ lines[i] = [turn |-> lines[j].turn, what |-> "prompt"]
                                     /\ \A k \in (i + 1)..(j - 1) : lines[k].what = "text"
      BY <1>2, <1>4 DEF LinesFit
    <3> QED BY <1>1, <1>4, <1>6, <3>1, <3>2 DEF LinesFit
  <2> QED BY <1>1, <1>4, <2>1, <2>2, QuietWords
<1>7. CASE ~carries /\ lines' = lines \o <<line>>
  <2>0. PICK p \in 1..n : lines[p] = [turn |-> h, what |-> "prompt"] /\ \A k \in (p + 1)..n : lines[k].what = "text"
    BY <1>1, <1>2, <1>7 DEF LinesFit
  <2>14. h \in Sent
    <3>1. lines[p].turn = h
      BY <2>0
    <3> QED BY <1>2, <3>1 DEF LinesFit
  <2> HIDE DEF h
  <2>1. lines' = Append(lines, line)
    <3>1. lines \in Seq([turn : Turn, what : {"prompt", "text"}]) /\ line \in [turn : Turn, what : {"prompt", "text"}]
      BY <1>2, <1>3 DEF BridgeTypes
    <3> HIDE DEF line
    <3> QED BY <1>7, <3>1
  <2>2. /\ Len(lines') = n + 1 /\ lines'[n + 1] = line /\ \A i \in 1..n : lines'[i] = lines[i]
    BY <1>2, <2>1 DEF BridgeTypes
  <2>3. LinesStay /\ stored <= stored'
    BY <1>1, <1>3, <2>2 DEF LinesStay
  <2>4. \A i \in 1..Len(lines') : i = n + 1 \/ i \in 1..n
    BY <1>3, <2>2
  <2>5. line.what = "text" /\ line.turn = h
    OBVIOUS
  <2> HIDE DEF line, n
  <2>6. \A i \in 1..Len(lines') : lines'[i].turn \in Sent
    BY <1>2, <2>2, <2>4, <2>5, <2>14 DEF LinesFit, n
  <2>7. \A i, j \in 1..Len(lines') :
          lines'[i].what = "prompt" /\ lines'[j].what = "prompt" /\ lines'[i].turn = lines'[j].turn => i = j
    <3>1. \A i, j \in 1..n :
            lines[i].what = "prompt" /\ lines[j].what = "prompt" /\ lines[i].turn = lines[j].turn => i = j
      BY <1>2 DEF LinesFit, n
    <3> QED BY <2>2, <2>4, <2>5, <3>1
  <2>8. \A i \in 1..Len(lines') : lines'[i].what = "prompt" =>
           /\ lines'[i].turn \notin CmdTurns
           /\ \A j \in 1..Len(queue') : lines'[i].turn # queue'[j]
    <3>1. \A i \in 1..n : lines[i].what = "prompt" => lines[i].turn \notin CmdTurns
      BY <1>2 DEF LinesFit, n
    <3> QED BY <1>5, <2>2, <2>4, <2>5, <3>1 DEF n
  <2>9. \A j \in 1..Len(lines') : lines'[j].what = "text" =>
           \E i \in 1..(j - 1) : /\ lines'[i] = [turn |-> lines'[j].turn, what |-> "prompt"]
                                 /\ \A k \in (i + 1)..(j - 1) : lines'[k].what = "text"
    <3>1. ASSUME NEW j \in 1..n, lines[j].what = "text"
          PROVE  \E i \in 1..(j - 1) : /\ lines'[i] = [turn |-> lines[j].turn, what |-> "prompt"]
                                       /\ \A k \in (i + 1)..(j - 1) : lines'[k].what = "text"
      <4>1. PICK i \in 1..(j - 1) : /\ lines[i] = [turn |-> lines[j].turn, what |-> "prompt"]
                                    /\ \A k \in (i + 1)..(j - 1) : lines[k].what = "text"
        BY <1>2, <3>1 DEF LinesFit, n
      <4>2. i \in 1..n /\ \A k \in (i + 1)..(j - 1) : k \in 1..n
        BY <1>3 DEF n
      <4> QED BY <2>2, <4>1, <4>2
    <3> DEFINE E(m) == \E i \in 1..m : /\ lines'[i] = [turn |-> h, what |-> "prompt"]
                                      /\ \A k \in (i + 1)..m : lines'[k].what = "text"
    <3>2. E(n)
      <4>1. p \in 1..n /\ \A k \in (p + 1)..n : k \in 1..n
        BY <1>3 DEF n
      <4>2. \A k \in (p + 1)..n : lines'[k].what = "text"
        BY <2>0, <2>2, <4>1 DEF n
      <4>3. lines'[p] = [turn |-> h, what |-> "prompt"]
        BY <2>0, <2>2, <4>1
      <4> QED BY <4>1, <4>2, <4>3
    <3> SUFFICES ASSUME NEW j \in 1..Len(lines'), lines'[j].what = "text"
                 PROVE  \E i \in 1..(j - 1) : /\ lines'[i] = [turn |-> lines'[j].turn, what |-> "prompt"]
                                              /\ \A k \in (i + 1)..(j - 1) : lines'[k].what = "text"
      OBVIOUS
    <3>3. CASE j = n + 1
      <4>1. lines'[j].turn = h
        BY <2>2, <2>5, <3>3
      <4>2. E(j - 1)
        <5>1. j - 1 = n
          BY <1>3, <3>3 DEF n
        <5> HIDE DEF E
        <5> QED BY <3>2, <5>1
      <4> QED BY <4>1, <4>2
    <3>4. CASE j \in 1..n
      <4>1. lines'[j] = lines[j]
        BY <2>2, <3>4
      <4> QED BY <3>1, <3>4, <4>1
    <3> QED BY <2>4, <3>3, <3>4
  <2>10. LinesFit'
    BY <1>1, <1>4, <1>7, <2>6, <2>7, <2>8, <2>9 DEF LinesFit
  <2> QED BY <1>1, <1>4, <2>3, <2>10, QuietWords
<1>8. lines' = lines \/ (~carries /\ lines' = lines \o <<line>>)
  <2>1. lines \o <<>> = lines
    BY <1>2 DEF BridgeTypes
  <2> QED BY <1>1, <2>1
<1> QED BY <1>6, <1>7, <1>8
\* A request's turns are new; it sends one that brings a result.
LEMMA SendsNew ==
  ASSUME BridgeTypes, NEW w \in Worker, NEW parts \in Requests, Sends(w, parts)
  PROVE  \E t \in Sent' : t \notin Sent /\ kind'[t] # "effort"
<1> DEFINE K == {"ask", "effort", "prompt"}
           k == Len(kind)
           n == Len(parts)
<1>1. kind' = kind \o parts /\ kind \in Seq(K) /\ k \in Nat
  BY DEF Sends, BridgeTypes
<1>2. parts \in Seq(K) /\ n \in {1, 2} /\ parts[n] # "effort"
  <2>1. CASE parts = <<"ask">>
    BY <2>1
  <2>2. CASE parts = <<"effort", "ask">>
    BY <2>2
  <2>3. CASE parts = <<"prompt">>
    BY <2>3
  <2> QED BY <2>1, <2>2, <2>3 DEF Requests
<1> HIDE DEF K
<1>3. Len(kind') = k + n /\ kind'[k + n] = parts[n]
  <2> HIDE DEF k, n
  <2>1. k + n \in 1..(k + n) /\ ~(k + n <= k) /\ (k + n) - k = n
    BY <1>1, <1>2
  <2>2. Len(kind) = k /\ Len(parts) = n
    BY DEF k, n
  <2> QED BY <1>1, <1>2, <2>1, <2>2
<1>4. k + n \in 1..(k + n) /\ k + n \notin 1..k
  BY <1>1, <1>2
<1> QED BY <1>2, <1>3, <1>4 DEF Sent

LEMMA SendsWords ==
  ASSUME BridgeInv, BridgeInv', WordsInv, NEW w \in Worker, NEW parts \in Requests, Sends(w, parts)
  PROVE  WordsInv'
<1>1. BridgeTypes /\ LinesFit /\ LinesAfter /\ OwnWords /\ tx \in [Worker -> Tx] /\ wait \in [Turn -> Row]
  BY DEF BridgeInv, WordsInv, BridgeTypes
<1>2. PICK new \in SUBSET Turn, asks \in SUBSET Turn, C \in SUBSET [turn : Turn, seq : Nat \ {0}] : SendShape(w, new, asks, C)
  BY <1>1, SendsShape
<1>3. /\ UNCHANGED <<carries, wait, nextSeq, stored, events, queue, begun, lines, lost>>
      /\ (\A t \in Sent : kind'[t] = kind[t]) /\ Sent' = Sent \cup new /\ (\A t \in new : t \notin Sent)
      /\ cmds' = cmds \cup C /\ new = {c.turn : c \in C} /\ asks \subseteq new
      /\ tx'[w].at = "send" /\ tx'[w].rows = [r \in Turn |-> IF r \in asks THEN Waiting(wait) ELSE NoRow]
      /\ tx' = [tx EXCEPT ![w] = tx'[w]]
  BY <1>2 DEF SendShape
<1>4. tx[w] = NoTx /\ AskedBy(w) = {}
  <2>1. tx[w] = NoTx
    BY DEF Sends
  <2> QED BY <2>1, NoneAsked DEF AskedBy
<1>5. \A v \in Worker : v # w => tx'[v] = tx[v] /\ AskedBy(v)' = AskedBy(v)
  <2>1. \A v \in Worker : v # w => tx'[v] = tx[v]
    BY <1>1, <1>3
  <2> QED BY <2>1 DEF AskedBy
<1>6. /\ AskedBy(w)' = asks
      /\ \A r \in asks : tx'[w].rows[r].after = stored /\ (tx'[w].rows[r].alone => In(wait, Open) = {})
  <2> DEFINE y == Waiting(wait)
  <2>1. y.state = "waiting" /\ y.after = stored /\ (y.alone <=> In(wait, Open) = {})
    BY DEF Waiting
  <2> HIDE DEF y
  <2>2. \A r \in Turn : tx'[w].rows[r] = IF r \in asks THEN y ELSE NoRow
    BY <1>3 DEF y
  <2> QED BY <1>3, <2>1, <2>2, NoneAsked DEF AskedBy
<1>7. stored \in Nat /\ Len(lines) \in Nat
  BY <1>1, LinesAre
<1>8. LinesFit'
  <2>1. CmdTurns' = CmdTurns \cup new
    BY <1>3 DEF CmdTurns
  <2> QED BY <1>1, <1>3, <2>1, LinesFitStays
<1>9. Held(wait)' = Held(wait)
  BY <1>3 DEF Held
<1>10. LinesAfter'
  <2>1. \A i \in 1..Len(lines) : lines[i].turn \notin asks
    BY <1>1, <1>3 DEF LinesFit
  <2>2. ASSUME NEW v \in Worker
        PROVE  /\ \A r \in AskedBy(v)' : tx'[v].rows[r].after <= stored
               /\ \A i \in 1..Len(lines) : lines[i].turn \in AskedBy(v)' => tx'[v].rows[lines[i].turn].after < i
    <3>1. CASE v = w
      <4>1. \A r \in asks : tx'[w].rows[r].after <= stored
        BY <1>6, <1>7
      <4> QED BY <1>6, <2>1, <3>1, <4>1
    <3>2. CASE v # w
      <4>1. tx'[v] = tx[v] /\ AskedBy(v)' = AskedBy(v)
        BY <1>5, <3>2
      <4> QED BY <1>1, <4>1 DEF LinesAfter
    <3> QED BY <3>1, <3>2
  <2>3. /\ \A r \in Held(wait) : wait[r].after <= stored
        /\ \A i \in 1..Len(lines) : lines[i].turn \in Held(wait) => wait[lines[i].turn].after < i
    BY <1>1 DEF LinesAfter
  <2>4. lines' = lines /\ wait' = wait /\ stored' = stored
    BY <1>3
  <2> QED BY <1>9, <2>2, <2>3, <2>4 DEF LinesAfter
<1>11. OwnWords'
  <2> SUFFICES ASSUME SoFarOneByOne' PROVE OwnWords'
    BY DEF OwnWords
  <2>1. /\ ~carries /\ lost = {} /\ In(wait, {"expired"}) = {} /\ (\A r \in Held(wait) : wait[r].alone)
        /\ (\A v \in Worker : \A r \in AskedBy(v)' : tx'[v].rows[r].alone)
        /\ (\A x, y \in Rowless' : x = y) /\ Rowless' \subseteq Asked'
    <3>1. In(wait, {"expired"})' = In(wait, {"expired"})
      BY <1>3 DEF In
    <3> QED BY <1>3, <1>9, <3>1 DEF SoFarOneByOne
  <2>2. Rowless = {}
    <3>1. PICK t \in Sent' : t \notin Sent /\ kind'[t] # "effort"
      BY <1>1, SendsNew
    <3>2. Rowless \subseteq Rowless' /\ Rowless \subseteq Sent
      BY <1>3 DEF Rowless, Rows, Sent
    <3>3. t \in Rowless'
      <4>1. t \notin Rows
        <5>1. RowsFit(wait)
          BY DEF BridgeInv, Good
        <5> QED BY <3>1, <5>1 DEF RowsFit, Rows
      <4>2. Rows' = Rows
        BY <1>3 DEF Rows
      <4> QED BY <3>1, <4>1, <4>2 DEF Rowless, Sent
    <3> QED BY <2>1, <3>1, <3>2, <3>3
  <2>3. Asked = {} /\ \A v \in Worker : AskedBy(v) = {}
    <3>1. Asked = {}
      BY <2>2, AskedAre
    <3> QED BY <3>1 DEF Asked
  <2>4. Asked' = asks
    <3>1. \A v \in Worker : v # w => AskedBy(v)' = {}
      BY <1>5, <2>3
    <3> QED BY <1>6, <3>1 DEF Asked
  <2>5. SoFarOneByOne
    BY <2>1, <2>2, <2>3 DEF SoFarOneByOne
  <2>6. /\ \A r \in Held(wait), s \in Held(wait) : r < s => wait[r].state = "answered"
        /\ \A r \in In(wait, {"answered"}) : PromptBy(r, stored) /\ Asks(wait[r].text) \subseteq {r} /\ wait[r].text \subseteq Sent
        /\ \A r, s \in Held(wait) : r < s => PromptBy(r, wait[s].after)
    <3>1. /\ \A r \in Held(wait), s \in Held(wait) \cup Asked : r < s => wait[r].state = "answered"
          /\ \A r \in In(wait, {"answered"}) : PromptBy(r, stored) /\ Asks(wait[r].text) \subseteq {r} /\ wait[r].text \subseteq Sent
          /\ \A r, s \in Held(wait) : r < s => PromptBy(r, wait[s].after)
      BY <1>1, <2>5 DEF OwnWords
    <3> QED BY <3>1
  <2>7. asks # {} => \A r \in Held(wait) : wait[r].state = "answered"
    <3> SUFFICES ASSUME asks # {}, NEW r \in Held(wait) PROVE wait[r].state = "answered"
      OBVIOUS
    <3>1. In(wait, Open) = {}
      BY <1>6, <2>1
    <3>2. r \in Turn /\ wait[r].state \in {"none", "waiting", "ended", "answered", "expired"} /\ wait[r].state # "none"
      BY <1>1 DEF Held, Row
    <3>3. wait[r].state \notin {"waiting", "ended", "expired"}
      BY <2>1, <3>1, <3>2 DEF In, Open
    <3> QED BY <3>2, <3>3
  <2>8. \A r \in Held(wait), s \in Held(wait) \cup asks : r < s => wait[r].state = "answered"
    BY <2>6, <2>7
  <2>9. \A r \in In(wait, {"answered"}) : Asks(wait[r].text)' \subseteq {r} /\ wait[r].text \subseteq Sent'
    <3> SUFFICES ASSUME NEW r \in In(wait, {"answered"}), NEW t \in wait[r].text, kind'[t] = "ask" PROVE t = r
      BY <1>3, <2>6 DEF Asks
    <3>1. t \in Sent
      BY <2>6
    <3>2. kind[t] = "ask"
      BY <1>3, <3>1
    <3> QED BY <2>6, <3>2 DEF Asks
  <2>10. \A r \in Held(wait) : asks # {} => PromptBy(r, stored)
    BY <2>6, <2>7 DEF In, Held
  <2>11. \A b, n : PromptBy(b, n)' = PromptBy(b, n)
    BY <1>3 DEF PromptBy
  <2>12. \A v \in Worker : \A s \in AskedBy(v)' : \A r \in Held(wait) : PromptBy(r, tx'[v].rows[s].after)
    <3> SUFFICES ASSUME NEW v \in Worker, NEW s \in AskedBy(v)', NEW r \in Held(wait) PROVE PromptBy(r, tx'[v].rows[s].after)
      OBVIOUS
    <3>1. v = w
      BY <1>5, <2>3
    <3>2. s \in asks /\ tx'[v].rows[s].after = stored
      BY <1>6, <3>1
    <3> QED BY <2>10, <3>2
  <2>13. wait' = wait /\ stored' = stored /\ \A S : In(wait, S)' = In(wait, S)
    BY <1>3 DEF In
  <2> QED BY <1>9, <2>4, <2>6, <2>8, <2>9, <2>11, <2>12, <2>13 DEF OwnWords
<1> QED BY <1>8, <1>10, <1>11 DEF WordsInv
\* What a commit does to the rows.
CommitRows(w) ==
    /\ Held(wait') = Held(wait) \cup AskedBy(w)
    /\ \A r \in AskedBy(w) : wait'[r] = tx[w].rows[r]
    /\ \A r \in Held(wait) :
        /\ wait'[r].after = wait[r].after /\ wait'[r].alone = wait[r].alone
        /\ ~carries => \/ wait'[r] = wait[r]
                       \/ wait[r].state = "waiting" /\ wait'[r].state = "ended"

LEMMA CommitRowsAre == ASSUME BridgeInv, NEW w \in Worker, Commit(w) PROVE CommitRows(w)
<1>1. BridgeTypes /\ TxFit /\ SendsFit /\ wait \in [Turn -> Row]
  BY DEF BridgeInv, BridgeTypes
<1>2. tx[w].at \in {"send", "poll"}
  BY <1>1, CommitShape
<1>3. CASE tx[w].at = "poll"
  <2>1. AskedBy(w) = {}
    BY <1>3 DEF AskedBy
  <2>2. /\ Held(wait') = Held(wait)
        /\ \A r \in Turn :
             \/ wait'[r] = wait[r]
             \/ /\ wait[r].state = "waiting" /\ wait'[r].state = IF carries THEN "answered" ELSE "ended"
                /\ wait'[r].after = wait[r].after /\ wait'[r].alone = wait[r].alone
    BY <1>3, PollCommits
  <2>3. Held(wait) \subseteq Turn
    BY DEF Held
  <2> QED BY <2>1, <2>2, <2>3 DEF CommitRows
<1>4. CASE tx[w].at = "send"
  <2>1. CASE wait' = wait /\ AskedBy(w) = {}
    BY <2>1 DEF CommitRows
  <2>2. CASE \E r \in Turn : /\ AskedBy(w) = {r} /\ wait'[r] = tx[w].rows[r] /\ wait[r].state = "none"
                             /\ \A s \in Turn \ {r} : wait'[s] = wait[s]
    <3>1. PICK r \in Turn : /\ AskedBy(w) = {r} /\ wait'[r] = tx[w].rows[r] /\ wait[r].state = "none"
                            /\ \A s \in Turn \ {r} : wait'[s] = wait[s]
      BY <2>2
    <3>2. wait'[r].state # "none"
      BY <3>1 DEF AskedBy
    <3>3. Held(wait') = Held(wait) \cup {r} /\ r \notin Held(wait) /\ Held(wait) \subseteq Turn
      BY <3>1, <3>2 DEF Held
    <3> QED BY <3>1, <3>3 DEF CommitRows
  <2> QED BY <1>4, <2>1, <2>2, SendCommits
<1> QED BY <1>2, <1>3, <1>4

LEMMA CommitWords == ASSUME BridgeInv, BridgeInv', WordsInv, NEW w \in Worker, Commit(w) PROVE WordsInv'
<1>1. BridgeTypes /\ TxFit /\ SendsFit /\ LinesFit /\ LinesAfter /\ OwnWords /\ SendsFit'
  BY DEF BridgeInv, WordsInv
<1>2. /\ UNCHANGED <<carries, stored, cmds, queue, begun, lines, kind, lost>> /\ Asked' = {}
      /\ \A v \in Worker : AskedBy(v)' = {}
  <2>1. UNCHANGED <<carries, stored, cmds, queue, begun, lines, kind, lost>> /\ Asked' = {}
    BY <1>1, CommitShape
  <2> QED BY <2>1 DEF Asked
<1>3. /\ Held(wait') = Held(wait) \cup AskedBy(w)
      /\ \A r \in AskedBy(w) : wait'[r] = tx[w].rows[r]
      /\ \A r \in Held(wait) : wait'[r].after = wait[r].after /\ wait'[r].alone = wait[r].alone
      /\ ~carries => \A r \in Held(wait) : \/ wait'[r] = wait[r]
                                           \/ wait[r].state = "waiting" /\ wait'[r].state = "ended"
  BY CommitRowsAre DEF CommitRows
<1>4. LinesFit'
  BY <1>1, <1>2 DEF LinesFit, Sent, CmdTurns
<1>5. LinesAfter'
  <2>1. \A r \in Held(wait') : wait'[r].after <= stored
    <3>1. ASSUME NEW r \in Held(wait) PROVE wait'[r].after <= stored
      BY <1>1, <1>3 DEF LinesAfter
    <3>2. ASSUME NEW r \in AskedBy(w) PROVE wait'[r].after <= stored
      BY <1>1, <1>3 DEF LinesAfter
    <3> QED BY <1>3, <3>1, <3>2
  <2>2. \A i \in 1..Len(lines) : lines[i].turn \in Held(wait') => wait'[lines[i].turn].after < i
    <3>1. ASSUME NEW i \in 1..Len(lines), lines[i].turn \in Held(wait) PROVE wait'[lines[i].turn].after < i
      BY <1>1, <1>3, <3>1 DEF LinesAfter
    <3>2. ASSUME NEW i \in 1..Len(lines), lines[i].turn \in AskedBy(w) PROVE wait'[lines[i].turn].after < i
      BY <1>1, <1>3, <3>2 DEF LinesAfter
    <3> QED BY <1>3, <3>1, <3>2
  <2>3. Held(wait)' = Held(wait') /\ lines' = lines /\ stored' = stored
    BY <1>2 DEF Held
  <2> QED BY <1>2, <2>1, <2>2, <2>3 DEF LinesAfter
<1>6. OwnWords'
  <2> SUFFICES ASSUME SoFarOneByOne' PROVE OwnWords'
    BY DEF OwnWords
  <2>1. Held(wait)' = Held(wait') /\ Rows' = Held(wait') /\ Rows = Held(wait) /\ Held(wait) \subseteq Turn
    BY DEF Held, Rows
  <2>2. /\ ~carries /\ lost = {} /\ In(wait', {"expired"}) = {} /\ (\A r \in Held(wait') : wait'[r].alone) /\ Rowless' = {}
    <3>1. In(wait, {"expired"})' = In(wait', {"expired"})
      BY DEF In
    <3> QED BY <1>2, <2>1, <3>1 DEF SoFarOneByOne
  <2>3. Rowless \subseteq AskedBy(w) /\ Asked \subseteq Rowless
    <3>1. Rowless \subseteq AskedBy(w)
      BY <1>2, <1>3, <2>1, <2>2 DEF Rowless
    <3> QED BY <3>1, AskedAre
  <2>4. \A v \in Worker : \A s \in AskedBy(v) : s \in AskedBy(w) /\ v = w
    <3> TAKE v \in Worker
    <3> TAKE s \in AskedBy(v)
    <3>1. s \in AskedBy(w)
      BY <2>3 DEF Asked
    <3> QED BY <1>1, <3>1 DEF SendsFit
  <2>5. \A x, y \in AskedBy(w) : x = y
    BY <1>1 DEF SendsFit
  <2>6. In(wait, {"expired"}) = {}
    <3> SUFFICES ASSUME NEW r \in In(wait, {"expired"}) PROVE FALSE
      OBVIOUS
    <3>1. r \in Held(wait) /\ wait[r].state = "expired" /\ r \in Turn
      BY DEF In, Held
    <3>2. wait'[r].state = "expired"
      BY <1>3, <2>2, <3>1
    <3> QED BY <2>2, <3>1, <3>2 DEF In
  <2>7. SoFarOneByOne
    <3>1. \A r \in Held(wait) : wait[r].alone
      <4> TAKE r \in Held(wait)
      <4>1. wait'[r].alone /\ wait'[r].alone = wait[r].alone
        BY <1>3, <2>2
      <4> QED BY <4>1
    <3>2. \A v \in Worker : \A r \in AskedBy(v) : tx[v].rows[r].alone
      <4> TAKE v \in Worker
      <4> TAKE r \in AskedBy(v)
      <4>1. v = w /\ r \in AskedBy(w) /\ wait'[r] = tx[w].rows[r] /\ wait'[r].alone
        BY <1>3, <2>2, <2>4
      <4> QED BY <4>1
    <3>3. (\A x, y \in Rowless : x = y) /\ Rowless \subseteq Asked
      BY <2>3, <2>5 DEF Asked
    <3> QED BY <2>2, <2>6, <3>1, <3>2, <3>3 DEF SoFarOneByOne
  <2>8. /\ \A r \in Held(wait), s \in Held(wait) \cup Asked : r < s => wait[r].state = "answered"
        /\ \A r \in In(wait, {"answered"}) : PromptBy(r, stored) /\ Asks(wait[r].text) \subseteq {r} /\ wait[r].text \subseteq Sent
        /\ \A r, s \in Held(wait) : r < s => PromptBy(r, wait[s].after)
        /\ \A v \in Worker : \A s \in AskedBy(v) : \A r \in Held(wait) : PromptBy(r, tx[v].rows[s].after)
    BY <1>1, <2>7 DEF OwnWords
  <2>9. \A r \in AskedBy(w) : wait'[r].state = "waiting" /\ r \in Asked /\ \A q \in Held(wait) : q < r
    BY <1>1, <1>3 DEF SendsFit, Asked
  <2>10. Held(wait') \subseteq Nat
    BY <1>3, AskedAre DEF Asked
  <2>11. ASSUME NEW r \in Held(wait'), NEW s \in Held(wait'), r < s
         PROVE  /\ r \in Held(wait) /\ s \in Held(wait) \cup Asked /\ wait'[r].state = "answered"
                /\ PromptBy(r, wait'[s].after)
    <3>1. r \in Held(wait)
      <4> SUFFICES ASSUME r \in AskedBy(w) PROVE FALSE
        BY <1>3
      <4>1. s \in Held(wait) => s < r
        BY <2>9
      <4>2. s \in AskedBy(w) => s = r
        BY <2>5
      <4> QED BY <1>3, <2>10, <2>11, <4>1, <4>2
    <3>2. s \in Held(wait) \cup Asked
      BY <1>3, <2>9
    <3>3. wait[r].state = "answered"
      BY <2>8, <2>11, <3>1, <3>2
    <3>4. wait'[r].state = "answered"
      BY <1>3, <2>2, <3>1, <3>3
    <3>5. CASE s \in Held(wait)
      <4>1. wait'[s].after = wait[s].after
        BY <1>3, <3>5
      <4>2. PromptBy(r, wait[s].after)
        BY <2>8, <2>11, <3>1, <3>5
      <4> QED BY <3>1, <3>2, <3>4, <4>1, <4>2
    <3>6. CASE s \in AskedBy(w)
      <4>1. wait'[s] = tx[w].rows[s]
        BY <1>3, <3>6
      <4>2. PromptBy(r, tx[w].rows[s].after)
        BY <2>8, <3>1, <3>6
      <4> QED BY <3>1, <3>2, <3>4, <4>1, <4>2
    <3> QED BY <1>3, <3>5, <3>6
  <2>12. ASSUME NEW r \in In(wait', {"answered"})
         PROVE  PromptBy(r, stored) /\ Asks(wait'[r].text) \subseteq {r} /\ wait'[r].text \subseteq Sent
    <3>1. r \in Held(wait') /\ wait'[r].state = "answered" /\ r \in Turn
      BY DEF In, Held
    <3>2. r \in Held(wait)
      BY <1>3, <2>9, <3>1
    <3>3. wait'[r] = wait[r]
      BY <1>3, <2>2, <3>1, <3>2
    <3>4. r \in In(wait, {"answered"})
      BY <3>1, <3>3 DEF In
    <3> QED BY <2>8, <3>3, <3>4
  <2>13. /\ Sent' = Sent /\ (\A T : Asks(T)' = Asks(T)) /\ (\A b, n : PromptBy(b, n)' = PromptBy(b, n)) /\ stored' = stored
         /\ In(wait, {"answered"})' = In(wait', {"answered"})
    BY <1>2 DEF Sent, Asks, PromptBy, In
  <2>14. \A r \in In(wait', {"answered"}) : PromptBy(r, stored)' /\ Asks(wait[r].text)' \subseteq {r} /\ wait'[r].text \subseteq Sent'
    <3> TAKE r \in In(wait', {"answered"})
    <3>1. Asks(wait[r].text)' = Asks(wait'[r].text) /\ PromptBy(r, stored)' = PromptBy(r, stored)
      BY <1>2 DEF Asks, PromptBy
    <3> QED BY <2>12, <2>13, <3>1
  <2>15. \A r, s \in Held(wait') : r < s => PromptBy(r, wait[s].after)'
    <3> SUFFICES ASSUME NEW r \in Held(wait'), NEW s \in Held(wait'), r < s PROVE PromptBy(r, wait[s].after)'
      OBVIOUS
    <3>1. PromptBy(r, wait'[s].after)
      BY <2>11
    <3> QED BY <1>2, <3>1 DEF PromptBy
  <2>16. \A r \in Held(wait'), s \in Held(wait') \cup Asked' : r < s => wait'[r].state = "answered"
    BY <1>2, <2>11
  <2> QED BY <1>2, <2>1, <2>13, <2>14, <2>15, <2>16 DEF OwnWords
<1> QED BY <1>4, <1>5, <1>6 DEF WordsInv
\* The first prompt after a row was made is its own, and so is what stands after it.
LEMMA AnswerIsOwn ==
  ASSUME BridgeInv, LinesFit, LinesAfter, OwnWords, SoFarOneByOne,
         NEW r \in In(wait, {"ended"}), AnswerText(wait[r]) # {}
  PROVE  PromptBy(r, stored) /\ Asks(AnswerText(wait[r])) \subseteq {r} /\ AnswerText(wait[r]) \subseteq Sent
<1> DEFINE after == wait[r].after
           T == AnswerText(wait[r])
<1>1. /\ BridgeTypes /\ r \in Turn /\ r \in Held(wait) /\ wait[r].state = "ended" /\ wait[r] \in Row
      /\ Len(lines) \in Nat /\ stored \in Nat /\ stored <= Len(lines) /\ after \in Nat
  <2>1. BridgeTypes /\ r \in Turn /\ r \in Held(wait) /\ wait[r].state = "ended"
    BY DEF BridgeInv, In, Held
  <2>2. wait[r] \in Row
    BY <2>1 DEF BridgeTypes
  <2> QED BY <2>1, <2>2, LinesAre DEF Row
<1>2. PICK first \in Prompts(wait[r]) :
         \A u \in T : \E j \in (first + 1)..stored :
            /\ lines[j] = [turn |-> u, what |-> "text"]
            /\ \A k \in (first + 1)..j : ~IsPrompt(lines[k])
  BY <1>1, AnswerTextIs
<1>3. /\ first \in 1..Len(lines) /\ first <= stored /\ after < first
      /\ lines[first].what = "prompt" /\ kind[lines[first].turn] # "effort"
  <2>1. first \in (after + 1)..stored /\ IsPrompt(lines[first])
    BY DEF Prompts
  <2> HIDE DEF after
  <2> QED BY <1>1, <2>1 DEF IsPrompt
<1> DEFINE p == lines[first].turn
<1>4. p \in Sent /\ p \in Nat /\ r \in Nat /\ lines[first] = [turn |-> p, what |-> "prompt"]
  <2>1. lines[first] \in [turn : Turn, what : {"prompt", "text"}]
    BY <1>1, <1>3, LinesAre
  <2>2. p \in Sent
    BY <1>3 DEF LinesFit
  <2> QED BY <1>1, <1>3, <2>1, <2>2, TurnsAreNat
<1>5. p \in Held(wait) \cup Asked
  <2>1. p \in Rows \cup Rowless
    BY <1>3, <1>4 DEF Rowless, Sent
  <2> QED BY <2>1, AskedAre DEF SoFarOneByOne
<1>6. p = r
  <2>1. ASSUME p < r PROVE FALSE
    <3>1. p \in Held(wait)
      <4> SUFFICES ASSUME p \in Asked PROVE FALSE
        BY <1>5
      <4>1. r < p
        BY <1>1, AskedAre
      <4> QED BY <1>4, <2>1, <4>1
    <3>2. PromptBy(p, after)
      BY <1>1, <2>1, <3>1 DEF OwnWords
    <3>3. PICK i \in 1..after : lines[i] = [turn |-> p, what |-> "prompt"]
      BY <3>2 DEF PromptBy
    <3>4. i \in 1..Len(lines) /\ i # first
      <4> HIDE DEF after
      <4> QED BY <1>1, <1>3
    <3>5. lines[i].turn = p /\ lines[i].what = "prompt"
      BY <3>3
    <3> QED BY <1>3, <3>4, <3>5 DEF LinesFit
  <2>2. ASSUME r < p PROVE FALSE
    <3>1. wait[r].state = "answered"
      BY <1>1, <1>5, <2>2 DEF OwnWords
    <3> QED BY <1>1, <3>1
  <2> HIDE DEF p
  <2> QED BY <1>4, <2>1, <2>2
<1>7. PromptBy(r, stored)
  <2>1. first \in 1..stored
    BY <1>1, <1>3
  <2> QED BY <1>4, <1>6, <2>1 DEF PromptBy
<1>8. ASSUME NEW u \in T PROVE u \in Sent /\ (kind[u] = "ask" => u = r)
  <2>1. PICK j \in (first + 1)..stored : /\ lines[j] = [turn |-> u, what |-> "text"]
                                         /\ \A k \in (first + 1)..j : ~IsPrompt(lines[k])
    BY <1>2
  <2>2. j \in 1..Len(lines) /\ first < j /\ lines[j].turn = u /\ lines[j].what = "text"
    BY <1>1, <1>3, <2>1
  <2>3. u \in Sent
    BY <2>2 DEF LinesFit
  <2>4. ASSUME kind[u] = "ask" PROVE u = r
    <3>1. PICK i \in 1..(j - 1) : /\ lines[i] = [turn |-> lines[j].turn, what |-> "prompt"]
                                  /\ \A k \in (i + 1)..(j - 1) : lines[k].what = "text"
      BY <2>2 DEF LinesFit
    <3>2. lines[i].turn = u /\ IsPrompt(lines[i])
      BY <2>2, <2>4, <3>1 DEF IsPrompt
    <3>3. i <= first
      <4> SUFFICES ASSUME ~(i <= first) PROVE FALSE
        OBVIOUS
      <4>1. i \in (first + 1)..j
        BY <1>1, <1>3, <2>2
      <4> QED BY <2>1, <3>2, <4>1
    <3>4. ~(i < first)
      <4> SUFFICES ASSUME i < first PROVE FALSE
        OBVIOUS
      <4>1. first \in (i + 1)..(j - 1)
        BY <1>1, <1>3, <2>2
      <4>2. lines[first].what = "text"
        BY <3>1, <4>1
      <4> QED BY <1>3, <4>2
    <3>5. i = first
      BY <1>1, <1>3, <2>2, <3>3, <3>4
    <3> QED BY <1>6, <3>2, <3>5
  <2> QED BY <2>3, <2>4
<1> QED BY <1>7, <1>8 DEF Asks

LEMMA ResumesWords ==
  ASSUME BridgeInv, BridgeInv', WordsInv, NEW late \in SUBSET In(wait, {"ended"}), Resumes(late)
  PROVE  WordsInv'
<1>1. BridgeTypes /\ RowsFit(wait) /\ LinesFit /\ LinesAfter /\ OwnWords
  BY DEF BridgeInv, Good, WordsInv
<1>2. /\ UNCHANGED <<carries, nextSeq, stored, tx, cmds, events, queue, begun, lines, kind, lost>>
      /\ Held(wait') = Held(wait) /\ Held(wait) \subseteq Turn
      /\ \A r \in Turn :
            \/ wait'[r] = wait[r]
            \/ /\ wait[r].state = "ended"
               /\ wait'[r].after = wait[r].after /\ wait'[r].alone = wait[r].alone
               /\ \/ /\ wait'[r].state = "answered" /\ wait'[r].text = AnswerText(wait[r])
                     /\ AnswerText(wait[r]) # {}
                  \/ wait'[r].state = "expired"
  BY <1>1, ResumesShape DEF Held
<1>3. /\ \A r \in Held(wait) : wait'[r].after = wait[r].after /\ wait'[r].alone = wait[r].alone
      /\ Held(wait)' = Held(wait) /\ (\A v \in Worker : AskedBy(v)' = AskedBy(v)) /\ Asked' = Asked /\ Rowless' = Rowless
      /\ Sent' = Sent
  <2>1. \A r \in Held(wait) : wait'[r].after = wait[r].after /\ wait'[r].alone = wait[r].alone
    BY <1>2
  <2>2. Held(wait)' = Held(wait)
    BY <1>2 DEF Held
  <2>3. (\A v \in Worker : AskedBy(v)' = AskedBy(v)) /\ Asked' = Asked
    BY <1>2 DEF AskedBy, Asked
  <2>4. Rowless' = Rowless /\ Sent' = Sent
    <3>1. Rows' = Rows
      BY <1>2 DEF Rows, Held
    <3> QED BY <1>2, <3>1 DEF Rowless, Sent
  <2> QED BY <2>1, <2>2, <2>3, <2>4
<1>4. LinesFit'
  BY <1>1, <1>2 DEF LinesFit, Sent, CmdTurns
<1>5. LinesAfter'
  <2>1. \A r \in Held(wait) : wait'[r].after <= stored
    BY <1>1, <1>3 DEF LinesAfter
  <2>2. \A i \in 1..Len(lines) : lines[i].turn \in Held(wait) => wait'[lines[i].turn].after < i
    BY <1>1, <1>3 DEF LinesAfter
  <2>3. lines' = lines /\ stored' = stored /\ tx' = tx
    BY <1>2
  <2> QED BY <1>1, <1>3, <2>1, <2>2, <2>3 DEF LinesAfter
<1>6. OwnWords'
  <2> SUFFICES ASSUME SoFarOneByOne' PROVE OwnWords'
    BY DEF OwnWords
  <2>1. /\ ~carries /\ lost = {} /\ In(wait', {"expired"}) = {} /\ (\A r \in Held(wait) : wait'[r].alone)
        /\ (\A v \in Worker : \A r \in AskedBy(v) : tx[v].rows[r].alone)
        /\ (\A x, y \in Rowless : x = y) /\ Rowless \subseteq Asked
    <3>1. In(wait, {"expired"})' = In(wait', {"expired"})
      BY DEF In
    <3> QED BY <1>2, <1>3, <3>1 DEF SoFarOneByOne
  <2>2. \A r \in Turn : wait'[r].state # "expired"
    BY <2>1 DEF In
  <2>3. SoFarOneByOne
    <3>1. \A r \in Held(wait) : wait[r].alone
      <4> TAKE r \in Held(wait)
      <4>1. wait'[r].alone /\ wait'[r].alone = wait[r].alone
        BY <1>3, <2>1
      <4> QED BY <4>1
    <3>2. In(wait, {"expired"}) = {}
      <4> SUFFICES ASSUME NEW r \in In(wait, {"expired"}) PROVE FALSE
        OBVIOUS
      <4>1. r \in Turn /\ wait[r].state = "expired"
        BY DEF In
      <4> QED BY <1>2, <2>2, <4>1
    <3> QED BY <2>1, <3>1, <3>2 DEF SoFarOneByOne
  <2>4. /\ \A r \in Held(wait), s \in Held(wait) \cup Asked : r < s => wait[r].state = "answered"
        /\ \A r \in In(wait, {"answered"}) : PromptBy(r, stored) /\ Asks(wait[r].text) \subseteq {r} /\ wait[r].text \subseteq Sent
        /\ \A r, s \in Held(wait) : r < s => PromptBy(r, wait[s].after)
        /\ \A v \in Worker : \A s \in AskedBy(v) : \A r \in Held(wait) : PromptBy(r, tx[v].rows[s].after)
    BY <1>1, <2>3 DEF OwnWords
  <2>5. \A r \in Held(wait), s \in Held(wait) \cup Asked : r < s => wait'[r].state = "answered"
    BY <1>2, <2>4
  <2>6. ASSUME NEW r \in In(wait', {"answered"})
        PROVE  PromptBy(r, stored) /\ Asks(wait'[r].text) \subseteq {r} /\ wait'[r].text \subseteq Sent
    <3>1. r \in Turn /\ wait'[r].state = "answered"
      BY DEF In
    <3>2. CASE wait'[r] = wait[r]
      <4>1. r \in In(wait, {"answered"})
        BY <3>1, <3>2 DEF In
      <4> QED BY <2>4, <3>2, <4>1
    <3>3. CASE /\ wait[r].state = "ended" /\ wait'[r].text = AnswerText(wait[r])
               /\ AnswerText(wait[r]) # {}
      <4>1. r \in In(wait, {"ended"})
        BY <3>1, <3>3 DEF In
      <4> QED BY <1>1, <2>3, <3>3, <4>1, AnswerIsOwn
    <3> QED BY <1>2, <2>2, <3>1, <3>2, <3>3
  <2>7. \A r \in In(wait', {"answered"}) : PromptBy(r, stored)' /\ Asks(wait[r].text)' \subseteq {r} /\ wait'[r].text \subseteq Sent
    <3> TAKE r \in In(wait', {"answered"})
    <3>1. Asks(wait[r].text)' = Asks(wait'[r].text) /\ PromptBy(r, stored)' = PromptBy(r, stored)
      BY <1>2 DEF Asks, PromptBy
    <3> QED BY <2>6, <3>1
  <2>8. \A r, s \in Held(wait) : r < s => PromptBy(r, wait[s].after)'
    <3> SUFFICES ASSUME NEW r \in Held(wait), NEW s \in Held(wait), r < s PROVE PromptBy(r, wait[s].after)'
      OBVIOUS
    <3>1. PromptBy(r, wait'[s].after)
      BY <1>3, <2>4
    <3> QED BY <1>2, <3>1 DEF PromptBy
  <2>9. \A v \in Worker : \A s \in AskedBy(v) : \A r \in Held(wait) : PromptBy(r, tx[v].rows[s].after)'
    <3> SUFFICES ASSUME NEW v \in Worker, NEW s \in AskedBy(v), NEW r \in Held(wait) PROVE PromptBy(r, tx[v].rows[s].after)'
      OBVIOUS
    <3>1. PromptBy(r, tx'[v].rows[s].after)
      BY <1>2, <2>4
    <3> QED BY <1>2, <3>1 DEF PromptBy
  <2>10. In(wait, {"answered"})' = In(wait', {"answered"})
    BY DEF In
  <2> QED BY <1>3, <2>5, <2>7, <2>8, <2>9, <2>10 DEF OwnWords
<1> QED BY <1>4, <1>5, <1>6 DEF WordsInv
----
(***************************************************************************)
(* Every step, and what holds in every state.                              *)
(***************************************************************************)
LEMMA BridgeStep == ASSUME BridgeInv, WordsInv, [BridgeNext]_bridgeVars PROVE BridgeInv' /\ WordsInv'
<1>1. ASSUME NEW w \in Worker, Polls(w) PROVE BridgeInv' /\ WordsInv'
  BY <1>1, PollsKeeps, PollsWords
<1>2. ASSUME NEW w \in Worker, Commit(w) PROVE BridgeInv' /\ WordsInv'
  BY <1>2, CommitKeeps, CommitWords
<1>3. ASSUME NEW w \in Worker, Abort(w) PROVE BridgeInv' /\ WordsInv'
  BY <1>3, AbortKeeps, AbortWords
<1>4. ASSUME NEW w \in Worker, NEW parts \in Requests, Sends(w, parts) PROVE BridgeInv' /\ WordsInv'
  BY <1>4, SendsKeeps, SendsWords
<1>5. ASSUME NEW c \in cmds, Handles(c) PROVE BridgeInv' /\ WordsInv'
  BY <1>5, HandlesKeeps, HandlesWords
<1>6. CASE Begins
  BY <1>6, BeginsKeeps, BeginsWords
<1>7. CASE Ends
  BY <1>7, EndsKeeps, EndsWords
<1>8. CASE Dies
  BY <1>8, DiesKeeps, DiesWords
<1>9. CASE Follows
  BY <1>9, FollowsKeeps, FollowsWords
<1>10. ASSUME NEW late \in SUBSET In(wait, {"ended"}), Resumes(late) PROVE BridgeInv' /\ WordsInv'
  BY <1>10, ResumesKeeps, ResumesWords
<1>11. CASE UNCHANGED bridgeVars
  <2>1. UNCHANGED <<carries, wait, nextSeq, stored, tx, cmds, events, queue, begun, lines, kind, lost>>
    BY <1>11 DEF bridgeVars, dbVars, spoolVars, sessionVars, histVars
  <2>3. Way(events)' = Way(events) /\ BridgeTypes /\ Unique(events)
    BY <2>1 DEF Way, BridgeInv
  <2>2. BridgeTypes'
    BY <2>1, <2>3 DEF BridgeTypes
  <2>4. WayStays /\ Unique(events)'
    BY <2>1, <2>3, SameWay
  <2>5. TxEnds /\ Len(events) <= Len(events)' /\ \A i \in 1..Len(events) : events'[i] = events[i]
    BY <2>1, <2>3 DEF TxEnds, BridgeTypes
  <2>6. BridgeInv'
    BY <2>1, <2>2, <2>4, <2>5, Quiet
  <2>7. AsksStay /\ LinesStay /\ stored <= stored'
    BY <2>1, <2>3, SameAsksStay, LinesAre DEF LinesStay
  <2>8. LinesFit'
    BY <2>1 DEF WordsInv, LinesFit, Sent, CmdTurns
  <2> QED BY <2>1, <2>6, <2>7, <2>8, QuietWords
<1> QED BY <1>1, <1>2, <1>3, <1>4, <1>5, <1>6, <1>7, <1>8, <1>9, <1>10, <1>11 DEF BridgeNext

LEMMA BridgeInvariant == BridgeSpec => [](BridgeInv /\ WordsInv)
<1>1. BridgeInit => BridgeInv /\ WordsInv
  BY InitKeeps
<1>2. (BridgeInv /\ WordsInv) /\ [BridgeNext]_bridgeVars => (BridgeInv /\ WordsInv)'
  BY BridgeStep
<1> QED BY <1>1, <1>2, PTL DEF BridgeSpec

\* One at a time is so from the start.
LEMMA ReadAreOwn == ASSUME BridgeInv, WordsInv PROVE ReadAnswersAreOwn
<1> SUFFICES ASSUME ~carries, OneByOne PROVE \A r \in In(wait, {"answered"}) : Asks(wait[r].text) \subseteq {r}
  BY DEF ReadAnswersAreOwn
<1>1. lost = {} /\ Rowless = {} /\ In(wait, {"expired"}) = {} /\ (\A r \in Held(wait) : wait[r].alone)
  BY AskedAre DEF OneByOne
<1>2. Asked = {} /\ \A w \in Worker : AskedBy(w) = {}
  <2>1. Asked = {}
    BY <1>1, AskedAre
  <2> QED BY <2>1 DEF Asked
<1>3. SoFarOneByOne
  BY <1>1, <1>2 DEF SoFarOneByOne
<1> QED BY <1>3 DEF WordsInv, OwnWords

(***************************************************************************)
(* The rows, the open transactions and the runner's queues are what they   *)
(* are said to be: an answered row has an answer, a row is an asked turn's,*)
(* no turn is both a command and in the process.                           *)
(***************************************************************************)
THEOREM BridgeTypeCorrect == BridgeSpec => []BridgeTypeOK
<1>1. BridgeInv /\ WordsInv => BridgeTypeOK
  BY TypesFollow
<1> QED BY <1>1, BridgeInvariant, PTL

(***************************************************************************)
(* No row waits for a result that was read before the row was there: as    *)
(* many rows wait as have a turn on its way or lost one, for any number of *)
(* requests, polls, refused commands and processes that end.               *)
(***************************************************************************)
THEOREM NoneStranded == BridgeSpec => []NoWaitIsStranded
<1>1. BridgeInv /\ WordsInv => NoWaitIsStranded
  BY NoneIsStranded
<1> QED BY <1>1, BridgeInvariant, PTL

(***************************************************************************)
(* What a turn said goes to one request, off by no more turns than were    *)
(* lost or have no row; and, read from the transcript of an older runner,  *)
(* one at a time and with none lost, to the request that asked for it.     *)
(***************************************************************************)
THEOREM AnswersAreNear == BridgeSpec => []AnswersStayNear
<1>1. BridgeInv /\ WordsInv => AnswersStayNear
  BY CarriedAreNear, ReadAreOwn DEF AnswersStayNear
<1> QED BY <1>1, BridgeInvariant, PTL
====
