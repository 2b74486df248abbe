---- MODULE SessionMirror ----
(***************************************************************************)
(* A session's row follows the transcript file another program writes.     *)
(* Three cursors read the same file: one stores the turns and joins each   *)
(* tool result to the call that made it, one keeps the map of the agents   *)
(* the session started since its context was last compacted, one sums up   *)
(* what the responses cost.                                                *)
(*                                                                         *)
(* Whatever reads the file and moves a cursor is one transaction that      *)
(* writes the session's row: two of them that overlap do not both commit,  *)
(* and one that fails leaves nothing.  So each is one step here, that saw  *)
(* any whole number of the file's lines.  Only the page, which looks at    *)
(* the file three times in one transaction, takes two.                     *)
(*                                                                         *)
(* Left out: what a line says, agents of agents and workflows and their    *)
(* own files, titles and times, forks (whose lines are another session's). *)
(***************************************************************************)
EXTENDS Naturals, Sequences, FiniteSetsExt

CONSTANTS
    Script,         \* the lines the session writes, one after the other
    Response,       \* the billed responses they belong to
    NoResponse,
    MaxToggles,     \* bound: clicks on the follow button
    MaxRewrites     \* bound: the file is written again, shorter

Id == 1..Len(Script)
Line == [kind : {"turn", "call", "result", "compact"},
         of : Id \cup {0},              \* the call a result answers
         response : Response \cup {NoResponse}, out : Nat]

ASSUME MirrorAssumption ==
    /\ Script \in Seq(Line) /\ NoResponse \notin Response /\ IsFiniteSet(Response)
    /\ \A l \in Id : Script[l].of # 0 => Script[l].of < l /\ Script[Script[l].of].kind = "call"
    /\ {MaxToggles, MaxRewrites} \subseteq Nat

VARIABLES
    \* The file: the lines in it, how many were ever written, whether the next
    \* one is half written; and how often it was cut.
    file, made, torn, rewrites,
    \* The session's row: whether it is followed, and the cursors, in halves of
    \* a line.
    following, follow, mapFrom, agentBytes, spendBytes, total,
    \* Its rows: the number of each stored turn, the calls whose output is
    \* stored, the agents, those that returned, and the billed output.
    seq, answered, agents, returned, held,
    \* The page's transaction: what it saw of the file before it counts lines.
    page, toggles,
    \* History: where following last began, and the lines read for billing.
    since, billed

fileVars == <<file, made, torn, rewrites>>
followVars == <<following, follow, seq, answered, since>>
mapVars == <<mapFrom, agentBytes, agents, returned>>
spendVars == <<spendBytes, total, held, billed>>
pageVars == <<page, toggles>>
vars == <<fileVars, followVars, mapVars, spendVars, pageVars>>

NoPage == [at |-> "none", size |-> 0, from |-> 0]

Init ==
    /\ file = <<>> /\ made = 0 /\ torn = FALSE /\ rewrites = 0
    /\ following = FALSE /\ follow = [bytes |-> 0, lines |-> 0]
    /\ mapFrom = 0 /\ agentBytes = 0 /\ spendBytes = 0 /\ total = 0
    /\ seq = [l \in Id |-> 0] /\ answered = {}
    /\ agents = {} /\ returned = {} /\ held = [r \in Response |-> 0]
    /\ page = NoPage /\ toggles = 0
    /\ since = 0 /\ billed = {}

Size == 2 * Len(file) + (IF torn THEN 1 ELSE 0)

\* The first line a reader gets from an offset: the rest of a line, which says
\* nothing, when the offset is within one.
Within(offset) == offset % 2 = 1
FirstFrom(offset) == (offset + 1) \div 2 + 1
\* The lines from there to the n-th, whole ones.
Between(offset, n) == {i \in 1..Len(file) : FirstFrom(offset) <= i /\ i <= n}
LineAt(i) == Script[file[i]]
IsTurn(l) == Script[l].kind \in {"turn", "call"}

----
(***************************************************************************)
(* The session writes its file.                                            *)
(***************************************************************************)
\* A file that was cut is read before it grows past a cursor: the readers know
\* it by its size only.
Noticed == Size >= follow.bytes /\ Size >= spendBytes

Writes ==
    /\ made < Len(Script) /\ Noticed
    /\ torn' = ~torn
    /\ IF torn THEN file' = Append(file, made + 1) /\ made' = made + 1
       ELSE UNCHANGED <<file, made>>
    /\ UNCHANGED <<rewrites, followVars, mapVars, spendVars, pageVars>>

Rewrites ==
    /\ rewrites < MaxRewrites /\ rewrites' = rewrites + 1
    /\ ~torn /\ file # <<>> /\ file' = Tail(file)
    /\ Size = follow.bytes /\ Size = spendBytes
    /\ UNCHANGED <<made, torn, followVars, mapVars, spendVars, pageVars>>

----
(***************************************************************************)
(* Following.                                                              *)
(***************************************************************************)
\* find_compact_offset: where the last compact line starts.
LastCompact(n) ==
    LET compact == {i \in 1..n : LineAt(i).kind = "compact"}
    IN  IF compact = {} THEN 0 ELSE 2 * ((CHOOSE i \in compact : \A j \in compact : j <= i) - 1)

\* _start_at_end: a person follows the session from here on.  The map's start
\* and the size are read first, then the lines are counted.
StartReads ==
    /\ page = NoPage /\ ~following /\ toggles < MaxToggles /\ toggles' = toggles + 1
    /\ page' = [at |-> "sized", size |-> Size, from |-> LastCompact(Len(file))]
    /\ UNCHANGED <<fileVars, followVars, mapVars, spendVars>>

StartCommits ==
    /\ page.at = "sized" /\ page' = NoPage
    /\ following' = TRUE
    /\ follow' = [bytes |-> page.size, lines |-> Len(file)] /\ since' = page.size
    /\ mapFrom' = page.from /\ agentBytes' = page.from
    /\ UNCHANGED <<fileVars, seq, answered, agents, returned, spendVars, toggles>>

\* The session's row was written by another transaction since.
StartConflicts ==
    /\ page.at = "sized" /\ page' = NoPage
    /\ UNCHANGED <<fileVars, followVars, mapVars, spendVars, toggles>>

StopFollowing ==
    /\ page = NoPage /\ following /\ toggles < MaxToggles /\ toggles' = toggles + 1
    /\ following' = FALSE
    /\ UNCHANGED <<fileVars, follow, seq, answered, since, mapVars, spendVars, page>>

\* A transaction that writes the row while the page is in its own wins.
Wins == page' = NoPage

\* _apply_following: the session has a process, or wrote a while ago, or not.
\* Mutation: a session that is live again is followed from its end.
MutApplyFollowing ==
    /\ following' = ~following /\ Wins
    /\ follow' = IF following THEN follow ELSE [bytes |-> Size, lines |-> Len(file)]
    /\ UNCHANGED <<fileVars, seq, answered, since, mapVars, spendVars, toggles>>
ApplyFollowing ==
    /\ following' = ~following /\ Wins
    /\ UNCHANGED <<fileVars, follow, seq, answered, since, mapVars, spendVars, toggles>>

\* Mutation: what is known of an agent outlives its row.
MutKept(known, now) == known
Kept(known, now) == known \cap now

\* _rebuild_agents: the calls and results up to the n-th line.  A compact line
\* that is not the one the map starts from empties it.
Rebuild(from, begin, old, n) ==
    LET read == Between(from, n)
        compact == {i \in read : LineAt(i).kind = "compact"}
        after == {i \in read : \A j \in compact : j < i}
        boundary == LastCompact(n)
        reset == compact # {} /\ boundary > begin
        calls == {file[i] : i \in {j \in after : LineAt(j).kind = "call"}}
        known == calls \cup (IF compact = {} THEN old ELSE {})
        results == {LineAt(i).of : i \in {j \in after : LineAt(j).kind = "result"}}
    IN  /\ agents' = (IF reset THEN {} ELSE old) \cup calls
        /\ returned' = Kept(returned \cup (results \cap known), agents')
        /\ mapFrom' = IF reset THEN boundary ELSE begin
        /\ agentBytes' = IF n < FirstFrom(from) THEN from ELSE 2 * n

\* Mutation: results are joined to the calls that came with them.
MutJoined(read, now) == {l \in Id : (\E i \in read : file[i] = l) /\ now[l] # 0 /\ \E i \in read : LineAt(i).of = l}
\* The stored calls whose results were read.
Joined(read, now) == {l \in Id : now[l] # 0 /\ \E i \in read : LineAt(i).of = l}

\* _follow_tick, which read the file up to line n, and up to line a for the map.
FollowTick(n, a) ==
    LET cut == Size < follow.bytes
        offset == IF cut THEN 0 ELSE follow.bytes
        before == IF cut THEN 0 ELSE follow.lines
        read == Between(offset, n)
        fresh == {i \in read : IsTurn(file[i])}
        stored == {file[i] : i \in fresh}
    IN  /\ following /\ Size # follow.bytes /\ n <= a /\ a <= Len(file) /\ 2 * n >= offset
        /\ seq' = [l \in Id |-> IF l \in stored
                   THEN before + (CHOOSE i \in fresh : file[i] = l) - (offset \div 2) ELSE seq[l]]
        /\ answered' = answered \cup Joined(read, seq')
        /\ follow' = [bytes |-> 2 * n, lines |-> before + n - (offset \div 2)]
        /\ since' = IF cut THEN 0 ELSE since
        /\ Rebuild(agentBytes, mapFrom, agents, a)
        /\ Wins
        /\ UNCHANGED <<fileVars, following, spendVars, toggles>>

\* action_rebuild_agents: the map is read again from its start; an agent of which
\* the file no longer holds the call, nor a result that no compact line comes
\* before, is dropped.
RebuildAgents ==
    LET from == LastCompact(Len(file))
        read == Between(from, Len(file))
        calls == {file[i] : i \in {j \in read : LineAt(j).kind = "call"}}
        results == IF \E i \in read : LineAt(i).kind = "compact" THEN {}
                   ELSE {LineAt(i).of : i \in read}
    IN  /\ Wins /\ Rebuild(from, from, agents \cap (calls \cup results), Len(file))
        /\ UNCHANGED <<fileVars, followVars, spendVars, toggles>>

----
(***************************************************************************)
(* What the responses cost.                                                *)
(***************************************************************************)
Largest(S, r) ==
    LET outs == {Script[l].out : l \in {k \in S : Script[k].response = r}} \cup {0}
    IN  CHOOSE o \in outs : \A p \in outs : p <= o

\* _store_spend, of the lines read in one pass: a response that is not held is
\* priced, one that is held is raised if a block says more, and the session's
\* total moves by as much.
\* Mutation: what is held stays as it is.
MutBilled(r, lines) == IF held[r] > 0 THEN held[r] ELSE Largest(lines, r)
Billed(r, lines) == IF held[r] >= Largest(lines, r) THEN held[r] ELSE Largest(lines, r)

\* _spend_tick, which its byte budget stops at line n.
SpendFrom(offset, n) ==
    LET lines == {file[i] : i \in Between(offset, n)}
        now == [r \in Response |-> Billed(r, lines)]
    IN  /\ n <= Len(file) /\ 2 * n >= offset
        /\ held' = now
        /\ total' = total + MapThenSumSet(LAMBDA r : now[r] - held[r], Response)
        /\ spendBytes' = 2 * n
        /\ billed' = billed \cup lines
        /\ Wins
        /\ UNCHANGED <<fileVars, followVars, mapVars, toggles>>

\* A queued job, for a file whose size is not the cursor.
ScanBatch(n) ==
    /\ Size # spendBytes
    /\ SpendFrom(IF Size < spendBytes THEN 0 ELSE spendBytes, n)

\* action_rescan_spend: from the start of the file; the passes after the first
\* are like those of a job.
RescanSpend(n) == SpendFrom(0, n)

Next ==
    \/ Writes \/ Rewrites
    \/ StartReads \/ StartCommits \/ StartConflicts \/ StopFollowing \/ ApplyFollowing
    \/ \E n \in 0..Len(Script) : ScanBatch(n) \/ RescanSpend(n)
    \/ \E n \in 0..Len(Script) : \E a \in n..Len(Script) : FollowTick(n, a)
    \/ RebuildAgents

Spec == Init /\ [][Next]_vars

----
TypeOK ==
    /\ file \in Seq(Id) /\ made \in 0..Len(Script) /\ follow.bytes \in 0..(2 * Len(Script))
    /\ seq \in [Id -> Nat] /\ answered \subseteq {l \in Id : Script[l].kind = "call" /\ seq[l] # 0}
    /\ returned \subseteq agents /\ total \in Nat

\* Following goes off and on as a session goes quiet and comes back, and the
\* file is cut or read in pieces: every turn written since a person said "from
\* here" is stored once the cursor is past it.
Followed(i) == 2 * (i - 1) >= since /\ 2 * i <= follow.bytes /\ follow.bytes <= Size
NoTurnIsSkipped == \A i \in 1..Len(file) : Followed(i) /\ IsTurn(file[i]) => seq[file[i]] # 0

\* A tool result that was read is joined to its call, whenever the call was read.
ResultsAreJoined ==
    \A i \in 1..Len(file) :
        Followed(i) /\ LineAt(i).of # 0 /\ seq[LineAt(i).of] # 0 => LineAt(i).of \in answered

\* A response is billed once, at the largest block read of it so far, and the
\* session's total is the sum of its rows.
BilledOnce ==
    /\ \A r \in Response : held[r] = Largest(billed, r)
    /\ total = MapThenSumSet(LAMBDA r : held[r], Response)
====
