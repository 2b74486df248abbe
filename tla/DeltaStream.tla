---- MODULE DeltaStream ----
(***************************************************************************)
(* The coalescer between the text deltas of one claude process and the     *)
(* lines of deltas.jsonl.  Text is collected per stream (the main turn, a  *)
(* subagent) and written as snapshots: by a timer that fires once per      *)
(* window, before every durable event, and when a block or a turn ends.    *)
(*                                                                         *)
(* A snapshot is taken under the lock and written after it was released,   *)
(* so a line is in flight between the two.  A timer that has fired waits   *)
(* for the lock like everyone else and finds its stream by key: by then it *)
(* may be another block's.                                                 *)
(***************************************************************************)
EXTENDS Naturals, Sequences, FiniteSets

CONSTANTS
    Key,            \* streams: frame session and parent tool use
    MaxStreams,     \* streams tracked at once (16)
    MaxBuf,         \* text units a stream may hold (256 KiB)
    MaxText,        \* bound: text deltas the process prints
    MaxEvents       \* bound: durable events other goroutines or turns emit

ASSUME DeltaAssumption ==
    /\ MaxStreams \in Nat /\ MaxBuf \in Nat
    /\ MaxText \in Nat /\ MaxEvents \in Nat

Thread == {"reader", "loop", "waiter"}
Stage == {"flush", "drop", "emit"}

VARIABLES
    \* The tracked streams, and the timers of each key: those armed that no
    \* stream holds any more, and those that fired and wait for the lock.
    stream, stray, fired,
    \* Per goroutine the lines it took and has still to write, and what it does
    \* after them; the lines taken by timers.
    out, todo, ticking,
    \* History: snapshots taken, text units printed and written of every block,
    \* the durable events so far.
    taken, printed, wrote, deltas, events

streamVars == <<stream, stray, fired>>
writerVars == <<out, todo, ticking>>
deltaVars == <<streamVars, writerVars, taken, printed, wrote, deltas, events>>

Block == 1..MaxText             \* a block is opened by a delta
NoStream == [block |-> 0, text |-> 0, cut |-> FALSE, dirty |-> FALSE, seq |-> 0, timer |-> "nil"]
Line == [block : Block, seq : Nat, text : Nat]

DeltaInit ==
    /\ stream = [k \in Key |-> NoStream]
    /\ stray = [k \in Key |-> 0] /\ fired = [k \in Key |-> 0]
    /\ out = [t \in Thread |-> <<>>] /\ todo = [t \in Thread |-> <<>>] /\ ticking = {}
    /\ taken = {} /\ printed = [b \in Block |-> 0] /\ wrote = [b \in Block |-> 0]
    /\ deltas = 0 /\ events = 0

Tracked == {k \in Key : stream[k] # NoStream}
AtRest(t) == out[t] = <<>> /\ todo[t] = <<>>

\* lineFor: the next number and all the text so far.
LineFor(st) == [block |-> st.block, seq |-> st.seq + 1, text |-> st.text]
\* Mutation: the number is the timer's business only.
MutSnapped(st) == [st EXCEPT !.dirty = FALSE]
Snapped(st) == [st EXCEPT !.seq = @ + 1, !.dirty = FALSE]
Dirty(S) == {k \in S : stream[k].dirty}
\* The map is ranged over in no particular order.
Orders(S) == {order \in [1..Cardinality(S) -> S] : \A k \in S : \E n \in DOMAIN order : order[n] = k}

----
(***************************************************************************)
(* The reader: text, and the frames that close a block.                    *)
(***************************************************************************)
\* Mutation: the timer is armed for a new stream only.
MutArmed(k, st) == [st EXCEPT !.timer = IF stream[k] = NoStream THEN "armed" ELSE @]
Armed(k, st) == [st EXCEPT !.timer = IF @ = "nil" THEN "armed" ELSE @]

\* n more units: as many as there is room for, then the note that it was cut -
\* which is left out when the text did not fill the room exactly.
Grown(st, n) ==
    LET room == MaxBuf - st.text
    IN  IF st.cut THEN st
        ELSE IF st.text >= MaxBuf THEN [st EXCEPT !.text = @ + 1, !.cut = TRUE, !.dirty = TRUE]
        ELSE IF n > room THEN [st EXCEPT !.text = MaxBuf, !.cut = TRUE, !.dirty = TRUE]
        ELSE [st EXCEPT !.text = @ + n, !.dirty = TRUE]

\* No more streams are tracked; the text is dropped.
Refused(k) == stream[k] = NoStream /\ Cardinality(Tracked) >= MaxStreams

ReadText(k, n) ==
    /\ AtRest("reader") /\ deltas < MaxText
    /\ deltas' = deltas + 1
    /\ LET new == [NoStream EXCEPT !.block = deltas']
           st == Grown(IF stream[k] = NoStream THEN new ELSE stream[k], n)
       IN  IF Refused(k)
           THEN UNCHANGED <<stream, printed>>
           ELSE /\ stream' = [stream EXCEPT ![k] = Armed(k, st)]
                /\ printed' = [printed EXCEPT ![st.block] = st.text]
    /\ UNCHANGED <<stray, fired, writerVars, taken, wrote, events>>

\* Mutation: closing forgets text that no timer has written yet.
MutCloseStream(k) ==
    /\ AtRest("reader") /\ k \in Tracked
    /\ stream' = [stream EXCEPT ![k] = NoStream]
    /\ UNCHANGED <<stray, fired, writerVars, taken, printed, wrote, deltas, events>>
\* closeStream: an assistant frame, message_start or message_stop.  Stop takes
\* back a timer that has not fired.
CloseStream(k) ==
    /\ AtRest("reader") /\ k \in Tracked
    /\ stream' = [stream EXCEPT ![k] = NoStream]
    /\ IF stream[k].dirty
       THEN /\ out' = [out EXCEPT !["reader"] = <<LineFor(stream[k])>>]
            /\ taken' = taken \cup {LineFor(stream[k])}
       ELSE UNCHANGED <<out, taken>>
    /\ UNCHANGED <<stray, fired, todo, ticking, printed, wrote, deltas, events>>

----
(***************************************************************************)
(* Durable events.  The reader emits them for permission requests, for a   *)
(* state change and for a result, which also ends the turn; the command    *)
(* loop for a state change; the waiter drops what is left.                 *)
(***************************************************************************)
Programs(t) ==
    CASE t = "reader" -> {<<"flush", "emit">>, <<"flush", "emit", "drop", "flush", "emit">>}
      [] t = "loop" -> {<<"flush", "emit">>}
      [] t = "waiter" -> {<<"drop", "emit">>}

Begins(t) ==
    /\ AtRest(t) /\ events < MaxEvents
    /\ events' = events + 1
    /\ \E p \in Programs(t) : todo' = [todo EXCEPT ![t] = p]
    /\ UNCHANGED <<streamVars, out, ticking, taken, printed, wrote, deltas>>

At(t, stage) == out[t] = <<>> /\ todo[t] # <<>> /\ Head(todo[t]) = stage
Takes(t, S) ==
    /\ todo' = [todo EXCEPT ![t] = Tail(@)]
    /\ \E order \in Orders(S) :
        out' = [out EXCEPT ![t] = [n \in DOMAIN order |-> LineFor(stream[order[n]])]]
    /\ taken' = taken \cup {LineFor(stream[k]) : k \in S}

FlushSession(t) ==
    /\ At(t, "flush") /\ Takes(t, Dirty(Tracked))
    /\ stream' = [k \in Key |-> IF stream[k].dirty THEN Snapped(stream[k]) ELSE stream[k]]
    /\ UNCHANGED <<stray, fired, ticking, printed, wrote, deltas, events>>

DropSession(t) ==
    /\ At(t, "drop") /\ Takes(t, Dirty(Tracked))
    /\ stream' = [k \in Key |-> NoStream]
    /\ UNCHANGED <<stray, fired, ticking, printed, wrote, deltas, events>>

Emit(t) ==
    /\ At(t, "emit")
    /\ todo' = [todo EXCEPT ![t] = Tail(@)]
    /\ UNCHANGED <<streamVars, out, ticking, taken, printed, wrote, deltas, events>>

\* writeLine; the file has a lock of its own.
Written(l) == wrote' = [wrote EXCEPT ![l.block] = IF l.text > @ THEN l.text ELSE @]
WriteLine(t) ==
    /\ out[t] # <<>>
    /\ Written(Head(out[t]))
    /\ out' = [out EXCEPT ![t] = Tail(@)]
    /\ UNCHANGED <<streamVars, todo, ticking, taken, printed, deltas, events>>

----
(***************************************************************************)
(* The timers.                                                             *)
(***************************************************************************)
Fires(k) ==
    /\ \/ stream[k].timer = "armed" /\ stream' = [stream EXCEPT ![k].timer = "fired"] /\ UNCHANGED stray
       \/ stray[k] > 0 /\ stray' = [stray EXCEPT ![k] = @ - 1] /\ UNCHANGED stream
    /\ fired' = [fired EXCEPT ![k] = @ + 1]
    /\ UNCHANGED <<writerVars, taken, printed, wrote, deltas, events>>

\* A timer that the stream's field no longer holds cannot be stopped any more.
Replaced(k) == stray' = [stray EXCEPT ![k] = IF stream[k].timer = "armed" THEN @ + 1 ELSE @]

TickFindsNone(k) ==
    /\ fired[k] > 0 /\ stream[k] = NoStream
    /\ fired' = [fired EXCEPT ![k] = @ - 1]
    /\ UNCHANGED <<stream, stray, writerVars, taken, printed, wrote, deltas, events>>

TickLapses(k) ==
    /\ fired[k] > 0 /\ stream[k] # NoStream /\ ~stream[k].dirty
    /\ fired' = [fired EXCEPT ![k] = @ - 1]
    /\ Replaced(k)
    /\ stream' = [stream EXCEPT ![k].timer = "nil"]
    /\ UNCHANGED <<writerVars, taken, printed, wrote, deltas, events>>

TickFlushes(k) ==
    /\ fired[k] > 0 /\ stream[k].dirty
    /\ fired' = [fired EXCEPT ![k] = @ - 1]
    /\ Replaced(k)
    /\ stream' = [stream EXCEPT ![k] = [Snapped(@) EXCEPT !.timer = "armed"]]
    /\ ticking' = ticking \cup {LineFor(stream[k])}
    /\ taken' = taken \cup {LineFor(stream[k])}
    /\ UNCHANGED <<out, todo, printed, wrote, deltas, events>>

TickWrites(l) ==
    /\ l \in ticking
    /\ Written(l)
    /\ ticking' = ticking \ {l}
    /\ UNCHANGED <<streamVars, out, todo, taken, printed, deltas, events>>

----
Step(t) == FlushSession(t) \/ DropSession(t) \/ Emit(t) \/ WriteLine(t)
Tick(k) == TickFindsNone(k) \/ TickLapses(k) \/ TickFlushes(k)

DeltaNext ==
    \/ \E k \in Key : CloseStream(k) \/ \E n \in 1..2 : ReadText(k, n)
    \/ \E t \in Thread : Begins(t) \/ Step(t)
    \/ \E k \in Key : Fires(k) \/ Tick(k)
    \/ \E l \in ticking : TickWrites(l)

\* Timers fire, and a goroutine that began goes on.
DeltaFairness ==
    /\ \A t \in Thread : WF_deltaVars(Step(t))
    /\ \A k \in Key : WF_deltaVars(Fires(k)) /\ WF_deltaVars(Tick(k))
    /\ WF_deltaVars(\E l \in ticking : TickWrites(l))

DeltaSpec == DeltaInit /\ [][DeltaNext]_deltaVars /\ DeltaFairness

----
DeltaTypeOK ==
    /\ stream \in [Key -> {NoStream} \cup
          [block : Block, text : 1..(MaxBuf + 1), cut : BOOLEAN, dirty : BOOLEAN, seq : Nat,
           timer : {"nil", "armed", "fired"}]]
    /\ Cardinality(Tracked) <= MaxStreams
    /\ stray \in [Key -> Nat] /\ fired \in [Key -> Nat]
    /\ out \in [Thread -> Seq(Line)] /\ todo \in [Thread -> Seq(Stage)]
    /\ ticking \subseteq Line /\ taken \subseteq Line
    /\ \A t \in Thread : Len(out[t]) <= MaxStreams
    /\ printed \in [Block -> Nat] /\ wrote \in [Block -> Nat]
    /\ deltas \in 0..MaxText /\ events \in 0..MaxEvents

\* Text that nothing has written yet has a timer that will: one that is armed, or
\* one that fired and waits for the lock.
DirtyIsDue ==
    \A k \in Key : stream[k].dirty => stream[k].timer = "armed" \/ stray[k] + fired[k] > 0

\* The numbers of a block's snapshots are unique and follow its text, whoever
\* took them: a client could tell an old line from a new one by them.
SeqFollowsText ==
    \A l, m \in taken : l.block = m.block /\ l # m =>
        l.seq # m.seq /\ (l.seq < m.seq => l.text < m.text)

\* When the text pauses, all of every block is written in the end: no delta or event
\* has to come and push it, however flushes, closes and timers met before.  (The
\* bounds make the text and the events of a behaviour finite.)
TextIsWritten == <>[](\A b \in Block : wrote[b] = printed[b])
====
