---- MODULE MessageJournal ----
(***************************************************************************)
(* What the record of the messages between sessions promises, whatever the *)
(* order in which the transcripts are read: of each message it names the   *)
(* session that sent it and the session that got it.  A fork copies the    *)
(* lines of the session it came from, so several transcripts hold the same *)
(* line; the one that starts first wrote it.                               *)
(***************************************************************************)
EXTENDS Naturals

CONSTANTS
    Session,    \* numbered in the order their transcripts start
    Send,       \* messages
    Origin,     \* who sent each
    Target,     \* who gets each
    Roster      \* whom the roster of live processes names for each end, Nobody included

Nobody == 0

VARIABLES
    heard,      \* the sessions whose transcript was read to hold each end of a message
    ends        \* the session the record names for it

journalVars == <<heard, ends>>

Ends(S) == [from : S, to : S]

Init ==
    /\ heard = [m \in Send |-> [from |-> {}, to |-> {}]]
    /\ ends = [m \in Send |-> [from |-> Nobody, to |-> Nobody]]

\* A session the roster names before the one that wrote the line stays: a
\* transcript takes an end over from a later session only.
Corrected(writer, named) == named = Nobody \/ writer <= named

\* An end goes from nobody to a session that holds it, or to one that starts
\* earlier, never back, whatever the roster says; and is right once the session
\* that wrote it was read, unless the roster put an earlier one there.
Closer(old, new, holders, writer, named) ==
    /\ new # old => new \in holders /\ (old = Nobody \/ new < old)
    /\ writer \in holders /\ Corrected(writer, named) => new = writer

Hear(m) ==
    /\ heard[m].from \subseteq heard'[m].from /\ heard[m].to \subseteq heard'[m].to
    /\ Closer(ends[m].from, ends'[m].from, heard'[m].from, Origin[m], Roster[m].from)
    /\ Closer(ends[m].to, ends'[m].to, heard'[m].to, Target[m], Roster[m].to)

Next == \A m \in Send : Hear(m)

Spec == Init /\ [][Next]_journalVars
====
