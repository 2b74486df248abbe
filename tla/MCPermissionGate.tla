---- MODULE MCPermissionGate ----
\* Two requests of two processes: a decision, a timeout and an exit meet in the
\* runner's map, and the end of one process must not touch the other's request.
EXTENDS PermissionGate

CONSTANTS r1, r2, p1, p2

MCReq == {r1, r2}
MCProc == {p1, p2}
MCOwner == [r \in MCReq |-> IF r = r1 THEN p1 ELSE p2]

\* One request of one process is enough for a race to show.
OneReq == {r1}
OneProc == {p1}
OneOwner == [r \in OneReq |-> p1]
====
