---- MODULE PermissionGate ----
(***************************************************************************)
(* A permission request on its way from a claude process to a person and   *)
(* back: the runner parks it, Odoo keeps a record of it, and whoever       *)
(* answers first settles it - the person through a decide command, the     *)
(* runner's timeout, or the end of the process.                            *)
(*                                                                         *)
(* Four goroutines meet in the map of pending requests: the reader of the  *)
(* process (ask), the command loop (Decide), the reaper                    *)
(* (expirePermissions) and the waiter (dropPermissions).  The map has its  *)
(* own lock; writing to the process and to the event log happens outside.  *)
(* The command files and the event log behave as module CommandSpool says. *)
(***************************************************************************)
EXTENDS Naturals, Sequences, FiniteSets

CONSTANTS
    Req,            \* permission requests
    NoReq,          \* no request
    Proc,           \* claude processes, every incarnation of every session
    Owner,          \* the process that asks each request
    MaxClicks,      \* bound: different answers people give
    MaxCrashes      \* bound: runner crashes

ASSUME GateAssumption ==
    /\ NoReq \notin Req
    /\ Owner \in [Req -> Proc]
    /\ MaxClicks \in Nat /\ MaxCrashes \in Nat

Behavior == {"allow", "deny"}
Decision == [req : Req, behavior : Behavior]
Answerer == {"loop", "reaper"}

VARIABLES
    \* The processes: life of each, and where its requests stand in it.
    life, turn,
    \* The runner: the map, the request each reader is telling Odoo about, and
    \* per answerer the requests it took (job), the one answered but not yet
    \* logged (said) and what it answers.
    pending, telling, job, said, verdict,
    \* The lines of events.jsonl about each request, and how many Odoo applied:
    \* records are independent, so only the order within a request matters.
    log, applied,
    \* Odoo's records and the decide commands on their way.
    record, decides,
    \* History: clicks of people, clicks that committed, answers a process got.
    clicked, settledBy, answers,
    crashes

procVars == <<life, turn, answers>>
runnerVars == <<pending, telling, job, said, verdict>>
odooVars == <<applied, record, decides, clicked, settledBy>>
vars == <<procVars, runnerVars, log, odooVars, crashes>>

Init ==
    /\ life = [p \in Proc |-> "up"]
    /\ turn = [r \in Req |-> "unasked"]
    /\ pending = {} /\ telling = [p \in Proc |-> NoReq]
    /\ job = [a \in Answerer |-> {}] /\ said = [a \in Answerer |-> NoReq]
    /\ verdict = [a \in Answerer |-> "deny"]
    /\ log = [r \in Req |-> <<>>] /\ applied = [r \in Req |-> 0]
    /\ record = [r \in Req |-> "none"] /\ decides = {}
    /\ clicked = {} /\ settledBy = {} /\ answers = [r \in Req |-> 0]
    /\ crashes = 0

Emit(r, event) == log' = [log EXCEPT ![r] = Append(@, event)]

----
(***************************************************************************)
(* The claude process.                                                     *)
(***************************************************************************)
\* The process prints a can_use_tool request and parks the turn.
CliAsks(r) ==
    /\ life[Owner[r]] \in {"up", "closing"} /\ turn[r] = "unasked"
    /\ turn' = [turn EXCEPT ![r] = "asked"]
    /\ UNCHANGED <<life, answers, runnerVars, log, odooVars, crashes>>

\* stop closes stdin: nothing reaches the process any more and it will leave.
StdinCloses(p) ==
    /\ life[p] = "up"
    /\ life' = [life EXCEPT ![p] = "closing"]
    /\ UNCHANGED <<turn, answers, runnerVars, log, odooVars, crashes>>

Exits(p) ==
    /\ life[p] \in {"up", "closing"}
    /\ life' = [life EXCEPT ![p] = "dead"]
    /\ UNCHANGED <<turn, answers, runnerVars, log, odooVars, crashes>>

----
(***************************************************************************)
(* The runner.                                                             *)
(***************************************************************************)
\* ask, first half, by the reader of the process.  The request may still be in
\* the pipe after the process died; Wait closes the pipe, so it may be lost too.
AskParks(r) ==
    /\ turn[r] = "asked" /\ telling[Owner[r]] = NoReq
    /\ turn' = [turn EXCEPT ![r] = "parked"]
    /\ pending' = pending \cup {r}
    /\ telling' = [telling EXCEPT ![Owner[r]] = r]
    /\ UNCHANGED <<life, answers, job, said, verdict, log, odooVars, crashes>>

\* ask, second half: the permission event, written without the lock.
AskTells(p) ==
    /\ telling[p] # NoReq
    /\ Emit(telling[p], "permission")
    /\ telling' = [telling EXCEPT ![p] = NoReq]
    /\ UNCHANGED <<procVars, pending, job, said, verdict, odooVars, crashes>>

Free(a) == job[a] = {} /\ said[a] = NoReq

\* Whoever takes requests out of the map is the one to answer them.
Take(a, S, b) ==
    /\ pending' = pending \ S
    /\ job' = [job EXCEPT ![a] = S]
    /\ verdict' = [verdict EXCEPT ![a] = b]

\* Mutation: any request waiting in the runner is answered, not the one named.
MutDecideAnyWaiting(d) ==
    /\ d \in decides /\ Free("loop")
    /\ decides' = decides \ {d}
    /\ \E r \in pending : Take("loop", {r}, d.behavior)
    /\ UNCHANGED <<procVars, telling, said, log, applied, record, clicked, settledBy, crashes>>
\* Decide: an unknown id is refused, and the refusal changes nothing here.
Decide(d) ==
    /\ d \in decides /\ Free("loop")
    /\ decides' = decides \ {d}
    /\ IF d.req \in pending THEN Take("loop", {d.req}, d.behavior)
                            ELSE UNCHANGED <<pending, job, verdict>>
    /\ UNCHANGED <<procVars, telling, said, log, applied, record, clicked, settledBy, crashes>>

\* expirePermissions: every request past its time leaves the map at once.
Expire(S) ==
    /\ S # {} /\ S \subseteq pending /\ Free("reaper")
    /\ Take("reaper", S, "deny")
    /\ UNCHANGED <<procVars, telling, said, log, odooVars, crashes>>

\* answer, first half: the control_response.  A closed stdin is only logged.
Respond(a, r) ==
    /\ r \in job[a] /\ said[a] = NoReq
    /\ job' = [job EXCEPT ![a] = @ \ {r}]
    /\ said' = [said EXCEPT ![a] = r]
    /\ IF life[Owner[r]] = "up"
       THEN /\ turn' = [turn EXCEPT ![r] = verdict[a]]
            /\ answers' = [answers EXCEPT ![r] = @ + 1]
       ELSE UNCHANGED <<turn, answers>>
    /\ UNCHANGED <<life, pending, telling, verdict, log, odooVars, crashes>>

\* answer, second half: the decision event.
LogDecision(a) ==
    /\ said[a] # NoReq
    /\ Emit(said[a], verdict[a])
    /\ said' = [said EXCEPT ![a] = NoReq]
    /\ UNCHANGED <<procVars, pending, telling, job, verdict, odooVars, crashes>>

\* Mutation: the dead process's requests are logged and left in the map.
MutDropKeepsMap(p) ==
    /\ life[p] = "dead"
    /\ life' = [life EXCEPT ![p] = "reaped"]
    /\ log' = [r \in Req |-> IF r \in pending /\ Owner[r] = p THEN Append(log[r], "deny") ELSE log[r]]
    /\ UNCHANGED <<turn, answers, pending, telling, job, said, verdict, odooVars, crashes>>
\* Mutation: the owner is not compared.
MutDropEverything(p) ==
    /\ life[p] = "dead"
    /\ life' = [life EXCEPT ![p] = "reaped"]
    /\ pending' = {}
    /\ log' = [r \in Req |-> IF r \in pending THEN Append(log[r], "deny") ELSE log[r]]
    /\ UNCHANGED <<turn, answers, telling, job, said, verdict, odooVars, crashes>>
\* dropPermissions, by the waiter: deleted and logged under the lock.
DropPermissions(p) ==
    /\ life[p] = "dead"
    /\ life' = [life EXCEPT ![p] = "reaped"]
    /\ LET gone == {r \in pending : Owner[r] = p}
       IN /\ pending' = pending \ gone
          /\ log' = [r \in Req |-> IF r \in gone THEN Append(log[r], "deny") ELSE log[r]]
    /\ UNCHANGED <<turn, answers, telling, job, said, verdict, odooVars, crashes>>

\* The runner dies: its processes lose their stdin and go with it, and the map
\* is gone.  What it wrote stays, and so do the commands nobody handled.
RunnerCrash ==
    /\ crashes < MaxCrashes
    /\ crashes' = crashes + 1
    /\ life' = [p \in Proc |-> "reaped"]
    /\ pending' = {} /\ telling' = [p \in Proc |-> NoReq]
    /\ job' = [a \in Answerer |-> {}] /\ said' = [a \in Answerer |-> NoReq]
    /\ turn' = [r \in Req |-> IF turn[r] \in {"unasked", "asked"} THEN "lost" ELSE turn[r]]
    /\ UNCHANGED <<answers, verdict, log, odooVars>>

----
(***************************************************************************)
(* Odoo.                                                                   *)
(***************************************************************************)
\* Mutation: every decision closes the record as allowed.
MutClosedAllow(b) == "allow"
Closed(b) == b

\* _from_event creates the record; _resolve closes it, unless it is closed.
Applied(r, event) ==
    IF event = "permission"
    THEN IF record[r] = "none" THEN "pending" ELSE record[r]
    ELSE IF record[r] = "pending" THEN Closed(event) ELSE record[r]

ApplyEvent(r) ==
    /\ applied[r] < Len(log[r])
    /\ applied' = [applied EXCEPT ![r] = @ + 1]
    /\ record' = [record EXCEPT ![r] = Applied(r, log[r][applied[r] + 1])]
    /\ UNCHANGED <<procVars, runnerVars, log, decides, clicked, settledBy, crashes>>

\* A person answers a waiting record: the command file goes out first.
Submit(d) ==
    /\ record[d.req] = "pending"
    /\ decides' = decides \cup {d}
    /\ clicked' = clicked \cup {d}
    /\ Cardinality(clicked') <= MaxClicks

Click(d) ==
    /\ Submit(d)
    /\ record' = [record EXCEPT ![d.req] = d.behavior]
    /\ settledBy' = settledBy \cup {d.req}
    /\ UNCHANGED <<procVars, runnerVars, log, applied, crashes>>

\* The same, but the transaction is refused (two people at once, or the poll
\* updated the runner's row): the command file is out, the record unchanged.
ClickRolledBack(d) ==
    /\ Submit(d)
    /\ UNCHANGED <<procVars, runnerVars, log, applied, record, settledBy, crashes>>

----
RunnerStep ==
    \/ \E p \in Proc : AskTells(p)
    \/ \E a \in Answerer : LogDecision(a) \/ \E r \in job[a] : Respond(a, r)
    \/ \E d \in decides : Decide(d)

Next ==
    \/ \E r \in Req : CliAsks(r) \/ AskParks(r) \/ ApplyEvent(r)
    \/ \E d \in Decision : Click(d) \/ ClickRolledBack(d)
    \/ \E p \in Proc : StdinCloses(p) \/ Exits(p) \/ DropPermissions(p)
    \/ \E S \in SUBSET pending : Expire(S)
    \/ RunnerStep
    \/ RunnerCrash

\* A goroutine that holds work goes on with it, a write of an answer included: a
\* process that asked reads its stdin.  A live process's output is read too;
\* the reaper ticks, and every request gets old; the poll is a cron.
\* Nobody has to click, and no process has to ask or to leave on its own.
Fairness ==
    /\ \A p \in Proc : WF_vars(AskTells(p)) /\ WF_vars(DropPermissions(p))
    /\ \A p \in Proc : WF_vars(life[p] = "closing" /\ Exits(p))
    /\ \A a \in Answerer : WF_vars(LogDecision(a) \/ \E r \in job[a] : Respond(a, r))
    /\ \A r \in Req :
        /\ WF_vars(life[Owner[r]] = "up" /\ AskParks(r))
        /\ WF_vars(\E S \in SUBSET pending : r \in S /\ Expire(S))
        /\ WF_vars(ApplyEvent(r))

Spec == Init /\ [][Next]_vars /\ Fairness

----
TypeOK ==
    /\ life \in [Proc -> {"up", "closing", "dead", "reaped"}]
    /\ turn \in [Req -> {"unasked", "asked", "parked", "lost"} \cup Behavior]
    /\ pending \subseteq Req
    /\ telling \in [Proc -> Req \cup {NoReq}]
    /\ job \in [Answerer -> SUBSET Req] /\ \A a \in Answerer : job[a] \cap pending = {}
    /\ said \in [Answerer -> Req \cup {NoReq}]
    /\ verdict \in [Answerer -> Behavior]
    /\ log \in [Req -> Seq({"permission"} \cup Behavior)]
    /\ applied \in [Req -> Nat]
    /\ \A r \in Req : applied[r] <= Len(log[r])
    /\ record \in [Req -> {"none", "pending"} \cup Behavior]
    /\ decides \subseteq Decision /\ clicked \subseteq Decision
    /\ settledBy \subseteq Req
    /\ answers \in [Req -> Nat]
    /\ crashes \in 0..MaxCrashes

Decisions(r) == {i \in DOMAIN log[r] : log[r][i] \in Behavior}

\* Decide, the timeout and the end of the process race for the same request, and
\* one of them wins: the process reads at most one answer, and the log holds at
\* most one decision.
AnsweredAtMostOnce ==
    \A r \in Req : answers[r] <= 1 /\ Cardinality(Decisions(r)) <= 1

\* Nothing here approves on its own: a tool call runs only when a person pressed
\* allow for that very request.
AllowNeedsPerson ==
    \A r \in Req : turn[r] = "allow" => [req |-> r, behavior |-> "allow"] \in clicked

\* A record no click settled says what the runner answered.
RunnerSettledRecordsAgree ==
    \A r \in Req \ settledBy : record[r] \in Behavior =>
        \E i \in Decisions(r) : i <= applied[r] /\ log[r][i] = record[r]

\* The wait of a parked turn ends: answered, or its process is on its way out.
ParkedTurnResumes ==
    \A r \in Req : turn[r] = "parked" ~> turn[r] \in Behavior \/ life[Owner[r]] # "up"

----
(***************************************************************************)
(* What the comments promise and the code does not keep.                   *)
(***************************************************************************)
\* "A record nobody answers is denied by the runner's own timeout, which also
\* closes the record."
EveryRecordCloses ==
    \A r \in Req : record[r] = "pending" ~> record[r] # "pending"
====
