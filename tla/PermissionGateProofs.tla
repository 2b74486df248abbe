---- MODULE PermissionGateProofs ----
(***************************************************************************)
(* Proofs about PermissionGate, for any requests, processes, clicks and    *)
(* crashes: a request has one answer, a tool call that runs was allowed by *)
(* a person, and a record that no click settled says what the runner       *)
(* decided.                                                                *)
(***************************************************************************)
EXTENDS PermissionGate, SequenceTheorems, FiniteSetTheorems, TLAPS

Event == {"permission"} \cup Behavior

\* Where the decisions are in a sequence of events.
Dec(s) == {i \in DOMAIN s : s[i] \in Behavior}

----
(***************************************************************************)
(* The log.                                                                *)
(***************************************************************************)
\* What an appended line changes: only a decision adds to the decisions.
LEMMA AppendDec ==
    ASSUME NEW s \in Seq(Event), NEW e \in Event
    PROVE  /\ Append(s, e) \in Seq(Event)
           /\ Len(Append(s, e)) = Len(s) + 1
           /\ \A i \in DOMAIN s : i \in DOMAIN Append(s, e) /\ Append(s, e)[i] = s[i]
           /\ e \notin Behavior => Dec(Append(s, e)) = Dec(s)
           /\ Dec(s) = {} => \A i, j \in Dec(Append(s, e)) : i = j
           /\ \A i \in Dec(s) : i \in Dec(Append(s, e))
<1>1. /\ Append(s, e) \in Seq(Event) /\ Len(Append(s, e)) = Len(s) + 1
      /\ DOMAIN s = 1..Len(s) /\ DOMAIN Append(s, e) = 1..(Len(s) + 1)
      /\ \A i \in 1..Len(s) : Append(s, e)[i] = s[i]
      /\ Append(s, e)[Len(s) + 1] = e /\ Len(s) \in Nat
  BY AppendProperties, LenProperties
<1>2. Len(s) + 1 \notin 1..Len(s) /\ 1..(Len(s) + 1) = (1..Len(s)) \cup {Len(s) + 1}
  BY <1>1
<1>3. e \notin Behavior => Dec(Append(s, e)) = Dec(s)
  BY <1>1, <1>2 DEF Dec
<1>4. Dec(Append(s, e)) \subseteq Dec(s) \cup {Len(s) + 1}
  BY <1>1, <1>2 DEF Dec
<1>5. Dec(s) = {} => \A i, j \in Dec(Append(s, e)) : i = j
  BY <1>4
<1>6. \A i \in Dec(s) : i \in Dec(Append(s, e))
  BY <1>1, <1>2 DEF Dec
<1> QED BY <1>1, <1>2, <1>3, <1>5, <1>6

\* A set whose members are all the same has at most one.
LEMMA OneMember ==
    ASSUME NEW S, \A i, j \in S : i = j
    PROVE  Cardinality(S) <= 1
<1>1. CASE S = {}
  BY <1>1, FS_EmptySet
<1>2. CASE S # {}
  <2>1. PICK x \in S : TRUE
    BY <1>2
  <2>2. S = {x}
    BY <2>1
  <2> QED BY <2>2, FS_Singleton
<1> QED BY <1>1, <1>2

----
(***************************************************************************)
(* The type invariant, without the part that is the work of the argument:  *)
(* whoever took a request took it out of the map.                          *)
(***************************************************************************)
Types ==
    /\ life \in [Proc -> {"up", "closing", "dead", "reaped"}]
    /\ turn \in [Req -> {"unasked", "asked", "parked", "lost"} \cup Behavior]
    /\ pending \subseteq Req
    /\ telling \in [Proc -> Req \cup {NoReq}]
    /\ job \in [Answerer -> SUBSET Req]
    /\ said \in [Answerer -> Req \cup {NoReq}]
    /\ verdict \in [Answerer -> Behavior]
    /\ log \in [Req -> Seq(Event)]
    /\ applied \in [Req -> Nat]
    /\ \A r \in Req : applied[r] <= Len(log[r])
    /\ record \in [Req -> {"none", "pending"} \cup Behavior]
    /\ decides \subseteq Decision /\ clicked \subseteq Decision
    /\ settledBy \subseteq Req
    /\ answers \in [Req -> Nat]
    /\ crashes \in 0..MaxCrashes

LEMMA InitTypes == Init => Types
<1> SUFFICES ASSUME Init PROVE Types
  OBVIOUS
<1>1. <<>> \in Seq(Event) /\ Len(<<>>) = 0
  BY EmptySeq
<1> QED BY <1>1, GateAssumption DEF Init, Types, Answerer, Behavior, Decision, Event

LEMMA NextTypes == Types /\ [Next]_vars => Types'
<1> SUFFICES ASSUME Types, [Next]_vars PROVE Types'
  OBVIOUS
<1> USE GateAssumption
<1>0. /\ log \in [Req -> Seq(Event)] /\ Behavior \subseteq Event /\ "permission" \in Event
      /\ "deny" \in Behavior /\ "loop" \in Answerer /\ "reaper" \in Answerer
  BY DEF Types, Event, Behavior, Answerer
<1>1. ASSUME NEW r \in Req, NEW e \in Event, Emit(r, e)
      PROVE  /\ log' \in [Req -> Seq(Event)]
             /\ \A q \in Req : applied[q] <= Len(log'[q])
  <2>1. Append(log[r], e) \in Seq(Event) /\ Len(Append(log[r], e)) = Len(log[r]) + 1
    BY <1>0, AppendDec
  <2>2. Len(log[r]) \in Nat /\ applied[r] \in Nat /\ applied[r] <= Len(log[r])
    BY <1>0, LenProperties DEF Types
  <2> QED BY <2>1, <2>2, <1>0, <1>1 DEF Emit, Types
<1>2. ASSUME NEW r \in Req, CliAsks(r) \/ AskParks(r) PROVE Types'
  <2>1. CASE CliAsks(r)
    BY <2>1 DEF CliAsks, Types, runnerVars, odooVars
  <2>2. CASE AskParks(r)
    <3>1. Owner[r] \in Proc
      OBVIOUS
    <3>2. telling' \in [Proc -> Req \cup {NoReq}] /\ turn' \in [Req -> {"unasked", "asked", "parked", "lost"} \cup Behavior]
      BY <2>2, <3>1 DEF AskParks, Types
    <3>3. pending' \subseteq Req /\ UNCHANGED <<life, job, said, verdict, log, applied, record, decides, clicked, settledBy, answers, crashes>>
      BY <2>2 DEF AskParks, Types, odooVars
    <3> QED BY <3>2, <3>3 DEF Types
  <2> QED BY <1>2, <2>1, <2>2
<1>3. ASSUME NEW p \in Proc, StdinCloses(p) \/ Exits(p) \/ DropPermissions(p) PROVE Types'
  <2>1. CASE StdinCloses(p) \/ Exits(p)
    BY <2>1 DEF StdinCloses, Exits, Types, runnerVars, odooVars
  <2>2. CASE DropPermissions(p)
    <3>1. \A r \in Req : /\ Append(log[r], "deny") \in Seq(Event)
                          /\ Len(Append(log[r], "deny")) = Len(log[r]) + 1
      BY <1>0, AppendDec
    <3>2. \A r \in Req : Len(log[r]) \in Nat /\ applied[r] \in Nat /\ applied[r] <= Len(log[r])
      BY <1>0, LenProperties DEF Types
    <3>3. log' \in [Req -> Seq(Event)] /\ \A r \in Req : applied[r] <= Len(log'[r])
      BY <2>2, <3>1, <3>2, <1>0 DEF DropPermissions
    <3>4. pending' \subseteq pending
      BY <2>2 DEF DropPermissions
    <3> QED BY <2>2, <3>3, <3>4 DEF DropPermissions, Types, odooVars, Event
  <2> QED BY <1>3, <2>1, <2>2
<1>4. ASSUME NEW p \in Proc, AskTells(p) PROVE Types'
  <2>1. telling[p] \in Req
    BY <1>4 DEF AskTells, Types
  <2>2. log' \in [Req -> Seq(Event)] /\ \A q \in Req : applied[q] <= Len(log'[q])
    BY <1>0, <1>1, <1>4, <2>1 DEF AskTells
  <2> QED BY <1>4, <2>2 DEF AskTells, Types, procVars, odooVars, Event
<1>5. ASSUME NEW a \in Answerer, LogDecision(a) PROVE Types'
  <2>1. said[a] \in Req /\ verdict[a] \in Event
    BY <1>5 DEF LogDecision, Types, Event
  <2>2. log' \in [Req -> Seq(Event)] /\ \A q \in Req : applied[q] <= Len(log'[q])
    BY <1>1, <1>5, <2>1 DEF LogDecision
  <2> QED BY <1>5, <2>2 DEF LogDecision, Types, procVars, odooVars, Event
<1>6. ASSUME NEW a \in Answerer, NEW r \in job[a], Respond(a, r) PROVE Types'
  <2>1. r \in Req /\ verdict[a] \in Behavior
    BY DEF Types
  <2>2. /\ job' \in [Answerer -> SUBSET Req] /\ \A b \in Answerer : job'[b] \subseteq job[b]
        /\ said' \in [Answerer -> Req \cup {NoReq}]
    BY <1>6, <2>1 DEF Respond, Types
  <2>3. turn' \in [Req -> {"unasked", "asked", "parked", "lost"} \cup Behavior] /\ answers' \in [Req -> Nat]
    <3>1. CASE life[Owner[r]] = "up"
      <4>1. verdict[a] \in {"unasked", "asked", "parked", "lost"} \cup Behavior
        BY <2>1
      <4>2. answers[r] + 1 \in Nat
        BY <2>1 DEF Types
      <4>3. turn' = [turn EXCEPT ![r] = verdict[a]] /\ answers' = [answers EXCEPT ![r] = @ + 1]
        BY <1>6, <3>1 DEF Respond
      <4> QED BY <4>1, <4>2, <4>3 DEF Types
    <3>2. CASE life[Owner[r]] # "up"
      BY <1>6, <3>2 DEF Respond, Types
    <3> QED BY <3>1, <3>2
  <2> QED BY <1>6, <2>2, <2>3 DEF Respond, Types, odooVars
<1>7. ASSUME NEW a \in Answerer, NEW S \in SUBSET pending, NEW b \in Behavior, Take(a, S, b)
      PROVE  /\ pending' \subseteq Req /\ job' \in [Answerer -> SUBSET Req]
             /\ verdict' \in [Answerer -> Behavior]
  BY <1>7 DEF Take, Types
<1>8. ASSUME NEW d \in decides, Decide(d) PROVE Types'
  <2>1. d.req \in Req /\ d.behavior \in Behavior
    BY DEF Types, Decision
  <2>2. /\ pending' \subseteq Req /\ job' \in [Answerer -> SUBSET Req]
        /\ verdict' \in [Answerer -> Behavior]
    <3>1. CASE d.req \in pending
      BY <1>0, <1>7, <1>8, <2>1, <3>1 DEF Decide, Free
    <3>2. CASE d.req \notin pending
      BY <1>8, <3>2 DEF Decide, Types
    <3> QED BY <3>1, <3>2
  <2> QED BY <1>8, <2>2 DEF Decide, Types, procVars
<1>9. ASSUME NEW S \in SUBSET pending, Expire(S) PROVE Types'
  <2>1. /\ pending' \subseteq Req /\ job' \in [Answerer -> SUBSET Req]
        /\ verdict' \in [Answerer -> Behavior]
    BY <1>0, <1>7, <1>9 DEF Expire, Free
  <2> QED BY <1>9, <2>1 DEF Expire, Types, procVars, odooVars
<1>10. ASSUME RunnerCrash PROVE Types'
  BY <1>10 DEF RunnerCrash, Types, odooVars
<1>11. ASSUME NEW r \in Req, ApplyEvent(r) PROVE Types'
  <2>1. Len(log[r]) \in Nat /\ applied[r] + 1 \in 1..Len(log[r])
    BY <1>0, <1>11, LenProperties DEF ApplyEvent, Types
  <2>2. log[r][applied[r] + 1] \in Event
    BY <1>0, <2>1, ElementOfSeq
  <2>3. Applied(r, log[r][applied[r] + 1]) \in {"none", "pending"} \cup Behavior
    BY <2>2 DEF Applied, Closed, Types, Event
  <2>4. record' \in [Req -> {"none", "pending"} \cup Behavior]
    BY <1>11, <2>3 DEF ApplyEvent, Types
  <2>5. applied' \in [Req -> Nat] /\ \A q \in Req : applied'[q] <= Len(log[q])
    BY <1>11, <2>1 DEF ApplyEvent, Types
  <2> QED BY <1>11, <2>4, <2>5 DEF ApplyEvent, Types, procVars, runnerVars
<1>12. ASSUME NEW d \in Decision, Click(d) \/ ClickRolledBack(d) PROVE Types'
  <2>1. d.req \in Req /\ d.behavior \in Behavior
    BY DEF Decision
  <2> QED BY <1>12, <2>1 DEF Click, ClickRolledBack, Submit, Types, procVars, runnerVars
<1>13. CASE UNCHANGED vars
  BY <1>13 DEF vars, procVars, runnerVars, odooVars, Types
<1> QED BY <1>2, <1>3, <1>4, <1>5, <1>6, <1>8, <1>9, <1>10, <1>11, <1>12, <1>13 DEF Next, RunnerStep

----
(***************************************************************************)
(* One answer.  A request is in one place at a time: not asked yet, in the *)
(* map, in the hands of who took it, or answered and not logged.  In all   *)
(* but the last nothing was answered, and nothing was logged in any.       *)
(***************************************************************************)
Clean(r) == answers[r] = 0 /\ Dec(log[r]) = {}
Untaken(r) == \A a \in Answerer : r \notin job[a] /\ said[a] # r

Fresh == \A r \in Req : turn[r] \in {"unasked", "asked"} => r \notin pending /\ Clean(r) /\ Untaken(r)
Parked == \A r \in pending : Clean(r) /\ Untaken(r)
Taken == \A a \in Answerer : \A r \in job[a] :
            Clean(r) /\ \A b \in Answerer : said[b] # r /\ (b # a => r \notin job[b])
Answered == \A a \in Answerer : said[a] \in Req =>
            Dec(log[said[a]]) = {} /\ \A b \in Answerer : b # a => said[b] # said[a]
Once == \A r \in Req : answers[r] <= 1 /\ \A i, j \in Dec(log[r]) : i = j

OneInv == Types /\ Fresh /\ Parked /\ Taken /\ Answered /\ Once

LEMMA InitOne == Init => OneInv
<1> SUFFICES ASSUME Init PROVE OneInv
  OBVIOUS
<1>1. Types
  BY InitTypes
<1>2. \A r \in Req : Clean(r)
  <2>1. DOMAIN <<>> = {}
    BY EmptySeq
  <2> QED BY <2>1 DEF Init, Clean, Dec
<1>3. pending = {} /\ \A a \in Answerer : job[a] = {} /\ said[a] = NoReq
  BY DEF Init
<1> QED BY <1>1, <1>2, <1>3, GateAssumption DEF OneInv, Fresh, Parked, Taken, Answered, Once, Clean, Untaken

LEMMA NextOne == OneInv /\ [Next]_vars => OneInv'
<1> SUFFICES ASSUME OneInv, [Next]_vars PROVE OneInv'
  OBVIOUS
<1> USE GateAssumption
<1>0. Types /\ Types'
  BY NextTypes DEF OneInv
<1>1. ASSUME UNCHANGED <<answers, log, job, said, pending>>,
             \A r \in Req : turn'[r] \in {"unasked", "asked"} => turn[r] \in {"unasked", "asked"}
      PROVE  OneInv'
  <2>0. answers' = answers /\ log' = log /\ job' = job /\ said' = said /\ pending' = pending
    BY <1>1
  <2>1. Fresh'
    BY <1>1, <2>0 DEF OneInv, Fresh, Clean, Untaken
  <2>2. Parked'
    BY <2>0 DEF OneInv, Parked, Clean, Untaken
  <2>3. Taken'
    BY <2>0 DEF OneInv, Taken, Clean
  <2>4. Answered'
    BY <1>1 DEF OneInv, Answered
  <2>5. Once'
    BY <1>1 DEF OneInv, Once
  <2> QED BY <1>0, <2>1, <2>2, <2>3, <2>4, <2>5 DEF OneInv
<1>2. ASSUME NEW r \in Req, CliAsks(r) PROVE OneInv'
  BY <1>0, <1>1, <1>2 DEF CliAsks, runnerVars, Types
<1>3. ASSUME NEW r \in Req, AskParks(r) PROVE OneInv'
  <2>1. turn[r] = "asked" /\ turn' = [turn EXCEPT ![r] = "parked"] /\ pending' = pending \cup {r}
        /\ UNCHANGED <<answers, log, job, said>>
    BY <1>3 DEF AskParks
  <2>2. Clean(r) /\ Untaken(r)
    BY <2>1 DEF OneInv, Fresh
  <2>3. \A q \in Req : (Clean(q) <=> Clean(q)') /\ (Untaken(q) <=> Untaken(q)')
    BY <2>1 DEF Clean, Untaken
  <2>4. Fresh'
    BY <1>0, <2>1, <2>3 DEF OneInv, Fresh, Types
  <2>5. Parked'
    BY <1>0, <2>1, <2>2, <2>3 DEF OneInv, Parked, Types
  <2>6. Taken' /\ Answered' /\ Once'
    BY <2>1 DEF OneInv, Taken, Answered, Once, Clean
  <2> QED BY <1>0, <2>4, <2>5, <2>6 DEF OneInv
<1>4. ASSUME NEW p \in Proc, StdinCloses(p) \/ Exits(p) PROVE OneInv'
  BY <1>1, <1>4 DEF StdinCloses, Exits, runnerVars
<1>5. ASSUME NEW p \in Proc, DropPermissions(p) PROVE OneInv'
  <2> DEFINE gone == {r \in pending : Owner[r] = p}
  <2>1. /\ pending' = pending \ gone
        /\ \A r \in Req : log'[r] = IF r \in gone THEN Append(log[r], "deny") ELSE log[r]
        /\ UNCHANGED <<turn, answers, job, said>>
    BY <1>5 DEF DropPermissions
  <2>2. \A r \in gone : r \in Req /\ Clean(r) /\ Untaken(r)
    BY <1>0 DEF OneInv, Parked, Types
  <2>3. \A r \in Req \ gone : Dec(log'[r]) = Dec(log[r])
    BY <2>1
  <2>4. \A r \in gone : \A i, j \in Dec(log'[r]) : i = j
    <3>1. "deny" \in Event
      BY DEF Event, Behavior
    <3>2. ASSUME NEW r \in gone PROVE \A i, j \in Dec(log'[r]) : i = j
      <4>1. log[r] \in Seq(Event) /\ Dec(log[r]) = {}
        BY <1>0, <2>2 DEF Clean, Types
      <4>2. log'[r] = Append(log[r], "deny")
        BY <2>1, <2>2
      <4>3. \A i, j \in Dec(Append(log[r], "deny")) : i = j
        BY <3>1, <4>1, AppendDec
      <4> QED BY <4>2, <4>3
    <3> QED BY <3>2
  <2>5. Fresh'
    <3>1. \A r \in Req : turn[r] \in {"unasked", "asked"} => r \notin gone
      BY DEF OneInv, Fresh
    <3> QED BY <2>1, <2>3, <3>1 DEF OneInv, Fresh, Clean, Untaken
  <2>6. Parked'
    BY <1>0, <2>1, <2>3 DEF OneInv, Parked, Clean, Untaken, Types
  <2>7. Taken'
    BY <1>0, <2>1, <2>2, <2>3 DEF OneInv, Taken, Clean, Untaken, Types
  <2>8. Answered'
    BY <1>0, <2>1, <2>2, <2>3 DEF OneInv, Answered, Untaken, Types
  <2>9. Once'
    BY <2>1, <2>3, <2>4 DEF OneInv, Once
  <2> QED BY <1>0, <2>5, <2>6, <2>7, <2>8, <2>9 DEF OneInv
<1>6. ASSUME NEW p \in Proc, AskTells(p) PROVE OneInv'
  <2>1. telling[p] \in Req /\ "permission" \in Event /\ "permission" \notin Behavior
    BY <1>0, <1>6 DEF AskTells, Types, Event, Behavior
  <2>2. \A r \in Req : Dec(log'[r]) = Dec(log[r])
    BY <1>0, <1>6, <2>1, AppendDec DEF AskTells, Emit, Types
  <2> QED BY <1>0, <1>6, <2>2 DEF AskTells, procVars, OneInv, Fresh, Parked, Taken, Answered, Once, Clean, Untaken, Types
<1>7. ASSUME NEW a \in Answerer, LogDecision(a) PROVE OneInv'
  <2>1. said[a] \in Req /\ verdict[a] \in Event
    BY <1>0, <1>7 DEF LogDecision, Types, Event
  <2>2. /\ log' = [log EXCEPT ![said[a]] = Append(@, verdict[a])] /\ said' = [said EXCEPT ![a] = NoReq]
        /\ UNCHANGED <<turn, answers, pending, job>>
    BY <1>7 DEF LogDecision, Emit, procVars
  <2>3. \A r \in Req \ {said[a]} : log'[r] = log[r]
    BY <1>0, <2>1, <2>2 DEF Types
  <2>4. \A i, j \in Dec(log'[said[a]]) : i = j
    <3>1. log[said[a]] \in Seq(Event) /\ Dec(log[said[a]]) = {}
      BY <1>0, <2>1 DEF OneInv, Answered, Types
    <3>2. log'[said[a]] = Append(log[said[a]], verdict[a])
      BY <1>0, <2>1, <2>2 DEF Types
    <3>3. \A i, j \in Dec(Append(log[said[a]], verdict[a])) : i = j
      BY <2>1, <3>1, AppendDec
    <3> QED BY <3>2, <3>3
  <2>5. said'[a] = NoReq /\ \A b \in Answerer \ {a} : said'[b] = said[b]
    BY <1>0, <2>2 DEF Types
  <2>6. said[a] \notin pending /\ turn[said[a]] \notin {"unasked", "asked"} /\ \A b \in Answerer : said[a] \notin job[b]
    BY <2>1 DEF OneInv, Fresh, Parked, Taken, Untaken
  <2>7. \A b \in Answerer \ {a} : said[b] # said[a]
    BY <2>1 DEF OneInv, Answered
  <2>8. \A r \in Req \ {said[a]} : (Clean(r) <=> Clean(r)') /\ (Untaken(r) => Untaken(r)')
    <3>1. \A r \in Req \ {said[a]} : Clean(r) <=> Clean(r)'
      BY <2>2, <2>3 DEF Clean
    <3>2. \A r \in Req : r # NoReq
      OBVIOUS
    <3>3. \A r \in Req \ {said[a]} : Untaken(r) => Untaken(r)'
      BY <2>2, <2>5, <3>2 DEF Untaken
    <3> QED BY <3>1, <3>3
  <2>12. Fresh'
    BY <2>2, <2>6, <2>8 DEF OneInv, Fresh
  <2>13. Parked'
    BY <1>0, <2>2, <2>6, <2>8 DEF OneInv, Parked, Types
  <2>9. Taken'
    <3>1. ASSUME NEW b \in Answerer, NEW r \in job[b]
          PROVE  Clean(r)' /\ \A c \in Answerer : said'[c] # r /\ (c # b => r \notin job[c])
      <4>1. r \in Req \ {said[a]} /\ Clean(r) /\ \A c \in Answerer : said[c] # r /\ (c # b => r \notin job[c])
        BY <1>0, <2>6 DEF OneInv, Taken, Types
      <4> QED BY <2>5, <2>8, <4>1
    <3> QED BY <2>2, <3>1 DEF Taken
  <2>10. Answered'
    BY <1>0, <2>1, <2>2, <2>3, <2>5, <2>7 DEF OneInv, Answered, Types
  <2>11. Once'
    BY <2>2, <2>3, <2>4 DEF OneInv, Once
  <2> QED BY <1>0, <2>9, <2>10, <2>11, <2>12, <2>13 DEF OneInv
<1>8. ASSUME NEW a \in Answerer, NEW r \in job[a], Respond(a, r) PROVE OneInv'
  <2>1. r \in Req /\ Clean(r) /\ r \notin pending /\ turn[r] \notin {"unasked", "asked"}
        /\ (\A b \in Answerer : said[b] # r) /\ \A b \in Answerer \ {a} : r \notin job[b]
    BY <1>0 DEF OneInv, Fresh, Parked, Taken, Untaken, Types
  <2>2. /\ job' = [job EXCEPT ![a] = @ \ {r}] /\ said' = [said EXCEPT ![a] = r] /\ UNCHANGED <<pending, log>>
    BY <1>8 DEF Respond
  <2>3. /\ \A q \in Req \ {r} : answers'[q] = answers[q] /\ turn'[q] = turn[q]
        /\ answers'[r] \in {0, 1} /\ turn'[r] \notin {"unasked", "asked"}
    <3>1. verdict[a] \in {"allow", "deny"} /\ answers[r] = 0
      BY <1>0, <2>1 DEF Types, Behavior, Clean
    <3>2. CASE life[Owner[r]] = "up"
      <4>1. turn' = [turn EXCEPT ![r] = verdict[a]] /\ answers' = [answers EXCEPT ![r] = @ + 1]
        BY <1>8, <3>2 DEF Respond
      <4> QED BY <1>0, <2>1, <3>1, <4>1 DEF Types
    <3>3. CASE life[Owner[r]] # "up"
      BY <1>8, <2>1, <3>1, <3>3 DEF Respond
    <3> QED BY <3>2, <3>3
  <2>4. /\ job'[a] = job[a] \ {r} /\ \A b \in Answerer \ {a} : job'[b] = job[b]
        /\ said'[a] = r /\ \A b \in Answerer \ {a} : said'[b] = said[b]
    BY <1>0, <2>2 DEF Types
  <2>5. \A q \in Req \ {r} : (Clean(q) <=> Clean(q)') /\ (Untaken(q) => Untaken(q)')
    <3>1. \A q \in Req \ {r} : Clean(q) <=> Clean(q)'
      BY <2>2, <2>3 DEF Clean
    <3>2. \A q \in Req \ {r} : Untaken(q) => Untaken(q)'
      BY <2>4 DEF Untaken
    <3> QED BY <3>1, <3>2
  <2>9. Fresh'
    BY <2>2, <2>3, <2>5 DEF OneInv, Fresh
  <2>10. Parked'
    BY <1>0, <2>1, <2>2, <2>5 DEF OneInv, Parked, Types
  <2>6. Taken'
    <3>1. ASSUME NEW b \in Answerer, NEW q \in job'[b]
          PROVE  Clean(q)' /\ \A c \in Answerer : said'[c] # q /\ (c # b => q \notin job'[c])
      <4>1. q \in job[b] /\ q \in Req \ {r}
        <5>1. q \in job[b] /\ q # r
          BY <2>1, <2>4
        <5>2. job[b] \subseteq Req
          BY <1>0 DEF Types
        <5> QED BY <5>1, <5>2
      <4>2. Clean(q) /\ \A c \in Answerer : said[c] # q /\ (c # b => q \notin job[c])
        BY <4>1 DEF OneInv, Taken
      <4> QED BY <2>4, <2>5, <4>1, <4>2
    <3> QED BY <3>1 DEF Taken
  <2>7. Answered'
    BY <2>1, <2>2, <2>4 DEF OneInv, Answered, Clean
  <2>8. Once'
    BY <1>0, <2>2, <2>3 DEF OneInv, Once
  <2> QED BY <1>0, <2>6, <2>7, <2>8, <2>9, <2>10 DEF OneInv
<1>9. ASSUME NEW a \in Answerer, NEW S \in SUBSET pending, NEW b \in Behavior, Take(a, S, b), Free(a),
             UNCHANGED <<turn, answers, log, said>>
      PROVE  OneInv'
  <2>1. pending' = pending \ S /\ job'[a] = S /\ \A c \in Answerer \ {a} : job'[c] = job[c]
    BY <1>0, <1>9 DEF Take, Types
  <2>2. \A r \in S : r \in Req /\ Clean(r) /\ Untaken(r)
    BY <1>0 DEF OneInv, Parked, Types
  <2>3. \A r \in Req : turn[r] \in {"unasked", "asked"} => r \notin S
    BY DEF OneInv, Fresh
  <2>4. Fresh' /\ Parked'
    BY <1>0, <1>9, <2>1, <2>3 DEF OneInv, Fresh, Parked, Clean, Untaken, Types
  <2>5. Taken'
    BY <1>0, <1>9, <2>1, <2>2 DEF OneInv, Taken, Clean, Untaken, Types
  <2>6. Answered' /\ Once'
    BY <1>9 DEF OneInv, Answered, Once
  <2> QED BY <1>0, <2>4, <2>5, <2>6 DEF OneInv
<1>10. ASSUME NEW d \in decides, Decide(d) PROVE OneInv'
  <2>1. d.behavior \in Behavior /\ "loop" \in Answerer
    BY <1>0 DEF Types, Decision, Answerer
  <2>2. CASE d.req \in pending
    BY <1>9, <1>10, <2>1, <2>2 DEF Decide, procVars
  <2>3. CASE d.req \notin pending
    BY <1>1, <1>10, <2>3 DEF Decide, procVars
  <2> QED BY <2>2, <2>3
<1>11. ASSUME NEW S \in SUBSET pending, Expire(S) PROVE OneInv'
  <2>1. "deny" \in Behavior /\ "reaper" \in Answerer
    BY DEF Behavior, Answerer
  <2> QED BY <1>9, <1>11, <2>1 DEF Expire, procVars
<1>12. ASSUME RunnerCrash PROVE OneInv'
  <2>1. /\ pending' = {} /\ \A a \in Answerer : job'[a] = {} /\ said'[a] = NoReq
        /\ UNCHANGED <<answers, log>> /\ \A r \in Req : turn'[r] \notin {"unasked", "asked"}
    BY <1>0, <1>12 DEF RunnerCrash, Types
  <2> QED BY <1>0, <2>1 DEF OneInv, Fresh, Parked, Taken, Answered, Once
<1>13. ASSUME NEW r \in Req, ApplyEvent(r) PROVE OneInv'
  BY <1>1, <1>13 DEF ApplyEvent, procVars, runnerVars
<1>14. ASSUME NEW d \in Decision, Click(d) \/ ClickRolledBack(d) PROVE OneInv'
  BY <1>1, <1>14 DEF Click, ClickRolledBack, procVars, runnerVars
<1>15. CASE UNCHANGED vars
  BY <1>1, <1>15 DEF vars, procVars, runnerVars
<1> QED BY <1>2, <1>3, <1>4, <1>5, <1>6, <1>7, <1>8, <1>10, <1>11, <1>12, <1>13, <1>14, <1>15 DEF Next, RunnerStep

\* The state is what the code's types say, and whoever took a request took it
\* out of the map (process.go, control.go).
THEOREM TypeCorrect == Spec => []TypeOK
<1>1. OneInv => TypeOK
  BY DEF OneInv, Types, TypeOK, Taken, Parked, Untaken, Event
<1> QED BY <1>1, InitOne, NextOne, PTL DEF Spec

\* A process reads at most one answer to a request, and the log holds at most
\* one decision, however Decide, expirePermissions and dropPermissions meet.
THEOREM AnswersAreSingle == Spec => []AnsweredAtMostOnce
<1>1. OneInv => AnsweredAtMostOnce
  <2> SUFFICES ASSUME OneInv, NEW r \in Req PROVE answers[r] <= 1 /\ Cardinality(Decisions(r)) <= 1
    BY DEF AnsweredAtMostOnce
  <2>1. Decisions(r) = Dec(log[r])
    BY DEF Decisions, Dec
  <2> QED BY <2>1, OneMember DEF OneInv, Once
<1> QED BY <1>1, InitOne, NextOne, PTL DEF Spec
----
(***************************************************************************)
(* Who allows.  An answer on its way to the process carries what a person  *)
(* pressed, unless it denies.                                              *)
(***************************************************************************)
Pressed(r) == [req |-> r, behavior |-> "allow"] \in clicked
AllowIsPressed ==
    /\ decides \subseteq clicked
    /\ \A a \in Answerer : verdict[a] = "allow" => \A r \in job[a] : Pressed(r)
    /\ AllowNeedsPerson

LEMMA NextAllow == Types /\ AllowIsPressed /\ [Next]_vars => AllowIsPressed'
<1> SUFFICES ASSUME Types, AllowIsPressed, [Next]_vars PROVE AllowIsPressed'
  OBVIOUS
<1>1. ASSUME UNCHANGED <<job, verdict>>, decides' \subseteq decides, clicked \subseteq clicked',
             \A r \in Req : turn'[r] = "allow" => turn[r] = "allow"
      PROVE  AllowIsPressed'
  BY <1>1 DEF Types, AllowIsPressed, AllowNeedsPerson, Pressed
<1>2. ASSUME NEW r \in Req, CliAsks(r) \/ AskParks(r) \/ ApplyEvent(r) PROVE AllowIsPressed'
  BY <1>1, <1>2 DEF CliAsks, AskParks, ApplyEvent, procVars, runnerVars, odooVars, Types
<1>3. ASSUME NEW p \in Proc, StdinCloses(p) \/ Exits(p) \/ DropPermissions(p) \/ AskTells(p) PROVE AllowIsPressed'
  BY <1>1, <1>3 DEF StdinCloses, Exits, DropPermissions, AskTells, procVars, runnerVars, odooVars
<1>4. ASSUME NEW a \in Answerer, LogDecision(a) PROVE AllowIsPressed'
  BY <1>1, <1>4 DEF LogDecision, procVars, odooVars
<1>5. ASSUME NEW a \in Answerer, NEW r \in job[a], Respond(a, r) PROVE AllowIsPressed'
  <2>1. \A b \in Answerer : job'[b] \subseteq job[b]
    BY <1>5 DEF Respond, Types
  <2>2. UNCHANGED <<verdict, decides, clicked>>
    BY <1>5 DEF Respond, odooVars
  <2>3. \A q \in Req : turn'[q] = "allow" => turn[q] = "allow" \/ (q = r /\ verdict[a] = "allow")
    <3>1. CASE life[Owner[r]] = "up"
      <4>1. turn' = [turn EXCEPT ![r] = verdict[a]]
        BY <1>5, <3>1 DEF Respond
      <4> QED BY <4>1 DEF Types
    <3>2. CASE life[Owner[r]] # "up"
      BY <1>5, <3>2 DEF Respond
    <3> QED BY <3>1, <3>2
  <2> QED BY <2>1, <2>2, <2>3 DEF AllowIsPressed, AllowNeedsPerson, Pressed
<1>6. ASSUME NEW a \in Answerer, NEW S \in SUBSET pending, NEW b \in Behavior, Take(a, S, b),
             b = "allow" => \A r \in S : Pressed(r), decides' \subseteq decides, UNCHANGED <<turn, clicked>>
      PROVE  AllowIsPressed'
  <2>1. /\ job'[a] = S /\ verdict'[a] = b
        /\ \A c \in Answerer \ {a} : job'[c] = job[c] /\ verdict'[c] = verdict[c]
    BY <1>6 DEF Take, Types
  <2> QED BY <1>6, <2>1 DEF AllowIsPressed, AllowNeedsPerson, Pressed
<1>7. ASSUME NEW d \in decides, Decide(d) PROVE AllowIsPressed'
  <2>1. d.behavior \in Behavior /\ "loop" \in Answerer /\ d = [req |-> d.req, behavior |-> d.behavior]
    BY DEF Types, Decision, Answerer
  <2>2. CASE d.req \in pending
    <3>1. d.behavior = "allow" => Pressed(d.req)
      BY <2>1 DEF AllowIsPressed, Pressed
    <3> QED BY <1>6, <1>7, <2>1, <2>2, <3>1 DEF Decide, procVars
  <2>3. CASE d.req \notin pending
    BY <1>1, <1>7, <2>3 DEF Decide, procVars
  <2> QED BY <2>2, <2>3
<1>8. ASSUME NEW S \in SUBSET pending, Expire(S) PROVE AllowIsPressed'
  <2>1. "deny" \in Behavior /\ "reaper" \in Answerer
    BY DEF Behavior, Answerer
  <2> QED BY <1>6, <1>8, <2>1 DEF Expire, procVars, odooVars
<1>9. ASSUME RunnerCrash PROVE AllowIsPressed'
  <2>1. /\ \A a \in Answerer : job'[a] = {}
        /\ UNCHANGED <<verdict, decides, clicked>> /\ \A r \in Req : turn'[r] = "allow" => turn[r] = "allow"
    BY <1>9 DEF RunnerCrash, odooVars, Types
  <2> QED BY <2>1 DEF AllowIsPressed, AllowNeedsPerson, Pressed
<1>10. ASSUME NEW d \in Decision, Click(d) \/ ClickRolledBack(d) PROVE AllowIsPressed'
  <2>1. decides' = decides \cup {d} /\ clicked' = clicked \cup {d} /\ UNCHANGED <<job, verdict, turn>>
    BY <1>10 DEF Click, ClickRolledBack, Submit, procVars, runnerVars
  <2> QED BY <2>1 DEF AllowIsPressed, AllowNeedsPerson, Pressed
<1>11. CASE UNCHANGED vars
  BY <1>1, <1>11 DEF vars, procVars, runnerVars, odooVars
<1> QED BY <1>2, <1>3, <1>4, <1>5, <1>7, <1>8, <1>9, <1>10, <1>11 DEF Next, RunnerStep

\* Neither the timeout, nor the end of a process, nor a crash lets a tool call
\* run: a person pressed allow for that very request.
THEOREM NothingIsAllowedAlone == Spec => []AllowNeedsPerson
<1>1. Init => AllowIsPressed
  BY DEF Init, AllowIsPressed, AllowNeedsPerson
<1>2. AllowIsPressed => AllowNeedsPerson
  BY DEF AllowIsPressed
<1> QED BY <1>1, <1>2, InitTypes, NextTypes, NextAllow, PTL DEF Spec

----
(***************************************************************************)
(* What a record says.                                                     *)
(***************************************************************************)
LEMMA NextRecords == Types /\ RunnerSettledRecordsAgree /\ [Next]_vars => RunnerSettledRecordsAgree'
<1> SUFFICES ASSUME Types, Types', RunnerSettledRecordsAgree, [Next]_vars PROVE RunnerSettledRecordsAgree'
  BY NextTypes
<1>1. ASSUME UNCHANGED <<applied, record>>, settledBy \subseteq settledBy',
             \A r \in Req : \A i \in Dec(log[r]) : i \in Dec(log'[r]) /\ log'[r][i] = log[r][i]
      PROVE  RunnerSettledRecordsAgree'
  BY <1>1 DEF RunnerSettledRecordsAgree, Decisions, Dec
<1>2. ASSUME UNCHANGED <<applied, record, settledBy, log>>
      PROVE  RunnerSettledRecordsAgree'
  BY <1>2 DEF RunnerSettledRecordsAgree, Decisions
<1>3. ASSUME NEW r \in Req, NEW e \in Event, Emit(r, e), UNCHANGED <<applied, record, settledBy>>
      PROVE  RunnerSettledRecordsAgree'
  <2>1. \A q \in Req : log'[q] = IF q = r THEN Append(log[r], e) ELSE log[q]
    BY <1>3 DEF Emit, Types
  <2>2. \A i \in Dec(log[r]) : i \in Dec(Append(log[r], e)) /\ Append(log[r], e)[i] = log[r][i]
    <3>1. log[r] \in Seq(Event)
      BY DEF Types
    <3> QED BY <3>1, AppendDec DEF Dec
  <2> QED BY <1>1, <1>3, <2>1, <2>2
<1>4. ASSUME NEW p \in Proc, AskTells(p) PROVE RunnerSettledRecordsAgree'
  <2>1. telling[p] \in Req /\ "permission" \in Event
    BY <1>4 DEF AskTells, Types, Event
  <2> QED BY <1>3, <1>4, <2>1 DEF AskTells, odooVars
<1>5. ASSUME NEW a \in Answerer, LogDecision(a) PROVE RunnerSettledRecordsAgree'
  <2>1. said[a] \in Req /\ verdict[a] \in Event
    BY <1>5 DEF LogDecision, Types, Event
  <2> QED BY <1>3, <1>5, <2>1 DEF LogDecision, odooVars
<1>6. ASSUME NEW p \in Proc, DropPermissions(p) PROVE RunnerSettledRecordsAgree'
  <2>1. \A r \in Req : log'[r] = log[r] \/ log'[r] = Append(log[r], "deny")
    BY <1>6 DEF DropPermissions
  <2>2. \A r \in Req : \A i \in Dec(log[r]) : i \in Dec(Append(log[r], "deny")) /\ Append(log[r], "deny")[i] = log[r][i]
    <3>1. \A r \in Req : log[r] \in Seq(Event)
      BY DEF Types
    <3>2. "deny" \in Event
      BY DEF Event, Behavior
    <3> QED BY <3>1, <3>2, AppendDec DEF Dec
  <2>3. \A r \in Req : \A i \in Dec(log[r]) : i \in Dec(log'[r]) /\ log'[r][i] = log[r][i]
    BY <2>1, <2>2
  <2> QED BY <1>1, <1>6, <2>3 DEF DropPermissions, odooVars
<1>7. ASSUME NEW r \in Req, ApplyEvent(r) PROVE RunnerSettledRecordsAgree'
  <2> DEFINE n == applied[r] + 1
  <2>1. n \in 1..Len(log[r]) /\ n \in DOMAIN log[r] /\ log[r][n] \in Event
    <3>1. log[r] \in Seq(Event) /\ applied[r] \in Nat
      BY DEF Types
    <3>2. Len(log[r]) \in Nat /\ DOMAIN log[r] = 1..Len(log[r]) /\ applied[r] < Len(log[r])
      BY <1>7, <3>1, LenProperties DEF ApplyEvent
    <3>3. n \in 1..Len(log[r])
      BY <3>1, <3>2
    <3> QED BY <3>1, <3>2, <3>3, ElementOfSeq
  <2>2. /\ \A q \in Req \ {r} : applied'[q] = applied[q] /\ record'[q] = record[q]
        /\ applied'[r] = n /\ record'[r] = Applied(r, log[r][n])
        /\ UNCHANGED <<log, settledBy>>
    BY <1>7 DEF ApplyEvent, Types
  <2>3. ASSUME NEW q \in Req \ settledBy, record'[q] \in Behavior
        PROVE  \E i \in Decisions(q) : i <= applied'[q] /\ log[q][i] = record'[q]
    <3>1. CASE q = r /\ record[r] \notin Behavior
      <4>1. record'[r] = log[r][n] /\ log[r][n] \in Behavior
        BY <2>1, <2>2, <2>3, <3>1 DEF Applied, Closed, Types, Event, Behavior
      <4>2. n \in Decisions(r) /\ n <= applied'[r]
        <5>1. applied[r] \in Nat
          BY DEF Types
        <5> QED BY <2>1, <2>2, <4>1, <5>1 DEF Decisions
      <4> QED BY <3>1, <4>1, <4>2
    <3>2. CASE q = r /\ record[r] \in Behavior
      <4>1. record'[r] = record[r]
        BY <2>2, <3>2 DEF Applied, Behavior
      <4>2. PICK i \in Decisions(r) : i <= applied[r] /\ log[r][i] = record[r]
        BY <2>3, <3>2 DEF RunnerSettledRecordsAgree
      <4>3. i \in Nat /\ applied[r] \in Nat
        <5>1. log[r] \in Seq(Event)
          BY DEF Types
        <5>2. DOMAIN log[r] = 1..Len(log[r]) /\ Len(log[r]) \in Nat
          BY <5>1, LenProperties
        <5> QED BY <4>2, <5>2 DEF Decisions, Types
      <4> QED BY <2>2, <3>2, <4>1, <4>2, <4>3
    <3>3. CASE q # r
      BY <2>2, <2>3, <3>3 DEF RunnerSettledRecordsAgree
    <3> QED BY <3>1, <3>2, <3>3
  <2> QED BY <2>2, <2>3 DEF RunnerSettledRecordsAgree, Decisions
<1>8. ASSUME NEW d \in Decision, Click(d) PROVE RunnerSettledRecordsAgree'
  <2>1. /\ \A q \in Req \ {d.req} : record'[q] = record[q]
        /\ settledBy' = settledBy \cup {d.req} /\ UNCHANGED <<log, applied>>
    BY <1>8 DEF Click, Types
  <2> QED BY <2>1 DEF RunnerSettledRecordsAgree, Decisions
<1>9. ASSUME NEW d \in Decision, ClickRolledBack(d) PROVE RunnerSettledRecordsAgree'
  BY <1>2, <1>9 DEF ClickRolledBack
<1>10. ASSUME NEW r \in Req, CliAsks(r) \/ AskParks(r) PROVE RunnerSettledRecordsAgree'
  BY <1>2, <1>10 DEF CliAsks, AskParks, odooVars
<1>11. ASSUME NEW p \in Proc, StdinCloses(p) \/ Exits(p) PROVE RunnerSettledRecordsAgree'
  BY <1>2, <1>11 DEF StdinCloses, Exits, odooVars
<1>12. ASSUME NEW a \in Answerer, NEW r \in job[a], Respond(a, r) PROVE RunnerSettledRecordsAgree'
  BY <1>2, <1>12 DEF Respond, odooVars
<1>13. ASSUME NEW d \in decides, Decide(d) PROVE RunnerSettledRecordsAgree'
  BY <1>2, <1>13 DEF Decide
<1>14. ASSUME NEW S \in SUBSET pending, Expire(S) PROVE RunnerSettledRecordsAgree'
  BY <1>2, <1>14 DEF Expire, odooVars
<1>15. CASE RunnerCrash \/ UNCHANGED vars
  BY <1>2, <1>15 DEF RunnerCrash, vars, odooVars
<1> QED BY <1>4, <1>5, <1>6, <1>7, <1>8, <1>9, <1>10, <1>11, <1>12, <1>13, <1>14, <1>15 DEF Next, RunnerStep

\* A record that no click closed holds a decision that the runner logged and
\* Odoo read, for any interleaving of the answers and the polls.
THEOREM RunnerRecordsAgree == Spec => []RunnerSettledRecordsAgree
<1>1. Init => RunnerSettledRecordsAgree
  BY DEF Init, RunnerSettledRecordsAgree, Behavior
<1> QED BY <1>1, InitTypes, NextTypes, NextRecords, PTL DEF Spec
====
