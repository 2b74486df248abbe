---- MODULE TaskLabelsProofs ----
(***************************************************************************)
(* Proofs about TaskLabels, for any number of turns, any answers of the    *)
(* engines and any interleaving of jobs and requests: a label a person set *)
(* stays until a person changes it, or asks for that turn again; a turn    *)
(* that ended without a billed call is not left as work; the tasks are the *)
(* ones the labels lead to, through chains and circles; and the types.     *)
(***************************************************************************)
EXTENDS TaskLabels, WellFoundedInduction, TLAPS

\* A person's own requests are told from the jobs by what the bound counts.
Counted == acts \in Nat

LEMMA InitCounted == Init => Counted
  BY DEF Init, Counted

LEMMA NextCounted == Counted /\ [Next]_vars => Counted'
<1> SUFFICES ASSUME Counted, [Next]_vars PROVE acts' \in Nat
  BY DEF Counted
<1> USE DEF Counted
<1>1. acts \in Nat /\ acts + 1 \in Nat /\ \A llm \in BOOLEAN : acts + Down(llm) \in Nat
  BY DEF Down
<1>2. \A got : acts + Spends(got) \in Nat
  BY DEF Spends
<1>3. LunaReady \subseteq BOOLEAN
  BY DEF LunaReady
<1>4. ASSUME NEW t \in Turn, Starts(t) \/ Bills(t) \/ Ends(t) \/ Settles(t) PROVE acts' \in Nat
  BY <1>1, <1>4 DEF Starts, Bills, Ends, Settles
<1>5. CASE SpendScan \/ StartLabel \/ StartPass \/ CatchUp \/ AskFirst \/ JobMarks \/ JobRollup \/ CheckEnded \/ AgainEnds
  BY <1>1, <1>5 DEF SpendScan, StartLabel, StartPass, CatchUp, AskFirst, JobMarks, JobRollup, CheckEnded, AgainEnds
<1>6. CASE StartLuna
  <2>1. PICK llm \in BOOLEAN : acts' = acts + Down(llm)
    BY <1>3, <1>6 DEF StartLuna
  <2> QED BY <1>1, <2>1
<1>7. CASE PassAsk
  <2>1. PICK llm \in BOOLEAN : acts' = acts + Down(llm)
    BY <1>3, <1>7 DEF PassAsk
  <2> QED BY <1>1, <2>1
<1>8. CASE AskAgain
  <2>1. PICK llm \in BOOLEAN : acts' = acts + Down(llm)
    BY <1>3, <1>8 DEF AskAgain
  <2> QED BY <1>1, <2>1
<1>9. CASE JobAnswer
  <2>1. \E got : acts' = acts + Spends(got)
    BY <1>9 DEF JobAnswer
  <2> QED BY <1>2, <2>1
<1>10. CASE AgainAnswer
  <2>1. \E got : acts' = acts + Spends(got)
    BY <1>10 DEF AgainAnswer
  <2> QED BY <1>2, <2>1
<1>11. CASE JobFails
  BY <1>1, <1>11 DEF JobFails
<1>12. ASSUME NEW t \in Turn, (\E i \in PersonTypes : PersonLabels(t, i)) \/ (\E p \in Turn : PersonMoves(t, p)) \/ StartAgain(t)
       PROVE  acts' \in Nat
  BY <1>1, <1>12 DEF PersonLabels, PersonMoves, StartAgain
<1>13. CASE UNCHANGED vars
  BY <1>1, <1>13 DEF vars
<1> QED BY <1>4, <1>5, <1>6, <1>7, <1>8, <1>9, <1>10, <1>11, <1>12, <1>13 DEF Next

----
(***************************************************************************)
(* Every turn's label has the fields of a label, whatever they hold: that  *)
(* is all the argument needs of the types.                                 *)
(***************************************************************************)
Field == {"source", "intent", "parent", "titled"}
IsLabel(l) == DOMAIN l = Field /\ l = [f \in Field |-> l[f]]
IsGot(g) == \E l, j, k : IsLabel(l) /\ g = [lab |-> l, jev |-> j, ok |-> k]
Shaped == lab = [t \in Turn |-> lab[t]] /\ \A t \in Turn : IsLabel(lab[t])

LEMMA LabelChanged ==
  ASSUME NEW l, IsLabel(l), NEW s, NEW i, NEW p, NEW b
  PROVE  /\ IsLabel([l EXCEPT !.intent = i]) /\ IsLabel([l EXCEPT !.parent = p]) /\ IsLabel([l EXCEPT !.titled = b])
         /\ IsLabel([l EXCEPT !.source = s, !.intent = i]) /\ IsLabel([l EXCEPT !.source = s, !.parent = p])
         /\ IsLabel([l EXCEPT !.source = s, !.intent = i, !.parent = p])
<1>1. IsLabel([l EXCEPT !.intent = i])
  BY DEF IsLabel, Field
<1>2. IsLabel([l EXCEPT !.parent = p])
  BY DEF IsLabel, Field
<1>3. IsLabel([l EXCEPT !.titled = b])
  BY DEF IsLabel, Field
<1>4. IsLabel([l EXCEPT !.source = s, !.intent = i])
  BY DEF IsLabel, Field
<1>5. IsLabel([l EXCEPT !.source = s, !.parent = p])
  BY DEF IsLabel, Field
<1>6. IsLabel([l EXCEPT !.source = s, !.intent = i, !.parent = p])
  BY DEF IsLabel, Field
<1> QED BY <1>1, <1>2, <1>3, <1>4, <1>5, <1>6

LEMMA RecordIsLabel ==
  ASSUME NEW s, NEW i, NEW p, NEW b
  PROVE  IsLabel([source |-> s, intent |-> i, parent |-> p, titled |-> b])
  BY DEF IsLabel, Field

LEMMA GotIsShaped ==
  ASSUME NEW s, NEW i, NEW p, NEW b, NEW j, NEW k
  PROVE  IsGot(Got(s, i, p, b, j, k))
<1>1. IsLabel([source |-> s, intent |-> i, parent |-> p, titled |-> b])
  BY RecordIsLabel
<1> QED BY <1>1 DEF Got, IsGot

LEMMA GivesShaped ==
  ASSUME NEW s, NEW t, NEW g \in Gives(s, t)
  PROVE  IsGot(g)
<1>1. \A said : \A h \in LunaGives(t, said) : IsGot(h)
  <2> SUFFICES ASSUME NEW said, NEW h \in LunaGives(t, said) PROVE IsGot(h)
    OBVIOUS
  <2>1. \E a, i, p, b, j, k : h = Got(a, i, p, b, j, k)
    BY DEF LunaGives
  <2> QED BY <2>1, GotIsShaped
<1>2. \A said, llm : \A h \in AfterJev(t, said, llm) : IsGot(h)
  <2> SUFFICES ASSUME NEW said, NEW llm, NEW h \in AfterJev(t, said, llm) PROVE IsGot(h)
    OBVIOUS
  <2>1. h \in LunaGives(t, said) \/ \E a, i, p, b, j, k : h = Got(a, i, p, b, j, k)
    BY DEF AfterJev
  <2> QED BY <1>1, <2>1, GotIsShaped
<1>3. \/ \E said, llm : g \in AfterJev(t, said, llm)
      \/ \E a, i, p, b, j, k : g = Got(a, i, p, b, j, k)
  BY DEF Gives
<1> QED BY <1>2, <1>3, GotIsShaped

LEMMA ParentsShaped ==
  ASSUME NEW s, NEW got, \A t \in DOMAIN got : IsGot(got[t])
  PROVE  /\ DOMAIN WithParents(s, got) = DOMAIN got
         /\ \A t \in DOMAIN got : IsGot(WithParents(s, got)[t])
<1>1. \A t \in DOMAIN got : \/ WithParents(s, got)[t] = got[t]
                            \/ \E p : WithParents(s, got)[t] = [got[t] EXCEPT !.lab.parent = p]
  BY DEF WithParents
<1>2. ASSUME NEW t \in DOMAIN got, NEW p PROVE IsGot([got[t] EXCEPT !.lab.parent = p])
  <2>1. PICK l, j, k : IsLabel(l) /\ got[t] = [lab |-> l, jev |-> j, ok |-> k]
    BY DEF IsGot
  <2>2. [got[t] EXCEPT !.lab.parent = p] = [lab |-> [l EXCEPT !.parent = p], jev |-> j, ok |-> k]
    BY <2>1
  <2>3. IsLabel([l EXCEPT !.parent = p])
    BY <2>1, LabelChanged
  <2> QED BY <2>2, <2>3 DEF IsGot
<1>3. DOMAIN WithParents(s, got) = DOMAIN got
  BY DEF WithParents
<1> QED BY <1>1, <1>2, <1>3

LEMMA AnswersShaped ==
  ASSUME NEW w, NEW got \in Answers(w), Given(w, got)
  PROVE  LET with == WithParents(w.snap, got)
         IN  DOMAIN with = w.turns /\ \A t \in w.turns : IsGot(with[t])
<1>1. DOMAIN got = w.turns
  BY DEF Answers
<1>2. \A t \in w.turns : IsGot(got[t])
  BY GivesShaped DEF Given
<1> QED BY <1>1, <1>2, ParentsShaped

LEMMA AppliedShaped ==
  ASSUME NEW t, IsLabel(lab[t]), NEW g, IsGot(g), NEW force
  PROVE  IsLabel(Applied(t, g, force))
<1>1. IsLabel(g.lab)
  BY DEF IsGot
<1>2. \A l : IsLabel(l) => IsLabel(Retyped(l, t))
  BY LabelChanged DEF Retyped
<1> QED BY <1>1, <1>2 DEF Applied

LEMMA ApplyShaped ==
  ASSUME Shaped, NEW with, NEW titled, NEW force, ApplyLabels(with, titled, force),
         \A t \in DOMAIN with : IsGot(with[t])
  PROVE  Shaped'
<1>1. \A t \in Turn : lab'[t] = IF t \in DOMAIN with THEN Applied(t, with[t], force)
                ELSE IF t \in DOMAIN titled THEN [lab[t] EXCEPT !.titled = titled[t]] ELSE lab[t]
  BY DEF ApplyLabels
<1>2. lab' = [t \in Turn |-> lab'[t]]
  BY DEF ApplyLabels
<1>3. \A t \in Turn : IsLabel(lab[t]) /\ IsLabel([lab[t] EXCEPT !.titled = titled[t]])
  BY LabelChanged DEF Shaped
<1>4. \A t \in Turn : t \in DOMAIN with => IsLabel(Applied(t, with[t], force))
  BY <1>3, AppliedShaped
<1> QED BY <1>1, <1>2, <1>3, <1>4 DEF Shaped

LEMMA InitShaped == Init => Shaped
<1> SUFFICES ASSUME Init PROVE Shaped
  OBVIOUS
<1>1. lab = [t \in Turn |-> Unlabelled] /\ IsLabel(Unlabelled)
  BY RecordIsLabel DEF Init, Unlabelled
<1> QED BY <1>1 DEF Shaped

LEMMA NextShaped == Shaped /\ [Next]_vars => Shaped'
<1> SUFFICES ASSUME Shaped, [Next]_vars PROVE Shaped'
  OBVIOUS
<1>1. ASSUME UNCHANGED lab PROVE Shaped'
  BY <1>1 DEF Shaped
<1>2. ASSUME NEW t \in Turn, Starts(t) \/ Bills(t) \/ Ends(t) \/ Settles(t) \/ StartAgain(t) PROVE Shaped'
  BY <1>1, <1>2 DEF Starts, Bills, Ends, Settles, StartAgain, row
<1>3. CASE \/ SpendScan \/ StartLabel \/ StartPass \/ StartLuna \/ CatchUp \/ AskFirst \/ PassAsk
           \/ JobMarks \/ JobFails \/ JobRollup \/ AskAgain \/ AgainEnds \/ UNCHANGED vars
  BY <1>1, <1>3 DEF SpendScan, StartLabel, StartPass, StartLuna, CatchUp, AskFirst, PassAsk,
                    JobMarks, JobFails, JobRollup, AskAgain, AgainEnds, vars, row
<1>4. CASE JobAnswer
  <2>1. PICK got \in Answers(job), titled \in [job.titles -> BOOLEAN] :
           Given(job, got) /\ ApplyLabels(WithParents(job.snap, got), titled, FALSE)
    BY <1>4 DEF JobAnswer
  <2> QED BY <2>1, AnswersShaped, ApplyShaped
<1>5. CASE AgainAnswer
  <2>1. PICK got \in Answers(again), none \in [{} -> BOOLEAN] :
           Given(again, got) /\ ApplyLabels(WithParents(again.snap, got), none, TRUE)
    BY <1>5 DEF AgainAnswer
  <2> QED BY <2>1, AnswersShaped, ApplyShaped
<1>6. CASE CheckEnded
  <2>1. \A t \in Turn : lab'[t] = lab[t] \/ lab'[t] = [Unlabelled EXCEPT !.source = "rule", !.intent = "no_work"]
    BY <1>6 DEF CheckEnded
  <2>2. lab' = [t \in Turn |-> lab'[t]]
    BY <1>6 DEF CheckEnded
  <2>3. IsLabel([Unlabelled EXCEPT !.source = "rule", !.intent = "no_work"])
    <3>1. IsLabel(Unlabelled)
      BY RecordIsLabel DEF Unlabelled
    <3> QED BY <3>1, LabelChanged
  <2>4. \A t \in Turn : IsLabel(lab'[t])
    BY <2>1, <2>3 DEF Shaped
  <2> QED BY <2>2, <2>4 DEF Shaped
<1>7. ASSUME NEW t \in Turn, NEW i \in PersonTypes, PersonLabels(t, i) PROVE Shaped'
  <2>1. PICK p : lab' = [lab EXCEPT ![t] = [@ EXCEPT !.source = "human", !.intent = i, !.parent = p]]
    BY <1>7 DEF PersonLabels
  <2>2. IsLabel([lab[t] EXCEPT !.source = "human", !.intent = i, !.parent = p])
    BY LabelChanged DEF Shaped
  <2> QED BY <2>1, <2>2 DEF Shaped
<1>8. ASSUME NEW t \in Turn, NEW p \in Turn, PersonMoves(t, p) PROVE Shaped'
  <2>1. lab' = [lab EXCEPT ![t] = [@ EXCEPT !.source = "human", !.parent = p]]
    BY <1>8 DEF PersonMoves
  <2>2. IsLabel([lab[t] EXCEPT !.source = "human", !.parent = p])
    BY LabelChanged DEF Shaped
  <2> QED BY <2>1, <2>2 DEF Shaped
<1> QED BY <1>2, <1>3, <1>4, <1>5, <1>6, <1>7, <1>8 DEF Next

----
(***************************************************************************)
(* Who changes a person's label.                                           *)
(***************************************************************************)
\* What a pass that is not forced leaves of a person's label: all but the title.
LEMMA UnforcedKeeps ==
  ASSUME Shaped, NEW got, NEW titled, ApplyLabels(got, titled, FALSE),
         NEW t \in Turn, lab[t].source = "human"
  PROVE  Decided(lab'[t]) = Decided(lab[t])
<1>1. lab'[t] = IF t \in DOMAIN got THEN Applied(t, got[t], FALSE)
                ELSE IF t \in DOMAIN titled THEN [lab[t] EXCEPT !.titled = titled[t]] ELSE lab[t]
  BY DEF ApplyLabels
<1>2. Applied(t, got[t], FALSE) = lab[t]
  BY DEF Applied, Retyped
<1>3. Decided([lab[t] EXCEPT !.titled = titled[t]]) = Decided(lab[t])
  BY DEF Decided, Shaped, IsLabel, Field
<1> QED BY <1>1, <1>2, <1>3

\* A step and a turn: the label is kept, or changed by who may.
ByPerson == acts' # acts /\ <<job, again>>' = <<job, again>>
ByAgain(t) == t \in again.turns /\ again.pc = "answer" /\ again'.pc = "rollup"
Kept(t) == lab[t].source = "human" /\ Decided(lab'[t]) # Decided(lab[t]) => ByPerson \/ ByAgain(t)

LEMMA StepKeeps ==
  ASSUME Counted, Shaped, [Next]_vars, NEW u \in Turn
  PROVE  Kept(u)
<1>1. ASSUME UNCHANGED lab PROVE Kept(u)
  BY <1>1 DEF Kept
<1>2. ASSUME NEW t \in Turn, Starts(t) \/ Bills(t) \/ Ends(t) \/ Settles(t) \/ StartAgain(t) PROVE Kept(u)
  BY <1>1, <1>2 DEF Starts, Bills, Ends, Settles, StartAgain, row
<1>3. CASE \/ SpendScan \/ StartLabel \/ StartPass \/ StartLuna \/ CatchUp \/ AskFirst \/ PassAsk
           \/ JobMarks \/ JobFails \/ JobRollup \/ AskAgain \/ AgainEnds \/ UNCHANGED vars
  BY <1>1, <1>3 DEF SpendScan, StartLabel, StartPass, StartLuna, CatchUp, AskFirst, PassAsk,
                    JobMarks, JobFails, JobRollup, AskAgain, AgainEnds, vars, row
<1>4. CASE JobAnswer
  <2>1. \E got, titled : ApplyLabels(got, titled, FALSE)
    BY <1>4 DEF JobAnswer
  <2> QED BY <2>1, UnforcedKeeps DEF Kept
<1>5. CASE AgainAnswer
  <2>1. PICK got \in Answers(again), none \in [{} -> BOOLEAN] : ApplyLabels(WithParents(again.snap, got), none, TRUE)
    BY <1>5 DEF AgainAnswer
  <2>2. again.pc = "answer"
    BY <1>5 DEF AgainAnswer
  <2>3. again'.pc = "rollup"
    BY <1>5 DEF AgainAnswer
  <2>4. CASE u \in again.turns
    BY <2>2, <2>3, <2>4 DEF Kept, ByAgain
  <2>5. CASE u \notin again.turns
    <3>1. DOMAIN WithParents(again.snap, got) = again.turns /\ DOMAIN none = {}
      BY DEF WithParents, Answers
    <3>2. lab'[u] = lab[u]
      BY <2>1, <2>5, <3>1 DEF ApplyLabels
    <3> QED BY <3>2 DEF Kept
  <2> QED BY <2>4, <2>5
<1>6. CASE CheckEnded
  <2>1. lab[u].source = "human" => lab'[u] = lab[u]
    BY <1>6 DEF CheckEnded
  <2> QED BY <2>1 DEF Kept
<1>7. ASSUME NEW t \in Turn, (\E i \in PersonTypes : PersonLabels(t, i)) \/ \E p \in Turn : PersonMoves(t, p) PROVE Kept(u)
  <2>1. acts' = acts + 1 /\ UNCHANGED <<job, again>>
    BY <1>7 DEF PersonLabels, PersonMoves
  <2>2. acts + 1 # acts
    BY DEF Counted
  <2> QED BY <2>1, <2>2 DEF Kept, ByPerson
<1> QED BY <1>2, <1>3, <1>4, <1>5, <1>6, <1>7 DEF Next

\* For any turns, engines and interleaving: between the question to the engines
\* and their answers a person may label any turn, and no job takes that back.
THEOREM PersonsLabelStays == Spec => PersonKeepsLabel
<1> DEFINE A == \A t \in Turn : (lab[t].source = "human" /\ Decided(lab'[t]) # Decided(lab[t])) =>
            \/ acts' # acts /\ <<job, again>>' = <<job, again>>
            \/ (t \in again.turns /\ again.pc = "answer" /\ again'.pc = "rollup")
<1>1. Counted /\ Shaped /\ [Next]_vars => [A]_vars
  BY StepKeeps DEF Kept, ByPerson, ByAgain
<1> QED BY <1>1, InitCounted, NextCounted, InitShaped, NextShaped, PTL DEF Spec, PersonKeepsLabel
----
(***************************************************************************)
(* Turns without a billed call.  The pass knows such a turn by its rule;   *)
(* whoever else labels one has it marked, until the check of ended turns.  *)
(***************************************************************************)
Flags == [Turn -> BOOLEAN]
Phases == [Turn -> {"absent", "running", "ended"}]
FlagTypes == /\ phase \in Phases
             /\ billed \in Flags /\ stored \in Flags /\ own \in Flags /\ open \in Flags
             /\ luna \subseteq SUBSET Turn
             /\ job = At(job.pc, job.kind, job.turns, job.titles, job.snap) /\ job.turns \subseteq Turn

\* Nothing is counted that is not in the transcript.
ReadIsBilled == \A t \in Turn : (stored[t] => billed[t]) /\ (own[t] => billed[t])

\* A turn an engine is asked about beside the label job is marked, or known to
\* be empty, or made a call.
AskedIsKnown ==
    /\ \A j \in luna : \A t \in j : open[t] \/ phase[t] = "ended"
    /\ job.pc = "answer" /\ job.kind # "label" =>
           \A t \in job.turns : open[t] \/ billed[t] \/ job.snap.rule[t] = "no_work"
    /\ job.pc \in {"catch_up", "check"} => \A t \in job.turns : open[t]

Engine == {"rule", "jev", "llm"}
NotWork(t) == lab[t].source \in Engine => lab[t].intent = "no_work"
LabelledIsWork == \A t \in Turn : ~billed[t] /\ ~open[t] /\ t \notin forced \cup unmarked => NotWork(t)

EmptyInv == FlagTypes /\ ReadIsBilled /\ AskedIsKnown /\ LabelledIsWork

LEMMA AtFields ==
  ASSUME NEW pc, NEW k, NEW ts, NEW ti, NEW s
  PROVE  LET w == At(pc, k, ts, ti, s)
         IN  /\ w.pc = pc /\ w.kind = k /\ w.turns = ts /\ w.snap = s
             /\ w = At(w.pc, w.kind, w.turns, w.titles, w.snap)
  BY DEF At

LEMMA IdleJob == Idle.pc = "idle" /\ Idle.turns = {} /\ Idle = At(Idle.pc, Idle.kind, Idle.turns, Idle.titles, Idle.snap)
  BY DEF Idle, At

\* A label that a pass does not touch, and one it gives by the rule of no work.
LEMMA PassWrites ==
  ASSUME Shaped, NEW s, NEW got, NEW titled, ApplyLabels(WithParents(s, got), titled, FALSE), NEW t \in Turn
  PROVE  /\ t \notin DOMAIN got => lab'[t].source = lab[t].source /\ lab'[t].intent = lab[t].intent
         /\ t \in DOMAIN got /\ s.rule[t] = "no_work" /\ got[t] \in Gives(s, t) =>
                (lab'[t].source \in Engine => lab'[t].intent = "no_work")
<1> DEFINE with == WithParents(s, got)
<1>1. DOMAIN with = DOMAIN got
  BY DEF WithParents
<1>2. lab'[t] = IF t \in DOMAIN with THEN Applied(t, with[t], FALSE)
                ELSE IF t \in DOMAIN titled THEN [lab[t] EXCEPT !.titled = titled[t]] ELSE lab[t]
  BY DEF ApplyLabels
<1>3. IsLabel(lab[t])
  BY DEF Shaped
<1>4. ASSUME t \notin DOMAIN got PROVE lab'[t].source = lab[t].source /\ lab'[t].intent = lab[t].intent
  <2>1. /\ [lab[t] EXCEPT !.titled = titled[t]].source = lab[t].source
        /\ [lab[t] EXCEPT !.titled = titled[t]].intent = lab[t].intent
    BY <1>3 DEF IsLabel, Field
  <2> QED BY <1>1, <1>2, <1>4, <2>1
<1>5. ASSUME t \in DOMAIN got, s.rule[t] = "no_work", got[t] \in Gives(s, t), lab'[t].source \in Engine
      PROVE  lab'[t].intent = "no_work"
  <2>1. got[t] = Got("rule", "no_work", 0, FALSE, "none", TRUE)
    BY <1>5 DEF Gives
  <2>2. got[t].lab.intent = "no_work" /\ got[t].lab.source = "rule"
    BY <2>1 DEF Got
  <2>3. with[t] = got[t]
    BY <1>5, <2>2 DEF WithParents, Continues
  <2>4. CASE lab[t].source = "human"
    BY <1>1, <1>2, <1>5, <2>4 DEF Applied, Retyped, Engine
  <2>5. CASE lab[t].source # "human"
    BY <1>1, <1>2, <1>5, <2>2, <2>3, <2>5 DEF Applied, Retyped
  <2> QED BY <2>4, <2>5
<1> QED BY <1>4, <1>5

\* Steps that write no label and no job, and take no mark away.
LEMMA FlagsOnly ==
  ASSUME EmptyInv, UNCHANGED <<lab, job, luna>>, phase' \in Phases, billed' \in Flags, stored' \in Flags, own' \in Flags, open' \in Flags,
         \A t \in Turn : /\ billed[t] => billed'[t]
                         /\ open[t] => open'[t]
                         /\ stored'[t] => billed'[t]
                         /\ own'[t] => billed'[t]
                         /\ phase[t] = "ended" => phase'[t] = "ended",
         forced \subseteq forced', unmarked \subseteq unmarked'
  PROVE  EmptyInv'
<1>1. FlagTypes' /\ ReadIsBilled'
  BY DEF EmptyInv, FlagTypes, ReadIsBilled
<1>2. \A j \in luna : j \subseteq Turn
  BY DEF EmptyInv, FlagTypes
<1>3. \A j \in luna : \A t \in j : open'[t] \/ phase'[t] = "ended"
  BY <1>2 DEF EmptyInv, AskedIsKnown
<1>4. AskedIsKnown'
  BY <1>3 DEF EmptyInv, FlagTypes, AskedIsKnown
<1>5. LabelledIsWork'
  BY DEF EmptyInv, LabelledIsWork, NotWork
<1> QED BY <1>1, <1>4, <1>5 DEF EmptyInv

\* Steps of the queue that write no label.
LEMMA QueueOnly ==
  ASSUME EmptyInv, UNCHANGED <<phase, billed, open, lab, forced, unmarked>>, FlagTypes', ReadIsBilled', luna' \subseteq luna,
         \/ job'.pc \notin {"answer", "catch_up", "check"}
         \/ /\ job'.pc = "answer"
            /\ job'.kind # "label" =>
                   \A t \in job'.turns : open[t] \/ billed[t] \/ job'.snap.rule[t] = "no_work"
         \/ job'.pc \in {"catch_up", "check"} /\ \A t \in job'.turns : open[t]
  PROVE  EmptyInv'
<1>1. \A j \in luna' : \A t \in j : open'[t] \/ phase'[t] = "ended"
  BY DEF EmptyInv, AskedIsKnown
<1>2. job'.pc = "answer" /\ job'.kind # "label" =>
          \A t \in job'.turns : open'[t] \/ billed'[t] \/ job'.snap.rule[t] = "no_work"
  OBVIOUS
<1>3. job'.pc \in {"catch_up", "check"} => \A t \in job'.turns : open'[t]
  OBVIOUS
<1>4. AskedIsKnown'
  BY <1>1, <1>2, <1>3 DEF AskedIsKnown
<1>5. LabelledIsWork'
  BY DEF EmptyInv, LabelledIsWork, NotWork
<1> QED BY <1>4, <1>5 DEF EmptyInv

LEMMA WorldEmpty ==
  ASSUME EmptyInv, NEW t \in Turn, Starts(t) \/ Bills(t) \/ Ends(t) \/ Settles(t) PROVE EmptyInv'
<1> USE DEF row
<1>0. FlagTypes /\ ReadIsBilled
  BY DEF EmptyInv
<1>1. CASE Bills(t)
  <2>1. billed' = [billed EXCEPT ![t] = TRUE] /\ UNCHANGED <<phase, stored, own, open, lab, job, luna, forced, unmarked>>
    BY <1>1 DEF Bills
  <2>2. billed' \in Flags /\ \A u \in Turn : billed[u] => billed'[u]
    BY <1>0, <2>1 DEF FlagTypes, Flags
  <2> QED BY <1>0, <2>1, <2>2, FlagsOnly DEF FlagTypes, ReadIsBilled
<1>2. ASSUME UNCHANGED <<billed, stored, own, open, lab, job, luna, forced, unmarked>>, phase' \in Phases,
             \A u \in Turn : phase[u] = "ended" => phase'[u] = "ended"
      PROVE  EmptyInv'
  BY <1>0, <1>2, FlagsOnly DEF FlagTypes, ReadIsBilled
<1>3. CASE Starts(t) \/ Ends(t)
  <2>1. UNCHANGED <<billed, stored, own, open, lab, job, luna, forced, unmarked>>
    BY <1>3 DEF Starts, Ends
  <2>2. \E new \in {"running", "ended"} : phase' = [phase EXCEPT ![t] = new] /\ phase[t] # "ended"
    BY <1>3 DEF Starts, Ends
  <2>3. phase' \in Phases /\ \A u \in Turn : phase[u] = "ended" => phase'[u] = "ended"
    BY <1>0, <2>2 DEF FlagTypes, Phases
  <2> QED BY <1>2, <2>1, <2>3
<1>4. CASE Settles(t)
  BY <1>0, <1>2, <1>4 DEF Settles, FlagTypes
<1> QED BY <1>1, <1>3, <1>4

LEMMA JobAnswerEmpty == ASSUME Shaped, EmptyInv, JobAnswer PROVE EmptyInv'
<1>1. PICK got \in Answers(job), titled \in [job.titles -> BOOLEAN] :
         Given(job, got) /\ ApplyLabels(WithParents(job.snap, got), titled, FALSE)
  BY DEF JobAnswer
<1>2. /\ job.pc = "answer" /\ UNCHANGED <<phase, billed, stored, own, open, luna, forced>>
      /\ unmarked' = unmarked \cup {t \in job.turns : job.kind = "label" /\ lab'[t].source # "none"}
      /\ DOMAIN got = job.turns
  BY <1>1 DEF JobAnswer, world, Answers
<1>3. /\ job' = At(job'.pc, job'.kind, job'.turns, job'.titles, job'.snap)
      /\ job'.turns \subseteq job.turns
      /\ job'.pc \in {"rollup", "mark"}
  <2>1. CASE job.kind = "label"
    <3>1. job' = [job EXCEPT !.pc = "mark", !.snap = NoSnap]
      BY <2>1 DEF JobAnswer
    <3>2. job' = At("mark", job.kind, job.turns, job.titles, NoSnap)
      BY <3>1 DEF EmptyInv, FlagTypes, At
    <3> QED BY <2>1, <3>2, AtFields
  <2>2. CASE job.kind # "label"
    BY <2>2, AtFields DEF JobAnswer
  <2> QED BY <2>1, <2>2
<1>4. FlagTypes' /\ ReadIsBilled'
  BY <1>2, <1>3 DEF EmptyInv, FlagTypes, ReadIsBilled
<1>5. AskedIsKnown'
  BY <1>2, <1>3 DEF EmptyInv, AskedIsKnown
<1>6. ASSUME NEW t \in Turn, ~billed'[t], ~open'[t], t \notin forced' \cup unmarked' PROVE NotWork(t)'
  <2>1. ~billed[t] /\ ~open[t] /\ t \notin forced \cup unmarked
    BY <1>2, <1>6
  <2>2. CASE t \notin job.turns
    BY <1>1, <1>2, <2>1, <2>2, PassWrites DEF EmptyInv, LabelledIsWork, NotWork
  <2>3. CASE t \in job.turns /\ job.kind = "label"
    BY <1>2, <1>6, <2>3 DEF NotWork, Engine
  <2>4. CASE t \in job.turns /\ job.kind # "label"
    <3>1. job.snap.rule[t] = "no_work"
      BY <1>2, <2>1, <2>4 DEF EmptyInv, AskedIsKnown
    <3> QED BY <1>1, <1>2, <2>4, <3>1, PassWrites DEF NotWork, Given
  <2> QED BY <2>2, <2>3, <2>4
<1> QED BY <1>4, <1>5, <1>6 DEF EmptyInv, LabelledIsWork

\* The mark covers every turn that was labelled without one.
LEMMA JobMarksEmpty == ASSUME EmptyInv, JobMarks PROVE EmptyInv'
<1>1. /\ UNCHANGED <<phase, billed, stored, own, lab, luna, forced>>
      /\ open' = [t \in Turn |-> open[t] \/ t \in job.turns]
      /\ unmarked' = unmarked \ job.turns
  BY DEF JobMarks, world, Marked
<1>2. \A t \in Turn : open'[t] = (open[t] \/ t \in job.turns)
  BY <1>1
<1>3. /\ job' = At(job'.pc, job'.kind, job'.turns, job'.titles, job'.snap)
      /\ job'.turns = job.turns /\ job'.pc = "catch_up"
  <2>1. job' = [job EXCEPT !.pc = "catch_up"]
    BY DEF JobMarks
  <2>2. job' = At("catch_up", job.kind, job.turns, job.titles, job.snap)
    BY <2>1 DEF EmptyInv, FlagTypes, At
  <2> QED BY <2>2, AtFields
<1>4. FlagTypes' /\ ReadIsBilled'
  BY <1>1, <1>3 DEF EmptyInv, FlagTypes, ReadIsBilled, Flags
<1>5. AskedIsKnown'
  BY <1>1, <1>2, <1>3 DEF EmptyInv, FlagTypes, AskedIsKnown
<1>6. LabelledIsWork'
  BY <1>1, <1>2 DEF EmptyInv, LabelledIsWork, NotWork
<1> QED BY <1>4, <1>5, <1>6 DEF EmptyInv

\* The check of ended turns leaves no empty one as work.
LEMMA CheckEmpty == ASSUME Shaped, EmptyInv, CheckEnded PROVE EmptyInv'
<1> DEFINE empty == {t \in ToCheck : ~own[t] /\ lab[t].source # "human"}
           checked == [Unlabelled EXCEPT !.source = "rule", !.intent = "no_work"]
<1>1. /\ UNCHANGED <<phase, billed, stored, forced, unmarked>> /\ job' = Idle /\ job.pc = "check"
      /\ lab' = [t \in Turn |-> IF t \in empty THEN checked ELSE lab[t]]
      /\ open' = [t \in Turn |-> open[t] /\ t \notin ToCheck]
      /\ own' = own \/ own' = stored
      /\ \E ask \in SUBSET job.turns : luna' = luna \cup (IF ask = {} THEN {} ELSE {ask})
  BY DEF CheckEnded, world, RollupMoved, Rollup
<1>2. \A t \in Turn : open'[t] = (open[t] /\ t \notin ToCheck)
  BY <1>1
<1>3. FlagTypes' /\ ReadIsBilled'
  BY <1>1, IdleJob DEF EmptyInv, FlagTypes, ReadIsBilled, Flags
<1>4. \A t \in Turn : open[t] => open'[t] \/ phase[t] = "ended"
  BY <1>2 DEF ToCheck
<1>5. AskedIsKnown'
  <2>1. \A t \in job.turns : open[t] /\ t \in Turn
    BY <1>1 DEF EmptyInv, AskedIsKnown, FlagTypes
  <2>2. \A j \in luna' : j \in luna \/ j \subseteq job.turns
    BY <1>1
  <2>3. \A j \in luna : \A t \in j : t \in Turn /\ (open[t] \/ phase[t] = "ended")
    BY DEF EmptyInv, AskedIsKnown, FlagTypes
  <2>4. \A j \in luna' : \A t \in j : open'[t] \/ phase'[t] = "ended"
    BY <1>1, <1>4, <2>1, <2>2, <2>3
  <2> QED BY <1>1, <2>4, IdleJob DEF AskedIsKnown
<1>6. ASSUME NEW t \in Turn, ~billed'[t], ~open'[t], t \notin forced' \cup unmarked' PROVE NotWork(t)'
  <2>1. ~billed[t] /\ ~own[t] /\ t \notin forced \cup unmarked
    BY <1>1, <1>6 DEF EmptyInv, ReadIsBilled
  <2>2. CASE t \in empty
    <3>1. checked.intent = "no_work"
      BY DEF Unlabelled
    <3> QED BY <1>1, <2>2, <3>1 DEF NotWork
  <2>3. CASE t \notin empty /\ t \in ToCheck
    BY <1>1, <2>1, <2>3 DEF NotWork, Engine
  <2>4. CASE t \notin ToCheck
    BY <1>1, <1>2, <1>6, <2>1, <2>4 DEF EmptyInv, LabelledIsWork, NotWork, ToCheck
  <2> QED BY <2>2, <2>3, <2>4
<1> QED BY <1>3, <1>5, <1>6 DEF EmptyInv, LabelledIsWork

LEMMA JobEmpty ==
  ASSUME EmptyInv, \/ SpendScan \/ StartLabel \/ StartPass \/ StartLuna \/ CatchUp \/ AskFirst
                   \/ PassAsk \/ JobFails \/ JobRollup
  PROVE  EmptyInv'
<1> USE DEF world, row
<1>0. FlagTypes /\ ReadIsBilled
  BY DEF EmptyInv
<1>a. ASSUME ReadSpend, UNCHANGED billed PROVE stored' \in Flags /\ \A t \in Turn : stored'[t] => billed'[t]
  BY <1>0, <1>a DEF ReadSpend, FlagTypes
<1>b. \A t \in Turn : own[t] => billed[t]
  BY <1>0 DEF ReadIsBilled
<1>1. CASE SpendScan
  BY <1>0, <1>1, <1>a, FlagsOnly DEF SpendScan, FlagTypes, ReadIsBilled
<1>2. CASE StartLabel
  <2>1. UNCHANGED <<phase, billed, stored, own, open, lab, luna, forced, unmarked>>
    BY <1>2 DEF StartLabel
  <2>2. PICK new \in SUBSET Turn : \/ job' = At("catch_up", "label", {}, {}, NoSnap)
                                  \/ job' = At("first", "label", new, {}, NoSnap)
                                  \/ job' = At("answer", "label", new, {}, Snap(new, FALSE, FALSE))
    BY <1>2 DEF StartLabel
  <2> DEFINE shot == Snap(new, FALSE, FALSE)
  <2> HIDE DEF shot
  <2>3. \/ job' = At("catch_up", "label", {}, {}, NoSnap)
        \/ job' = At("first", "label", new, {}, NoSnap)
        \/ job' = At("answer", "label", new, {}, shot)
    BY <2>2 DEF shot
  <2>4. /\ job' = At(job'.pc, job'.kind, job'.turns, job'.titles, job'.snap) /\ job'.turns \subseteq Turn
        /\ \/ job'.pc = "first"
           \/ job'.pc = "answer" /\ job'.kind = "label"
           \/ job'.pc = "catch_up" /\ \A t \in job'.turns : open[t]
    BY <2>3, AtFields
  <2>5. FlagTypes' /\ ReadIsBilled'
    BY <1>0, <2>1, <2>4 DEF FlagTypes, ReadIsBilled
  <2> QED BY <2>1, <2>4, <2>5, QueueOnly
<1>3. CASE StartPass
  <2>1. UNCHANGED <<phase, billed, stored, open, lab, luna, forced, unmarked>> /\ own' = stored
        /\ job' = At("ask", "pass", {}, {}, NoSnap)
    BY <1>3 DEF StartPass, Rollup
  <2>2. FlagTypes' /\ ReadIsBilled'
    BY <1>0, <2>1, AtFields DEF FlagTypes, ReadIsBilled
  <2> QED BY <2>1, <2>2, AtFields, QueueOnly
<1>4. CASE StartLuna
  <2>1. UNCHANGED <<phase, billed, stored, own, open, lab, forced, unmarked>>
    BY <1>4 DEF StartLuna, LunaReady
  <2>2. PICK j \in luna, llm \in BOOLEAN : LET todo == {t \in j : lab[t].source \in {"none", "jev"}}
             IN  /\ luna' = luna \ {j}
                 /\ job' = IF todo = {} THEN Idle ELSE At("answer", "luna", todo, {}, Snap(todo, FALSE, llm))
    BY <1>4 DEF StartLuna, LunaReady
  <2> DEFINE todo == {t \in j : lab[t].source \in {"none", "jev"}}
  <2>3. todo \subseteq Turn
    BY <1>0 DEF FlagTypes
  <2>4. FlagTypes' /\ ReadIsBilled'
    <3> DEFINE shot == Snap(todo, FALSE, llm)
    <3>1. job' = Idle \/ job' = At("answer", "luna", todo, {}, shot)
      BY <2>2
    <3>2. luna' \subseteq luna
      BY <2>2
    <3> HIDE DEF shot, todo
    <3>3. job' = At(job'.pc, job'.kind, job'.turns, job'.titles, job'.snap) /\ job'.turns \subseteq Turn
      BY <2>3, <3>1, AtFields, IdleJob
    <3> QED BY <1>0, <2>1, <3>2, <3>3 DEF FlagTypes, ReadIsBilled
  <2>5. \A t \in todo : open[t] \/ billed[t] \/ Snap(todo, FALSE, llm).rule[t] = "no_work"
    <3> SUFFICES ASSUME NEW t \in todo, ~open[t], ~billed[t] PROVE Snap(todo, FALSE, llm).rule[t] = "no_work"
      OBVIOUS
    <3>1. phase[t] = "ended" /\ ~own[t] /\ t \in Turn
      BY <1>b, <2>3 DEF EmptyInv, AskedIsKnown
    <3> QED BY <3>1 DEF Snap, RuleIntent
  <2> HIDE DEF todo
  <2>6. CASE todo = {}
    <3>1. job' = Idle /\ luna' \subseteq luna
      BY <2>2, <2>6 DEF todo
    <3> QED BY <2>1, <2>4, <3>1, IdleJob, QueueOnly
  <2>7. CASE job' = At("answer", "luna", todo, {}, Snap(todo, FALSE, llm))
    <3> DEFINE shot == Snap(todo, FALSE, llm)
    <3> HIDE DEF shot
    <3>1. job' = At("answer", "luna", todo, {}, shot) /\ luna' \subseteq luna
      BY <2>2, <2>7 DEF shot
    <3>2. \A t \in todo : open[t] \/ billed[t] \/ shot.rule[t] = "no_work"
      BY <2>5 DEF shot
    <3> QED BY <2>1, <2>4, <3>1, <3>2, AtFields, QueueOnly
  <2> QED BY <2>2, <2>6, <2>7 DEF todo
<1>5. CASE CatchUp
  <2>1. UNCHANGED <<phase, billed, open, lab, luna, forced, unmarked>> /\ own' = billed /\ ReadSpend
    BY <1>5 DEF CatchUp, Rollup
  <2>2. PICK pc \in {"ask", "check"} :
           /\ job' = At(pc, job.kind, job.turns, job.titles, job.snap)
           /\ pc = "check" => job.pc = "catch_up"
    BY <1>0, <1>5 DEF CatchUp, FlagTypes, At
  <2>3. FlagTypes' /\ ReadIsBilled'
    BY <1>0, <1>a, <2>1, <2>2, AtFields DEF FlagTypes, ReadIsBilled
  <2>4. job.pc = "catch_up" => \A t \in job.turns : open[t]
    BY DEF EmptyInv, AskedIsKnown
  <2> QED BY <2>1, <2>2, <2>3, <2>4, AtFields, QueueOnly
<1>6. CASE AskFirst
  <2>1. UNCHANGED <<phase, billed, stored, own, open, lab, luna, forced, unmarked>>
    BY <1>6 DEF AskFirst
  <2>2. PICK s : job' = At("answer", "label", job.turns, job.titles, s)
    <3> DEFINE shot == Snap(job.turns, FALSE, FALSE)
    <3>1. job' = [job EXCEPT !.pc = "answer", !.snap = shot] /\ job.kind = "label"
      BY <1>6 DEF AskFirst
    <3> HIDE DEF shot
    <3> QED BY <1>0, <3>1 DEF FlagTypes, At
  <2>3. FlagTypes' /\ ReadIsBilled'
    BY <1>0, <2>1, <2>2, AtFields DEF FlagTypes, ReadIsBilled
  <2> QED BY <2>1, <2>2, <2>3, AtFields, QueueOnly
<1>7. CASE PassAsk
  <2>1. UNCHANGED <<phase, billed, stored, own, open, lab, luna, forced, unmarked>>
    BY <1>7 DEF PassAsk, LunaReady
  <2>2. PICK todo \in SUBSET {t \in Turn : phase[t] = "ended" \/ t \in settled},
           titles \in SUBSET Turn, llm \in BOOLEAN :
           job' = Idle \/ job' = At("answer", "pass", todo, titles, Snap(todo, FALSE, llm))
    BY <1>7 DEF PassAsk, LunaReady
  <2> DEFINE shot == Snap(todo, FALSE, llm)
  <2>7. job' = Idle \/ job' = At("answer", "pass", todo, titles, shot)
    BY <2>2
  <2>3. FlagTypes' /\ ReadIsBilled'
    <3> HIDE DEF shot
    <3>1. job' = At(job'.pc, job'.kind, job'.turns, job'.titles, job'.snap) /\ job'.turns \subseteq Turn
      BY <2>7, AtFields, IdleJob
    <3> QED BY <1>0, <2>1, <3>1 DEF FlagTypes, ReadIsBilled
  <2>4. \A t \in todo : billed[t] \/ shot.rule[t] = "no_work"
    BY <1>b DEF Snap, RuleIntent
  <2> HIDE DEF shot
  <2>5. CASE job' = Idle
    BY <2>1, <2>3, <2>5, IdleJob, QueueOnly
  <2>6. CASE job' = At("answer", "pass", todo, titles, shot)
    BY <2>1, <2>3, <2>4, <2>6, AtFields, QueueOnly
  <2> QED BY <2>5, <2>6, <2>7
<1>8. CASE JobFails \/ JobRollup
  <2>1. UNCHANGED <<phase, billed, stored, open, lab, luna, forced, unmarked>> /\ (own' = own \/ own' = stored) /\ job' = Idle
    BY <1>8 DEF JobFails, JobRollup, Rollup
  <2>2. FlagTypes' /\ ReadIsBilled'
    BY <1>0, <2>1, IdleJob DEF FlagTypes, ReadIsBilled
  <2> QED BY <2>1, <2>2, IdleJob, QueueOnly
<1> QED BY <1>1, <1>2, <1>3, <1>4, <1>5, <1>6, <1>7, <1>8

\* A person's label is no engine's, and what a forced pass labels is told apart.
LEMMA PersonEmpty ==
  ASSUME Shaped, EmptyInv, NEW t \in Turn,
         \/ \E i \in PersonTypes : PersonLabels(t, i)
         \/ \E p \in Turn : PersonMoves(t, p)
         \/ StartAgain(t)
  PROVE  EmptyInv'
<1> USE DEF world, row
<1>1. CASE StartAgain(t)
  <2>1. own' = billed /\ stored' = billed /\ UNCHANGED <<phase, billed, open, lab, luna, job, forced, unmarked>>
    BY <1>1 DEF StartAgain, ReadSpend, Rollup
  <2> QED BY <2>1, FlagsOnly DEF EmptyInv, FlagTypes
<1>2. CASE (\E i \in PersonTypes : PersonLabels(t, i)) \/ \E p \in Turn : PersonMoves(t, p)
  <2>1. own' = stored /\ UNCHANGED <<phase, billed, stored, open, luna, job, forced, unmarked>>
    BY <1>2 DEF PersonLabels, PersonMoves, Rollup
  <2>2. \A u \in Turn : u # t => lab'[u] = lab[u]
    BY <1>2 DEF PersonLabels, PersonMoves, Shaped
  <2>3. lab'[t].source = "human"
    <3>1. CASE \E i \in PersonTypes : PersonLabels(t, i)
      <4>1. \E i, p : lab' = [lab EXCEPT ![t] = [@ EXCEPT !.source = "human", !.intent = i, !.parent = p]]
        BY <3>1 DEF PersonLabels
      <4> QED BY <4>1 DEF Shaped, IsLabel, Field
    <3>2. CASE \E p \in Turn : PersonMoves(t, p)
      <4>1. \E p : lab' = [lab EXCEPT ![t] = [@ EXCEPT !.source = "human", !.parent = p]]
        BY <3>2 DEF PersonMoves
      <4> QED BY <4>1 DEF Shaped, IsLabel, Field
    <3> QED BY <1>2, <3>1, <3>2
  <2>4. FlagTypes' /\ ReadIsBilled' /\ AskedIsKnown'
    BY <2>1 DEF EmptyInv, FlagTypes, ReadIsBilled, AskedIsKnown
  <2>5. LabelledIsWork'
    BY <2>1, <2>2, <2>3 DEF EmptyInv, LabelledIsWork, NotWork, Engine
  <2> QED BY <2>4, <2>5 DEF EmptyInv
<1> QED BY <1>1, <1>2

LEMMA AgainEmpty == ASSUME EmptyInv, AskAgain \/ AgainAnswer \/ AgainEnds PROVE EmptyInv'
<1> USE DEF world, row
<1>1. CASE AskAgain
  BY <1>1, FlagsOnly DEF AskAgain, EmptyInv, FlagTypes, ReadIsBilled
<1>2. CASE AgainAnswer
  <2>1. PICK got \in Answers(again), none \in [{} -> BOOLEAN] : ApplyLabels(WithParents(again.snap, got), none, TRUE)
    BY <1>2 DEF AgainAnswer
  <2>2. DOMAIN WithParents(again.snap, got) = again.turns /\ DOMAIN none = {}
    BY DEF WithParents, Answers
  <2>3. \A u \in Turn : u \notin again.turns => lab'[u] = lab[u]
    BY <2>1, <2>2 DEF ApplyLabels
  <2>4. forced' = forced \cup again.turns /\ UNCHANGED <<phase, billed, stored, own, open, luna, job, unmarked>>
    BY <1>2 DEF AgainAnswer
  <2>5. FlagTypes' /\ ReadIsBilled' /\ AskedIsKnown'
    BY <2>4 DEF EmptyInv, FlagTypes, ReadIsBilled, AskedIsKnown
  <2>6. LabelledIsWork'
    BY <2>3, <2>4 DEF EmptyInv, LabelledIsWork, NotWork
  <2> QED BY <2>5, <2>6 DEF EmptyInv
<1>3. CASE AgainEnds
  <2>1. /\ own' = stored /\ UNCHANGED <<phase, billed, stored, lab, luna, job, forced, unmarked>>
        /\ open' = [t \in Turn |-> open[t] \/ (t \in again.turns /\ phase[t] # "ended")]
    BY <1>3 DEF AgainEnds, Rollup
  <2>2. open' \in Flags /\ \A t \in Turn : open[t] => open'[t]
    BY <2>1 DEF Flags, EmptyInv, FlagTypes
  <2> QED BY <2>1, <2>2, FlagsOnly DEF EmptyInv, FlagTypes, ReadIsBilled
<1> QED BY <1>1, <1>2, <1>3

LEMMA NextEmpty == Shaped /\ EmptyInv /\ [Next]_vars => EmptyInv'
<1> SUFFICES ASSUME Shaped, EmptyInv, [Next]_vars PROVE EmptyInv'
  OBVIOUS
<1>1. CASE UNCHANGED vars
  BY <1>1, FlagsOnly DEF vars, EmptyInv, FlagTypes, ReadIsBilled
<1> QED BY <1>1, WorldEmpty, JobEmpty, JobAnswerEmpty, JobMarksEmpty, CheckEmpty, PersonEmpty, AgainEmpty DEF Next

LEMMA InitEmpty == Init => EmptyInv
<1> SUFFICES ASSUME Init PROVE EmptyInv
  OBVIOUS
<1>1. FlagTypes /\ ReadIsBilled
  BY IdleJob DEF Init, FlagTypes, Flags, Phases, ReadIsBilled
<1>2. AskedIsKnown /\ LabelledIsWork
  BY IdleJob DEF Init, AskedIsKnown, LabelledIsWork, NotWork, Unlabelled, Engine
<1> QED BY <1>1, <1>2 DEF EmptyInv

\* For any turns and engines: a turn that ended without a billed call is no work,
\* or marked for the check, though it was labelled while it ran, by a job or after
\* it waited for Luna, unless Classify again labelled it or its label job was stopped
\* between the label and the mark.
THEOREM EmptyTurnsAreNoWork == Spec => []EmptyIsNoWork
<1>1. EmptyInv => EmptyIsNoWork
  BY DEF EmptyInv, LabelledIsWork, NotWork, EmptyIsNoWork, Engine
<1> QED BY <1>1, InitShaped, NextShaped, InitEmpty, NextEmpty, PTL DEF Spec

----
(***************************************************************************)
(* Types.                                                                  *)
(***************************************************************************)
\* Induction, from the least element of a set of naturals, and the folds it gives.
LEMMA Induction ==
  ASSUME NEW S, 0 \in S, \A n \in Nat : n \in S => n + 1 \in S
  PROVE  Nat \subseteq S
<1> DEFINE T == Nat \ S
           R == {ss \in Nat \X Nat : ss[1] < ss[2]}
<1> SUFFICES ASSUME T # {} PROVE FALSE
  OBVIOUS
<1>1. IsWellFoundedOn(R, Nat)
  BY NatLessThanWellFounded, SMT DEF OpToRel
<1>2. PICK x \in T : \A y \in T : ~ (<<y, x>> \in R)
  <2> HIDE DEF R
  <2> QED BY <1>1, WFMin, Zenon
<1>3. x - 1 \in Nat /\ x - 1 < x /\ (x - 1) + 1 = x
  OBVIOUS
<1> QED BY <1>2, <1>3

FoldSteps(W, N) == [W \X (1..N) -> W]
IsFold(f, W, a, N, step) == f \in [0..N -> W] /\ f[0] = a /\ \A i \in 1..N : f[i] = step[<<f[i - 1], i>>]

\* There is a fold of any step over any number of lines.
LEMMA FoldExists ==
  ASSUME NEW W, NEW a \in W, NEW N \in Nat, NEW step \in FoldSteps(W, N)
  PROVE  \E f : IsFold(f, W, a, N, step)
<1> USE DEF FoldSteps
<1> DEFINE Folds(f, n) == f[0] = a /\ \A i \in 1..n : f[i] = step[<<f[i - 1], i>>]
           S == {n \in Nat : n <= N => \E f \in [0..n -> W] : Folds(f, n)}
<1>1. 0 \in S
  <2>1. Folds([i \in 0..0 |-> a], 0) /\ [i \in 0..0 |-> a] \in [0..0 -> W]
    OBVIOUS
  <2> QED BY <2>1
<1>2. ASSUME NEW n \in Nat, n \in S PROVE n + 1 \in S
  <2> SUFFICES ASSUME n + 1 <= N PROVE \E f \in [0..(n + 1) -> W] : Folds(f, n + 1)
    OBVIOUS
  <2>1. PICK f \in [0..n -> W] : Folds(f, n)
    BY <1>2
  <2> DEFINE h == [i \in 0..(n + 1) |-> IF i = n + 1 THEN step[<<f[n], n + 1>>] ELSE f[i]]
  <2>2. f[n] \in W /\ n + 1 \in 1..N
    OBVIOUS
  <2>3. h \in [0..(n + 1) -> W]
    BY <2>2
  <2>4. h[0] = a
    BY <2>1
  <2>5. ASSUME NEW i \in 1..(n + 1) PROVE h[i] = step[<<h[i - 1], i>>]
    <3>1. CASE i = n + 1
      <4>1. h[n] = f[n] /\ i - 1 = n /\ h[i] = step[<<f[n], n + 1>>]
        BY <3>1
      <4> QED BY <3>1, <4>1
    <3>2. CASE i # n + 1
      <4>1. i \in 1..n /\ h[i] = f[i] /\ h[i - 1] = f[i - 1]
        BY <3>2
      <4> QED BY <2>1, <4>1
    <3> QED BY <3>1, <3>2
  <2> HIDE DEF h
  <2> QED BY <2>3, <2>4, <2>5
<1> HIDE DEF S
<1>3. N \in S
  BY <1>1, <1>2, Induction
<1> QED BY <1>3 DEF S, IsFold


\* Induction up to a bound.
LEMMA UpTo ==
  ASSUME NEW N \in Nat, NEW S, 0 \in S, \A n \in 0..(N - 1) : n \in S => n + 1 \in S
  PROVE  \A n \in 0..N : n \in S
<1> DEFINE U == {n \in Nat : n <= N => n \in S}
<1>1. 0 \in U
  OBVIOUS
<1>2. ASSUME NEW n \in Nat, n \in U PROVE n + 1 \in U
  BY <1>2
<1> HIDE DEF U
<1>3. Nat \subseteq U
  BY <1>1, <1>2, Induction
<1> QED BY <1>3 DEF U

LEMMA Bounds == MaxTurn \in Nat /\ MaxTurn >= 1 /\ MaxActs \in Nat /\ \A t \in Turn : t \in Nat /\ t >= 1 /\ t <= MaxTurn
  BY LabelAssumption DEF Turn

\* A set of turns that is not empty has a last one.
LEMMA LastExists ==
  ASSUME NEW N \in Nat, NEW T \in SUBSET (1..N), T # {}
  PROVE  Max(T) \in T
<1> DEFINE U == {n \in 0..N : \A S \in SUBSET (1..n) : S # {} => \E x \in S : \A y \in S : x >= y}
<1>1. 0 \in U
  <2>1. \A S \in SUBSET (1..0) : S = {}
    OBVIOUS
  <2>2. 0 \in 0..N
    OBVIOUS
  <2> QED BY <2>1, <2>2, Zenon
<1>2. ASSUME NEW n \in 0..(N - 1), n \in U PROVE n + 1 \in U
  <2>1. ASSUME NEW S \in SUBSET (1..(n + 1)), S # {} PROVE \E x \in S : \A y \in S : x >= y
    <3>1. CASE n + 1 \in S
      <4>1. \A y \in S : n + 1 >= y
        OBVIOUS
      <4> QED BY <3>1, <4>1
    <3>2. CASE n + 1 \notin S
      <4>1. S \in SUBSET (1..n)
        BY <3>2
      <4> QED BY <1>2, <2>1, <4>1
    <3> QED BY <3>1, <3>2
  <2>2. n + 1 \in 0..N
    OBVIOUS
  <2> QED BY <2>1, <2>2
<1>3. \A n \in 0..N : n \in U
  <2> HIDE DEF U
  <2> QED BY <1>1, <1>2, UpTo
<1>4. N \in U
  <2>1. N \in 0..N
    OBVIOUS
  <2> HIDE DEF U
  <2> QED BY <1>3, <2>1
<1>5. \E x \in T : \A y \in T : x >= y
  BY <1>4
<1> QED BY <1>5 DEF Max

\* A continuing turn's default parent comes before it.
LEMMA DefaultIsEarlier ==
  ASSUME NEW t \in Turn, NEW intent
  PROVE  DefaultParent(t, intent) \in 0..(t - 1) /\ DefaultParent(t, intent) \in 0..MaxTurn /\ DefaultParent(t, intent) # t
<1> DEFINE tasks == {u \in 1..(t - 1) : intent[u] = "task"}
<1>0. t \in Nat /\ t >= 1 /\ t <= MaxTurn /\ MaxTurn \in Nat /\ t - 1 \in Nat
  BY Bounds
<1>1. DefaultParent(t, intent) \in 0..(t - 1)
  <2>1. CASE tasks = {}
    BY <1>0, <2>1 DEF DefaultParent
  <2>2. CASE tasks # {}
    <3>1. Max(tasks) \in tasks
      <4>1. tasks \in SUBSET (1..(t - 1))
        OBVIOUS
      <4> HIDE DEF tasks
      <4> QED BY <1>0, <2>2, <4>1, LastExists
    <3>2. DefaultParent(t, intent) = Max(tasks)
      BY <2>2 DEF DefaultParent
    <3>3. Max(tasks) \in 0..(t - 1)
      BY <1>0, <3>1
    <3> QED BY <3>2, <3>3
  <2> QED BY <2>1, <2>2
<1> QED BY <1>0, <1>1

\* One move up stays among the turns, or runs out of them.
LEMMA UpStays ==
  ASSUME NEW l \in [Turn -> Label], NEW start \in Turn, NEW t \in Turn
  PROVE  Up(l, start, t) \in 0..MaxTurn
<1>1. t - 1 \in 0..MaxTurn /\ t \in 0..MaxTurn
  BY Bounds
<1>2. l[t].parent \in 0..MaxTurn
  BY DEF Label
<1> QED BY <1>1, <1>2 DEF Up

\* The climb to a turn's task, as a fold.
Climbs(f, l, start) ==
    /\ f \in [0..MaxTurn -> 0..MaxTurn] /\ f[0] = start
    /\ \A k \in 1..MaxTurn : f[k] = IF f[k - 1] = 0 THEN 0 ELSE Up(l, start, f[k - 1])

LEMMA RootClimbs ==
  ASSUME NEW l \in [Turn -> Label], NEW start \in Turn
  PROVE  \E f : /\ Climbs(f, l, start)
                /\ Root(l, start) = IF f[MaxTurn] # 0 /\ Up(l, start, f[MaxTurn]) = f[MaxTurn]
                                    THEN f[MaxTurn] ELSE start
<1> DEFINE W == 0..MaxTurn
           step == [p \in W \X (1..MaxTurn) |-> IF p[1] = 0 THEN 0 ELSE Up(l, start, p[1])]
           F(c) == [k \in 0..MaxTurn |-> IF k = 0 THEN start
                      ELSE IF c[k - 1] = 0 THEN 0 ELSE Up(l, start, c[k - 1])]
           c == CHOOSE g : g = F(g)
<1>0. MaxTurn \in Nat /\ 0 \in W /\ start \in W
  BY Bounds
<1>1. step \in FoldSteps(W, MaxTurn)
  <2>1. ASSUME NEW p \in W \X (1..MaxTurn) PROVE (IF p[1] = 0 THEN 0 ELSE Up(l, start, p[1])) \in W
    <3>1. p[1] # 0 => p[1] \in Turn
      BY <1>0 DEF Turn
    <3> QED BY <1>0, <3>1, UpStays
  <2> QED BY <2>1 DEF FoldSteps
<1>2. PICK f : IsFold(f, W, start, MaxTurn, step)
  <2> HIDE DEF W, step
  <2> QED BY <1>0, <1>1, FoldExists
<1>3. f \in [0..MaxTurn -> W] /\ f[0] = start /\ \A i \in 1..MaxTurn : f[i] = step[<<f[i - 1], i>>]
  BY <1>2, Zenon DEF IsFold
<1>4. \A i \in 1..MaxTurn : f[i] = IF f[i - 1] = 0 THEN 0 ELSE Up(l, start, f[i - 1])
  <2> TAKE i \in 1..MaxTurn
  <2>1. i - 1 \in 0..MaxTurn
    BY <1>0
  <2>2. f[i - 1] \in W
    BY <1>3, <2>1
  <2> QED BY <1>3, <2>2
<1> HIDE DEF step
<1>5. Climbs(f, l, start)
  BY <1>3, <1>4 DEF Climbs
<1>6. f = F(f)
  <2>1. ASSUME NEW k \in 0..MaxTurn PROVE f[k] = F(f)[k]
    <3>1. CASE k = 0
      BY <1>3, <3>1
    <3>2. CASE k # 0
      <4>1. k \in 1..MaxTurn
        BY <1>0, <3>2
      <4> QED BY <1>4, <3>2, <4>1
    <3> QED BY <3>1, <3>2
  <2>2. f = [k \in 0..MaxTurn |-> f[k]] /\ F(f) = [k \in 0..MaxTurn |-> F(f)[k]]
    BY <1>3
  <2> HIDE DEF F
  <2> QED BY <2>1, <2>2
<1>7. c = F(c)
  <2> HIDE DEF F
  <2> QED BY <1>6
<1>8. Root(l, start) = IF c[MaxTurn] # 0 /\ Up(l, start, c[MaxTurn]) = c[MaxTurn] THEN c[MaxTurn] ELSE start
  BY Zenon DEF Root
<1>9. Climbs(c, l, start)
  <2> HIDE DEF c
  <2>1. c[0] = start
    BY <1>0, <1>7
  <2>2. ASSUME NEW k \in 1..MaxTurn PROVE c[k] = IF c[k - 1] = 0 THEN 0 ELSE Up(l, start, c[k - 1])
    <3>1. k \in 0..MaxTurn /\ k # 0
      BY <1>0
    <3> QED BY <1>7, <3>1
  <2> DEFINE S == {k \in 0..MaxTurn : c[k] \in W}
  <2>3. 0 \in S
    BY <1>0, <2>1
  <2>4. ASSUME NEW k \in 0..(MaxTurn - 1), k \in S PROVE k + 1 \in S
    <3>1. k + 1 \in 1..MaxTurn /\ (k + 1) - 1 = k /\ k + 1 \in 0..MaxTurn
      BY <1>0
    <3>2. c[k + 1] = IF c[k] = 0 THEN 0 ELSE Up(l, start, c[k])
      BY <2>2, <3>1
    <3>3. c[k] # 0 => c[k] \in Turn
      BY <1>0, <2>4 DEF Turn
    <3>4. c[k + 1] \in W
      BY <1>0, <3>2, <3>3, UpStays
    <3> QED BY <3>1, <3>4
  <2>5. \A k \in 0..MaxTurn : k \in S
    <3> HIDE DEF S
    <3> QED BY <1>0, <2>3, <2>4, UpTo
  <2>6. c \in [0..MaxTurn -> W]
    <3>1. c = [k \in 0..MaxTurn |-> F(c)[k]]
      BY <1>7
    <3>2. c = [k \in 0..MaxTurn |-> c[k]]
      BY <1>7
    <3> HIDE DEF F
    <3> QED BY <2>5, <3>2
  <2> QED BY <2>1, <2>2, <2>6 DEF Climbs
<1> HIDE DEF c
<1> QED BY <1>8, <1>9

\* A turn's task is a turn; unless it is the turn itself it opens one, and is
\* its own task.
LEMMA RootIs ==
  ASSUME NEW l \in [Turn -> Label], \A t \in Turn : l[t].parent # t, NEW start \in Turn
  PROVE  /\ Root(l, start) \in Turn
         /\ Root(l, start) # start => /\ Kind(l[Root(l, start)].intent) # "no_work"
                                      /\ Root(l, Root(l, start)) = Root(l, start)
<1> DEFINE u == Root(l, start)
<1>0. MaxTurn \in Nat /\ MaxTurn \in 0..MaxTurn
  BY Bounds
<1>1. PICK f : /\ Climbs(f, l, start)
               /\ u = IF f[MaxTurn] # 0 /\ Up(l, start, f[MaxTurn]) = f[MaxTurn] THEN f[MaxTurn] ELSE start
  BY RootClimbs
<1>2. f[MaxTurn] \in 0..MaxTurn
  BY <1>0, <1>1 DEF Climbs
<1>3. u \in Turn
  BY <1>1, <1>2 DEF Turn
<1>4. ASSUME u # start
      PROVE  Kind(l[u].intent) # "no_work" /\ Root(l, u) = u
  <2> HIDE DEF u
  <2>1. Up(l, start, u) = u
    BY <1>1, <1>4
  <2>2. Kind(l[u].intent) # "no_work"
    <3>1. u - 1 # u
      BY <1>3, Bounds
    <3> QED BY <1>4, <2>1, <3>1 DEF Up
  <2>3. ~(Kind(l[u].intent) = "subtask" /\ l[u].parent # 0)
    BY <1>3, <1>4, <2>1, <2>2 DEF Up
  <2>4. Up(l, u, u) = u
    BY <2>2, <2>3 DEF Up
  <2>5. PICK g : /\ Climbs(g, l, u)
                 /\ Root(l, u) = IF g[MaxTurn] # 0 /\ Up(l, u, g[MaxTurn]) = g[MaxTurn] THEN g[MaxTurn] ELSE u
    BY <1>3, RootClimbs
  <2> DEFINE S == {k \in 0..MaxTurn : g[k] = u}
  <2>6. 0 \in S
    BY <1>0, <2>5 DEF Climbs
  <2>7. ASSUME NEW k \in 0..(MaxTurn - 1), k \in S PROVE k + 1 \in S
    <3>1. k + 1 \in 1..MaxTurn /\ (k + 1) - 1 = k /\ k + 1 \in 0..MaxTurn
      BY <1>0
    <3>2. g[k + 1] = IF g[k] = 0 THEN 0 ELSE Up(l, u, g[k])
      BY <2>5, <3>1 DEF Climbs
    <3>3. u # 0
      BY <1>3, Bounds
    <3> QED BY <2>4, <2>7, <3>1, <3>2, <3>3
  <2>8. MaxTurn \in S
    <3> HIDE DEF S
    <3> QED BY <1>0, <2>6, <2>7, UpTo
  <2>9. g[MaxTurn] = u
    BY <2>8
  <2> QED BY <2>2, <2>5, <2>9
<1> QED BY <1>3, <1>4

----
JevSaid == {"none", "unsure"} \cup Picks
\* A label of turn t, and a decision for it.
LabelFits(l, t) == l \in Label /\ l.parent # t
GotFits(g, t) ==
    /\ g = [lab |-> g.lab, jev |-> g.jev, ok |-> g.ok]
    /\ LabelFits(g.lab, t) /\ g.jev \in JevSaid /\ g.ok \in BOOLEAN

\* A worker has turns that started.
WorkerFits(w, started) ==
    /\ w = At(w.pc, w.kind, w.turns, w.titles, w.snap)
    /\ w.pc \in Steps /\ w.turns \subseteq started /\ w.titles \subseteq started /\ w.snap \in Snapshot

WorldFits == phase \in Phases /\ settled \subseteq Started(phase) /\ billed \in Flags
SpendFits == stored \in Flags /\ unread \in Flags
TiesFit == own \in Flags /\ task \in [Turn -> 0..MaxTurn]
LabelsFit == /\ lab = [t \in Turn |-> lab[t]] /\ \A t \in Turn : LabelFits(lab[t], t)
             /\ \A t \in Turn : lab[t].source # "none" => t \in Started(phase)
JevFits == jev \in [Turn -> JevSaid]
QueueFits == /\ \A j \in luna : j \subseteq Started(phase)
             /\ WorkerFits(job, Started(phase)) /\ WorkerFits(again, Started(phase))
CountFits == acts \in 0..MaxActs
HistoryFits == forced \subseteq Turn /\ unmarked \subseteq Turn /\ stale \in BOOLEAN

TInv == /\ WorldFits /\ SpendFits /\ TiesFit /\ LabelsFit /\ JevFits
        /\ open \in Flags /\ QueueFits /\ CountFits /\ HistoryFits

LEMMA NoSnapFits == NoSnap \in Snapshot
  BY DEF NoSnap, Snapshot

LEMMA AtFits ==
  ASSUME NEW pc \in Steps, NEW k, NEW started, NEW ts \in SUBSET started, NEW ti \in SUBSET started, NEW s \in Snapshot
  PROVE  WorkerFits(At(pc, k, ts, ti, s), started)
  BY DEF WorkerFits, At

LEMMA IdleFits == ASSUME NEW started PROVE WorkerFits(Idle, started)
<1>1. Idle = At("idle", "none", {}, {}, NoSnap)
  BY Zenon DEF Idle, At
<1>2. "idle" \in Steps
  BY DEF Steps
<1> QED BY <1>1, <1>2, NoSnapFits, AtFits

\* A worker that goes on.
LEMMA GoesOnFits ==
  ASSUME NEW w, NEW started, WorkerFits(w, started), NEW pc \in Steps, NEW s \in Snapshot
  PROVE  WorkerFits([w EXCEPT !.pc = pc], started) /\ WorkerFits([w EXCEPT !.pc = pc, !.snap = s], started)
<1>1. w = At(w.pc, w.kind, w.turns, w.titles, w.snap)
  BY DEF WorkerFits
<1>2. PICK c, k, ts, ti, n : w = [pc |-> c, kind |-> k, turns |-> ts, titles |-> ti, snap |-> n]
  BY <1>1 DEF At
<1>3. [w EXCEPT !.pc = pc] = At(pc, k, ts, ti, n)
  BY <1>2 DEF At
<1>4. [w EXCEPT !.pc = pc, !.snap = s] = At(pc, k, ts, ti, s)
  <2>1. ASSUME NEW v, v = [w EXCEPT !.pc = pc, !.snap = s]
        PROVE  v = At(pc, k, ts, ti, s)
    BY <1>2, <2>1 DEF At
  <2> QED BY <2>1
<1>5. ts \subseteq started /\ ti \subseteq started /\ n \in Snapshot
  BY <1>2 DEF WorkerFits
<1> QED BY <1>3, <1>4, <1>5, AtFits

LEMMA StartedAre == \A p : Started(p) \subseteq Turn
  BY DEF Started

LEMMA SnapFits ==
  ASSUME LabelsFit, JevFits, NEW turns, NEW force, NEW llm \in BOOLEAN
  PROVE  Snap(turns, force, llm) \in Snapshot
<1>1. \A t \in Turn : RuleIntent(t) \in {"none", "no_work", "follow_up"}
  BY DEF RuleIntent
<1>2. \A t \in Turn : jev[t] \in JevSaid /\ lab[t].intent \in Intents \cup {"none"}
  BY DEF JevFits, LabelsFit, LabelFits, Label
<1>3. /\ [t \in Turn |-> IF t \in turns THEN RuleIntent(t) ELSE "none"] \in [Turn -> {"none", "no_work", "follow_up"}]
      /\ [t \in Turn |-> IF t \in turns /\ ~force /\ lab[t].source \in {"none", "jev"} THEN jev[t] ELSE "none"]
             \in [Turn -> JevSaid]
      /\ [t \in Turn |-> lab[t].intent] \in [Turn -> Intents \cup {"none"}]
  BY <1>1, <1>2 DEF JevSaid
<1> QED BY <1>3 DEF Snap, Snapshot, JevSaid

LEMMA GotIsFit ==
  ASSUME NEW t, NEW s \in Sources, NEW i \in Intents \cup {"none"}, NEW p \in 0..MaxTurn, p # t,
         NEW b \in BOOLEAN, NEW said \in JevSaid, NEW ok \in BOOLEAN
  PROVE  GotFits(Got(s, i, p, b, said, ok), t)
  BY DEF Got, GotFits, LabelFits, Label

LEMMA LunaFits ==
  ASSUME NEW t \in Turn, NEW said \in JevSaid, NEW g \in LunaGives(t, said)
  PROVE  GotFits(g, t)
<1>0. 0 \in 0..MaxTurn /\ 0 # t /\ \A p \in 0..(t - 1) : p \in 0..MaxTurn /\ p # t
  BY Bounds
<1>1. {"jev", "llm", "none"} \subseteq Sources /\ Picks \subseteq Intents \cup {"none"} /\ {"task", "follow_up"} = Picks
      /\ "none" \in Intents \cup {"none"}
  BY DEF Sources, Intents, Picks
<1>2. \/ \E s \in Sources, i \in Intents \cup {"none"} : g = Got(s, i, 0, FALSE, said, FALSE)
      \/ \E s \in Sources : g = Got(s, "task", 0, TRUE, said, TRUE)
      \/ \E s \in Sources, p \in 0..(t - 1) : g = Got(s, "follow_up", p, FALSE, said, TRUE)
  BY <1>1 DEF LunaGives
<1>3. CASE \E s \in Sources, i \in Intents \cup {"none"} : g = Got(s, i, 0, FALSE, said, FALSE)
  BY <1>0, <1>3, GotIsFit
<1>4. CASE \E s \in Sources : g = Got(s, "task", 0, TRUE, said, TRUE)
  BY <1>0, <1>1, <1>4, GotIsFit
<1>5. CASE \E s \in Sources, p \in 0..(t - 1) : g = Got(s, "follow_up", p, FALSE, said, TRUE)
  <2>1. PICK s \in Sources, p \in 0..(t - 1) : g = Got(s, "follow_up", p, FALSE, said, TRUE)
    BY <1>5
  <2>2. p \in 0..MaxTurn /\ p # t /\ "follow_up" \in Intents \cup {"none"} /\ FALSE \in BOOLEAN /\ TRUE \in BOOLEAN
    BY <1>0, <1>1
  <2> QED BY <2>1, <2>2, GotIsFit, Zenon
<1> QED BY <1>2, <1>3, <1>4, <1>5

LEMMA AfterJevFits ==
  ASSUME NEW t \in Turn, NEW said \in JevSaid, NEW llm \in BOOLEAN, NEW g \in AfterJev(t, said, llm)
  PROVE  GotFits(g, t)
<1>0. 0 \in 0..MaxTurn /\ 0 # t
  BY Bounds
<1>1. \/ g \in LunaGives(t, said)
      \/ said \in Picks /\ g = Got("jev", said, 0, FALSE, said, TRUE)
      \/ g = Got("none", "none", 0, FALSE, said, TRUE)
  BY DEF AfterJev
<1>2. {"jev", "none"} \subseteq Sources /\ Picks \subseteq Intents /\ "none" \in Intents \cup {"none"}
  BY DEF Sources, Intents, Picks
<1> QED BY <1>0, <1>1, <1>2, LunaFits, GotIsFit

LEMMA GivesFit ==
  ASSUME NEW s \in Snapshot, NEW t \in Turn, NEW g \in Gives(s, t)
  PROVE  GotFits(g, t)
<1>0. 0 \in 0..MaxTurn /\ 0 # t
  BY Bounds
<1>1. s.rule[t] \in {"none", "no_work", "follow_up"} /\ s.jev[t] \in JevSaid /\ s.llm \in BOOLEAN
  BY DEF Snapshot, JevSaid
<1>2. Says[t] \cup {"unsure"} \subseteq JevSaid
  BY LabelAssumption DEF JevSaid, Picks, Turn
<1>3. {"rule", "none"} \subseteq Sources /\ {"none", "no_work", "follow_up"} \subseteq Intents \cup {"none"} /\ "none" \in JevSaid
  BY DEF Sources, Intents, JevSaid
<1>4. \/ g = Got("rule", s.rule[t], 0, FALSE, "none", TRUE)
      \/ g \in AfterJev(t, s.jev[t], s.llm)
      \/ g = Got("none", "none", 0, FALSE, "none", FALSE)
      \/ \E said \in Says[t] \cup {"unsure"} : g \in AfterJev(t, said, s.llm)
  BY DEF Gives
<1>5. GotFits(Got("rule", s.rule[t], 0, FALSE, "none", TRUE), t)
  BY <1>0, <1>1, <1>3, GotIsFit
<1>6. GotFits(Got("none", "none", 0, FALSE, "none", FALSE), t)
  BY <1>0, <1>3, GotIsFit
<1>7. ASSUME NEW said \in JevSaid, g \in AfterJev(t, said, s.llm) PROVE GotFits(g, t)
  BY <1>1, <1>7, AfterJevFits
<1> QED BY <1>1, <1>2, <1>4, <1>5, <1>6, <1>7

LEMMA ParentsFit ==
  ASSUME NEW s, NEW got, NEW t \in DOMAIN got, t \in Turn, GotFits(got[t], t)
  PROVE  GotFits(WithParents(s, got)[t], t)
<1>1. \/ WithParents(s, got)[t] = got[t]
      \/ \E intent : WithParents(s, got)[t] = [got[t] EXCEPT !.lab.parent = DefaultParent(t, intent)]
  BY DEF WithParents
<1>2. ASSUME NEW p \in 0..MaxTurn, p # t PROVE GotFits([got[t] EXCEPT !.lab.parent = p], t)
  <2>1. got[t] = [lab |-> got[t].lab, jev |-> got[t].jev, ok |-> got[t].ok] /\ LabelFits(got[t].lab, t)
        /\ got[t].jev \in JevSaid /\ got[t].ok \in BOOLEAN
    BY DEF GotFits
  <2>2. [got[t] EXCEPT !.lab.parent = p] = [lab |-> [got[t].lab EXCEPT !.parent = p], jev |-> got[t].jev, ok |-> got[t].ok]
    BY <2>1
  <2>3. LabelFits([got[t].lab EXCEPT !.parent = p], t)
    BY <1>2, <2>1 DEF LabelFits, Label
  <2> QED BY <2>1, <2>2, <2>3 DEF GotFits
<1> QED BY <1>1, <1>2, DefaultIsEarlier

LEMMA AnswersFit ==
  ASSUME NEW w, w.snap \in Snapshot, w.turns \subseteq Turn, NEW got \in Answers(w), Given(w, got)
  PROVE  /\ DOMAIN WithParents(w.snap, got) = w.turns
         /\ \A t \in w.turns : GotFits(WithParents(w.snap, got)[t], t)
<1>1. DOMAIN got = w.turns /\ DOMAIN WithParents(w.snap, got) = DOMAIN got
  BY DEF Answers, WithParents
<1>2. \A t \in w.turns : t \in Turn /\ GotFits(got[t], t)
  BY GivesFit DEF Given
<1> QED BY <1>1, <1>2, ParentsFit

\* What a pass writes fits, of turns that started.
LEMMA ApplyFits ==
  ASSUME LabelsFit, JevFits, UNCHANGED phase, NEW with, NEW titled, NEW force, ApplyLabels(with, titled, force),
         DOMAIN with \subseteq Started(phase), DOMAIN titled \subseteq Started(phase),
         \A t \in DOMAIN with : GotFits(with[t], t), \A t \in DOMAIN titled : titled[t] \in BOOLEAN
  PROVE  LabelsFit' /\ JevFits'
<1>1. /\ lab' = [t \in Turn |-> IF t \in DOMAIN with THEN Applied(t, with[t], force)
                    ELSE IF t \in DOMAIN titled THEN [lab[t] EXCEPT !.titled = titled[t]] ELSE lab[t]]
      /\ jev' = [t \in Turn |->
                  IF t \notin DOMAIN with THEN jev[t]
                  ELSE IF with[t].lab.source # "none"
                       THEN IF lab[t].source = "human" /\ ~force THEN jev[t] ELSE with[t].jev
                  ELSE IF with[t].jev # "none" THEN with[t].jev ELSE jev[t]]
  BY DEF ApplyLabels
<1>2. ASSUME NEW t \in Turn, NEW l, LabelFits(l, t) PROVE LabelFits(Retyped(l, t), t)
  <2>1. LabelFits([l EXCEPT !.intent = "ask"], t)
    BY <1>2 DEF LabelFits, Label, Intents
  <2> QED BY <1>2, <2>1 DEF Retyped
<1>3. ASSUME NEW t \in Turn PROVE LabelFits(lab'[t], t) /\ (lab'[t].source # "none" => t \in Started(phase))
  <2>0. LabelFits(lab[t], t) /\ (lab[t].source # "none" => t \in Started(phase))
    BY DEF LabelsFit
  <2>1. CASE t \in DOMAIN with
    <3>1. LabelFits(with[t].lab, t)
      BY <2>1 DEF GotFits
    <3>2. LabelFits(Applied(t, with[t], force), t)
      BY <1>2, <2>0, <3>1 DEF Applied
    <3>3. lab'[t] = Applied(t, with[t], force) /\ t \in Started(phase)
      BY <1>1, <2>1
    <3> QED BY <3>2, <3>3
  <2>2. CASE t \notin DOMAIN with /\ t \in DOMAIN titled
    <3>1. lab'[t] = [lab[t] EXCEPT !.titled = titled[t]] /\ t \in Started(phase) /\ titled[t] \in BOOLEAN
      BY <1>1, <2>2
    <3>2. LabelFits([lab[t] EXCEPT !.titled = titled[t]], t)
      BY <2>0, <3>1 DEF LabelFits, Label
    <3> QED BY <3>1, <3>2
  <2>3. CASE t \notin DOMAIN with /\ t \notin DOMAIN titled
    BY <1>1, <2>0, <2>3
  <2> QED BY <2>1, <2>2, <2>3
<1>4. lab' = [t \in Turn |-> lab'[t]]
  BY <1>1
<1>5. JevFits'
  BY <1>1 DEF JevFits, GotFits
<1> QED BY <1>3, <1>4, <1>5 DEF LabelsFit

\* What stays as it is still fits, and what the bound counts.
LEMMA Frame ==
  ASSUME TInv
  PROVE  /\ UNCHANGED world => WorldFits'
         /\ UNCHANGED <<stored, unread>> => SpendFits'
         /\ UNCHANGED <<own, task>> => TiesFit'
         /\ UNCHANGED <<phase, lab>> => LabelsFit'
         /\ UNCHANGED jev => JevFits'
         /\ UNCHANGED open => open' \in Flags
         /\ UNCHANGED acts \/ (acts < MaxActs /\ acts' = acts + 1) => CountFits'
         /\ UNCHANGED <<forced, stale, unmarked>> => HistoryFits'
         /\ UNCHANGED <<forced, unmarked>> /\ stale' \in BOOLEAN => HistoryFits'
<1>1. UNCHANGED world => WorldFits'
  BY DEF TInv, WorldFits, world
<1>2. UNCHANGED <<phase, lab>> => LabelsFit'
  BY DEF TInv, LabelsFit
<1>3. UNCHANGED acts \/ (acts < MaxActs /\ acts' = acts + 1) => CountFits'
  BY Bounds DEF TInv, CountFits
<1> QED BY <1>1, <1>2, <1>3 DEF TInv, SpendFits, TiesFit, JevFits, HistoryFits

LEMMA QueueFrame ==
  ASSUME TInv, UNCHANGED phase
  PROVE  /\ UNCHANGED <<luna, job, again>> => QueueFits'
         /\ WorkerFits(job', Started(phase)) /\ UNCHANGED <<luna, again>> => QueueFits'
         /\ WorkerFits(again', Started(phase)) /\ UNCHANGED <<luna, job>> => QueueFits'
         /\ (\A j \in luna' : j \subseteq Started(phase)) /\ WorkerFits(job', Started(phase)) /\ UNCHANGED again => QueueFits'
  BY DEF TInv, QueueFits

LEMMA ReadFits == ASSUME TInv, ReadSpend PROVE SpendFits'
  BY DEF TInv, WorldFits, ReadSpend, SpendFits, Flags

\* Luna's readiness, as the bound counts it.
LEMMA ReadyFits ==
  ASSUME TInv, NEW llm \in LunaReady, acts' = acts + Down(llm)
  PROVE  CountFits' /\ llm \in BOOLEAN
<1>1. llm \in BOOLEAN /\ (~llm => acts < MaxActs)
  BY DEF LunaReady
<1>2. acts \in Nat /\ acts <= MaxActs
  BY Bounds DEF TInv, CountFits
<1>3. CASE llm
  BY <1>1, <1>2, <1>3, Bounds DEF CountFits, Down
<1>4. CASE ~llm
  BY <1>1, <1>2, <1>4, Bounds DEF CountFits, Down
<1> QED BY <1>1, <1>3, <1>4

LEMMA SpendsFits ==
  ASSUME TInv, NEW got, acts + Spends(got) <= MaxActs, acts' = acts + Spends(got)
  PROVE  CountFits'
  BY Bounds DEF TInv, CountFits, Spends

Synced(l, ts) == \A t \in Turn : l[t].source # "none" => ts[t] = Root(l, t)

LabelsOf(l) == /\ l = [t \in Turn |-> l[t]] /\ \A t \in Turn : LabelFits(l[t], t)
               /\ \A t \in Turn : l[t].source # "none" => t \in Started(phase)

\* The rollup counts every labelled turn under the task its label leads to.
LEMMA RollupTies ==
  ASSUME NEW l, LabelsOf(l), NEW rows \in Flags, Rollup(l, rows)
  PROVE  TiesFit' /\ stale' = FALSE /\ Synced(l, task')
<1>1. l \in [Turn -> Label] /\ \A t \in Turn : l[t].parent # t
  BY DEF LabelsOf, LabelFits
<1>2. \A t \in Turn : Root(l, t) \in Turn
  BY <1>1, RootIs
<1>3. \A t \in Turn : t \in 0..MaxTurn
  BY Bounds
<1>4. task' = [t \in Turn |-> IF t \in Started(phase) THEN Root(l, t) ELSE 0] /\ own' = rows /\ stale' = FALSE
  BY DEF Rollup
<1>5. task' \in [Turn -> 0..MaxTurn]
  BY <1>2, <1>3, <1>4, Bounds
<1> QED BY <1>4, <1>5 DEF TiesFit, Synced, LabelsOf

LEMMA RollupOwn ==
  ASSUME TInv, NEW rows \in Flags, Rollup(lab, rows)
  PROVE  TiesFit' /\ stale' = FALSE /\ Synced(lab, task')
<1>1. LabelsOf(lab)
  BY DEF TInv, LabelsFit, LabelsOf
<1> QED BY <1>1, RollupTies

LEMMA WorldStepFits ==
  ASSUME TInv, NEW t \in Turn, Starts(t) \/ Bills(t) \/ Ends(t) \/ Settles(t) PROVE TInv'
<1> USE DEF row
<1>0. phase \in Phases /\ settled \subseteq Started(phase) /\ billed \in Flags /\ unread \in Flags /\ stored \in Flags
  BY DEF TInv, WorldFits, SpendFits
<1>1. UNCHANGED <<stored, row, luna, job, again, acts, forced, stale, unmarked>>
  BY DEF Starts, Bills, Ends, Settles
<1>2. unread' = unread \/ unread' = [unread EXCEPT ![t] = TRUE]
  BY DEF Starts, Bills, Ends, Settles
<1>3. SpendFits'
  BY <1>0, <1>1, <1>2 DEF SpendFits, Flags
<1>4. WorldFits' /\ Started(phase) \subseteq Started(phase')
  <2>1. CASE Starts(t) \/ Ends(t)
    <3>1. \E new \in {"running", "ended"} : phase' = [phase EXCEPT ![t] = new] /\ UNCHANGED <<settled, billed>>
      BY <2>1 DEF Starts, Ends
    <3>2. phase' \in Phases /\ Started(phase) \subseteq Started(phase')
      BY <1>0, <3>1 DEF Phases, Started
    <3> QED BY <1>0, <3>1, <3>2 DEF WorldFits
  <2>2. CASE Bills(t)
    BY <1>0, <2>2 DEF Bills, WorldFits, Flags
  <2>3. CASE Settles(t)
    BY <1>0, <2>3 DEF Settles, WorldFits, Started
  <2> QED BY <2>1, <2>2, <2>3
<1>5. LabelsFit'
  BY <1>1, <1>4 DEF TInv, LabelsFit
<1>6. QueueFits'
  BY <1>1, <1>4 DEF TInv, QueueFits, WorkerFits
<1> QED BY <1>1, <1>3, <1>4, <1>5, <1>6, Frame DEF TInv

\* Steps of the queue that start a job or take its snapshot.
LEMMA StartFits ==
  ASSUME TInv, StartLabel \/ StartPass \/ StartLuna \/ AskFirst \/ PassAsk PROVE TInv'
<1> USE DEF world, row
<1>0. /\ LabelsFit /\ JevFits /\ stored \in Flags /\ WorkerFits(job, Started(phase))
      /\ {} \in SUBSET Started(phase) /\ NoSnap \in Snapshot
      /\ {"catch_up", "first", "answer", "ask"} \subseteq Steps
  BY NoSnapFits DEF TInv, SpendFits, QueueFits, Steps
<1>1. CASE StartLabel
  <2> DEFINE new == {t \in Turn : IsNew(t)}
  <2>1. new \in SUBSET Started(phase)
    BY DEF IsNew, Started
  <2>2. /\ job' = IF new = {} THEN At("catch_up", "label", {}, {}, NoSnap)
                  ELSE IF \E t \in new : phase[t] = "ended" THEN At("first", "label", new, {}, NoSnap)
                  ELSE At("answer", "label", new, {}, Snap(new, FALSE, FALSE))
        /\ UNCHANGED <<world, stored, unread, row, luna, again, acts, forced, stale, unmarked>>
    BY <1>1 DEF StartLabel
  <2> HIDE DEF new
  <2>3. Snap(new, FALSE, FALSE) \in Snapshot
    BY <1>0, SnapFits
  <2>4. WorkerFits(job', Started(phase))
    BY <1>0, <2>1, <2>2, <2>3, AtFits
  <2> QED BY <2>2, <2>4, Frame, QueueFrame DEF TInv
<1>2. CASE StartPass
  <2>1. /\ Rollup(lab, stored) /\ job' = At("ask", "pass", {}, {}, NoSnap)
        /\ UNCHANGED <<world, stored, unread, lab, open, jev, luna, again, acts, forced, unmarked>>
    BY <1>2 DEF StartPass
  <2>2. TiesFit' /\ stale' \in BOOLEAN
    BY <1>0, <2>1, RollupOwn
  <2>3. WorkerFits(job', Started(phase))
    BY <1>0, <2>1, AtFits
  <2> QED BY <2>1, <2>2, <2>3, Frame, QueueFrame DEF TInv
<1>3. CASE StartLuna
  <2>1. PICK j \in luna, llm \in LunaReady :
           /\ luna' = luna \ {j} /\ acts' = acts + Down(llm)
           /\ LET todo == {t \in j : lab[t].source \in {"none", "jev"}}
              IN  job' = IF todo = {} THEN Idle ELSE At("answer", "luna", todo, {}, Snap(todo, FALSE, llm))
    BY <1>3 DEF StartLuna
  <2>2. UNCHANGED <<world, stored, unread, row, again, forced, stale, unmarked>>
    BY <1>3 DEF StartLuna
  <2> DEFINE todo == {t \in j : lab[t].source \in {"none", "jev"}}
  <2>3. todo \in SUBSET Started(phase) /\ \A i \in luna' : i \subseteq Started(phase)
    BY <2>1 DEF TInv, QueueFits
  <2>4. job' = Idle \/ job' = At("answer", "luna", todo, {}, Snap(todo, FALSE, llm))
    BY <2>1
  <2> HIDE DEF todo
  <2>5. CountFits' /\ llm \in BOOLEAN
    BY <2>1, ReadyFits
  <2>6. Snap(todo, FALSE, llm) \in Snapshot
    BY <1>0, <2>5, SnapFits
  <2>7. WorkerFits(job', Started(phase))
    BY <1>0, <2>3, <2>4, <2>6, AtFits, IdleFits
  <2> QED BY <2>2, <2>3, <2>5, <2>7, Frame, QueueFrame DEF TInv
<1>4. CASE AskFirst
  <2>1. /\ job' = [job EXCEPT !.pc = "answer", !.snap = Snap(job.turns, FALSE, FALSE)]
        /\ UNCHANGED <<world, stored, unread, row, luna, again, acts, forced, stale, unmarked>>
    BY <1>4 DEF AskFirst
  <2>2. Snap(job.turns, FALSE, FALSE) \in Snapshot
    BY <1>0, SnapFits
  <2>3. WorkerFits(job', Started(phase))
    BY <1>0, <2>1, <2>2, GoesOnFits
  <2> QED BY <2>1, <2>3, Frame, QueueFrame DEF TInv
<1>5. CASE PassAsk
  <2> DEFINE todo == {t \in Turn : /\ lab[t].source = "none"
                                   /\ phase[t] = "ended" \/ t \in settled
                                   /\ LinesRead(t)}
             untitled == {t \in Turn : lab[t].intent = "task" /\ ~lab[t].titled
                                         /\ lab[t].source # "none"}
  <2>1. PICK llm \in LunaReady :
           /\ job' = IF todo \cup untitled = {} THEN Idle
                     ELSE At("answer", "pass", todo, IF llm THEN untitled \ todo ELSE {}, Snap(todo, FALSE, llm))
           /\ acts' = acts + Down(llm)
    BY <1>5 DEF PassAsk
  <2>2. UNCHANGED <<world, stored, unread, row, luna, again, forced, stale, unmarked>>
    BY <1>5 DEF PassAsk
  <2>3. todo \in SUBSET Started(phase)
    BY DEF TInv, WorldFits, Started
  <2>4. untitled \in SUBSET Started(phase)
    BY DEF TInv, LabelsFit
  <2> HIDE DEF todo, untitled
  <2>5. CountFits' /\ llm \in BOOLEAN
    BY <2>1, ReadyFits
  <2>6. Snap(todo, FALSE, llm) \in Snapshot
    BY <1>0, <2>5, SnapFits
  <2>7. (IF llm THEN untitled \ todo ELSE {}) \in SUBSET Started(phase)
    BY <2>4
  <2>8. WorkerFits(At("answer", "pass", todo, IF llm THEN untitled \ todo ELSE {}, Snap(todo, FALSE, llm)), Started(phase))
    BY <1>0, <2>3, <2>6, <2>7, AtFits
  <2>9. WorkerFits(job', Started(phase))
    BY <2>1, <2>8, IdleFits
  <2> QED BY <2>2, <2>5, <2>9, Frame, QueueFrame DEF TInv
<1> QED BY <1>1, <1>2, <1>3, <1>4, <1>5

\* Steps of a job that write no label.
LEMMA JobStepFits ==
  ASSUME TInv, SpendScan \/ CatchUp \/ JobMarks \/ JobFails \/ JobRollup PROVE TInv'
<1> USE DEF world, row
<1>0. billed \in Flags /\ stored \in Flags /\ WorkerFits(job, Started(phase)) /\ {"ask", "check", "catch_up"} \subseteq Steps
  BY DEF TInv, WorldFits, SpendFits, QueueFits, Steps
<1>1. CASE SpendScan
  BY <1>1, ReadFits, Frame, QueueFrame DEF SpendScan, TInv
<1>2. CASE CatchUp
  <2>1. /\ ReadSpend /\ Rollup(lab, billed)
        /\ \E pc \in {"ask", "check"} : job' = [job EXCEPT !.pc = pc]
        /\ UNCHANGED <<world, lab, open, jev, luna, again, acts, forced, unmarked>>
    BY <1>2 DEF CatchUp
  <2>2. TiesFit' /\ stale' \in BOOLEAN
    BY <1>0, <2>1, RollupOwn
  <2>3. WorkerFits(job', Started(phase))
    <3>1. PICK pc \in {"ask", "check"} : job' = [job EXCEPT !.pc = pc]
      BY <2>1
    <3>2. WorkerFits([job EXCEPT !.pc = pc], Started(phase))
      BY <1>0, NoSnapFits, GoesOnFits
    <3> QED BY <3>1, <3>2
  <2> QED BY <2>1, <2>2, <2>3, ReadFits, Frame, QueueFrame DEF TInv
<1>3. CASE JobFails
  <2>1. WorkerFits(job', Started(phase))
    BY <1>3, IdleFits DEF JobFails
  <2> QED BY <1>3, <2>1, Frame, QueueFrame DEF JobFails, TInv
<1>4. CASE JobRollup
  <2>1. Rollup(lab, stored) /\ job' = Idle /\ UNCHANGED <<world, stored, unread, lab, open, jev, luna, again, acts, forced, unmarked>>
    BY <1>4 DEF JobRollup
  <2>2. TiesFit' /\ stale' \in BOOLEAN
    BY <1>0, <2>1, RollupOwn
  <2>3. WorkerFits(job', Started(phase))
    BY <2>1, IdleFits
  <2> QED BY <2>1, <2>2, <2>3, Frame, QueueFrame DEF TInv
<1>5. CASE JobMarks
  <2>1. /\ open' = [t \in Turn |-> open[t] \/ t \in Marked] /\ job' = [job EXCEPT !.pc = "catch_up"]
        /\ unmarked' = unmarked \ job.turns
        /\ UNCHANGED <<world, stored, unread, own, lab, jev, task, luna, again, acts, forced, stale>>
    BY <1>5 DEF JobMarks
  <2>2. WorkerFits(job', Started(phase))
    BY <1>0, <2>1, NoSnapFits, GoesOnFits
  <2>3. open' \in Flags
    BY <2>1 DEF TInv, Flags
  <2>4. HistoryFits'
    BY <2>1 DEF TInv, HistoryFits
  <2> QED BY <2>1, <2>2, <2>3, <2>4, Frame, QueueFrame DEF TInv
<1> QED BY <1>1, <1>2, <1>3, <1>4, <1>5

LEMMA JobAnswerFits == ASSUME TInv, JobAnswer PROVE TInv'
<1> USE DEF world
<1>0. /\ LabelsFit /\ JevFits /\ WorkerFits(job, Started(phase)) /\ NoSnap \in Snapshot
      /\ {"mark", "rollup"} \subseteq Steps /\ {} \in SUBSET Started(phase)
  BY NoSnapFits DEF TInv, QueueFits, Steps
<1>1. PICK got \in Answers(job), titled \in [job.titles -> BOOLEAN] :
         /\ Given(job, got) /\ acts + Spends(got) <= MaxActs /\ acts' = acts + Spends(got)
         /\ ApplyLabels(WithParents(job.snap, got), titled, FALSE)
  BY DEF JobAnswer
<1>2. /\ job' = IF job.kind = "label" THEN [job EXCEPT !.pc = "mark", !.snap = NoSnap]
                ELSE At("rollup", job.kind, {}, {}, NoSnap)
      /\ unmarked' = unmarked \cup {t \in job.turns : job.kind = "label" /\ lab'[t].source # "none"}
      /\ UNCHANGED <<world, stored, unread, own, open, task, luna, again, forced, stale>>
  BY DEF JobAnswer
<1>3. WorkerFits(job', Started(phase))
  BY <1>0, <1>2, GoesOnFits, AtFits
<1>4. /\ DOMAIN WithParents(job.snap, got) = job.turns
      /\ \A t \in job.turns : GotFits(WithParents(job.snap, got)[t], t)
  <2>1. job.snap \in Snapshot /\ job.turns \subseteq Turn
    BY <1>0, StartedAre DEF WorkerFits
  <2> QED BY <1>1, <2>1, AnswersFit
<1>5. LabelsFit' /\ JevFits'
  <2>1. job.turns \subseteq Started(phase) /\ job.titles \subseteq Started(phase) /\ UNCHANGED phase
    BY <1>0, <1>2 DEF WorkerFits
  <2>2. DOMAIN titled = job.titles /\ \A t \in job.titles : titled[t] \in BOOLEAN
    OBVIOUS
  <2> QED BY <1>0, <1>1, <1>4, <2>1, <2>2, ApplyFits
<1>6. HistoryFits'
  <2>1. job.turns \subseteq Turn
    BY <1>0, StartedAre DEF WorkerFits
  <2>2. unmarked' \subseteq Turn
    BY <1>2, <2>1 DEF TInv, HistoryFits
  <2> QED BY <1>2, <2>2 DEF TInv, HistoryFits
<1>7. CountFits'
  BY <1>1, SpendsFits
<1> QED BY <1>2, <1>3, <1>5, <1>6, <1>7, Frame, QueueFrame DEF TInv

LEMMA CheckFits == ASSUME TInv, CheckEnded PROVE TInv'
<1> USE DEF world
<1> DEFINE empty == {t \in ToCheck : ~own[t] /\ lab[t].source # "human"}
           checked == [Unlabelled EXCEPT !.source = "rule", !.intent = "no_work"]
           next == [t \in Turn |-> IF t \in empty THEN checked ELSE lab[t]]
<1>1. /\ lab' = next /\ job' = Idle /\ RollupMoved(empty, next)
      /\ jev' = [t \in Turn |-> IF t \in empty THEN "none" ELSE jev[t]]
      /\ open' = [t \in Turn |-> open[t] /\ t \notin ToCheck]
      /\ \E ask \in SUBSET job.turns : luna' = luna \cup (IF ask = {} THEN {} ELSE {ask})
      /\ UNCHANGED <<world, stored, unread, again, acts, forced, unmarked>>
  BY DEF CheckEnded
<1>2. empty \subseteq Started(phase)
  BY DEF ToCheck, Started
<1>3. \A t \in Turn : LabelFits(Unlabelled, t)
  BY Bounds DEF Unlabelled, LabelFits, Label, Sources
<1>4. \A t \in Turn : LabelFits(checked, t)
  BY <1>3 DEF LabelFits, Label, Sources, Intents
<1> HIDE DEF empty, checked
<1>5. LabelsOf(next)
  BY <1>2, <1>4 DEF LabelsOf, TInv, LabelsFit
<1> HIDE DEF next
<1>6. LabelsFit'
  BY <1>1, <1>5 DEF LabelsOf, LabelsFit
<1>7. JevFits' /\ open' \in Flags
  BY <1>1 DEF TInv, JevFits, JevSaid, Flags
<1>8. TiesFit' /\ HistoryFits'
  <2>1. CASE empty # {}
    <3>1. Rollup(next, stored) /\ stored \in Flags
      BY <1>1, <2>1 DEF RollupMoved, TInv, SpendFits
    <3>2. TiesFit' /\ stale' = FALSE
      BY <1>5, <3>1, RollupTies
    <3> QED BY <1>1, <3>2, Frame
  <2>2. CASE empty = {}
    BY <1>1, <2>2, Frame DEF RollupMoved
  <2> QED BY <2>1, <2>2
<1>9. QueueFits'
  <2>1. \A j \in luna' : j \in luna \/ j \subseteq job.turns
    BY <1>1
  <2>2. \A j \in luna' : j \subseteq Started(phase)
    BY <2>1 DEF TInv, QueueFits, WorkerFits
  <2>3. WorkerFits(job', Started(phase))
    BY <1>1, IdleFits
  <2> QED BY <1>1, <2>2, <2>3, QueueFrame
<1> QED BY <1>1, <1>6, <1>7, <1>8, <1>9, Frame DEF TInv

\* A person's label, of one turn.
LEMMA PersonFits ==
  ASSUME TInv, NEW t \in Turn, (\E i \in PersonTypes : PersonLabels(t, i)) \/ (\E p \in Turn : PersonMoves(t, p))
  PROVE  TInv' /\ ~stale' /\ Synced(lab', task')
<1> USE DEF world
<1>1. /\ acts < MaxActs /\ acts' = acts + 1 /\ Rollup(lab', stored) /\ t \in Started(phase)
      /\ UNCHANGED <<world, stored, unread, open, jev, luna, job, again, forced, unmarked>>
  BY DEF PersonLabels, PersonMoves, Started
<1>2. \E l : LabelFits(l, t) /\ lab' = [lab EXCEPT ![t] = l]
  <2>0. LabelFits(lab[t], t)
    BY DEF TInv, LabelsFit
  <2>1. ASSUME NEW i \in PersonTypes, PersonLabels(t, i) PROVE \E l : LabelFits(l, t) /\ lab' = [lab EXCEPT ![t] = l]
    <3> DEFINE parent == IF i \notin Continues THEN 0
                         ELSE IF lab[t].parent # 0 THEN lab[t].parent
                         ELSE DefaultParent(t, [u \in Turn |-> lab[u].intent])
               l == [lab[t] EXCEPT !.source = "human", !.intent = i, !.parent = parent]
    <3>1. lab' = [lab EXCEPT ![t] = l]
      BY <2>1 DEF PersonLabels
    <3>2. parent \in 0..MaxTurn /\ parent # t
      <4>1. 0 \in 0..MaxTurn /\ 0 # t /\ lab[t].parent \in 0..MaxTurn /\ lab[t].parent # t
        BY <2>0, Bounds DEF LabelFits, Label
      <4> QED BY <4>1, DefaultIsEarlier
    <3>3. i \in Intents
      BY LabelAssumption DEF Intents
    <3> HIDE DEF parent
    <3>4. LabelFits(l, t)
      BY <2>0, <3>2, <3>3 DEF LabelFits, Label, Sources
    <3> HIDE DEF l
    <3> QED BY <3>1, <3>4
  <2>2. ASSUME NEW p \in Turn, PersonMoves(t, p) PROVE \E l : LabelFits(l, t) /\ lab' = [lab EXCEPT ![t] = l]
    <3> DEFINE l == [lab[t] EXCEPT !.source = "human", !.parent = p]
    <3>1. lab' = [lab EXCEPT ![t] = l] /\ t # p
      BY <2>2 DEF PersonMoves
    <3>2. p \in 0..MaxTurn
      BY Bounds
    <3>3. LabelFits(l, t)
      BY <2>0, <3>1, <3>2 DEF LabelFits, Label, Sources
    <3> HIDE DEF l
    <3> QED BY <3>1, <3>3
  <2> QED BY <2>1, <2>2
<1>3. LabelsOf(lab')
  BY <1>1, <1>2 DEF LabelsOf, TInv, LabelsFit
<1>4. LabelsFit'
  BY <1>1, <1>3 DEF LabelsOf, LabelsFit
<1>5. TiesFit' /\ stale' = FALSE /\ Synced(lab', task')
  BY <1>1, <1>3, RollupTies DEF TInv, SpendFits
<1> QED BY <1>1, <1>4, <1>5, Frame, QueueFrame DEF TInv

LEMMA AgainFits ==
  ASSUME TInv, (\E t \in Turn : StartAgain(t)) \/ AskAgain \/ AgainAnswer \/ AgainEnds
  PROVE  TInv'
<1> USE DEF world, row
<1>0. /\ LabelsFit /\ JevFits /\ WorkerFits(again, Started(phase)) /\ NoSnap \in Snapshot
      /\ {"ask", "answer", "rollup"} \subseteq Steps /\ billed \in Flags /\ stored \in Flags /\ open \in Flags
      /\ {} \in SUBSET Started(phase)
  BY NoSnapFits DEF TInv, WorldFits, SpendFits, QueueFits, Steps
<1>1. ASSUME NEW t \in Turn, StartAgain(t) PROVE TInv'
  <2>1. /\ acts < MaxActs /\ acts' = acts + 1 /\ ReadSpend /\ Rollup(lab, billed) /\ {t} \in SUBSET Started(phase)
        /\ again' = At("ask", "again", {t}, {}, NoSnap)
        /\ UNCHANGED <<world, lab, open, jev, luna, job, forced, unmarked>>
    BY <1>1 DEF StartAgain, Started
  <2>2. TiesFit' /\ stale' \in BOOLEAN
    BY <1>0, <2>1, RollupOwn
  <2>3. WorkerFits(again', Started(phase))
    BY <1>0, <2>1, AtFits
  <2> QED BY <2>1, <2>2, <2>3, ReadFits, Frame, QueueFrame DEF TInv
<1>2. CASE AskAgain
  <2>1. PICK llm \in LunaReady :
          again' = [again EXCEPT !.pc = "answer", !.snap = Snap(again.turns, TRUE, llm)] /\ acts' = acts + Down(llm)
    BY <1>2 DEF AskAgain
  <2>2. UNCHANGED <<world, stored, unread, row, luna, job, forced, stale, unmarked>>
    BY <1>2 DEF AskAgain
  <2>3. CountFits' /\ llm \in BOOLEAN
    BY <2>1, ReadyFits
  <2>4. Snap(again.turns, TRUE, llm) \in Snapshot
    BY <1>0, <2>3, SnapFits
  <2>5. WorkerFits(again', Started(phase))
    BY <1>0, <2>1, <2>4, GoesOnFits
  <2> QED BY <2>2, <2>3, <2>5, Frame, QueueFrame DEF TInv
<1>3. CASE AgainAnswer
  <2>1. PICK got \in Answers(again), none \in [{} -> BOOLEAN] :
           /\ Given(again, got) /\ acts + Spends(got) <= MaxActs /\ acts' = acts + Spends(got)
           /\ ApplyLabels(WithParents(again.snap, got), none, TRUE)
    BY <1>3 DEF AgainAnswer
  <2>2. /\ again' = [again EXCEPT !.pc = "rollup", !.snap = NoSnap] /\ forced' = forced \cup again.turns
        /\ UNCHANGED <<world, stored, unread, own, open, task, luna, job, stale, unmarked>>
    BY <1>3 DEF AgainAnswer
  <2>3. WorkerFits(again', Started(phase))
    BY <1>0, <2>2, GoesOnFits
  <2>4. again.snap \in Snapshot /\ again.turns \subseteq Started(phase) /\ again.turns \subseteq Turn
    BY <1>0, StartedAre DEF WorkerFits
  <2>5. /\ DOMAIN WithParents(again.snap, got) = again.turns
        /\ \A t \in again.turns : GotFits(WithParents(again.snap, got)[t], t)
    BY <2>1, <2>4, AnswersFit
  <2>6. DOMAIN none = {} /\ UNCHANGED phase
    BY <2>2
  <2>7. LabelsFit' /\ JevFits'
    BY <1>0, <2>1, <2>4, <2>5, <2>6, ApplyFits
  <2>8. HistoryFits'
    BY <2>2, <2>4 DEF TInv, HistoryFits
  <2>9. CountFits'
    BY <2>1, SpendsFits
  <2> QED BY <2>2, <2>3, <2>7, <2>8, <2>9, Frame, QueueFrame DEF TInv
<1>4. CASE AgainEnds
  <2>1. /\ Rollup(lab, stored) /\ again' = Idle
        /\ open' = [t \in Turn |-> open[t] \/ (t \in again.turns /\ phase[t] # "ended")]
        /\ UNCHANGED <<world, stored, unread, lab, jev, luna, job, acts, forced, unmarked>>
    BY <1>4 DEF AgainEnds
  <2>2. TiesFit' /\ stale' \in BOOLEAN
    BY <1>0, <2>1, RollupOwn
  <2>3. WorkerFits(again', Started(phase))
    BY <2>1, IdleFits
  <2>4. open' \in Flags
    BY <1>0, <2>1 DEF Flags
  <2> QED BY <2>1, <2>2, <2>3, <2>4, Frame, QueueFrame DEF TInv
<1> QED BY <1>1, <1>2, <1>3, <1>4

LEMMA NextTInv == TInv /\ [Next]_vars => TInv'
<1> SUFFICES ASSUME TInv, [Next]_vars PROVE TInv'
  OBVIOUS
<1>1. CASE UNCHANGED vars
  BY <1>1, Frame, QueueFrame DEF vars, world, TInv
<1> QED BY <1>1, WorldStepFits, StartFits, JobStepFits, JobAnswerFits, CheckFits, PersonFits, AgainFits DEF Next

LEMMA InitTInv == Init => TInv
<1> SUFFICES ASSUME Init PROVE TInv
  OBVIOUS
<1>1. WorldFits /\ SpendFits
  BY DEF Init, WorldFits, SpendFits, Phases, Flags, Started
<1>2. TiesFit /\ JevFits /\ open \in Flags
  BY Bounds DEF Init, TiesFit, JevFits, JevSaid, Flags
<1>3. LabelsFit
  <2>1. \A t \in Turn : LabelFits(Unlabelled, t) /\ Unlabelled.source = "none"
    BY Bounds DEF Unlabelled, LabelFits, Label, Sources
  <2>2. lab = [t \in Turn |-> Unlabelled]
    BY DEF Init
  <2> QED BY <2>1, <2>2 DEF LabelsFit
<1>4. QueueFits
  BY IdleFits DEF Init, QueueFits
<1>5. CountFits /\ HistoryFits
  <2>1. acts = 0 /\ forced = {} /\ unmarked = {} /\ stale = FALSE
    BY DEF Init
  <2>2. CountFits
    BY <2>1, Bounds DEF CountFits
  <2>3. HistoryFits
    BY <2>1, Zenon DEF HistoryFits
  <2> QED BY <2>2, <2>3
<1> QED BY <1>1, <1>2, <1>3, <1>4, <1>5 DEF TInv

\* For any turns, engines and bound: the variables keep their types; no turn is
\* its own parent, and the workers' turns are turns of the session.
THEOREM TypeCorrect == Spec => []TypeOK
<1>1. TInv => TypeOK
  <2> SUFFICES ASSUME TInv PROVE TypeOK
    OBVIOUS
  <2>1. lab \in [Turn -> Label] /\ \A t \in Turn : lab[t].parent # t
    BY DEF TInv, LabelsFit, LabelFits
  <2>2. luna \subseteq SUBSET Turn
    BY StartedAre DEF TInv, QueueFits
  <2>3. \A w \in {job, again} : w.pc \in Steps /\ w.turns \cup w.titles \subseteq Turn /\ w.snap \in Snapshot
    BY StartedAre DEF TInv, QueueFits, WorkerFits
  <2>4. settled \subseteq Turn
    BY StartedAre DEF TInv, WorldFits
  <2> QED BY <2>1, <2>2, <2>3, <2>4
          DEF TypeOK, TInv, WorldFits, SpendFits, TiesFit, JevFits, JevSaid, CountFits, HistoryFits, Phases, Flags
<1> QED BY <1>1, InitTInv, NextTInv, PTL DEF Spec

----
(***************************************************************************)
(* Tasks.  Between a pass's labels and its rollup the tasks lag behind.    *)
(***************************************************************************)
InSync == job.pc \notin {"mark", "catch_up", "rollup"} /\ again.pc # "rollup" /\ ~stale => Synced(lab, task)

LEMMA NextInSync == TInv /\ InSync /\ [Next]_vars => InSync'
<1> SUFFICES ASSUME TInv, InSync, [Next]_vars PROVE InSync'
  OBVIOUS
<1> USE DEF row
<1>0. /\ billed \in Flags /\ stored \in Flags
      /\ job = At(job.pc, job.kind, job.turns, job.titles, job.snap)
      /\ again = At(again.pc, again.kind, again.turns, again.titles, again.snap)
  BY DEF TInv, WorldFits, SpendFits, QueueFits, WorkerFits
<1>a. ASSUME UNCHANGED <<lab, task>>, stale => stale',
             job.pc \in {"mark", "catch_up", "rollup"} => job'.pc \in {"mark", "catch_up", "rollup"} \/ stale',
             again.pc = "rollup" => again'.pc = "rollup"
      PROVE  InSync'
  BY <1>a DEF InSync, Synced
<1>b. ASSUME UNCHANGED lab, NEW rows \in Flags, Rollup(lab, rows) PROVE InSync'
  <2>1. Synced(lab, task')
    BY <1>b, RollupOwn
  <2> QED BY <1>b, <2>1 DEF InSync, Synced
<1>1. ASSUME NEW t \in Turn, Starts(t) \/ Bills(t) \/ Ends(t) \/ Settles(t) PROVE InSync'
  BY <1>1, <1>a DEF Starts, Bills, Ends, Settles
<1>2. CASE SpendScan \/ StartLabel \/ StartLuna \/ AskFirst \/ PassAsk
  <2>1. UNCHANGED <<lab, task, stale, again>> /\ job.pc \notin {"mark", "catch_up", "rollup"}
    BY <1>2 DEF SpendScan, StartLabel, StartLuna, AskFirst, PassAsk
  <2> QED BY <2>1, <1>a
<1>3. CASE StartPass \/ JobRollup
  BY <1>0, <1>3, <1>b DEF StartPass, JobRollup
<1>4. CASE CatchUp
  BY <1>0, <1>4, <1>b DEF CatchUp
<1>5. CASE JobAnswer
  <2>1. \/ job' = [job EXCEPT !.pc = "mark", !.snap = NoSnap]
        \/ job' = At("rollup", job.kind, {}, {}, NoSnap)
    BY <1>5 DEF JobAnswer
  <2>2. [job EXCEPT !.pc = "mark", !.snap = NoSnap].pc = "mark" /\ At("rollup", job.kind, {}, {}, NoSnap).pc = "rollup"
    BY <1>0 DEF At
  <2>3. job'.pc \in {"mark", "catch_up", "rollup"}
    BY <2>1, <2>2
  <2> QED BY <2>3 DEF InSync
<1>6. CASE JobFails
  BY <1>6, <1>a DEF JobFails
<1>14. CASE JobMarks
  <2>1. job' = [job EXCEPT !.pc = "catch_up"]
    BY <1>14 DEF JobMarks
  <2>2. job'.pc = "catch_up"
    BY <1>0, <2>1 DEF At
  <2> QED BY <2>2 DEF InSync
<1>7. CASE CheckEnded
  <2> DEFINE empty == {t \in ToCheck : ~own[t] /\ lab[t].source # "human"}
             next == [t \in Turn |-> IF t \in empty THEN [Unlabelled EXCEPT !.source = "rule", !.intent = "no_work"]
                                     ELSE lab[t]]
  <2>1. lab' = next /\ RollupMoved(empty, next) /\ UNCHANGED <<again, phase>> /\ job.pc = "check"
    BY <1>7 DEF CheckEnded, world
  <2>2. CASE empty = {}
    <3>1. lab' = lab
      BY <2>1, <2>2 DEF TInv, LabelsFit
    <3>2. UNCHANGED <<task, stale>>
      BY <2>1, <2>2 DEF RollupMoved
    <3> QED BY <2>1, <3>1, <3>2, <1>a
  <2>3. CASE empty # {}
    <3>1. Rollup(lab', stored)
      BY <2>1, <2>3 DEF RollupMoved
    <3>2. LabelsOf(lab')
      <4>1. LabelsFit'
        BY <1>7, CheckFits DEF TInv
      <4> QED BY <2>1, <4>1 DEF LabelsFit, LabelsOf
    <3>3. Synced(lab', task')
      BY <1>0, <3>1, <3>2, RollupTies
    <3> QED BY <3>3 DEF InSync, Synced
  <2> QED BY <2>2, <2>3
<1>8. ASSUME NEW t \in Turn, (\E i \in PersonTypes : PersonLabels(t, i)) \/ (\E p \in Turn : PersonMoves(t, p)) PROVE InSync'
  <2>1. Synced(lab', task')
    BY <1>8, PersonFits
  <2> QED BY <2>1 DEF InSync, Synced
<1>9. ASSUME NEW t \in Turn, StartAgain(t) PROVE InSync'
  BY <1>0, <1>9, <1>b DEF StartAgain
<1>10. CASE AskAgain
  BY <1>10, <1>a DEF AskAgain
<1>11. CASE AgainAnswer
  <2>1. again' = [again EXCEPT !.pc = "rollup", !.snap = NoSnap]
    BY <1>11 DEF AgainAnswer
  <2>2. again'.pc = "rollup"
    BY <1>0, <2>1 DEF At
  <2> QED BY <2>2 DEF InSync
<1>12. CASE AgainEnds
  BY <1>0, <1>12, <1>b DEF AgainEnds
<1>13. CASE UNCHANGED vars
  BY <1>13, <1>a DEF vars
<1> QED BY <1>1, <1>2, <1>3, <1>4, <1>5, <1>6, <1>7, <1>8, <1>9, <1>10, <1>11, <1>12, <1>13, <1>14 DEF Next

\* For any labels of any number of turns, in circles or not, and any interleaving:
\* whenever no job or request is under way and none raised, each labelled turn
\* counts under the task its label leads to, which is its own task and does work.
THEOREM TasksAreTheLabels == Spec => []TasksFollowLabels
<1>1. Init => InSync
  BY DEF Init, InSync, Synced, Unlabelled
<1>2. TInv /\ InSync => TasksFollowLabels
  <2> SUFFICES ASSUME TInv, InSync, job.pc = "idle", again.pc = "idle", ~stale,
                      NEW t \in Turn, lab[t].source # "none"
               PROVE  /\ task[t] = Root(lab, t)
                      /\ lab[task[t]].source # "none" => task[task[t]] = task[t]
                      /\ task[t] # t => Kind(lab[task[t]].intent) # "no_work"
    BY DEF TasksFollowLabels
  <2>1. Synced(lab, task)
    BY DEF InSync
  <2>2. lab \in [Turn -> Label] /\ \A u \in Turn : lab[u].parent # u
    BY DEF TInv, LabelsFit, LabelFits
  <2>3. task[t] = Root(lab, t)
    BY <2>1 DEF Synced
  <2>4. /\ Root(lab, t) \in Turn
        /\ Root(lab, t) # t => /\ Kind(lab[Root(lab, t)].intent) # "no_work"
                               /\ Root(lab, Root(lab, t)) = Root(lab, t)
    BY <2>2, RootIs
  <2>5. lab[task[t]].source # "none" => task[task[t]] = Root(lab, task[t])
    BY <2>1, <2>3, <2>4 DEF Synced
  <2> QED BY <2>3, <2>4, <2>5
<1> QED BY <1>1, <1>2, InitTInv, NextTInv, NextInSync, PTL DEF Spec
====
