----------------------------- MODULE AnswersProofs -----------------------------
(****************************************************************************)
(* Proofs about what answers, each for any value of its constants: the      *)
(* guided loop (RuntimeLoop), the run that calls its participants           *)
(* (ScriptedRuns), the filter of who may be in a scene (SceneFilter), what  *)
(* an actor is told (ActorContext), and what an author writes by name       *)
(* (ChangeDrafts).                                                          *)
(* That executions end is liveness, which TLC checks.                       *)
(****************************************************************************)
EXTENDS RuntimeLoop, ScriptedRuns, SceneFilter, ActorContext, ChangeDrafts, LoopLemmas

------------------------------------------------------------------------------
(* The guided loop: the inductive invariant, in parts. *)

Unlaunched == {"new", "planned", "launch"}
WithChild == {"poll", "wait", "terminate", "reap", "read"}
WithAnswer == {"check_file", "write", "submit"}
Resting == {"new", "idle", "dead"}
Places == Unlaunched \cup WithChild \cup WithAnswer \cup Resting
Reasons == {"none", "cancelled", "timeout", "malformed_json", "launch_failed"}
Deeds == {"started", "wrote", "ingested", "unmarked"}
LoopStatuses ==
  Reasons \cup
  {"no_runtime", "nonzero_exit", "output_too_large", "malformed_callback",
   "capability_mismatch", "completed", "callback_artifact_exists", "callback_write_failed",
   "ingest_failed", "submitted", "callback_rejected"}
Results ==
  [status : LoopStatuses, started : BOOLEAN, file : BOOLEAN, submission : BOOLEAN]
LoopStates ==
  [at : Places, plan : (1..Turns) \cup {NoPlan},
   answer : CallbackIds \cup {NoPlan}, why : Reasons]
Children ==
  [state : {"none", "running", "terminated", "exited"}, deaf : BOOLEAN,
   faults : {{}} \cup Outputs, id : CallbackIds \cup {NoPlan}]

LocalType ==
  /\ loop \in [Loops -> LoopStates] /\ child \in [Loops -> Children]
  /\ did \in [Loops -> SUBSET Deeds] /\ result \in [Loops -> Results]

\* Where an execution is tells what it has done; it has returned nothing before its end.
Progress(l, d, r, files) ==
  /\ l.at \in Unlaunched => d = {}
  /\ l.at \in WithChild \cup {"check_file", "write"} => d = {"started"}
  /\ l.at = "submit" => d = {"started", "wrote"} /\ <<l.plan, l.answer>> \in files
  /\ l.at # "idle" => r.status = "none"
  /\ l.at \notin Resting => l.plan \in 1..Turns
  /\ l.at \in WithAnswer => l.answer \in CallbackIds

\* The external program exists only while its execution polls, waits or stops it, and
\* output that is read was printed by it.
Watched(l, c) ==
  /\ c.state \in {"running", "terminated"} => l.at \in WithChild
  /\ c.state = "terminated" => l.at = "reap"
  /\ l.at = "read" => c.state = "exited"
  /\ c.state = "exited" => l.at \in WithChild /\ (l.at # "reap" => c.id \in CallbackIds)

\* What an execution returned is what it did, but for a marker that could not be written.
ResultTold(d, r, files) ==
  r.status # "none" =>
    /\ r.submission <=> "ingested" \in d /\ "unmarked" \notin d
    /\ "unmarked" \in d => r.status = "ingest_failed"
    /\ "wrote" \in d => r.file
    /\ r.file => files # {} /\ (r.status = "callback_artifact_exists" \/ "wrote" \in d)
    /\ r.started <=> "started" \in d

Fine(p) ==
  /\ Progress(loop[p], did[p], result[p], artifacts)
  /\ Watched(loop[p], child[p])
  /\ ResultTold(did[p], result[p], artifacts)

IInv == LoopTypeOK /\ LocalType /\ \A p \in Loops : Fine(p)

------------------------------------------------------------------------------
(* Lemmas about the steps of one execution *)

\* What all executions share keeps its type, and no artifact disappears.
Shared ==
  /\ run' \in [turn : 1..(Turns + 1), phase : Phases]
  /\ claimed' \subseteq artifacts'
  /\ artifacts \subseteq artifacts' /\ artifacts' \subseteq (1..Turns) \X CallbackIds
  /\ late' \cup token' \subseteq Loops

\* A step that leaves p fine, and moves nobody else, preserves the invariant.
LEMMA StepLemma ==
  ASSUME IInv, NEW p \in Loops,
         NEW l \in LoopStates, NEW c \in Children, NEW d \in SUBSET Deeds, NEW r \in Results,
         loop' = [loop EXCEPT ![p] = l], child' = [child EXCEPT ![p] = c],
         did' = [did EXCEPT ![p] = d], result' = [result EXCEPT ![p] = r],
         Shared,
         Progress(l, d, r, artifacts'), Watched(l, c), ResultTold(d, r, artifacts')
  PROVE  IInv'
<1>1. /\ LocalType'
      /\ loop'[p] = l /\ child'[p] = c /\ did'[p] = d /\ result'[p] = r
      /\ \A q \in Loops \ {p} :
           /\ loop'[q] = loop[q] /\ child'[q] = child[q]
           /\ did'[q] = did[q] /\ result'[q] = result[q]
  BY DEF IInv, LocalType
<1>2. ASSUME NEW q \in Loops \ {p}
      PROVE  Fine(q)'
  <2>1. Fine(q) /\ artifacts \subseteq artifacts'
    BY DEF IInv, Shared
  <2> QED
    BY <1>1, <2>1 DEF Fine, Progress, ResultTold
<1>3. Fine(p)'
  BY <1>1 DEF Fine
<1>4. \A q \in Loops : Fine(q)'
  BY <1>2, <1>3
<1>5. LoopTypeOK'
  BY <1>4 DEF LoopTypeOK, Shared, Fine, Progress, AtRest, Resting
<1> QED
  BY <1>1, <1>4, <1>5 DEF IInv

\* What the invariant says of one execution.
LEMMA Facts ==
  ASSUME IInv, NEW p \in Loops
  PROVE  /\ loop[p] \in LoopStates /\ child[p] \in Children
         /\ did[p] \in SUBSET Deeds /\ result[p] \in Results
         /\ loop = [loop EXCEPT ![p] = loop[p]] /\ child = [child EXCEPT ![p] = child[p]]
         /\ did = [did EXCEPT ![p] = did[p]] /\ result = [result EXCEPT ![p] = result[p]]
         /\ Progress(loop[p], did[p], result[p], artifacts)
         /\ Watched(loop[p], child[p])
         /\ ResultTold(did[p], result[p], artifacts)
BY DEF IInv, LocalType, Fine

\* And of what they share.
LEMMA SharedFacts ==
  ASSUME IInv
  PROVE  /\ run \in [turn : 1..(Turns + 1), phase : Phases]
         /\ claimed \subseteq artifacts /\ artifacts \subseteq (1..Turns) \X CallbackIds
         /\ late \cup token \subseteq Loops
BY DEF IInv, LoopTypeOK

\* An execution moves to a place that fits its program.
LEMMA MoveLemma ==
  ASSUME IInv, NEW p \in Loops, NEW l \in LoopStates, NEW c \in Children,
         loop' = [loop EXCEPT ![p] = l], child' = [child EXCEPT ![p] = c],
         UNCHANGED <<did, result>>, Shared,
         Progress(l, did[p], result[p], artifacts'), Watched(l, c)
  PROVE  IInv'
<1>1. ResultTold(did[p], result[p], artifacts')
  BY Facts DEF ResultTold, Shared
<1>2. did' = [did EXCEPT ![p] = did[p]] /\ result' = [result EXCEPT ![p] = result[p]]
  BY Facts
<1> QED
  BY <1>1, <1>2, Facts, StepLemma

------------------------------------------------------------------------------
(* Each action preserves the invariant. *)

LEMMA PlanInv ==
  ASSUME IInv, NEW p \in Loops, DispatchPlan(p)
  PROVE  IInv'
<1> DEFINE l == [loop[p] EXCEPT !.at = "planned", !.plan = run.turn]
<1>1. run.turn \in 1..Turns
  BY SharedFacts, TurnsAssumption DEF DispatchPlan, HasHook
<1>2. /\ l \in LoopStates /\ l.at = "planned" /\ l.plan = run.turn
      /\ loop[p].at = "new"
  BY <1>1, Facts DEF LoopStates, Places, Unlaunched, DispatchPlan, OnLoop
<1>3. loop' = [loop EXCEPT ![p] = l] /\ Shared
  BY SharedFacts DEF DispatchPlan, Shared
<1> HIDE DEF l
<1>4. child' = [child EXCEPT ![p] = child[p]] /\ UNCHANGED <<did, result, artifacts>>
  BY Facts DEF DispatchPlan
<1>5. Progress(l, did[p], result[p], artifacts') /\ Watched(l, child[p])
  BY <1>1, <1>2, <1>4, Facts
     DEF Progress, Watched, Unlaunched, WithChild, WithAnswer, Resting
<1> QED
  BY <1>2, <1>3, <1>4, <1>5, Facts, MoveLemma

\* The program is started, and watched from then on.
LEMMA LaunchInv ==
  ASSUME IInv, NEW p \in Loops, NEW deaf \in BOOLEAN, Launch(p, deaf)
  PROVE  IInv'
<1> DEFINE l == [loop[p] EXCEPT !.at = "poll"]
           c == [NoChild EXCEPT !.state = "running", !.deaf = deaf]
           d == did[p] \cup {"started"}
<1>1. /\ l \in LoopStates /\ l.at = "poll" /\ l.plan = loop[p].plan
      /\ loop[p].at = "launch"
  BY Facts DEF LoopStates, Places, WithChild, Launch, OnLoop
<1>2. c \in Children /\ c.state = "running"
  BY DEF NoChild, Children
<1>3. /\ loop' = [loop EXCEPT ![p] = l] /\ child' = [child EXCEPT ![p] = c]
      /\ did' = [did EXCEPT ![p] = d] /\ UNCHANGED artifacts /\ Shared
  BY SharedFacts DEF Launch, Step, Did, Shared
<1>4. result' = [result EXCEPT ![p] = result[p]]
  BY Facts DEF Launch
<1>5. d = {"started"}
  BY <1>1, Facts DEF Progress, Unlaunched
<1>6. d \in SUBSET Deeds
  BY <1>5 DEF Deeds
<1> HIDE DEF l, c, d
<1>7. /\ Progress(l, d, result[p], artifacts') /\ Watched(l, c)
      /\ ResultTold(d, result[p], artifacts')
  BY <1>1, <1>2, <1>3, <1>5, Facts
     DEF Progress, Watched, ResultTold, Unlaunched, WithChild, WithAnswer, Resting
<1> QED
  BY <1>1, <1>2, <1>3, <1>4, <1>6, <1>7, Facts, StepLemma

\* Polling, waiting and giving up leave program and result as they are.
LEMMA WatchInv ==
  ASSUME IInv, NEW p \in Loops,
         \/ Poll(p) \/ Wait(p)
         \/ \E why \in {"malformed_json", "launch_failed"} : WaitFails(p, why)
  PROVE  IInv'
<1>1. PICK place \in {"wait", "terminate", "read", "poll"}, why \in Reasons :
        /\ loop' = [loop EXCEPT ![p] = [loop[p] EXCEPT !.at = place, !.why = why]]
        /\ place = "read" => child[p].state = "exited"
  <2>1. loop[p] \in LoopStates
    BY Facts
  <2>2. CASE Poll(p)
    BY <2>1, <2>2 DEF Poll, Reasons
  <2>3. CASE Wait(p)
    <3>1. loop[p].why \in Reasons
      BY <2>1 DEF LoopStates
    <3>2. \A place \in {"read", "poll"} :
            [loop[p] EXCEPT !.at = place] = [loop[p] EXCEPT !.at = place, !.why = loop[p].why]
      BY <2>1 DEF LoopStates
    <3>3. PICK place \in {"read", "poll"} :
            /\ loop' = [loop EXCEPT ![p] = [loop[p] EXCEPT !.at = place]]
            /\ place = "read" => child[p].state = "exited"
      BY <2>3 DEF Wait, Step
    <3>4. loop' = [loop EXCEPT ![p] = [loop[p] EXCEPT !.at = place, !.why = loop[p].why]]
      BY <3>2, <3>3
    <3> QED
      BY <3>1, <3>3, <3>4
  <2>4. CASE \E why \in {"malformed_json", "launch_failed"} : WaitFails(p, why)
    <3>1. PICK why \in {"malformed_json", "launch_failed"} :
            loop' = [loop EXCEPT ![p] = [loop[p] EXCEPT !.at = "terminate", !.why = why]]
      BY <2>4 DEF WaitFails
    <3>2. why \in Reasons
      BY DEF Reasons
    <3> QED
      BY <3>1, <3>2
  <2> QED
    BY <2>2, <2>3, <2>4
<1> DEFINE l == [loop[p] EXCEPT !.at = place, !.why = why]
<1>2. /\ l \in LoopStates /\ l.at = place /\ l.plan = loop[p].plan
      /\ loop[p].at \in {"poll", "wait"}
  BY Facts DEF LoopStates, Places, WithChild, Poll, Wait, WaitFails, OnLoop
<1>3. loop' = [loop EXCEPT ![p] = l]
  BY <1>1
<1> HIDE DEF l
<1>4. /\ child' = [child EXCEPT ![p] = child[p]] /\ UNCHANGED <<did, result, artifacts>>
      /\ Shared
  BY Facts, SharedFacts DEF Poll, Wait, WaitFails, Forget, Shared
<1>5. Progress(l, did[p], result[p], artifacts') /\ Watched(l, child[p])
  BY <1>1, <1>2, <1>4, Facts
     DEF Progress, Watched, Unlaunched, WithChild, WithAnswer, Resting
<1> QED
  BY <1>2, <1>3, <1>4, <1>5, Facts, MoveLemma

\* SIGTERM, and what the program does in answer to it or by itself.
LEMMA ChildInv ==
  ASSUME IInv, NEW p \in Loops,
         \/ Terminate(p) \/ ChildHeeds(p)
         \/ \E faults \in Outputs, id \in CallbackIds : ChildExits(p, faults, id)
  PROVE  IInv'
<1>1. CASE Terminate(p)
  <2> DEFINE l == [loop[p] EXCEPT !.at = "reap"]
             c == [child[p] EXCEPT !.state = IF @ = "running" THEN "terminated" ELSE @]
  <2>1. /\ l \in LoopStates /\ l.at = "reap" /\ l.plan = loop[p].plan
        /\ loop[p].at = "terminate"
    BY <1>1, Facts DEF LoopStates, Places, WithChild, Terminate, OnLoop
  <2>2. c \in Children
    BY Facts DEF Children
  <2>3. /\ loop' = [loop EXCEPT ![p] = l] /\ child' = [child EXCEPT ![p] = c]
        /\ UNCHANGED <<did, result, artifacts>> /\ Shared
    BY <1>1, SharedFacts DEF Terminate, Step, Forget, Shared
  <2> HIDE DEF l, c
  <2>4. Progress(l, did[p], result[p], artifacts') /\ Watched(l, c)
    BY <2>1, <2>3, Facts
       DEF Progress, Watched, Unlaunched, WithChild, WithAnswer, Resting
  <2> QED
    BY <2>1, <2>2, <2>3, <2>4, MoveLemma
<1>2. CASE ChildHeeds(p) \/ \E faults \in Outputs, id \in CallbackIds : ChildExits(p, faults, id)
  <2>1. PICK c \in Children :
          /\ child' = [child EXCEPT ![p] = c] /\ c.state = "exited"
          /\ \/ child[p].state = "terminated"
             \/ child[p].state = "running" /\ c.id \in CallbackIds
    <3>1. child[p] \in Children
      BY Facts
    <3>2. CASE ChildHeeds(p)
      <4> DEFINE c == [child[p] EXCEPT !.state = "exited"]
      <4>1. c \in Children /\ c.state = "exited"
        BY <3>1 DEF Children
      <4>2. child' = [child EXCEPT ![p] = c] /\ child[p].state = "terminated"
        BY <3>2 DEF ChildHeeds
      <4> HIDE DEF c
      <4>3. \E x \in Children : child' = [child EXCEPT ![p] = x] /\ x.state = "exited"
        BY <4>1, <4>2
      <4> QED
        BY <4>2, <4>3
    <3>3. ASSUME NEW faults \in Outputs, NEW id \in CallbackIds, ChildExits(p, faults, id)
          PROVE  \E c \in Children :
                   /\ child' = [child EXCEPT ![p] = c] /\ c.state = "exited"
                   /\ child[p].state = "running" /\ c.id \in CallbackIds
      <4> DEFINE c == [child[p] EXCEPT !.state = "exited", !.faults = faults, !.id = id]
      <4>1. c \in Children /\ c.state = "exited" /\ c.id = id
        BY <3>1 DEF Children
      <4>2. child' = [child EXCEPT ![p] = c] /\ child[p].state = "running"
        BY <3>3 DEF ChildExits
      <4> QED
        BY <4>1, <4>2
    <3> QED
      BY <1>2, <3>2, <3>3
  <2>2. /\ loop' = [loop EXCEPT ![p] = loop[p]] /\ UNCHANGED <<did, result, artifacts>>
        /\ Shared
    BY <1>2, Facts, SharedFacts DEF ChildHeeds, ChildExits, Shared
  <2>3. Progress(loop[p], did[p], result[p], artifacts') /\ Watched(loop[p], c)
    BY <2>1, <2>2, Facts DEF Watched, WithChild
  <2> QED
    BY <2>1, <2>2, <2>3, Facts, MoveLemma
<1> QED
  BY <1>1, <1>2

\* An execution that ends, with its program gone, and told what it did.
LEMMA EndLemma ==
  ASSUME IInv, NEW p \in Loops, NEW l \in {Returned, [Quiet EXCEPT !.at = "dead"]},
         NEW c \in Children, c.state = "none", NEW d \in SUBSET Deeds, NEW r \in Results,
         loop' = [loop EXCEPT ![p] = l], child' = [child EXCEPT ![p] = c],
         did' = [did EXCEPT ![p] = d], result' = [result EXCEPT ![p] = r],
         Shared, ResultTold(d, r, artifacts'), l.at # "idle" => r.status = "none"
  PROVE  IInv'
<1>1. l \in LoopStates /\ l.at \in {"idle", "dead"}
  BY DEF Returned, Quiet, LoopStates, Places, Resting, Reasons
<1>2. Progress(l, d, r, artifacts') /\ Watched(l, c)
  BY <1>1 DEF Progress, Watched, Unlaunched, WithChild, WithAnswer, Resting
<1> QED
  BY <1>1, <1>2, StepLemma

\* Without a program before it, and with a program that is gone after it, an execution
\* returns that it has started none, or one.
LEMMA ReturnLemma ==
  ASSUME IInv, NEW p \in Loops, NEW c \in Children, c.state = "none",
         NEW outcome \in LoopStatuses, NEW started \in BOOLEAN, NEW file \in BOOLEAN,
         NEW submission \in BOOLEAN, NEW d \in SUBSET Deeds,
         Return(p, outcome, started, file, submission),
         child' = [child EXCEPT ![p] = c], did' = [did EXCEPT ![p] = d], Shared,
         started <=> "started" \in d,
         submission <=> "ingested" \in d /\ "unmarked" \notin d,
         "unmarked" \in d => outcome = "ingest_failed",
         "wrote" \in d => file,
         file => /\ artifacts' # {}
                 /\ outcome = "callback_artifact_exists" \/ "wrote" \in d
  PROVE  IInv'
<1> DEFINE r == [status |-> outcome, started |-> started, file |-> file,
                 submission |-> submission]
<1>1. r \in Results
  BY DEF Results
<1>2. result' = [result EXCEPT ![p] = r] /\ loop' = [loop EXCEPT ![p] = Returned]
  BY DEF Return
<1>3. ResultTold(d, r, artifacts')
  BY DEF ResultTold
<1>4. Returned.at = "idle"
  BY DEF Returned, Quiet
<1> HIDE DEF r
<1> QED
  BY <1>1, <1>2, <1>3, <1>4, EndLemma

\* Raising tells nothing.
LEMMA RaiseLemma ==
  ASSUME IInv, NEW p \in Loops, loop[p].at # "idle", NEW d \in SUBSET Deeds,
         child[p].state = "none", Raise(p), UNCHANGED child, did' = [did EXCEPT ![p] = d],
         Shared
  PROVE  IInv'
<1>1. /\ child' = [child EXCEPT ![p] = child[p]] /\ result' = [result EXCEPT ![p] = result[p]]
      /\ loop' = [loop EXCEPT ![p] = Returned]
      /\ result[p].status = "none"
  BY Facts DEF Raise, Progress
<1>2. ResultTold(d, result[p], artifacts') /\ Returned.at = "idle"
  BY <1>1 DEF ResultTold, Returned, Quiet
<1> QED
  BY <1>1, <1>2, Facts, EndLemma

LEMMA AssertInv ==
  ASSUME IInv, NEW p \in Loops, AssertCurrent(p)
  PROVE  IInv'
<1>1. /\ loop[p].at = "planned" /\ child[p].state = "none"
      /\ child' = [child EXCEPT ![p] = child[p]] /\ did' = [did EXCEPT ![p] = did[p]]
      /\ UNCHANGED <<did, child, artifacts>>
  BY Facts DEF AssertCurrent, OnLoop, Watched, WithChild, Children
<1>2. Shared
  BY SharedFacts DEF AssertCurrent, Shared, Raise, Forget
<1>3. CASE Step(p, "launch") /\ UNCHANGED result
  <2> DEFINE l == [loop[p] EXCEPT !.at = "launch"]
  <2>1. l \in LoopStates /\ l.at = "launch" /\ l.plan = loop[p].plan
    BY Facts DEF LoopStates, Places, Unlaunched
  <2>2. loop' = [loop EXCEPT ![p] = l]
    BY <1>3 DEF Step
  <2> HIDE DEF l
  <2>3. Progress(l, did[p], result[p], artifacts') /\ Watched(l, child[p])
    BY <1>1, <2>1, Facts
       DEF Progress, Watched, Unlaunched, WithChild, WithAnswer, Resting
  <2> QED
    BY <1>1, <1>2, <1>3, <2>1, <2>2, <2>3, Facts, MoveLemma
<1>4. CASE Raise(p)
  BY <1>1, <1>2, <1>4, Facts, RaiseLemma
<1> QED
  BY <1>3, <1>4 DEF AssertCurrent

\* The adapter returns without a callback: nothing was started, or it is gone.
LEMMA AdapterEndInv ==
  ASSUME IInv, NEW p \in Loops, NotStarted(p) \/ Reap(p) \/ Kill(p) \/ LoopCrash(p)
  PROVE  IInv'
<1>1. NoChild \in Children /\ NoChild.state = "none"
  BY DEF NoChild, Children
<1>2. did' = [did EXCEPT ![p] = did[p]] /\ UNCHANGED artifacts
  BY Facts DEF NotStarted, Reap, Kill, LoopCrash
<1>3. Shared
  BY SharedFacts DEF NotStarted, Reap, Kill, LoopCrash, Return, Forget, Shared
<1>4. CASE NotStarted(p)
  <2>1. /\ did[p] = {} /\ child[p].state = "none"
        /\ child' = [child EXCEPT ![p] = child[p]]
    BY <1>4, Facts DEF NotStarted, OnLoop, Progress, Watched, Unlaunched, WithChild, Children
  <2>2. \E outcome \in LoopStatuses : Return(p, outcome, FALSE, FALSE, FALSE)
    BY <1>4 DEF NotStarted, LoopStatuses, Reasons
  <2> QED
    BY <1>2, <1>3, <2>1, <2>2, Facts, ReturnLemma
<1>5. CASE Reap(p) \/ Kill(p)
  <2>1. /\ did[p] = {"started"}
        /\ child' = [child EXCEPT ![p] = NoChild]
        /\ Return(p, loop[p].why, TRUE, FALSE, FALSE)
    BY <1>5, Facts DEF Reap, Kill, OnLoop, Progress, WithChild
  <2>2. loop[p].why \in LoopStatuses
    BY Facts DEF LoopStates, LoopStatuses
  <2> QED
    BY <1>1, <1>2, <1>3, <2>1, <2>2, Facts, ReturnLemma
<1>6. CASE LoopCrash(p)
  <2>1. /\ loop' = [loop EXCEPT ![p] = [Quiet EXCEPT !.at = "dead"]]
        /\ child' = [child EXCEPT ![p] = NoChild]
        /\ result' = [result EXCEPT ![p] = result[p]]
        /\ result[p].status = "none"
    BY <1>6, Facts DEF LoopCrash, AtRest, Progress
  <2>2. ResultTold(did[p], result[p], artifacts')
    BY <2>1 DEF ResultTold
  <2> QED
    BY <1>1, <1>2, <1>3, <2>1, <2>2, Facts, EndLemma
<1> QED
  BY <1>4, <1>5, <1>6

\* Output is kept, or refused.
LEMMA ReadInv ==
  ASSUME IInv, NEW p \in Loops, ReadOutput(p)
  PROVE  IInv'
<1>1. NoChild \in Children /\ NoChild.state = "none"
  BY DEF NoChild, Children
<1>2. /\ did' = [did EXCEPT ![p] = did[p]] /\ UNCHANGED <<did, artifacts>>
      /\ child' = [child EXCEPT ![p] = NoChild]
      /\ loop[p].at = "read" /\ did[p] = {"started"} /\ child[p].id \in CallbackIds
  BY Facts DEF ReadOutput, OnLoop, Progress, Watched, WithChild
<1>3. Shared
  BY SharedFacts DEF ReadOutput, Return, Forget, Shared
<1>4. CASE /\ loop' = [loop EXCEPT ![p].at = "check_file", ![p].answer = child[p].id]
           /\ UNCHANGED result
  <2> DEFINE l == [loop[p] EXCEPT !.at = "check_file", !.answer = child[p].id]
  <2>1. /\ l \in LoopStates /\ l.at = "check_file" /\ l.plan = loop[p].plan
        /\ l.answer \in CallbackIds
    BY <1>2, Facts DEF LoopStates, Places, WithAnswer
  <2>2. loop' = [loop EXCEPT ![p] = l]
    BY <1>4
  <2> HIDE DEF l
  <2>3. Progress(l, did[p], result[p], artifacts') /\ Watched(l, NoChild)
    BY <1>1, <1>2, <2>1, Facts
       DEF Progress, Watched, Unlaunched, WithChild, WithAnswer, Resting
  <2> QED
    BY <1>1, <1>2, <1>3, <1>4, <2>1, <2>2, <2>3, MoveLemma
<1>5. CASE Return(p, StatusOf(child[p].faults), TRUE, FALSE, FALSE)
  <2>1. StatusOf(child[p].faults) \in LoopStatuses
    BY DEF StatusOf, LoopStatuses, Reasons
  <2> QED
    BY <1>1, <1>2, <1>3, <1>5, <2>1, Facts, ReturnLemma
<1> QED
  BY <1>4, <1>5 DEF ReadOutput

\* The callback file: there is one, it is written, or it is not.
LEMMA FileInv ==
  ASSUME IInv, NEW p \in Loops, CheckFile(p) \/ WriteFile(p) \/ WriteFails(p)
  PROVE  IInv'
<1>1. /\ loop[p].at \in {"check_file", "write"} /\ did[p] = {"started"}
      /\ child[p].state = "none" /\ child' = [child EXCEPT ![p] = child[p]]
      /\ loop[p].plan \in 1..Turns /\ loop[p].answer \in CallbackIds
      /\ result[p].status = "none"
  BY Facts
     DEF CheckFile, WriteFile, WriteFails, OnLoop, Progress, Watched, WithChild, WithAnswer,
         Resting, Children
<1>2. Artifact(p) \in (1..Turns) \X CallbackIds
  BY <1>1 DEF Artifact
<1>3. Shared
  BY <1>2, SharedFacts DEF CheckFile, WriteFile, WriteFails, Return, Forget, Shared
<1>4. UNCHANGED did => did' = [did EXCEPT ![p] = did[p]]
  BY Facts
<1>5. CASE CheckFile(p)
  <2>1. UNCHANGED <<did, artifacts>>
    BY <1>5 DEF CheckFile
  <2>2. CASE Artifact(p) \in artifacts
    <3>1. Return(p, "callback_artifact_exists", TRUE, TRUE, FALSE) /\ artifacts' # {}
      BY <1>5, <2>1, <2>2 DEF CheckFile
    <3>2. "callback_artifact_exists" \in LoopStatuses
      BY DEF LoopStatuses
    <3> QED
      BY <1>1, <1>3, <1>4, <2>1, <3>1, <3>2, Facts, ReturnLemma
  <2>3. CASE Artifact(p) \notin artifacts
    <3> DEFINE l == [loop[p] EXCEPT !.at = "write"]
    <3>1. /\ l \in LoopStates /\ l.at = "write" /\ l.plan = loop[p].plan
          /\ l.answer = loop[p].answer
      BY Facts DEF LoopStates, Places, WithAnswer
    <3>2. loop' = [loop EXCEPT ![p] = l] /\ UNCHANGED result
      BY <1>5, <2>3 DEF CheckFile, Step
    <3> HIDE DEF l
    <3>3. Progress(l, did[p], result[p], artifacts') /\ Watched(l, child[p])
      BY <1>1, <2>1, <3>1, Facts
         DEF Progress, Watched, Unlaunched, WithChild, WithAnswer, Resting
    <3> QED
      BY <1>1, <1>3, <2>1, <3>1, <3>2, <3>3, Facts, MoveLemma
  <2> QED
    BY <2>2, <2>3
<1>6. CASE WriteFile(p)
  <2> DEFINE l == [loop[p] EXCEPT !.at = "submit"]
             d == did[p] \cup {"wrote"}
  <2>1. /\ l \in LoopStates /\ l.at = "submit" /\ l.plan = loop[p].plan
        /\ l.answer = loop[p].answer
    BY Facts DEF LoopStates, Places, WithAnswer
  <2>2. /\ loop' = [loop EXCEPT ![p] = l] /\ did' = [did EXCEPT ![p] = d]
        /\ artifacts' = artifacts \cup {<<loop[p].plan, loop[p].answer>>}
    BY <1>6 DEF WriteFile, Step, Did, Artifact
  <2>3. result' = [result EXCEPT ![p] = result[p]]
    BY <1>6, Facts DEF WriteFile
  <2>4. d = {"started", "wrote"} /\ d \in SUBSET Deeds
    BY <1>1 DEF Deeds
  <2> HIDE DEF l, d
  <2>5. /\ Progress(l, d, result[p], artifacts') /\ Watched(l, child[p])
        /\ ResultTold(d, result[p], artifacts')
    BY <1>1, <2>1, <2>2, <2>4
       DEF Progress, Watched, ResultTold, Unlaunched, WithChild, WithAnswer, Resting
  <2> QED
    BY <1>1, <1>3, <2>1, <2>2, <2>3, <2>4, <2>5, Facts, StepLemma
<1>7. CASE WriteFails(p)
  <2>1. /\ Return(p, "callback_write_failed", TRUE, FALSE, FALSE) /\ UNCHANGED did
        /\ "callback_write_failed" \in LoopStatuses
    BY <1>7 DEF WriteFails, LoopStatuses
  <2> QED
    BY <1>1, <1>3, <1>4, <2>1, Facts, ReturnLemma
<1> QED
  BY <1>5, <1>6, <1>7

\* The bridge takes the callback, refuses it, or fails, before or after it saved.
LEMMA SubmitInv ==
  ASSUME IInv, NEW p \in Loops,
         \/ IngestFailed(p) \/ SaveFails(p)
         \/ \E accepted \in BOOLEAN : Submitted(p, accepted) \/ MarkerFails(p, accepted)
  PROVE  IInv'
<1>1. /\ loop[p].at = "submit" /\ did[p] = {"started", "wrote"}
      /\ child[p].state = "none"
      /\ UNCHANGED <<child, artifacts>> /\ child' = [child EXCEPT ![p] = child[p]]
      /\ Artifact(p) \in artifacts
      /\ loop[p].plan \in 1..Turns
  BY Facts
     DEF IngestFailed, SaveFails, Submitted, MarkerFails, Claim, OnLoop, Progress, Watched,
         WithChild, Resting, Artifact, Children
<1>2. run' \in [turn : 1..(Turns + 1), phase : Phases]
  <2>1. CASE UNCHANGED run
    BY <2>1, SharedFacts
  <2>2. ASSUME NEW accepted \in BOOLEAN, Submitted(p, accepted) \/ MarkerFails(p, accepted)
        PROVE  run' \in [turn : 1..(Turns + 1), phase : Phases]
    <3>1. /\ run.turn = loop[p].plan
          /\ run \in [turn : 1..(Turns + 1), phase : Phases]
          /\ run.turn + 1 \in 1..(Turns + 1)
      <4>1. run.turn = loop[p].plan
        BY <2>2 DEF Submitted, MarkerFails, Claim, Ingestible
      <4> QED
        BY <1>1, <4>1, SharedFacts, TurnsAssumption
    <3>2. \/ run' = run \/ run' = [run EXCEPT !.turn = @ + 1]
          \/ run' = [run EXCEPT !.turn = @] \/ run' = [run EXCEPT !.phase = "finished"]
      BY <2>2 DEF Submitted, MarkerFails, Save
    <3> QED
      BY <3>1, <3>2 DEF Phases
  <2> QED
    BY <2>1, <2>2 DEF IngestFailed, SaveFails
<1>3. Shared
  BY <1>1, <1>2, SharedFacts
     DEF IngestFailed, SaveFails, Submitted, MarkerFails, Claim, Return, Raise, Forget, Shared
<1>4. PICK d \in {did[p], did[p] \cup {"ingested"}, did[p] \cup {"ingested", "unmarked"}} :
        /\ did' = [did EXCEPT ![p] = d]
        /\ \/ Raise(p)
           \/ /\ "ingested" \in d /\ "unmarked" \notin d
              /\ \E outcome \in LoopStatuses : Return(p, outcome, TRUE, TRUE, TRUE)
           \/ /\ "ingested" \in d <=> "unmarked" \in d
              /\ Return(p, "ingest_failed", TRUE, TRUE, FALSE)
  <2>1. /\ did = [did EXCEPT ![p] = did[p]]
        /\ "ingested" \notin did[p] /\ "unmarked" \notin did[p]
    BY <1>1, Facts
  <2>2. CASE IngestFailed(p) \/ SaveFails(p)
    BY <2>1, <2>2 DEF IngestFailed, SaveFails
  <2>3. CASE \E accepted \in BOOLEAN : MarkerFails(p, accepted)
    BY <2>1, <2>3 DEF MarkerFails, Did
  <2>4. CASE \E accepted \in BOOLEAN : Submitted(p, accepted)
    BY <2>1, <2>4 DEF Submitted, Did, LoopStatuses
  <2> QED
    BY <2>2, <2>3, <2>4
<1>5. d \in SUBSET Deeds /\ "started" \in d /\ "wrote" \in d
  BY <1>1, <1>4 DEF Deeds
<1>6. CASE Raise(p)
  BY <1>1, <1>3, <1>4, <1>5, <1>6, Facts, RaiseLemma
<1>7. ASSUME NEW outcome \in LoopStatuses, "ingested" \in d, "unmarked" \notin d,
             Return(p, outcome, TRUE, TRUE, TRUE)
      PROVE  IInv'
  BY <1>1, <1>3, <1>4, <1>5, <1>7, Facts, ReturnLemma
<1>8. ASSUME "ingested" \in d <=> "unmarked" \in d,
             Return(p, "ingest_failed", TRUE, TRUE, FALSE)
      PROVE  IInv'
  <2>1. "ingest_failed" \in LoopStatuses
    BY DEF LoopStatuses
  <2> QED
    BY <1>1, <1>3, <1>4, <1>5, <1>8, <2>1, Facts, ReturnLemma
<1> QED
  BY <1>4, <1>6, <1>7, <1>8

\* What others do to the run, the deadline or the token concerns no execution's state.
LEMMA OutsideInv ==
  ASSUME IInv,
         \/ OtherCommand
         \/ \E p \in Loops : DeadlinePasses(p) \/ Cancel(p)
  PROVE  IInv'
<1>1. UNCHANGED <<claimed, artifacts, loop, child, result, did>>
  BY DEF OtherCommand, DeadlinePasses, Cancel
<1>2. run' \in [turn : 1..(Turns + 1), phase : Phases]
  BY SharedFacts, TurnsAssumption DEF OtherCommand, DeadlinePasses, Cancel, HasHook, Phases
<1>3. late' \cup token' \subseteq Loops
  BY SharedFacts DEF OtherCommand, DeadlinePasses, Cancel
<1> QED
  BY <1>1, <1>2, <1>3 DEF IInv, LoopTypeOK, AtRest, LocalType, Fine

------------------------------------------------------------------------------
(* The invariant *)

LEMMA InitInv == LoopInit => IInv
<1> SUFFICES ASSUME LoopInit PROVE IInv
  OBVIOUS
<1>1. /\ Quiet \in LoopStates /\ NoChild \in Children /\ NoResult \in Results
      /\ Quiet.at = "new" /\ NoChild.state = "none" /\ NoResult.status = "none"
  BY DEF Quiet, LoopStates, Places, Resting, Reasons, NoChild, Children, NoResult, Results,
         LoopStatuses
<1>2. LocalType
  BY <1>1 DEF LoopInit, LocalType, Nothing
<1>3. LoopTypeOK
  BY <1>1, TurnsAssumption DEF LoopInit, LoopTypeOK, AtRest, Phases
<1>4. \A p \in Loops : Fine(p)
  BY <1>1
     DEF LoopInit, Fine, Progress, Watched, ResultTold, Nothing, Unlaunched, WithChild, WithAnswer,
         Resting
<1> QED
  BY <1>2, <1>3, <1>4 DEF IInv

LEMMA NextInv == IInv /\ [LoopNext]_loopVars => IInv'
<1> SUFFICES ASSUME IInv, [LoopNext]_loopVars PROVE IInv'
  OBVIOUS
<1>1. CASE UNCHANGED loopVars
  BY <1>1 DEF loopVars, IInv, LoopTypeOK, AtRest, LocalType, Fine
<1>2. CASE OtherCommand
  BY <1>2, OutsideInv
<1>3. ASSUME NEW p \in Loops,
             \/ DispatchPlan(p) \/ LoopContinue(p) \/ LoopCrash(p)
             \/ DeadlinePasses(p) \/ Cancel(p) \/ ChildHeeds(p)
             \/ \E faults \in Outputs, id \in CallbackIds : ChildExits(p, faults, id)
      PROVE  IInv'
  <2>1. CASE LoopContinue(p)
    <3>1. CASE AssertCurrent(p)
      BY <3>1, AssertInv
    <3>2. CASE Running(p)
      BY <3>2, AdapterEndInv, LaunchInv, WatchInv, ChildInv, ReadInv DEF Running
    <3>3. CASE Ingesting(p)
      BY <3>3, FileInv, SubmitInv DEF Ingesting
    <3> QED
      BY <2>1, <3>1, <3>2, <3>3 DEF LoopContinue
  <2>2. CASE DispatchPlan(p) \/ LoopCrash(p)
    BY <2>2, PlanInv, AdapterEndInv
  <2>3. CASE DeadlinePasses(p) \/ Cancel(p)
    BY <2>3, OutsideInv
  <2>4. CASE \/ ChildHeeds(p)
             \/ \E faults \in Outputs, id \in CallbackIds : ChildExits(p, faults, id)
    BY <2>4, ChildInv
  <2> QED
    BY <1>3, <2>1, <2>2, <2>3, <2>4
<1> QED
  BY <1>1, <1>2, <1>3 DEF LoopNext

------------------------------------------------------------------------------
(* Theorems *)

\* IInv is an invariant.
THEOREM Inductive == LoopSpec => []IInv
  BY InitInv, NextInv, PTL DEF LoopSpec

\* The shared state keeps its shape: what the bridge has claimed was kept as a file.
THEOREM TypeCorrect == LoopSpec => []LoopTypeOK
<1>1. IInv => LoopTypeOK
  BY DEF IInv
<1> QED
  BY <1>1, Inductive, PTL

\* execute returns what it did, and returns or raises only when its program is gone,
\* whatever the program prints, ignores or breaks and whenever it is cancelled.
THEOREM ExecutionTold == LoopSpec => []ExecutionIsAccountedFor
<1>1. IInv => ExecutionIsAccountedFor
  <2> SUFFICES ASSUME IInv PROVE ExecutionIsAccountedFor
    OBVIOUS
  <2>1. SideEffectsTold
    BY DEF IInv, Fine, ResultTold, SideEffectsTold
  <2>2. NoProcessOutlivesExecution
    BY DEF IInv, Fine, Watched, WithChild, NoProcessOutlivesExecution, OnLoop, Alive
  <2> QED
    BY <2>1, <2>2 DEF ExecutionIsAccountedFor
<1> QED
  BY <1>1, Inductive, PTL

------------------------------------------------------------------------------
(* Sorting, and the budget *)

\* Ascending lists the set, and nobody twice.
LEMMA AscendingLists ==
  ASSUME NEW n \in Nat, NEW S \in SUBSET (1..n)
  PROVE  /\ Ascending(S) \in Seq(S) /\ Len(Ascending(S)) <= n
         /\ S # {} => Ascending(S) # <<>>
         /\ \A k, l \in DOMAIN Ascending(S) : k # l => Ascending(S)[k] # Ascending(S)[l]
         /\ \A x \in S : \E k \in DOMAIN Ascending(S) : Ascending(S)[k] = x
<1> DEFINE Below(x) == {y \in S : y < x}
           m == Cardinality(S)
           rank == [x \in S |-> Cardinality(Below(x)) + 1]
<1>1. IsFiniteSet(S) /\ m \in Nat /\ m <= n
  <2>1. IsFiniteSet(1..n) /\ Cardinality(1..n) = n
    <3>1. 1 \in Int /\ n \in Int
      OBVIOUS
    <3>2. IsFiniteSet(1..n) /\ Cardinality(1..n) = IF 1 > n THEN 0 ELSE n - 1 + 1
      BY <3>1, FS_Interval
    <3> QED
      BY <3>2
  <2> QED
    BY <2>1, FS_Subset, FS_CardinalityType
<1>2. ASSUME NEW x \in S
      PROVE  /\ Cardinality(Below(x)) \in Nat /\ Cardinality(Below(x)) < m
             /\ \A y \in S : y < x => Cardinality(Below(y)) < Cardinality(Below(x))
  <2>1. ASSUME NEW T \in SUBSET S, NEW y \in S, y \notin T
        PROVE  Cardinality(T) \in Nat /\ Cardinality(T) < m
    <3>1. IsFiniteSet(T) /\ Cardinality(T) \in Nat /\ Cardinality(T) <= m /\ Cardinality(T) # m
      BY <1>1, <2>1, FS_Subset, FS_CardinalityType
    <3> QED
      BY <1>1, <3>1
  <2>2. x \notin Below(x) /\ Below(x) \in SUBSET S
    OBVIOUS
  <2>3. IsFiniteSet(Below(x)) /\ Cardinality(Below(x)) \in Nat
    BY <1>1, <2>2, FS_Subset, FS_CardinalityType
  <2>4. ASSUME NEW y \in S, y < x
        PROVE  Cardinality(Below(y)) < Cardinality(Below(x))
    <3>1. y \in Below(x) /\ y \notin Below(y)
      BY <2>4
    <3>2. ASSUME NEW z \in Below(y)
          PROVE  z \in Below(x)
      <4>1. z \in S /\ z < y /\ z \in Nat /\ y \in Nat /\ x \in Nat
        OBVIOUS
      <4> QED
        BY <2>4, <4>1
    <3>3. Below(y) \in SUBSET Below(x)
      BY <3>2
    <3> HIDE DEF Below
    <3>4. /\ Cardinality(Below(y)) \in Nat /\ Cardinality(Below(y)) <= Cardinality(Below(x))
          /\ Cardinality(Below(y)) # Cardinality(Below(x))
      BY <2>3, <3>1, <3>3, FS_Subset, FS_CardinalityType
    <3> QED
      BY <2>3, <3>4
  <2> QED
    BY <2>1, <2>2, <2>4
<1> HIDE DEF Below, m
<1>3. rank \in Injection(S, 1..m)
  <2>1. rank \in [S -> 1..m]
    <3>1. ASSUME NEW x \in S
          PROVE  Cardinality(Below(x)) + 1 \in 1..m
      BY <1>1, <1>2
    <3> QED
      BY <3>1
  <2>2. ASSUME NEW x \in S, NEW y \in S, rank[x] = rank[y]
        PROVE  x = y
    <3>1. /\ Cardinality(Below(x)) \in Nat /\ Cardinality(Below(y)) \in Nat
          /\ Cardinality(Below(x)) = Cardinality(Below(y))
      <4>1. Cardinality(Below(x)) + 1 = Cardinality(Below(y)) + 1
        BY <2>2
      <4> QED
        BY <1>2, <4>1
    <3>2. x \in Nat /\ y \in Nat
      OBVIOUS
    <3>3. ~(x < y) /\ ~(y < x)
      BY <1>2, <3>1
    <3> QED
      BY <3>2, <3>3
  <2> QED
    BY <2>1, <2>2 DEF Injection, IsInjective
<1> HIDE DEF rank
<1>4. rank \in Surjection(S, 1..m)
  <2>1. IsFiniteSet(1..m) /\ Cardinality(1..m) = m
    <3>1. 1 \in Int /\ m \in Int
      BY <1>1
    <3>2. IsFiniteSet(1..m) /\ Cardinality(1..m) = IF 1 > m THEN 0 ELSE m - 1 + 1
      BY <3>1, FS_Interval
    <3> QED
      BY <1>1, <3>2
  <2>2. Cardinality(S) = Cardinality(1..m)
    BY <2>1 DEF m
  <2> QED
    BY <1>3, <2>1, <2>2, FS_Injection
<1> DEFINE At(k) == CHOOSE x \in S : Cardinality(Below(x)) = k - 1
<1>5. ASSUME NEW k \in 1..m
      PROVE  At(k) \in S /\ rank[At(k)] = k
  <2>1. PICK x \in S : rank[x] = k
    BY <1>4 DEF Surjection
  <2>2. Cardinality(Below(x)) + 1 = k
    BY <2>1 DEF rank
  <2>3. Cardinality(Below(x)) = k - 1
    BY <1>2, <2>2
  <2>4. At(k) \in S /\ Cardinality(Below(At(k))) = k - 1
    BY <2>3
  <2> QED
    BY <1>1, <2>4 DEF rank
<1>6. Ascending(S) = [k \in 1..m |-> At(k)]
  BY DEF Ascending, m, Below
<1> HIDE DEF At
<1>7. Ascending(S) \in Seq(S) /\ Len(Ascending(S)) = m /\ DOMAIN Ascending(S) = 1..m
  <2>1. Ascending(S) \in [1..m -> S]
    BY <1>5, <1>6
  <2> QED
    BY <1>1, <1>6, <2>1
<1>8. ASSUME NEW x \in S
      PROVE  \E k \in 1..m : At(k) = x
  <2>1. rank[x] \in 1..m
    BY <1>3 DEF Injection
  <2>2. At(rank[x]) \in S /\ rank[At(rank[x])] = rank[x]
    BY <1>5, <2>1
  <2>3. At(rank[x]) = x
    BY <1>3, <2>2 DEF Injection, IsInjective
  <2> QED
    BY <2>1, <2>3
<1>9. S # {} => Ascending(S) # <<>>
  <2>1. ASSUME NEW x \in S
        PROVE  Len(Ascending(S)) # 0
    BY <1>1, <1>7, <1>8
  <2> QED
    BY <1>7, <2>1
<1> QED
  BY <1>1, <1>5, <1>6, <1>7, <1>8, <1>9

\* The arguments of a command that was not refused.
AskSound ==
  /\ ask.n \in Nat \ {0} /\ ask.rounds \in Int /\ ask.turns \in Int /\ ask.calls \in Int
  /\ ask.mode \in {"local", "prep", "bridge"} /\ ask.scene \in BOOLEAN

LEMMA BudgetFits ==
  ASSUME AskSound, Acceptable
  PROVE  /\ QueueTurns \in Nat \ {0}
         /\ ask.n * QueueTurns <= ask.calls
<1> DEFINE whole == ask.calls \div ask.n
<1>1. ask.n \in Nat /\ ask.n > 0 /\ ask.calls \in Nat /\ ask.n <= ask.calls
  BY DEF AskSound, Acceptable
<1>2. whole \in Nat /\ whole > 0 /\ ask.n * whole <= ask.calls
  BY <1>1
<1> HIDE DEF whole
<1>3. {ask.rounds, ask.turns, whole} \in SUBSET Nat
  BY <1>2 DEF AskSound, Acceptable
<1>4. /\ QueueTurns \in {ask.rounds, ask.turns, whole}
      /\ \A y \in {ask.rounds, ask.turns, whole} : QueueTurns <= y
  <2>1. \E x \in {ask.rounds, ask.turns, whole} :
          \A y \in {ask.rounds, ask.turns, whole} : x <= y
    BY <1>3, LeastExists
  <2>2. QueueTurns = CHOOSE x \in {ask.rounds, ask.turns, whole} :
                       \A y \in {ask.rounds, ask.turns, whole} : x <= y
    BY DEF QueueTurns, Least, whole
  <2> QED
    BY <2>1, <2>2
<1>5. QueueTurns \in Nat /\ QueueTurns > 0 /\ QueueTurns <= whole
  BY <1>2, <1>4 DEF AskSound, Acceptable
<1>6. ask.n * QueueTurns <= ask.n * whole
  BY <1>1, <1>2, <1>5
<1> QED
  BY <1>1, <1>2, <1>5, <1>6

LEMMA OneRoundMore ==
  ASSUME NEW n \in Nat, NEW r \in Nat
  PROVE  /\ n * r \in Nat /\ n * (r + 1) = n * r + n
         /\ \A q \in Nat : r <= q => n * r <= n * q
OBVIOUS

------------------------------------------------------------------------------
(* The floor: whom it has called, and who was heard *)

Contributions ==
  [who : People, round : Nat \ {0}, uncertain : BOOLEAN, risky : BOOLEAN,
   objections : Items, questions : Items]
SpeakerStates == [turns : Nat, spoke : BOOLEAN, objections : Items, questions : Items]
CallRecords ==
  [who : People, round : Nat \ {0},
   why : {"verification", "objection", "question", "continuity", "initial"}]
Checks == [who : People, round : Nat \ {0}, status : {"recommended"}]

FloorType(f) ==
  f \in [speakers : [People -> SpeakerStates], checks : SUBSET Checks, round : Nat \ {0},
         who : Seq(People), index : Nat, calls : Seq(CallRecords)]

\* A round is open within the budget; the first one to everybody.
OpenSound(f) ==
  /\ f.index <= Len(f.who) /\ Len(f.who) <= ask.n
  /\ f.who # <<>> => f.round <= QueueTurns
  /\ \A k, l \in DOMAIN f.who : k # l => f.who[k] # f.who[l]
  /\ f.round = 1 /\ f.who # <<>> => \A p \in People : \E k \in DOMAIN f.who : f.who[k] = p

\* Those called in this round are those before its index; earlier rounds called everybody.
CalledSound(f) ==
  /\ Len(f.calls) <= ask.n * (f.round - 1) + f.index
  /\ \A i \in DOMAIN f.calls :
       /\ f.calls[i].round <= f.round
       /\ f.calls[i].round = f.round => \E k \in 1..f.index : f.who[k] = f.calls[i].who
  /\ \A k \in 1..f.index : \E i \in DOMAIN f.calls : f.calls[i].who = f.who[k]
  /\ f.round > 1 => \A p \in People : \E i \in DOMAIN f.calls : f.calls[i].who = p

\* RoundsAreFair, of any list of calls.
FairCalls(calls) ==
  /\ calls = <<>> \/ Len(calls) <= ask.calls
  /\ \A i, j \in DOMAIN calls :
       /\ i # j => <<calls[i].who, calls[i].round>> # <<calls[j].who, calls[j].round>>
       /\ i < j => calls[i].round <= calls[j].round
  /\ \A i \in DOMAIN calls :
       /\ calls[i].round > 1 => \A p \in People : \E j \in 1..(i - 1) : calls[j].who = p
       /\ (calls[i].why = "initial") <=> (calls[i].round = 1)

FloorSound(f) == FloorType(f) /\ OpenSound(f) /\ CalledSound(f) /\ FairCalls(f.calls)

\* Answers come in the order of the calls; who was not heard asks for nothing.
VoicesSound(f, h) ==
  /\ h \in Seq(Contributions) /\ Len(h) <= Len(f.calls)
  /\ \A i \in DOMAIN h : h[i].who = f.calls[i].who
  /\ \A p \in People :
       /\ (\E i \in DOMAIN h : h[i].who = p) => f.speakers[p].spoke
       /\ f.speakers[p].spoke => \E i \in DOMAIN h : h[i].who = p
       /\ ~f.speakers[p].spoke =>
            /\ f.speakers[p].objections = {} /\ f.speakers[p].questions = {}
            /\ \A check \in f.checks : check.who # p

LEMMA FloorFacts ==
  ASSUME NEW f, FloorType(f)
  PROVE  /\ f.speakers \in [People -> SpeakerStates] /\ f.checks \subseteq Checks
         /\ f.round \in Nat /\ f.round > 0 /\ f.who \in Seq(People) /\ f.index \in Nat
         /\ f.calls \in Seq(CallRecords)
         /\ \A p \in People : /\ f.speakers[p] \in SpeakerStates
                               /\ f.speakers[p].spoke \in BOOLEAN
                               /\ f.speakers[p].objections \in Items
                               /\ f.speakers[p].questions \in Items
         /\ \A c \in f.checks : c.who \in People /\ c.status = "recommended"
<1>1. /\ f.speakers \in [People -> SpeakerStates] /\ f.checks \subseteq Checks
      /\ f.round \in Nat /\ f.round > 0 /\ f.who \in Seq(People) /\ f.index \in Nat
      /\ f.calls \in Seq(CallRecords)
  BY DEF FloorType
<1>2. \A p \in People : f.speakers[p] \in SpeakerStates
  BY <1>1
<1> QED
  BY <1>1, <1>2 DEF SpeakerStates, Checks

\* Who was not heard is called for an initial position, and nobody else.
LEMMA InitialCall ==
  ASSUME AskSound, NEW f, NEW h, FloorType(f), VoicesSound(f, h), NEW p \in People
  PROVE  /\ CalledBecause(f, p) \in
              {"verification", "objection", "question", "continuity", "initial"}
         /\ CalledBecause(f, p) = "initial" <=> ~f.speakers[p].spoke
<1> DEFINE own == f.speakers[p]
           alone == [q \in {p} |-> own]
           objects == p \in Signals(alone, f.checks)[2]
           checked == \E check \in f.checks : check.who = p
<1>1. CalledBecause(f, p) =
        CASE checked -> "verification" [] objects -> "objection"
          [] own.questions # {} -> "question"
          [] OTHER -> IF own.spoke THEN "continuity" ELSE "initial"
  BY DEF CalledBecause
<1>2. own.spoke \in BOOLEAN
  BY FloorFacts
<1>3. ASSUME ~own.spoke
      PROVE  ~checked /\ ~objects /\ own.questions = {}
  <2>1. own.objections = {} /\ own.questions = {} /\ ~checked
    BY <1>3 DEF VoicesSound
  <2>2. Signals(alone, f.checks)[2] = UNION {NamedById(alone[q].objections) : q \in DOMAIN alone}
    BY DEF Signals
  <2>3. \A q \in DOMAIN alone : alone[q] = own
    OBVIOUS
  <2>4. NamedById({}) = {}
    BY DEF NamedById
  <2>5. ~objects
    BY <2>1, <2>2, <2>3, <2>4
  <2> QED
    BY <2>1, <2>5
<1> HIDE DEF own, objects, checked
<1>4. CASE own.spoke
  BY <1>1, <1>4 DEF own
<1>5. CASE ~own.spoke
  BY <1>1, <1>3, <1>5 DEF own
<1> QED
  BY <1>2, <1>4, <1>5

LEMMA ChosenPeople ==
  ASSUME AskSound, NEW f, FloorType(f)
  PROVE  \E S \in SUBSET People :
           /\ S # {} /\ Chosen(f) = Ascending(S)
           /\ (\A p \in People : ~f.speakers[p].spoke) =>
                \A h : VoicesSound(f, h) => S = People
<1> DEFINE signals == Signals(f.speakers, f.checks)
           live == {i \in DOMAIN signals : signals[i] # {}}
           S == IF live = {} THEN People ELSE signals[Least(live)]
<1>1. DOMAIN signals = 1..4 /\ DOMAIN f.speakers = People
  BY FloorFacts DEF Signals
<1>2. \A i \in DOMAIN signals : signals[i] \subseteq People
  <2>1. signals[1] \subseteq People
    BY FloorFacts DEF Signals
  <2>2. signals[2] \subseteq People
    BY DEF Signals, NamedById
  <2>3. signals[3] \subseteq People
    BY DEF Signals
  <2>4. signals[4] \subseteq People
    <3>1. \A p \in People :
            (LET to == NamedById(f.speakers[p].questions)
             IN IF to = {} /\ f.speakers[p].questions # {} THEN {p} ELSE to) \subseteq People
      BY DEF NamedById
    <3> QED
      BY <1>1, <3>1 DEF Signals
  <2> QED
    BY <1>1, <2>1, <2>2, <2>3, <2>4
<1>3. People # {} /\ 1 \in People
  BY DEF People, AskSound
<1>4. S \in SUBSET People /\ S # {}
  <2>1. CASE live = {}
    BY <1>3, <2>1
  <2>2. CASE live # {}
    <3>1. live \in SUBSET Nat
      BY <1>1
    <3>2. \E x \in live : \A y \in live : x <= y
      <4> HIDE DEF live
      <4> QED
        BY <2>2, <3>1, LeastExists
    <3>3. Least(live) \in live
      BY <3>2 DEF Least
    <3> QED
      BY <1>2, <2>2, <3>3
  <2> QED
    BY <2>1, <2>2
<1>5. Chosen(f) = Ascending(S)
  BY DEF Chosen
<1>6. ASSUME \A p \in People : ~f.speakers[p].spoke, NEW h, VoicesSound(f, h)
      PROVE  S = People
  <2>1. \A p \in People : /\ f.speakers[p].objections = {} /\ f.speakers[p].questions = {}
                         /\ \A check \in f.checks : check.who # p
    BY <1>6 DEF VoicesSound
  <2>2. NamedById({}) = {}
    BY DEF NamedById
  <2>3. signals[1] = {}
    BY <2>1, FloorFacts DEF Signals
  <2>4. signals[2] = {}
    <3>1. \A p \in People : NamedById(f.speakers[p].objections) = {}
      BY <2>1, <2>2
    <3> QED
      BY <1>1, <3>1 DEF Signals
  <2>5. signals[3] = {}
    BY DEF Signals
  <2>6. signals[4] = {}
    <3>1. \A p \in People :
            (LET to == NamedById(f.speakers[p].questions)
             IN IF to = {} /\ f.speakers[p].questions # {} THEN {p} ELSE to) = {}
      BY <2>1, <2>2
    <3> QED
      BY <1>1, <3>1 DEF Signals
  <2>7. live = {}
    BY <1>1, <2>3, <2>4, <2>5, <2>6
  <2> QED
    BY <2>7
<1> HIDE DEF S
<1> QED
  BY <1>4, <1>5, <1>6

\* A round is opened, within the budget: to everybody if it is the first.
LEMMA OpenedSound ==
  ASSUME AskSound, NEW f, NEW h, FloorSound(f), VoicesSound(f, h),
         f.who = <<>> => f.round <= QueueTurns
  PROVE  /\ FloorSound(Opened(f)) /\ VoicesSound(Opened(f), h)
         /\ Opened(f).who # <<>> /\ Opened(f).calls = f.calls
         /\ Opened(f).speakers = f.speakers
         /\ f.who = <<>> => Opened(f).index = 0
         /\ f.who # <<>> => Opened(f) = f
<1>1. CASE f.who # <<>>
  BY <1>1 DEF Opened
<1>2. CASE f.who = <<>>
  <2> DEFINE g == Opened(f)
  <2>1. g = [f EXCEPT !.who = Chosen(f), !.index = 0]
    BY <1>2 DEF Opened
  <2>2. PICK S \in SUBSET People :
          /\ S # {} /\ Chosen(f) = Ascending(S)
          /\ (\A p \in People : ~f.speakers[p].spoke) => S = People
    BY ChosenPeople DEF FloorSound
  <2>3. /\ Chosen(f) \in Seq(People) /\ Len(Chosen(f)) <= ask.n /\ Chosen(f) # <<>>
        /\ \A k, l \in DOMAIN Chosen(f) : k # l => Chosen(f)[k] # Chosen(f)[l]
        /\ \A x \in S : \E k \in DOMAIN Chosen(f) : Chosen(f)[k] = x
    <3>1. ask.n \in Nat /\ S \in SUBSET (1..ask.n)
      BY DEF AskSound, People
    <3> DEFINE list == Ascending(S)
    <3>2. /\ list \in Seq(S) /\ Len(list) <= ask.n /\ list # <<>>
          /\ \A k, l \in DOMAIN list : k # l => list[k] # list[l]
          /\ \A x \in S : \E k \in DOMAIN list : list[k] = x
      <4>1. PICK n \in Nat : n = ask.n
        BY <3>1
      <4>2. S \in SUBSET (1..n) /\ S # {}
        BY <2>2, <3>1, <4>1
      <4>3. /\ Ascending(S) \in Seq(S) /\ Len(Ascending(S)) <= n
            /\ S # {} => Ascending(S) # <<>>
            /\ \A k, l \in DOMAIN Ascending(S) : k # l => Ascending(S)[k] # Ascending(S)[l]
            /\ \A x \in S : \E k \in DOMAIN Ascending(S) : Ascending(S)[k] = x
        BY <4>2, AscendingLists
      <4> QED
        BY <4>1, <4>2, <4>3
    <3> HIDE DEF list
    <3>3. list \in [1..Len(list) -> People] /\ Len(list) \in Nat
      BY <3>2
    <3>4. list \in Seq(People)
      BY <3>3
    <3>5. Chosen(f) = list
      BY <2>2 DEF list
    <3> QED
      BY <3>2, <3>4, <3>5
  <2>4. /\ f.round \in Nat /\ f.round > 0 /\ f.calls \in Seq(CallRecords)
        /\ f.index \in Nat /\ f.index = 0
    BY <1>2, FloorFacts DEF FloorSound, OpenSound
  <2>5. FloorType(g)
    <3>1. Chosen(f) \in Seq(People) /\ 0 \in Nat
      BY <2>3
    <3>2. FloorType([f EXCEPT !.who = Chosen(f), !.index = 0])
      BY <3>1, Zenon DEF FloorSound, FloorType
    <3> QED
      BY <2>1, <3>2
  <2>6. /\ g.who = Chosen(f) /\ g.index = 0 /\ g.round = f.round /\ g.calls = f.calls
        /\ g.speakers = f.speakers /\ g.checks = f.checks
    BY <2>1 DEF FloorSound, FloorType
  <2> HIDE DEF g
  <2>7. f.round = 1 => S = People
    <3>1. ASSUME f.round = 1
          PROVE  \A p \in People : ~f.speakers[p].spoke
      <4>1. Len(f.calls) \in Nat /\ Len(f.calls) <= 0
        BY <2>4, <3>1 DEF FloorSound, CalledSound, AskSound
      <4>2. h \in Seq(Contributions) /\ Len(h) = 0
        BY <2>4, <4>1 DEF VoicesSound
      <4> QED
        BY <4>2 DEF VoicesSound
    <3> QED
      BY <2>2, <3>1
  <2>8. OpenSound(g)
    BY <1>2, <2>3, <2>6, <2>7 DEF OpenSound, AskSound
  <2>9. CalledSound(g)
    BY <2>4, <2>6 DEF CalledSound, FloorSound
  <2>10. FairCalls(g.calls)
    BY <2>6 DEF FloorSound
  <2>11. VoicesSound(g, h)
    BY <2>6 DEF VoicesSound
  <2> QED
    BY <1>2, <2>3, <2>5, <2>6, <2>8, <2>9, <2>10, <2>11 DEF FloorSound, g
<1> QED
  BY <1>1, <1>2

\* The next participant of an open round is called, when all calls are answered.
LEMMA CallSound ==
  ASSUME AskSound, Acceptable, NEW f, NEW h, FloorSound(f), VoicesSound(f, h),
         f.index < Len(f.who), Len(h) = Len(f.calls)
  PROVE  LET p == f.who[f.index + 1]
             g == WithCall(f, p)
         IN  /\ p \in People /\ g.calls = Append(f.calls, Hook(f, p)) /\ FloorSound(g)
             /\ VoicesSound(g, h) /\ g.speakers = f.speakers /\ g.who = f.who
             /\ g.round = f.round /\ g.index = f.index + 1
<1> DEFINE p == f.who[f.index + 1]
           g == WithCall(f, p)
           call == Hook(f, p)
           m == Len(f.calls)
<1>1. /\ f.round \in Nat /\ f.round > 0 /\ f.who \in Seq(People) /\ f.index \in Nat
      /\ f.calls \in Seq(CallRecords) /\ m \in Nat
  BY FloorFacts DEF FloorSound
<1>2. p \in People /\ f.index + 1 \in DOMAIN f.who /\ f.who # <<>>
  BY <1>1
<1> HIDE DEF p
<1>3. /\ call = [who |-> p, round |-> f.round, why |-> CalledBecause(f, p)]
      /\ g = [f EXCEPT !.calls = Append(@, call), !.index = @ + 1]
  BY DEF Hook, WithCall
<1>4. /\ call.who = p /\ call.round = f.round /\ call.why = CalledBecause(f, p)
      /\ call \in CallRecords
      /\ call.why = "initial" <=> ~f.speakers[p].spoke
  BY <1>1, <1>2, <1>3, InitialCall DEF FloorSound, CallRecords
<1> HIDE DEF call
<1>5. FloorType(g)
  <2>1. Append(f.calls, call) \in Seq(CallRecords) /\ f.index + 1 \in Nat
    BY <1>1, <1>4
  <2> QED
    BY <1>3, <2>1, Zenon DEF FloorType, FloorSound
<1>6. /\ g.calls = Append(f.calls, call) /\ g.index = f.index + 1 /\ g.round = f.round
      /\ g.who = f.who /\ g.speakers = f.speakers /\ g.checks = f.checks
  BY <1>3 DEF FloorType, FloorSound
<1> HIDE DEF g
<1>7. /\ DOMAIN g.calls = 1..(m + 1) /\ DOMAIN f.calls = 1..m /\ Len(g.calls) = m + 1
      /\ g.calls[m + 1] = call /\ \A i \in 1..m : g.calls[i] = f.calls[i]
  BY <1>1, <1>4, <1>6
<1>8. OpenSound(g)
  BY <1>1, <1>6 DEF OpenSound, FloorSound
<1>9. \A i \in 1..m : f.calls[i].round = f.round => f.calls[i].who # p
  <2>1. ASSUME NEW i \in 1..m, f.calls[i].round = f.round, f.calls[i].who = p
        PROVE  FALSE
    <3>1. PICK k \in 1..f.index : f.who[k] = p
      BY <1>7, <2>1 DEF FloorSound, CalledSound
    <3>2. k \in DOMAIN f.who /\ k # f.index + 1
      BY <1>1
    <3> QED
      BY <1>2, <3>1, <3>2 DEF FloorSound, OpenSound, p
  <2> QED
    BY <2>1
<1>10. CalledSound(g)
  <2>1. Len(g.calls) <= ask.n * (g.round - 1) + g.index
    <3>1. m <= ask.n * (f.round - 1) + f.index /\ ask.n * (f.round - 1) \in Nat
      <4>1. ask.n \in Nat /\ f.round - 1 \in Nat
        BY <1>1 DEF AskSound
      <4> QED
        BY <4>1, OneRoundMore DEF FloorSound, CalledSound
    <3> QED
      BY <1>1, <1>6, <1>7, <3>1
  <2>2. ASSUME NEW i \in 1..(m + 1)
        PROVE  /\ g.calls[i].round <= g.round
               /\ g.calls[i].round = g.round => \E k \in 1..g.index : g.who[k] = g.calls[i].who
    <3>1. CASE i = m + 1
      <4>1. g.calls[i] = call /\ g.index \in 1..g.index /\ g.who[g.index] = p
        BY <1>1, <1>6, <1>7, <3>1 DEF p
      <4> QED
        BY <1>1, <1>4, <1>6, <4>1
    <3>2. CASE i # m + 1
      <4>1. i \in 1..m /\ g.calls[i] = f.calls[i]
        BY <1>1, <1>7, <3>2
      <4>2. /\ f.calls[i].round <= f.round
            /\ f.calls[i].round = f.round => \E k \in 1..f.index : f.who[k] = f.calls[i].who
        BY <1>7, <4>1 DEF FloorSound, CalledSound
      <4>3. 1..f.index \subseteq 1..g.index
        BY <1>1, <1>6
      <4> QED
        BY <1>6, <4>1, <4>2, <4>3
    <3> QED
      BY <3>1, <3>2
  <2>3. ASSUME NEW k \in 1..g.index
        PROVE  \E i \in 1..(m + 1) : g.calls[i].who = g.who[k]
    <3>1. CASE k = f.index + 1
      <4>1. g.calls[m + 1].who = g.who[k]
        BY <1>4, <1>6, <1>7, <3>1 DEF p
      <4> QED
        BY <1>1, <4>1
    <3>2. CASE k # f.index + 1
      <4>1. k \in 1..f.index
        BY <1>1, <1>6, <3>2
      <4>2. PICK i \in 1..m : f.calls[i].who = f.who[k]
        BY <1>7, <4>1 DEF FloorSound, CalledSound
      <4>3. g.calls[i] = f.calls[i] /\ g.who[k] = f.who[k] /\ i \in 1..(m + 1)
        BY <1>1, <1>6, <1>7
      <4> QED
        BY <4>2, <4>3
    <3> QED
      BY <3>1, <3>2
  <2>4. ASSUME g.round > 1, NEW q \in People
        PROVE  \E i \in 1..(m + 1) : g.calls[i].who = q
    <3>1. PICK i \in 1..m : f.calls[i].who = q
      BY <1>6, <1>7, <2>4 DEF FloorSound, CalledSound
    <3> QED
      BY <1>1, <1>7, <3>1
  <2> QED
    BY <1>7, <2>1, <2>2, <2>3, <2>4 DEF CalledSound
<1>11. f.round = 1 <=> ~f.speakers[p].spoke
  <2>1. f.speakers[p].spoke <=> \E i \in 1..m : f.calls[i].who = p
    <3>1. DOMAIN h = 1..m
      BY <1>1 DEF VoicesSound
    <3>2. \A i \in 1..m : h[i].who = f.calls[i].who
      BY <3>1 DEF VoicesSound
    <3> QED
      BY <1>2, <3>1, <3>2 DEF VoicesSound
  <2>2. ASSUME f.round = 1, NEW i \in 1..m
        PROVE  f.calls[i].who # p
    <3>1. f.calls[i].round = f.round
      <4>1. f.calls[i] \in CallRecords /\ f.calls[i].round <= f.round
        BY <1>1, <1>7 DEF FloorSound, CalledSound
      <4> QED
        BY <2>2, <4>1 DEF CallRecords
    <3> QED
      BY <1>9, <3>1
  <2>3. ASSUME f.round # 1
        PROVE  \E i \in 1..m : f.calls[i].who = p
    <3>1. f.round > 1
      BY <1>1, <2>3
    <3> QED
      BY <1>2, <1>7, <3>1 DEF FloorSound, CalledSound
  <2> QED
    BY <2>1, <2>2, <2>3
<1>12. FairCalls(g.calls)
  <2>1. Len(g.calls) <= ask.calls
    <3>1. QueueTurns \in Nat \ {0} /\ ask.n * QueueTurns <= ask.calls
      BY BudgetFits
    <3>2. /\ f.round <= QueueTurns /\ f.index + 1 <= ask.n /\ ask.n \in Nat
          /\ m <= ask.n * (f.round - 1) + f.index
      <4>1. /\ f.round <= QueueTurns /\ Len(f.who) <= ask.n /\ ask.n \in Nat
            /\ m <= ask.n * (f.round - 1) + f.index
        BY <1>2 DEF FloorSound, OpenSound, CalledSound, AskSound
      <4>2. Len(f.who) \in Nat
        BY <1>1
      <4> QED
        BY <1>1, <4>1, <4>2
    <3>3. /\ ask.n * (f.round - 1) \in Nat
          /\ ask.n * ((f.round - 1) + 1) = ask.n * (f.round - 1) + ask.n
          /\ ask.n * f.round <= ask.n * QueueTurns
      <4>1. f.round - 1 \in Nat /\ (f.round - 1) + 1 = f.round
        BY <1>1
      <4> QED
        BY <1>1, <3>1, <3>2, <4>1, OneRoundMore
    <3>4. (f.round - 1) + 1 = f.round /\ ask.n * f.round \in Nat
      BY <1>1, <3>2, OneRoundMore
    <3>5. m + 1 <= ask.n * f.round
      BY <1>1, <3>2, <3>3, <3>4
    <3>6. ask.calls \in Int /\ ask.n * QueueTurns \in Nat
      BY <3>1, <3>2, OneRoundMore DEF AskSound
    <3> QED
      BY <1>1, <1>7, <3>1, <3>3, <3>4, <3>5, <3>6
  <2>2. ASSUME NEW i \in 1..(m + 1), NEW j \in 1..(m + 1), i < j
        PROVE  /\ <<g.calls[i].who, g.calls[i].round>> # <<g.calls[j].who, g.calls[j].round>>
               /\ g.calls[i].round <= g.calls[j].round
    <3>1. i \in 1..m /\ g.calls[i] = f.calls[i] /\ f.calls[i].round <= f.round
      <4>1. i \in 1..m
        BY <1>1, <2>2
      <4> QED
        BY <1>7, <4>1 DEF FloorSound, CalledSound
    <3>2. CASE j = m + 1
      BY <1>4, <1>7, <1>9, <3>1, <3>2
    <3>3. CASE j # m + 1
      <4>1. j \in 1..m /\ g.calls[j] = f.calls[j]
        BY <1>1, <1>7, <3>3
      <4>2. /\ <<f.calls[i].who, f.calls[i].round>> # <<f.calls[j].who, f.calls[j].round>>
            /\ f.calls[i].round <= f.calls[j].round
        <5>1. FairCalls(f.calls) /\ i \in DOMAIN f.calls /\ j \in DOMAIN f.calls /\ i # j
          BY <1>7, <2>2, <3>1, <4>1 DEF FloorSound
        <5> QED
          BY <2>2, <5>1 DEF FairCalls
      <4> QED
        BY <3>1, <4>1, <4>2
    <3> QED
      BY <3>2, <3>3
  <2>3. ASSUME NEW i \in 1..(m + 1), NEW j \in 1..(m + 1), i # j
        PROVE  <<g.calls[i].who, g.calls[i].round>> # <<g.calls[j].who, g.calls[j].round>>
    <3>1. i < j \/ j < i
      BY <2>3
    <3> QED
      BY <2>2, <3>1
  <2>4. ASSUME NEW i \in 1..(m + 1)
        PROVE  /\ g.calls[i].round > 1 =>
                    \A q \in People : \E j \in 1..(i - 1) : g.calls[j].who = q
               /\ g.calls[i].why = "initial" <=> g.calls[i].round = 1
    <3>1. CASE i = m + 1
      <4>1. g.calls[i] = call /\ i - 1 = m
        BY <1>1, <1>7, <3>1
      <4>2. ASSUME call.round > 1, NEW q \in People
            PROVE  \E j \in 1..m : g.calls[j].who = q
        <5>1. PICK j \in 1..m : f.calls[j].who = q
          BY <1>4, <1>7, <4>2 DEF FloorSound, CalledSound
        <5> QED
          BY <1>7, <5>1
      <4> QED
        BY <1>4, <1>11, <4>1, <4>2
    <3>2. CASE i # m + 1
      <4>1. i \in 1..m /\ g.calls[i] = f.calls[i]
        BY <1>1, <1>7, <3>2
      <4>2. \A j \in 1..(i - 1) : g.calls[j] = f.calls[j]
        BY <1>1, <1>7, <4>1
      <4>3. /\ f.calls[i].round > 1 =>
                 \A q \in People : \E j \in 1..(i - 1) : f.calls[j].who = q
            /\ f.calls[i].why = "initial" <=> f.calls[i].round = 1
        BY <1>7, <4>1 DEF FloorSound, FairCalls
      <4> QED
        BY <4>1, <4>2, <4>3
    <3> QED
      BY <3>1, <3>2
  <2> QED
    BY <1>7, <2>1, <2>2, <2>3, <2>4 DEF FairCalls
<1>13. VoicesSound(g, h)
  <2>1. \A i \in DOMAIN h : i \in 1..m
    BY <1>1 DEF VoicesSound
  <2> QED
    BY <1>1, <1>6, <1>7, <2>1 DEF VoicesSound
<1> QED
  BY <1>2, <1>5, <1>6, <1>8, <1>10, <1>12, <1>13 DEF FloorSound, p, g, call

\* A round that is out called everybody that it was open to.
LEMMA RoundOver ==
  ASSUME AskSound, NEW f, NEW h, FloorSound(f), VoicesSound(f, h), RoundIsOut(f)
  PROVE  LET g == NextRound(f)
         IN  /\ FloorSound(g) /\ VoicesSound(g, h) /\ g.calls = f.calls
             /\ g.who = <<>> /\ g.round = f.round + 1 /\ g.speakers = f.speakers
<1> DEFINE g == NextRound(f)
<1>1. /\ f.round \in Nat /\ f.round > 0 /\ f.who \in Seq(People) /\ f.index \in Nat
      /\ f.calls \in Seq(CallRecords) /\ Len(f.calls) \in Nat /\ ask.n \in Nat
  BY FloorFacts DEF FloorSound, AskSound
<1>2. FloorType(g)
  <2>1. f.round + 1 \in Nat \ {0} /\ <<>> \in Seq(People) /\ 0 \in Nat
    BY <1>1
  <2> QED
    BY <2>1, Zenon DEF FloorType, FloorSound, NextRound
<1>3. /\ g.calls = f.calls /\ g.index = 0 /\ g.round = f.round + 1 /\ g.who = <<>>
      /\ g.speakers = f.speakers /\ g.checks = f.checks
  BY DEF FloorType, FloorSound, NextRound
<1> HIDE DEF g
<1>4. OpenSound(g)
  BY <1>1, <1>3 DEF OpenSound
<1>5. f.who # <<>> /\ f.index = Len(f.who) /\ f.index <= ask.n
  BY <1>1 DEF RoundIsOut, FloorSound, OpenSound
<1>6. \A p \in People : \E i \in DOMAIN f.calls : f.calls[i].who = p
  <2>1. CASE f.round = 1
    <3>1. ASSUME NEW p \in People
          PROVE  \E i \in DOMAIN f.calls : f.calls[i].who = p
      <4>1. PICK k \in DOMAIN f.who : f.who[k] = p
        BY <1>5, <2>1 DEF FloorSound, OpenSound
      <4>2. k \in 1..f.index
        BY <1>1, <1>5
      <4> QED
        BY <4>1, <4>2 DEF FloorSound, CalledSound
    <3> QED
      BY <3>1
  <2>2. CASE f.round # 1
    BY <1>1, <2>2 DEF FloorSound, CalledSound
  <2> QED
    BY <2>1, <2>2
<1>7. CalledSound(g)
  <2>1. Len(f.calls) <= ask.n * f.round
    <3>1. f.round - 1 \in Nat /\ (f.round - 1) + 1 = f.round
      BY <1>1
    <3>2. /\ ask.n * (f.round - 1) \in Nat
          /\ ask.n * ((f.round - 1) + 1) = ask.n * (f.round - 1) + ask.n
      BY <1>1, <3>1, OneRoundMore
    <3>3. Len(f.calls) <= ask.n * (f.round - 1) + f.index
      BY DEF FloorSound, CalledSound
    <3> QED
      BY <1>1, <1>5, <3>1, <3>2, <3>3
  <2>2. ask.n * (g.round - 1) + g.index = ask.n * f.round
    <3>1. g.round - 1 = f.round
      BY <1>1, <1>3
    <3>2. ask.n * f.round \in Nat
      BY <1>1, OneRoundMore
    <3> QED
      BY <1>3, <3>1, <3>2
  <2>3. \A i \in DOMAIN f.calls : f.calls[i].round <= f.round /\ f.calls[i].round \in Nat
    <3>1. \A i \in DOMAIN f.calls : f.calls[i] \in CallRecords
      BY <1>1
    <3>2. \A i \in DOMAIN f.calls : f.calls[i].round <= f.round
      BY DEF FloorSound, CalledSound
    <3> QED
      BY <3>1, <3>2 DEF CallRecords
  <2>4. \A i \in DOMAIN f.calls : f.calls[i].round <= g.round /\ f.calls[i].round # g.round
    BY <1>1, <1>3, <2>3
  <2> QED
    BY <1>3, <1>6, <2>1, <2>2, <2>4 DEF CalledSound
<1>8. VoicesSound(g, h)
  BY <1>3 DEF VoicesSound
<1> QED
  BY <1>2, <1>3, <1>4, <1>7, <1>8 DEF FloorSound, g

\* The first of the two reasons not to call anybody, or the next call.
LEMMA NextHookSound ==
  ASSUME AskSound, Acceptable, NEW f, NEW h, FloorSound(f), VoicesSound(f, h),
         Len(h) = Len(f.calls), ~RoundIsOut(f)
  PROVE  LET g == WithNextHook(f, Len(h))
         IN  /\ FloorSound(g) /\ VoicesSound(g, h) /\ ~RoundIsOut(g)
             /\ \/ Len(g.calls) = Len(h) + 1
                \/ /\ g = f
                   /\ \A p \in People : \E i \in DOMAIN h : h[i].who = p
<1> DEFINE g == WithNextHook(f, Len(h))
<1>1. /\ f.round \in Nat /\ f.round > 0 /\ f.who \in Seq(People) /\ f.index \in Nat
      /\ f.calls \in Seq(CallRecords) /\ h \in Seq(Contributions) /\ Len(h) \in Nat
      /\ QueueTurns \in Nat /\ QueueTurns > 0
  BY FloorFacts, BudgetFits DEF FloorSound, VoicesSound
<1>2. ask.n \in Nat /\ ask.n > 0
  BY DEF AskSound
<1>3. CASE Len(h) >= ask.n * QueueTurns \/ f.round > QueueTurns
  <2>1. g = f
    BY <1>3 DEF WithNextHook
  <2>2. f.round > 1
    <3>1. ASSUME f.round = 1
          PROVE  FALSE
      <4>1. Len(h) >= ask.n * QueueTurns
        BY <1>1, <1>3, <3>1
      <4>2. ask.n * 1 <= ask.n * QueueTurns /\ ask.n * 1 = ask.n /\ ask.n * QueueTurns \in Nat
        <5>1. ask.n * 1 <= ask.n * QueueTurns /\ ask.n * QueueTurns \in Nat
          <6>1. 1 \in Nat /\ 1 <= QueueTurns
            BY <1>1
          <6> QED
            BY <1>1, <1>2, <6>1, OneRoundMore
        <5>2. ask.n * 1 = ask.n
          BY <1>2
        <5> QED
          BY <5>1, <5>2
      <4>3. Len(h) <= ask.n * (1 - 1) + f.index
        BY <3>1 DEF FloorSound, CalledSound
      <4>4. ask.n * (1 - 1) = 0
        BY <1>2
      <4>5. Len(h) <= f.index /\ ask.n <= Len(h)
        BY <1>1, <1>2, <4>1, <4>2, <4>3, <4>4
      <4>6. f.index <= Len(f.who) /\ Len(f.who) <= ask.n /\ Len(f.who) \in Nat
        BY <1>1 DEF FloorSound, OpenSound
      <4>7. f.index >= Len(f.who) /\ Len(f.who) > 0
        BY <1>1, <1>2, <4>5, <4>6
      <4> QED
        BY <1>1, <4>7 DEF RoundIsOut
    <3> QED
      BY <1>1, <3>1
  <2>3. \A p \in People : \E i \in DOMAIN h : h[i].who = p
    <3>1. DOMAIN h = DOMAIN f.calls
      BY <1>1
    <3>2. \A i \in DOMAIN h : h[i].who = f.calls[i].who
      BY DEF VoicesSound
    <3> QED
      BY <2>2, <3>1, <3>2 DEF FloorSound, CalledSound
  <2> QED
    BY <2>1, <2>3
<1>4. CASE ~(Len(h) >= ask.n * QueueTurns \/ f.round > QueueTurns)
  <2> DEFINE open == Opened(f)
             called == WithCall(open, open.who[open.index + 1])
  <2>1. g = IF RoundIsOut(called) THEN NextRound(called) ELSE called
    BY <1>4 DEF WithNextHook
  <2>2. /\ FloorSound(open) /\ VoicesSound(open, h) /\ open.calls = f.calls
        /\ open.index < Len(open.who)
    <3>1. f.round <= QueueTurns
      BY <1>1, <1>4
    <3>2. /\ FloorSound(open) /\ VoicesSound(open, h) /\ open.calls = f.calls
          /\ open.who # <<>>
          /\ f.who = <<>> => open.index = 0
          /\ f.who # <<>> => open = f
      BY <3>1, OpenedSound
    <3> HIDE DEF open
    <3>3. open.who \in Seq(People) /\ open.index \in Nat
      BY <3>2, FloorFacts DEF FloorSound
    <3>4. open.index < Len(open.who)
      <4>1. CASE f.who = <<>>
        <5>1. open.index = 0 /\ open.who # <<>> /\ Len(open.who) \in Nat
          BY <3>2, <3>3, <4>1
        <5>2. Len(open.who) # 0
          BY <3>3, <5>1
        <5> QED
          BY <5>1, <5>2
      <4>2. CASE f.who # <<>>
        BY <3>2, <3>3, <4>2 DEF RoundIsOut
      <4> QED
        BY <4>1, <4>2
    <3> QED
      BY <3>2, <3>4
  <2> HIDE DEF open
  <2>3. /\ FloorSound(called) /\ VoicesSound(called, h) /\ Len(called.calls) = Len(h) + 1
    <3> DEFINE p == open.who[open.index + 1]
    <3>1. /\ FloorSound(called) /\ VoicesSound(called, h)
          /\ called.calls = Append(open.calls, Hook(open, p))
      BY <2>2, CallSound
    <3> QED
      BY <1>1, <2>2, <3>1
  <2> HIDE DEF called
  <2>4. CASE RoundIsOut(called)
    <3> DEFINE next == NextRound(called)
    <3>1. FloorSound(next) /\ VoicesSound(next, h) /\ next.calls = called.calls /\ next.who = <<>>
      BY <2>3, <2>4, RoundOver
    <3> HIDE DEF next
    <3>2. g = next
      BY <2>1, <2>4 DEF next
    <3> HIDE DEF g
    <3>3. ~RoundIsOut(g)
      BY <3>1, <3>2 DEF RoundIsOut
    <3>4. FloorSound(g) /\ VoicesSound(g, h) /\ Len(g.calls) = Len(h) + 1
      BY <2>3, <3>1, <3>2
    <3> QED
      BY <3>3, <3>4 DEF g
  <2>5. CASE ~RoundIsOut(called)
    BY <2>1, <2>3, <2>5
  <2> QED
    BY <2>4, <2>5
<1> QED
  BY <1>3, <1>4

\* An answer moves its speaker, and the checks that it gives rise to are about it.
LEMMA HeardSound ==
  ASSUME AskSound, NEW f, NEW h, FloorSound(f), VoicesSound(f, h), NEW output \in Contributions,
         Len(f.calls) = Len(h) + 1, output.who = f.calls[Len(f.calls)].who
  PROVE  LET g == Heard(f, output)
         IN  /\ FloorSound(g) /\ VoicesSound(g, Append(h, output)) /\ g.calls = f.calls
             /\ g.who = f.who /\ g.index = f.index /\ g.round = f.round
<1> DEFINE g == Heard(f, output)
           p == output.who
           m == Len(f.calls)
           told == [turns |-> f.speakers[p].turns + 1, spoke |-> TRUE,
                    objections |-> f.speakers[p].objections \cup output.objections,
                    questions |-> f.speakers[p].questions \cup output.questions]
<1>1. /\ f.calls \in Seq(CallRecords) /\ h \in Seq(Contributions) /\ p \in People
      /\ f.speakers \in [People -> SpeakerStates] /\ f.speakers[p] \in SpeakerStates
      /\ output.objections \in Items /\ output.questions \in Items
  BY FloorFacts DEF FloorSound, VoicesSound, Contributions
<1>2. told \in SpeakerStates
  <2>1. /\ f.speakers[p].turns \in Nat /\ f.speakers[p].objections \in Items
        /\ f.speakers[p].questions \in Items
    BY <1>1 DEF SpeakerStates
  <2>2. /\ f.speakers[p].objections \cup output.objections \in Items
        /\ f.speakers[p].questions \cup output.questions \in Items
    BY <1>1, <2>1 DEF Items
  <2>3. f.speakers[p].turns + 1 \in Nat
    BY <2>1
  <2> QED
    BY <2>2, <2>3 DEF SpeakerStates
<1> HIDE DEF p
<1>3. g = [f EXCEPT !.speakers[p] = told]
  BY DEF Heard, p
<1>4. told.spoke
  OBVIOUS
<1> HIDE DEF told
<1>5. /\ g.speakers = [f.speakers EXCEPT ![p] = told] /\ g.checks = f.checks
      /\ g.calls = f.calls /\ g.who = f.who /\ g.index = f.index /\ g.round = f.round
  BY <1>3 DEF FloorSound, FloorType
<1>6. FloorType(g)
  <2>1. [f.speakers EXCEPT ![p] = told] \in [People -> SpeakerStates]
    BY <1>1, <1>2
  <2>2. g = [f EXCEPT !.speakers = [f.speakers EXCEPT ![p] = told]]
    BY <1>3
  <2> QED
    BY <2>1, <2>2, Zenon DEF FloorSound, FloorType
<1> HIDE DEF g
<1>7. FloorSound(g)
  BY <1>5, <1>6 DEF FloorSound, OpenSound, CalledSound
<1>8. VoicesSound(g, Append(h, output))
  <2> DEFINE a == Append(h, output)
  <2>1. /\ a \in Seq(Contributions) /\ Len(a) = m /\ DOMAIN h = 1..(m - 1) /\ DOMAIN a = 1..m
        /\ a[m] = output /\ \A i \in 1..(m - 1) : a[i] = h[i]
    BY <1>1
  <2>2. m \in Nat /\ m \in 1..m /\ 1..m = 1..(m - 1) \cup {m}
    BY <1>1
  <2> HIDE DEF a
  <2>3. \A i \in 1..m : a[i].who = f.calls[i].who
    <3>1. \A i \in 1..(m - 1) : a[i].who = f.calls[i].who
      BY <2>1 DEF VoicesSound
    <3>2. a[m].who = f.calls[m].who
      BY <2>1
    <3> QED
      BY <2>2, <3>1, <3>2
  <2>4. ASSUME NEW q \in People
        PROVE  /\ (\E i \in 1..m : a[i].who = q) => g.speakers[q].spoke
               /\ g.speakers[q].spoke => \E i \in 1..m : a[i].who = q
               /\ ~g.speakers[q].spoke =>
                    /\ g.speakers[q].objections = {} /\ g.speakers[q].questions = {}
                    /\ \A check \in g.checks : check.who # q
    <3>1. CASE q = p
      <4>1. g.speakers[q] = told /\ a[m].who = q
        BY <1>1, <1>5, <2>1, <3>1 DEF p
      <4> QED
        BY <1>4, <2>2, <4>1
    <3>2. CASE q # p
      <4>1. g.speakers[q] = f.speakers[q] /\ a[m].who # q
        BY <1>1, <1>5, <2>1, <3>2 DEF p
      <4>2. (\E i \in 1..m : a[i].who = q) <=> \E i \in 1..(m - 1) : h[i].who = q
        BY <2>1, <2>2, <4>1
      <4> QED
        BY <1>5, <2>1, <4>1, <4>2 DEF VoicesSound
    <3> QED
      BY <3>1, <3>2
  <2>5. Len(g.calls) = m /\ g.calls = f.calls
    BY <1>5
  <2> QED
    BY <2>1, <2>2, <2>3, <2>4, <2>5 DEF VoicesSound, a
<1> QED
  BY <1>5, <1>7, <1>8 DEF g

LEMMA CheckedSound ==
  ASSUME AskSound, NEW f, NEW h, FloorSound(f), VoicesSound(f, h), NEW round \in Nat \ {0},
         NEW outputs, \A o \in outputs : o \in Contributions /\ \E i \in DOMAIN h : h[i] = o
  PROVE  LET g == Checked(f, round, outputs)
         IN  /\ FloorSound(g) /\ VoicesSound(g, h) /\ g.calls = f.calls
             /\ g.who = f.who /\ g.index = f.index /\ g.round = f.round
<1> DEFINE g == Checked(f, round, outputs)
           new == {[who |-> o.who, round |-> round, status |-> "recommended"] :
                     o \in {x \in outputs : x.uncertain \/ x.risky}}
<1>1. g = [f EXCEPT !.checks = f.checks \cup new]
  BY DEF Checked
<1>2. new \subseteq Checks /\ \A c \in new : \E o \in outputs : c.who = o.who
  <2>1. \A o \in outputs : o.who \in People
    BY DEF Contributions
  <2> QED
    BY <2>1 DEF Checks
<1> HIDE DEF new
<1>3. FloorType(g)
  <2>1. f.checks \cup new \in SUBSET Checks
    BY <1>2, FloorFacts DEF FloorSound
  <2> QED
    BY <1>1, <2>1, Zenon DEF FloorSound, FloorType
<1>4. /\ g.checks = f.checks \cup new /\ g.speakers = f.speakers
      /\ g.calls = f.calls /\ g.who = f.who /\ g.index = f.index /\ g.round = f.round
  BY <1>1 DEF FloorSound, FloorType
<1> HIDE DEF g
<1>5. FloorSound(g)
  BY <1>3, <1>4 DEF FloorSound, OpenSound, CalledSound
<1>6. \A c \in new : \E i \in DOMAIN h : h[i].who = c.who
  BY <1>2
<1>7. VoicesSound(g, h)
  <2>1. \A p \in People : ~f.speakers[p].spoke => \A c \in new : c.who # p
    BY <1>6 DEF VoicesSound
  <2> QED
    BY <1>4, <2>1 DEF VoicesSound
<1> QED
  BY <1>4, <1>5, <1>7 DEF g

LEMMA AskKept ==
  ASSUME ask' = ask
  PROVE  /\ People' = People /\ QueueTurns' = QueueTurns /\ Contributions' = Contributions
         /\ \A f : FloorSound(f)' <=> FloorSound(f)
         /\ \A f, h : VoicesSound(f, h)' <=> VoicesSound(f, h)
<1>1. People' = People /\ QueueTurns' = QueueTurns
  BY DEF People, QueueTurns
<1>2. SpeakerStates' = SpeakerStates /\ CallRecords' = CallRecords /\ Checks' = Checks
  BY <1>1 DEF SpeakerStates, CallRecords, Checks
<1>3. Contributions' = Contributions
  BY <1>1 DEF Contributions
<1>4. ASSUME NEW f
      PROVE  FloorSound(f)' <=> FloorSound(f)
  <2>1. FloorType(f)' <=> FloorType(f)
    BY <1>1, <1>2 DEF FloorType
  <2>2. OpenSound(f)' <=> OpenSound(f)
    BY <1>1 DEF OpenSound
  <2>3. CalledSound(f)' <=> CalledSound(f)
    BY <1>1 DEF CalledSound
  <2>4. FairCalls(f.calls)' <=> FairCalls(f.calls)
    BY <1>1 DEF FairCalls
  <2> QED
    BY <2>1, <2>2, <2>3, <2>4 DEF FloorSound
<1>5. ASSUME NEW f, NEW h
      PROVE  VoicesSound(f, h)' <=> VoicesSound(f, h)
  BY <1>1, <1>3 DEF VoicesSound
<1> QED
  BY <1>1, <1>3, <1>4, <1>5

------------------------------------------------------------------------------
(* Runs: the inductive invariant, in parts. *)

Stages ==
  {"start", "refused", "manager", "seats", "rounds", "close", "report", "register", "tell",
   "mark", "done", "dead"}
Packages ==
  [report : {"none", "low", "medium"},
   status : {"none", "awaiting_prep_review", "awaiting_callback", "awaiting_author_review"},
   marked : BOOLEAN, partial : BOOLEAN,
   says : {"none", "deterministic_mock", "external_confirmed", "external_waiting"}]

CommandType ==
  /\ AskSound /\ stage \in Stages /\ package \in Packages /\ submitted \in Nat
  /\ retries \in Nat
  /\ seats \in [0..ask.n -> {"none", "active", "closed", "awaiting_author_review"}]

Untouched == floor = EmptyFloor /\ heard = <<>>

\* Where the command is tells what was done.
StageSound ==
  /\ stage \notin {"start", "refused"} => Acceptable
  /\ package.status # "none" => stage \in {"tell", "mark", "done", "dead"}
  /\ stage \in {"start", "refused", "manager", "seats"} => Untouched
  /\ ask.mode # "local" /\ package.status \in {"none", "awaiting_prep_review"} =>
       Untouched /\ retries = 0
  /\ stage \in {"rounds", "close", "report"} => ask.mode = "local"
  /\ ask.mode = "local" => package.status \in {"none", "awaiting_author_review"}
  /\ ask.mode = "local" /\ stage \in {"close", "report", "register"} =>
       floor.round > QueueTurns /\ floor.who = <<>>

\* Every call but the one that is waited for has its answer, or else the run is partial;
\* and no call waits that was rejected up to the retry limit.
FloorKept ==
  /\ FloorSound(floor) /\ VoicesSound(floor, heard)
  /\ package.partial => package.status = "awaiting_author_review"
  /\ IF package.status = "awaiting_callback"
       THEN Len(floor.calls) = Len(heard) + 1 /\ ~RoundIsOut(floor) /\ retries < RetryLimit
       ELSE IF package.partial
       THEN Len(floor.calls) = Len(heard) + 1
       ELSE Len(floor.calls) = Len(heard)

\* Sessions are opened, and closed, one after the other; then the report is written.
SeatsSound ==
  /\ stage \in {"start", "manager", "seats"} => \A p \in People : seats[p] \in {"none", "active"}
  /\ stage = "rounds" => \A p \in People : seats[p] = "active"
  /\ stage = "close" => \A p \in People : seats[p] \in {"active", "closed"}
  /\ ask.mode = "local" /\ stage \in {"report", "register"} => \A p \in People : seats[p] = "closed"
  /\ ask.mode = "local" /\ stage = "register" =>
       package.report # "none" /\ (NeedsAuthor => package.report = "medium")

ScriptInv == CommandType /\ StageSound /\ FloorKept /\ SeatsSound /\ ReviewIsWhole

LEMMA EmptySound ==
  ASSUME AskSound
  PROVE  FloorSound(EmptyFloor) /\ VoicesSound(EmptyFloor, <<>>) /\ ~RoundIsOut(EmptyFloor)
<1> DEFINE e == EmptyFloor
           quiet == [turns |-> 0, spoke |-> FALSE, objections |-> {}, questions |-> {}]
<1>1. /\ e.speakers = [p \in People |-> quiet] /\ e.checks = {} /\ e.round = 1 /\ e.who = <<>>
      /\ e.index = 0 /\ e.calls = <<>>
  BY DEF EmptyFloor
<1>2. quiet \in SpeakerStates
  BY DEF SpeakerStates, Items
<1>3. FloorType(e)
  BY <1>2 DEF FloorType, EmptyFloor
<1>4. \A p \in People : e.speakers[p] = quiet
  BY <1>1
<1> HIDE DEF e
<1>5. OpenSound(e)
  BY <1>1 DEF OpenSound, AskSound
<1>6. ask.n * (1 - 1) + 0 = 0
  BY DEF AskSound
<1>7. CalledSound(e) /\ FairCalls(e.calls)
  BY <1>1, <1>6 DEF CalledSound, FairCalls
<1>8. VoicesSound(e, <<>>)
  BY <1>1, <1>4 DEF VoicesSound
<1> QED
  BY <1>1, <1>3, <1>5, <1>7, <1>8 DEF FloorSound, RoundIsOut, e

LEMMA ScriptStarts == ScriptInit => ScriptInv
<1> SUFFICES ASSUME ScriptInit
             PROVE  ScriptInv
  OBVIOUS
<1>1. AskSound
  BY AsksAssumption DEF ScriptInit, AskSound
<1>2. CommandType
  BY <1>1 DEF ScriptInit, CommandType, Stages, Packages
<1>3. FloorKept
  BY <1>1, EmptySound DEF ScriptInit, FloorKept, EmptyFloor
<1>4. StageSound /\ SeatsSound /\ ReviewIsWhole
  BY DEF ScriptInit, StageSound, SeatsSound, ReviewIsWhole, Untouched, People
<1> QED
  BY <1>2, <1>3, <1>4 DEF ScriptInv

\* What a step of the command that leaves the floor and the arguments alone keeps.
LEMMA FloorLeft ==
  ASSUME ScriptInv, ask' = ask, floor' = floor, heard' = heard
  PROVE  /\ FloorSound(floor)' /\ VoicesSound(floor, heard)'
         /\ /\ package'.status = package.status /\ package'.partial = package.partial
            /\ retries' = retries
            => FloorKept'
         /\ (Untouched => Untouched') /\ AskSound' /\ People' = People
         /\ QueueTurns' = QueueTurns /\ Acceptable' = Acceptable /\ NeedsAuthor' = NeedsAuthor
<1>1. FloorSound(floor)' /\ VoicesSound(floor, heard)' /\ People' = People
  BY AskKept DEF ScriptInv, FloorKept
<1>2. RoundIsOut(floor)' <=> RoundIsOut(floor)
  BY DEF RoundIsOut
<1>3. EmptyFloor' = EmptyFloor
  BY <1>1 DEF EmptyFloor
<1> QED
  BY <1>1, <1>2, <1>3, AskKept
  DEF ScriptInv, FloorKept, Untouched, AskSound, CommandType, Acceptable, NeedsAuthor,
      BudgetExhausted

------------------------------------------------------------------------------
(* The steps that leave the floor alone *)

LEMMA QuietSteps ==
  ASSUME ScriptInv,
         \/ CheckArguments \/ OpenManager \/ Synthesize \/ FileReport \/ Tell \/ Mark \/ Die
         \/ \E p \in People : Seat(p) \/ CloseSeat(p)
  PROVE  ScriptInv'
<1>1. /\ ask' = ask /\ floor' = floor /\ heard' = heard /\ submitted' = submitted
      /\ package'.status = package.status /\ package'.partial = package.partial
      /\ retries' = retries
  BY DEF CheckArguments, OpenManager, Synthesize, FileReport, Tell, Mark, Die, Seat, CloseSeat,
         Done, ScriptInv, CommandType, Packages
<1>2. /\ FloorKept' /\ (Untouched => Untouched') /\ AskSound' /\ People' = People
      /\ QueueTurns' = QueueTurns /\ Acceptable' = Acceptable /\ NeedsAuthor' = NeedsAuthor
      /\ ask.n \in Nat \ {0} /\ 1..ask.n \subseteq 0..ask.n
      /\ seats \in [0..ask.n -> {"none", "active", "closed", "awaiting_author_review"}]
      /\ package \in Packages /\ stage \in Stages /\ AskSound
  BY <1>1, FloorLeft DEF ScriptInv, CommandType, AskSound
<1>3. CASE CheckArguments
  BY <1>1, <1>2, <1>3
  DEF ScriptInv, CheckArguments, Go, CommandType, StageSound, SeatsSound, ReviewIsWhole, Stages,
      ToldMode
<1>4. CASE OpenManager
  <2>1. CommandType' /\ StageSound' /\ ReviewIsWhole'
    BY <1>1, <1>2, <1>4
    DEF ScriptInv, OpenManager, Go, CommandType, StageSound, ReviewIsWhole, Stages, ToldMode
  <2>2. SeatsSound'
    BY <1>1, <1>2, <1>4 DEF ScriptInv, OpenManager, Go, SeatsSound, People
  <2> QED
    BY <1>2, <2>1, <2>2 DEF ScriptInv
<1>5. CASE Synthesize
  <2>1. floor.round > QueueTurns /\ floor.who = <<>> /\ floor.round \in Nat /\ QueueTurns \in Nat
    BY <1>2, <1>5, FloorFacts, BudgetFits
    DEF Synthesize, Go, ScriptInv, FloorKept, FloorSound, OpenSound, StageSound
  <2> QED
    BY <1>1, <1>2, <1>5, <2>1
    DEF ScriptInv, Synthesize, Go, CommandType, StageSound, SeatsSound, ReviewIsWhole, Stages,
        ToldMode
<1>6. CASE FileReport
  <2>1. package' = [package EXCEPT !.report = IF NeedsAuthor THEN "medium" ELSE "low"]
    BY <1>6 DEF FileReport
  <2>2. package' \in Packages /\ package'.report = IF NeedsAuthor THEN "medium" ELSE "low"
    BY <1>2, <2>1 DEF Packages
  <2> QED
    BY <1>1, <1>2, <1>6, <2>2
    DEF ScriptInv, FileReport, Go, CommandType, StageSound, SeatsSound, ReviewIsWhole, Stages,
        ToldMode
<1>7. CASE Tell
  <2>1. seats' \in [0..ask.n -> {"none", "active", "closed", "awaiting_author_review"}]
    BY <1>2, <1>7 DEF Tell
  <2>2. \A p \in People : seats'[p] = seats[p]
    BY <1>2, <1>7 DEF Tell, People
  <2> QED
    BY <1>1, <1>2, <1>7, <2>1, <2>2
    DEF ScriptInv, Tell, Go, CommandType, StageSound, SeatsSound, ReviewIsWhole, Stages, ToldMode
<1>8. CASE Mark
  <2>1. package' = [package EXCEPT !.marked = @ \/ ask.mode = "local"]
    BY <1>8 DEF Mark
  <2>2. /\ package' \in Packages /\ package'.report = package.report
        /\ package'.says = package.says
    BY <1>2, <2>1 DEF Packages
  <2> QED
    BY <1>1, <1>2, <1>8, <2>2
    DEF ScriptInv, Mark, Go, CommandType, StageSound, SeatsSound, ReviewIsWhole, Stages, ToldMode
<1>9. CASE Die
  BY <1>1, <1>2, <1>9
  DEF ScriptInv, Die, CommandType, StageSound, SeatsSound, ReviewIsWhole, Stages, ToldMode
<1>10. ASSUME NEW p \in People, Seat(p)
       PROVE  ScriptInv'
  <2>1. /\ seats' = [seats EXCEPT ![p] = "active"] /\ package' = package /\ stage = "seats"
        /\ stage' = IF p < ask.n THEN "seats"
                    ELSE IF ask.mode = "local" THEN "rounds" ELSE "register"
        /\ \A q \in People : (seats[q] = "none") = (q >= p)
    BY <1>10 DEF Seat, Go
  <2>2. CommandType' /\ StageSound' /\ ReviewIsWhole'
    BY <1>1, <1>2, <2>1
    DEF ScriptInv, CommandType, StageSound, ReviewIsWhole, Stages, ToldMode
  <2>3. \A q \in People : /\ seats[q] \in {"none", "active"}
                         /\ seats'[q] = IF q = p THEN "active" ELSE seats[q]
    BY <1>2, <2>1 DEF ScriptInv, SeatsSound, People
  <2>4. ~(p < ask.n) => \A q \in People : seats'[q] = "active"
    BY <1>2, <2>1, <2>3 DEF People
  <2>5. SeatsSound'
    BY <1>1, <1>2, <2>1, <2>3, <2>4 DEF SeatsSound
  <2> QED
    BY <1>2, <2>2, <2>5 DEF ScriptInv
<1>11. ASSUME NEW p \in People, CloseSeat(p)
       PROVE  ScriptInv'
  <2>1. /\ seats' = [seats EXCEPT ![p] = "closed"] /\ package' = package /\ stage = "close"
        /\ stage' = IF p < ask.n THEN "close" ELSE "report"
        /\ \A q \in People : (seats[q] = "active") = (q >= p)
    BY <1>11 DEF CloseSeat, Go
  <2>2. CommandType' /\ StageSound' /\ ReviewIsWhole'
    BY <1>1, <1>2, <2>1
    DEF ScriptInv, CommandType, StageSound, ReviewIsWhole, Stages, ToldMode
  <2>3. \A q \in People : /\ seats[q] \in {"active", "closed"}
                         /\ seats'[q] = IF q = p THEN "closed" ELSE seats[q]
    BY <1>2, <2>1 DEF ScriptInv, SeatsSound, People
  <2>4. ~(p < ask.n) => \A q \in People : seats'[q] = "closed"
    BY <1>2, <2>1, <2>3 DEF People
  <2>5. SeatsSound'
    BY <1>1, <1>2, <2>1, <2>3, <2>4 DEF SeatsSound
  <2> QED
    BY <1>2, <2>2, <2>5 DEF ScriptInv
<1> QED
  BY <1>3, <1>4, <1>5, <1>6, <1>7, <1>8, <1>9, <1>10, <1>11

------------------------------------------------------------------------------
(* The rounds of a scripted run *)

LEMMA ScriptedFacts ==
  ASSUME ScriptInv, stage = "rounds"
  PROVE  /\ AskSound /\ Acceptable /\ ask.mode = "local" /\ package.status = "none"
         /\ FloorSound(floor) /\ VoicesSound(floor, heard) /\ Len(floor.calls) = Len(heard)
         /\ heard \in Seq(Contributions) /\ QueueTurns \in Nat
BY BudgetFits
DEF ScriptInv, CommandType, StageSound, FloorKept, VoicesSound, Packages

\* What a step of a round leaves, given its floor.
LEMMA RoundStep ==
  ASSUME ScriptInv, stage = "rounds", UNCHANGED <<ask, stage, seats, submitted, retries, package>>,
         FloorSound(floor'), VoicesSound(floor', heard'), Len(floor'.calls) = Len(heard')
  PROVE  ScriptInv'
<1>1. ask.mode = "local" /\ package.status = "none" /\ Acceptable /\ AskSound
  BY ScriptedFacts
<1>2. People' = People /\ FloorSound(floor)' /\ VoicesSound(floor, heard)'
  BY AskKept
<1>3. FloorKept'
  BY <1>1, <1>2 DEF ScriptInv, FloorKept
<1>4. CommandType'
  BY DEF ScriptInv, CommandType, AskSound
<1>5. StageSound'
  BY <1>1 DEF ScriptInv, StageSound, Acceptable
<1>6. SeatsSound'
  BY <1>2 DEF ScriptInv, SeatsSound
<1>7. ReviewIsWhole'
  BY <1>1 DEF ReviewIsWhole
<1> QED
  BY <1>3, <1>4, <1>5, <1>6, <1>7 DEF ScriptInv

LEMMA RoundSteps ==
  ASSUME ScriptInv, OpenRound \/ CallScripted \/ CloseRound
  PROVE  ScriptInv'
<1>1. stage = "rounds" /\ UNCHANGED <<ask, stage, seats, submitted, retries, package>>
  BY DEF OpenRound, CallScripted, CloseRound, Done
<1>2. /\ AskSound /\ Acceptable /\ ask.mode = "local" /\ package.status = "none"
      /\ FloorSound(floor) /\ VoicesSound(floor, heard) /\ Len(floor.calls) = Len(heard)
      /\ heard \in Seq(Contributions) /\ QueueTurns \in Nat
      /\ floor.who \in Seq(People) /\ floor.index \in Nat /\ floor.round \in Nat \ {0}
      /\ floor.calls \in Seq(CallRecords)
  BY <1>1, ScriptedFacts, FloorFacts DEF FloorSound
<1>3. CASE OpenRound
  <2>1. floor' = Opened(floor) /\ heard' = heard /\ floor.round <= QueueTurns
    BY <1>3 DEF OpenRound, Done
  <2>2. /\ FloorSound(Opened(floor)) /\ VoicesSound(Opened(floor), heard)
        /\ Opened(floor).calls = floor.calls
    BY <1>2, <2>1, OpenedSound
  <2> QED
    BY <1>1, <1>2, <2>1, <2>2, RoundStep
<1>4. CASE CallScripted
  <2> DEFINE p == floor.who[floor.index + 1]
             called == WithCall(floor, p)
             output == ScriptedOutput(p)
  <2>1. /\ floor.index < Len(floor.who)
        /\ floor' = Heard(called, output) /\ heard' = Append(heard, output)
    BY <1>4 DEF CallScripted
  <2>2. /\ p \in People /\ called.calls = Append(floor.calls, Hook(floor, p))
        /\ FloorSound(called) /\ VoicesSound(called, heard)
    BY <1>2, <2>1, CallSound
  <2>3. output \in Contributions /\ output.who = p
    BY <1>2, <2>2 DEF ScriptedOutput, Contributions, Items, AskSound
  <2>4. Hook(floor, p).who = p
    BY DEF Hook
  <2> HIDE DEF p, called, output
  <2>5. Len(called.calls) = Len(heard) + 1 /\ called.calls[Len(called.calls)].who = p
    BY <1>2, <2>2, <2>4
  <2>6. /\ FloorSound(floor') /\ VoicesSound(floor', heard') /\ floor'.calls = called.calls
    BY <1>2, <2>1, <2>2, <2>3, <2>5, HeardSound
  <2>7. Len(floor'.calls) = Len(heard')
    BY <1>2, <2>1, <2>3, <2>5, <2>6
  <2> QED
    BY <1>1, <2>6, <2>7, RoundStep
<1>5. CASE CloseRound
  <2> DEFINE outputs == {heard[i] : i \in {j \in DOMAIN heard : heard[j].round = floor.round}}
             checked == Checked(floor, floor.round, outputs)
  <2>1. RoundIsOut(floor) /\ floor' = NextRound(checked) /\ heard' = heard
    BY <1>5 DEF CloseRound, Done
  <2>2. \A o \in outputs : o \in Contributions /\ \E i \in DOMAIN heard : heard[i] = o
    BY <1>2
  <2> HIDE DEF outputs
  <2>3. /\ FloorSound(checked) /\ VoicesSound(checked, heard) /\ checked.calls = floor.calls
        /\ checked.who = floor.who /\ checked.index = floor.index
    BY <1>2, <2>2, CheckedSound
  <2> HIDE DEF checked
  <2>4. RoundIsOut(checked)
    BY <2>1, <2>3 DEF RoundIsOut
  <2>5. /\ FloorSound(NextRound(checked)) /\ VoicesSound(NextRound(checked), heard)
        /\ NextRound(checked).calls = checked.calls
    BY <1>2, <2>3, <2>4, RoundOver
  <2> QED
    BY <1>1, <1>2, <2>1, <2>3, <2>5, RoundStep
<1> QED
  BY <1>3, <1>4, <1>5

------------------------------------------------------------------------------
(* The run is registered, approved and answered *)

\* A floor that nobody spoke on hands out its first hook.
LEMMA FirstHook ==
  ASSUME AskSound, Acceptable, Untouched
  PROVE  LET g == WithNextHook(floor, 0)
         IN  /\ FloorSound(g) /\ VoicesSound(g, heard) /\ ~RoundIsOut(g)
             /\ Len(g.calls) = Len(heard) + 1
<1> DEFINE g == WithNextHook(floor, 0)
<1>1. /\ floor = EmptyFloor /\ heard = <<>> /\ Len(heard) = 0 /\ floor.calls = <<>>
      /\ FloorSound(floor) /\ VoicesSound(floor, heard) /\ ~RoundIsOut(floor)
  BY EmptySound DEF Untouched, EmptyFloor
<1>2. Len(heard) = Len(floor.calls)
  BY <1>1
<1>3. /\ FloorSound(g) /\ VoicesSound(g, heard) /\ ~RoundIsOut(g)
      /\ \/ Len(g.calls) = Len(heard) + 1
         \/ \A p \in People : \E i \in DOMAIN heard : heard[i].who = p
  <2> DEFINE hooked == WithNextHook(floor, Len(heard))
  <2>1. /\ FloorSound(hooked) /\ VoicesSound(hooked, heard) /\ ~RoundIsOut(hooked)
        /\ \/ Len(hooked.calls) = Len(heard) + 1
           \/ \A p \in People : \E i \in DOMAIN heard : heard[i].who = p
    <3>1. /\ AskSound /\ Acceptable /\ FloorSound(floor) /\ VoicesSound(floor, heard)
          /\ Len(heard) = Len(floor.calls) /\ ~RoundIsOut(floor)
      BY <1>1, <1>2
    <3> QED
      BY <3>1, NextHookSound
  <2>2. g = hooked
    BY <1>1
  <2> QED
    BY <2>1, <2>2
<1>4. 1 \in People /\ DOMAIN heard = {}
  BY <1>1 DEF People, AskSound
<1> QED
  BY <1>3, <1>4

LEMMA Registered ==
  ASSUME ScriptInv, Register
  PROVE  ScriptInv'
<1>1. /\ stage = "register" /\ stage' = "tell" /\ ask' = ask /\ heard' = heard
      /\ submitted' = submitted /\ retries' = retries /\ retries \in Nat
      /\ seats' = seats /\ package \in Packages /\ AskSound /\ ~package.partial
      /\ package.status = "none" /\ Acceptable /\ Len(floor.calls) = Len(heard)
      /\ ask.mode \in {"local", "prep", "bridge"}
  BY DEF Register, Go, Done, ScriptInv, StageSound, CommandType, AskSound, Packages, FloorKept
<1>2. People' = People /\ Acceptable' = Acceptable /\ AskSound' /\ QueueTurns' = QueueTurns
  BY <1>1, AskKept DEF Acceptable, AskSound
<1>3. CASE ask.mode = "local"
  <2>1. /\ package' = [package EXCEPT !.status = "awaiting_author_review",
                                      !.says = "deterministic_mock"]
        /\ floor' = floor
    BY <1>3 DEF Register, SummaryMode
  <2>2. /\ package' \in Packages /\ package'.status = "awaiting_author_review"
        /\ package'.says = "deterministic_mock" /\ package'.report = package.report
    BY <1>1, <2>1 DEF Packages
  <2>3. CommandType' /\ StageSound' /\ SeatsSound'
    BY <1>1, <1>2, <1>3, <2>1, <2>2
    DEF ScriptInv, CommandType, Stages, StageSound, SeatsSound, Untouched
  <2>4. FloorKept'
    BY <1>1, <2>1, <2>2, AskKept DEF ScriptInv, FloorKept
  <2>5. \A p \in People : \E i \in DOMAIN heard : heard[i].who = p
    <3>1. floor.round > QueueTurns /\ floor.round \in Nat /\ QueueTurns \in Nat \ {0}
      BY <1>1, <1>3, FloorFacts, BudgetFits DEF ScriptInv, StageSound, FloorKept, FloorSound
    <3>2. floor.round > 1
      BY <3>1
    <3>3. DOMAIN heard = DOMAIN floor.calls
      <4>1. heard \in Seq(Contributions) /\ floor.calls \in Seq(CallRecords)
        BY FloorFacts DEF ScriptInv, FloorKept, FloorSound, VoicesSound
      <4> QED
        BY <1>1, <4>1
    <3> QED
      BY <3>2, <3>3 DEF ScriptInv, FloorKept, FloorSound, CalledSound, VoicesSound
  <2>6. /\ package.report # "none" /\ (NeedsAuthor => package.report = "medium")
        /\ \A p \in People : seats[p] = "closed"
    BY <1>1, <1>3 DEF ScriptInv, SeatsSound
  <2>7. NeedsAuthor' = NeedsAuthor /\ ToldMode' = "deterministic_mock"
    BY <1>1, <1>2, <1>3 DEF NeedsAuthor, BudgetExhausted, ToldMode
  <2>8. ReviewIsWhole'
    BY <1>1, <1>2, <2>1, <2>2, <2>5, <2>6, <2>7 DEF ReviewIsWhole
  <2> QED
    BY <2>3, <2>4, <2>8 DEF ScriptInv
<1>4. CASE ask.mode = "prep"
  <2>1. /\ package' = [package EXCEPT !.status = "awaiting_prep_review",
                                      !.says = "external_waiting"]
        /\ floor' = floor
    BY <1>4 DEF Register, SummaryMode
  <2>2. package' \in Packages /\ package'.status = "awaiting_prep_review"
    BY <1>1, <2>1 DEF Packages
  <2>3. EmptyFloor' = EmptyFloor
    BY <1>2 DEF EmptyFloor
  <2>4. CommandType' /\ StageSound' /\ SeatsSound' /\ ReviewIsWhole'
    BY <1>1, <1>2, <1>4, <2>1, <2>2, <2>3
    DEF ScriptInv, CommandType, Stages, StageSound, SeatsSound, Untouched, ReviewIsWhole
  <2>5. FloorKept'
    BY <1>1, <2>1, <2>2, AskKept DEF ScriptInv, FloorKept
  <2> QED
    BY <2>4, <2>5 DEF ScriptInv
<1>5. CASE ask.mode = "bridge"
  <2>1. /\ package' = [package EXCEPT !.status = "awaiting_callback", !.says = "external_waiting"]
        /\ floor' = WithNextHook(floor, 0)
    BY <1>5 DEF Register, SummaryMode
  <2>2. package' \in Packages /\ package'.status = "awaiting_callback"
    BY <1>1, <2>1 DEF Packages
  <2>3. CommandType' /\ StageSound' /\ SeatsSound' /\ ReviewIsWhole'
    BY <1>1, <1>2, <1>5, <2>2
    DEF ScriptInv, CommandType, Stages, StageSound, SeatsSound, ReviewIsWhole
  <2>4. /\ FloorSound(floor') /\ VoicesSound(floor', heard) /\ ~RoundIsOut(floor')
        /\ Len(floor'.calls) = Len(heard) + 1
    <3>1. Untouched
      BY <1>1, <1>5 DEF ScriptInv, StageSound
    <3> QED
      BY <1>1, <2>1, <3>1, FirstHook
  <2>5. FloorKept'
    <3>1. retries' < RetryLimit /\ ~package'.partial
      BY <1>1, <1>5, <2>1, LimitAssumption DEF ScriptInv, StageSound, Packages
    <3> QED
      BY <1>1, <2>2, <2>4, <3>1, AskKept DEF FloorKept, RoundIsOut
  <2> QED
    BY <2>3, <2>5 DEF ScriptInv
<1> QED
  BY <1>1, <1>3, <1>4, <1>5

LEMMA Approved ==
  ASSUME ScriptInv, ApprovePrep
  PROVE  ScriptInv'
<1>1. /\ package.status = "awaiting_prep_review" /\ ask' = ask /\ heard' = heard
      /\ package' = [package EXCEPT !.status = "awaiting_callback"]
      /\ floor' = WithNextHook(floor, 0)
      /\ submitted' = submitted /\ retries' = retries /\ seats' = seats /\ stage' = stage
  BY DEF ApprovePrep, Done
<1>2. /\ stage \in {"tell", "mark", "done", "dead"} /\ Acceptable /\ AskSound
      /\ ask.mode # "local" /\ Untouched /\ package \in Packages
  BY <1>1 DEF ScriptInv, CommandType, StageSound
<1>3. package' \in Packages /\ package'.status = "awaiting_callback"
  BY <1>1, <1>2 DEF Packages
<1>4. People' = People /\ Acceptable' = Acceptable /\ AskSound'
  BY <1>1, <1>2, AskKept DEF Acceptable, AskSound
<1>5. CommandType' /\ StageSound' /\ SeatsSound' /\ ReviewIsWhole'
  BY <1>1, <1>2, <1>3, <1>4
  DEF ScriptInv, CommandType, StageSound, SeatsSound, ReviewIsWhole
<1>6. FloorKept'
  <2>1. /\ FloorSound(floor') /\ VoicesSound(floor', heard) /\ ~RoundIsOut(floor')
        /\ Len(floor'.calls) = Len(heard) + 1
    BY <1>1, <1>2, FirstHook
  <2>2. retries' < RetryLimit /\ ~package'.partial
    BY <1>1, <1>2, LimitAssumption DEF ScriptInv, StageSound, FloorKept, Packages
  <2> QED
    BY <1>1, <1>2, <1>3, <2>1, <2>2, AskKept DEF FloorKept, RoundIsOut
<1> QED
  BY <1>5, <1>6 DEF ScriptInv

LEMMA Rejected ==
  ASSUME ScriptInv, Reject
  PROVE  ScriptInv'
<1>1. /\ package.status = "awaiting_callback" /\ ask' = ask /\ heard' = heard /\ floor' = floor
      /\ submitted' = submitted + 1 /\ retries' = retries + 1 /\ stage' = stage
  BY DEF Reject
<1>2. /\ FloorSound(floor)' /\ VoicesSound(floor, heard)'
      /\ AskSound' /\ People' = People /\ Acceptable' = Acceptable
  BY <1>1, FloorLeft
<1>3. /\ stage \in {"tell", "mark", "done", "dead"} /\ ask.mode # "local"
      /\ submitted \in Nat /\ retries \in Nat /\ package \in Packages
      /\ seats \in [0..ask.n -> {"none", "active", "closed", "awaiting_author_review"}]
      /\ ~package.partial /\ retries < RetryLimit /\ RetryLimit \in Nat
      /\ Len(floor.calls) = Len(heard) + 1 /\ ~RoundIsOut(floor)
  BY <1>1, LimitAssumption DEF ScriptInv, StageSound, FloorKept, CommandType
<1>4. RoundIsOut(floor)' <=> RoundIsOut(floor)
  BY <1>1 DEF RoundIsOut
<1>5. CASE retries' < RetryLimit
  <2>1. package' = package /\ seats' = seats
    BY <1>5 DEF Reject
  <2>2. FloorKept'
    BY <1>1, <1>2, <1>3, <1>4, <1>5, <2>1 DEF FloorKept
  <2>3. CommandType' /\ StageSound' /\ SeatsSound' /\ ReviewIsWhole'
    BY <1>1, <1>2, <1>3, <2>1
    DEF ScriptInv, CommandType, StageSound, SeatsSound, ReviewIsWhole
  <2> QED
    BY <2>2, <2>3 DEF ScriptInv
<1>6. CASE ~(retries' < RetryLimit)
  <2>1. /\ seats' = [p \in 0..ask.n |-> IF p = 0 THEN "awaiting_author_review" ELSE "closed"]
        /\ package' = [report |-> "medium", status |-> "awaiting_author_review",
                       marked |-> TRUE, partial |-> TRUE, says |-> "external_confirmed"]
    BY <1>1, <1>3, <1>6 DEF Reject, Finalize, SummaryMode
  <2>2. /\ package' \in Packages /\ package'.status = "awaiting_author_review"
        /\ package'.report = "medium" /\ package'.says = "external_confirmed"
        /\ package'.partial
    BY <2>1 DEF Packages
  <2>3. /\ seats' \in [0..ask.n -> {"none", "active", "closed", "awaiting_author_review"}]
        /\ \A p \in People : seats'[p] = "closed"
    BY <1>2, <2>1 DEF People, AskSound
  <2>4. FloorKept'
    BY <1>1, <1>2, <1>3, <2>2 DEF FloorKept
  <2>5. CommandType' /\ StageSound' /\ SeatsSound'
    BY <1>1, <1>2, <1>3, <2>2, <2>3 DEF ScriptInv, CommandType, StageSound, SeatsSound
  <2>6. ToldMode' = "external_confirmed"
    BY <1>1, <1>3 DEF ToldMode
  <2>7. retries' = RetryLimit /\ Len(heard) = Len(floor.calls) - 1
    <3>1. Len(heard) \in Nat
      BY DEF ScriptInv, FloorKept, VoicesSound
    <3> QED
      BY <1>1, <1>3, <1>6, <3>1
  <2>8. ReviewIsWhole'
    BY <1>1, <1>2, <2>2, <2>3, <2>6, <2>7 DEF ReviewIsWhole
  <2> QED
    BY <2>4, <2>5, <2>8 DEF ScriptInv
<1> QED
  BY <1>5, <1>6

LEMMA Answered ==
  ASSUME ScriptInv, NEW output \in RuntimeOutputs, Answer(output)
  PROVE  ScriptInv'
<1> DEFINE call == floor.calls[Len(floor.calls)]
           told == [who |-> call.who, round |-> call.round,
                    uncertain |-> output.uncertain, risky |-> output.risky,
                    objections |-> output.objections, questions |-> output.questions]
           spoken == Heard(floor, told)
           checked == Checked(spoken, call.round, {told})
           next == WithNextHook(checked, Len(heard) + 1)
           all == Append(heard, told)
<1>1. /\ package.status = "awaiting_callback" /\ ask' = ask /\ stage' = stage
      /\ heard' = all /\ submitted' = submitted + 1 /\ retries' = 0 /\ floor' = next
      /\ IF next.calls # floor.calls THEN UNCHANGED <<seats, package>> ELSE Finalize(FALSE)
  BY DEF Answer
<1>2. /\ stage \in {"tell", "mark", "done", "dead"} /\ Acceptable /\ AskSound
      /\ ask.mode # "local" /\ package \in Packages /\ submitted \in Nat
      /\ seats \in [0..ask.n -> {"none", "active", "closed", "awaiting_author_review"}]
      /\ FloorSound(floor) /\ VoicesSound(floor, heard) /\ Len(floor.calls) = Len(heard) + 1
      /\ ~RoundIsOut(floor) /\ ~package.partial /\ 0 < RetryLimit
  BY <1>1, LimitAssumption DEF ScriptInv, CommandType, StageSound, FloorKept
<1>3. /\ floor.calls \in Seq(CallRecords) /\ heard \in Seq(Contributions) /\ call \in CallRecords
  <2>1. floor.calls \in Seq(CallRecords) /\ heard \in Seq(Contributions)
    BY <1>2, FloorFacts DEF FloorSound, VoicesSound
  <2>2. Len(floor.calls) \in DOMAIN floor.calls
    BY <1>2, <2>1
  <2> QED
    BY <2>1, <2>2
<1>4. People' = People /\ Acceptable' = Acceptable /\ AskSound'
  BY <1>1, <1>2, AskKept DEF Acceptable, AskSound
<1>5. told \in Contributions /\ told.who = call.who /\ call.round \in Nat \ {0}
  BY <1>3, OutputsAssumption DEF Contributions, CallRecords
<1> HIDE DEF told
<1>6. /\ FloorSound(spoken) /\ VoicesSound(spoken, all) /\ spoken.calls = floor.calls
      /\ spoken.who = floor.who /\ spoken.index = floor.index
  BY <1>2, <1>5, HeardSound
<1>7. all \in Seq(Contributions) /\ Len(all) = Len(heard) + 1 /\ all[Len(all)] = told
      /\ Len(all) \in DOMAIN all
  BY <1>3, <1>5
<1> HIDE DEF spoken, call, all
<1>8. /\ FloorSound(checked) /\ VoicesSound(checked, all) /\ checked.calls = floor.calls
      /\ checked.who = floor.who /\ checked.index = floor.index
  BY <1>2, <1>5, <1>6, <1>7, CheckedSound
<1> HIDE DEF checked
<1>9. ~RoundIsOut(checked) /\ Len(all) = Len(checked.calls)
  BY <1>2, <1>7, <1>8 DEF RoundIsOut
<1>10. /\ FloorSound(next) /\ VoicesSound(next, all) /\ ~RoundIsOut(next)
       /\ \/ Len(next.calls) = Len(all) + 1
          \/ /\ next = checked
             /\ \A p \in People : \E i \in DOMAIN all : all[i].who = p
  <2>1. next = WithNextHook(checked, Len(all))
    BY <1>7
  <2> DEFINE hooked == WithNextHook(checked, Len(all))
  <2>2. /\ FloorSound(hooked) /\ VoicesSound(hooked, all) /\ ~RoundIsOut(hooked)
        /\ \/ Len(hooked.calls) = Len(all) + 1
           \/ /\ hooked = checked
              /\ \A p \in People : \E i \in DOMAIN all : all[i].who = p
    <3>1. /\ AskSound /\ Acceptable /\ FloorSound(checked) /\ VoicesSound(checked, all)
          /\ Len(all) = Len(checked.calls) /\ ~RoundIsOut(checked)
      BY <1>2, <1>8, <1>9
    <3> QED
      BY <3>1, NextHookSound
  <2> QED
    BY <2>1, <2>2
<1> HIDE DEF next
<1>11. FloorSound(floor)' /\ VoicesSound(floor, heard)' /\ (RoundIsOut(floor)' <=> RoundIsOut(next))
  BY <1>1, <1>10, AskKept DEF RoundIsOut
<1>12. CASE next.calls # floor.calls
  <2>1. package' = package /\ seats' = seats
    BY <1>1, <1>12
  <2>2. FloorKept'
    BY <1>1, <1>2, <1>8, <1>10, <1>11, <1>12, <2>1 DEF FloorKept
  <2>3. CommandType' /\ StageSound' /\ SeatsSound' /\ ReviewIsWhole'
    BY <1>1, <1>2, <1>4, <2>1
    DEF ScriptInv, CommandType, StageSound, SeatsSound, ReviewIsWhole
  <2> QED
    BY <2>2, <2>3 DEF ScriptInv
<1>13. CASE next.calls = floor.calls
  <2>1. /\ seats' = [p \in 0..ask.n |-> IF p = 0 THEN "awaiting_author_review" ELSE "closed"]
        /\ package' = [report |-> "medium", status |-> "awaiting_author_review",
                       marked |-> TRUE, partial |-> FALSE, says |-> "external_confirmed"]
    BY <1>1, <1>2, <1>13 DEF Finalize, SummaryMode
  <2>2. /\ package' \in Packages /\ package'.status = "awaiting_author_review"
        /\ package'.report = "medium" /\ package'.says = "external_confirmed"
        /\ ~package'.partial
    BY <2>1 DEF Packages
  <2>3. /\ seats' \in [0..ask.n -> {"none", "active", "closed", "awaiting_author_review"}]
        /\ \A p \in People : seats'[p] = "closed"
    BY <2>1 DEF People, AskSound
  <2>4. Len(next.calls) = Len(all) /\ \A p \in People : \E i \in DOMAIN all : all[i].who = p
    BY <1>3, <1>7, <1>8, <1>9, <1>10, <1>13
  <2>5. FloorKept'
    BY <1>1, <1>11, <2>2, <2>4 DEF FloorKept
  <2>6. CommandType' /\ StageSound' /\ SeatsSound'
    BY <1>1, <1>2, <1>4, <2>2, <2>3 DEF ScriptInv, CommandType, StageSound, SeatsSound
  <2>7. ToldMode' = "external_confirmed"
    BY <1>1, <1>2 DEF ToldMode
  <2>8. ReviewIsWhole'
    BY <1>1, <1>4, <2>2, <2>3, <2>4, <2>7 DEF ReviewIsWhole
  <2> QED
    BY <2>5, <2>6, <2>8 DEF ScriptInv
<1> QED
  BY <1>12, <1>13

------------------------------------------------------------------------------
LEMMA ScriptInductive == ScriptSpec => []ScriptInv
<1>1. ASSUME ScriptInv, [ScriptNext]_scriptVars
      PROVE  ScriptInv'
  <2>1. CASE UNCHANGED scriptVars
    <3>1. UNCHANGED <<ask, stage, seats, floor, heard, submitted, retries, package>>
      BY <2>1 DEF scriptVars
    <3>2. /\ FloorKept' /\ (Untouched => Untouched') /\ AskSound' /\ People' = People
          /\ QueueTurns' = QueueTurns /\ Acceptable' = Acceptable /\ NeedsAuthor' = NeedsAuthor
      BY <1>1, <3>1, FloorLeft
    <3> QED
      BY <1>1, <3>1, <3>2
      DEF ScriptInv, CommandType, StageSound, SeatsSound, ReviewIsWhole, ToldMode
  <2>2. CASE ScriptNext
    BY <1>1, <2>2, QuietSteps, RoundSteps, Registered, Approved, Answered, Rejected
    DEF ScriptNext, Continue
  <2> QED
    BY <1>1, <2>1, <2>2
<1> QED
  BY <1>1, ScriptStarts, PTL DEF ScriptSpec

\* Whatever a run is asked for and whatever its actors say, its rounds are fair and it is
\* put before its author whole, or as partial with the one call that reached the retry
\* limit (AutonomousOrchestrator.run, _append_next_hook, _finalize_bridge_payload,
\* _finalize_bridge_retry_limit).
THEOREM RunsFairAndWhole == ScriptSpec => []RunsAreFairAndWhole
<1>1. ScriptInv => RunsAreFairAndWhole
  BY DEF ScriptInv, FloorKept, FloorSound, FairCalls, RunsAreFairAndWhole, RoundsAreFair
<1> QED
  BY <1>1, ScriptInductive, PTL

------------------------------------------------------------------------------
(* Sets of numbers, and the first of them *)

LEMMA GreatestExists ==
  ASSUME NEW n \in Nat, NEW S \in SUBSET (0..n), S # {}
  PROVE  \E x \in S : \A y \in S : y <= x
<1> DEFINE T == {n - x : x \in S}
<1>1. T \in SUBSET Nat /\ T # {}
  <2>1. ASSUME NEW x \in S
        PROVE  n - x \in Nat
    <3>1. x \in 0..n
      OBVIOUS
    <3> QED
      BY <3>1
  <2> QED
    BY <2>1
<1>2. PICK t \in T : \A u \in T : t <= u
  <2> HIDE DEF T
  <2> QED
    BY <1>1, LeastExists
<1>3. PICK x \in S : t = n - x
  OBVIOUS
<1>4. ASSUME NEW y \in S
      PROVE  y <= x
  <2>1. n - x <= n - y
    BY <1>2, <1>3
  <2> QED
    BY <2>1
<1> QED
  BY <1>4

\* Who is left out by the cut has no fewer than Limit before it, and these are listed.
LEMMA CutAtLimit ==
  ASSUME NEW all \in SUBSET Figures
  PROVE  /\ Cut(all) \subseteq all
         /\ \A p \in all : p \in Cut(all) \/ Cardinality(Cut(all)) = Limit
<1> DEFINE Preceding(p) == {q \in all : q < p}
           n == Len(NameOf)
<1>1. n \in Nat /\ Figures = 1..n /\ Limit \in Nat
  BY FilterAssumption DEF Figures
<1>2. IsFiniteSet(all)
  <2>1. IsFiniteSet(1..n)
    BY <1>1, FS_Interval
  <2> QED
    BY <1>1, <2>1, FS_Subset
<1>3. ASSUME NEW p \in Nat
      PROVE  /\ IsFiniteSet(Preceding(p)) /\ Cardinality(Preceding(p)) \in Nat
             /\ \A r \in Nat : r <= p => Cardinality(Preceding(r)) <= Cardinality(Preceding(p))
  <2>1. Preceding(p) \in SUBSET all
    OBVIOUS
  <2>2. IsFiniteSet(Preceding(p)) /\ Cardinality(Preceding(p)) \in Nat
    BY <1>2, <2>1, FS_Subset, FS_CardinalityType
  <2>3. ASSUME NEW r \in Nat, r <= p
        PROVE  Cardinality(Preceding(r)) <= Cardinality(Preceding(p))
    <3>1. ASSUME NEW q \in Preceding(r)
          PROVE  q \in Preceding(p)
      <4>1. q \in all /\ q \in Nat /\ q < r
        BY <1>1
      <4> QED
        BY <2>3, <4>1
    <3>2. Preceding(r) \in SUBSET Preceding(p)
      BY <3>1
    <3> QED
      BY <2>2, <3>2, FS_Subset
  <2> QED
    BY <2>2, <2>3
<1>4. all \subseteq Nat /\ \A p \in all : p \in 0..n
  BY <1>1
<1>5. Cut(all) = {p \in all : Cardinality(Preceding(p)) < Limit}
  BY DEF Cut
<1>6. ASSUME NEW p \in all, p \notin Cut(all)
      PROVE  Cardinality(Cut(all)) = Limit
  <2> DEFINE beyond == all \ Cut(all)
  <2>1. PICK first \in beyond : \A q \in beyond : first <= q
    <3>1. beyond \in SUBSET Nat /\ beyond # {}
      BY <1>4, <1>6
    <3> HIDE DEF beyond
    <3> QED
      BY <3>1, LeastExists
  <2>2. first \in all /\ first \in Nat /\ first \notin Cut(all)
    BY <1>4, <2>1
  <2>3. Cardinality(Preceding(first)) \in Nat /\ Cardinality(Preceding(first)) >= Limit
    <3>1. ~(Cardinality(Preceding(first)) < Limit)
      BY <1>5, <2>2
    <3>2. Cardinality(Preceding(first)) \in Nat
      BY <1>3, <2>2
    <3> HIDE DEF Preceding
    <3> QED
      BY <1>1, <3>1, <3>2
  <2>4. Cut(all) = Preceding(first)
    <3>1. ASSUME NEW q \in Preceding(first)
          PROVE  q \in Cut(all)
      <4>1. q \in all /\ q \in Nat /\ ~(first <= q)
        BY <1>4, <2>2, <3>1
      <4> QED
        BY <2>1, <4>1
    <3>2. ASSUME NEW q \in Cut(all), ~(q < first)
          PROVE  FALSE
      <4>1. q \in all /\ q \in Nat /\ Cardinality(Preceding(q)) < Limit
        BY <1>4, <1>5
      <4>2. Cardinality(Preceding(first)) <= Cardinality(Preceding(q))
        BY <1>3, <2>2, <3>2, <4>1
      <4>3. Cardinality(Preceding(q)) \in Nat
        BY <1>3, <4>1
      <4> QED
        BY <1>1, <2>3, <4>1, <4>2, <4>3
    <3>3. Cut(all) \subseteq all
      BY <1>5
    <3> QED
      BY <3>1, <3>2, <3>3
  <2>5. CASE Cut(all) = {}
    <3>1. Cardinality(Cut(all)) = 0
      BY <2>5, FS_EmptySet
    <3> QED
      BY <1>1, <2>3, <2>4, <3>1
  <2>6. CASE Cut(all) # {}
    <3>1. Cut(all) \in SUBSET (0..n)
      BY <1>4, <1>5
    <3>2. PICK last \in Cut(all) : \A q \in Cut(all) : q <= last
      BY <1>1, <2>6, <3>1, GreatestExists
    <3>3. last \in all /\ last \in Nat /\ Cardinality(Preceding(last)) < Limit
      BY <1>4, <1>5
    <3>4. Cut(all) = Preceding(last) \cup {last}
      <4>1. ASSUME NEW q \in Cut(all), q # last
            PROVE  q \in Preceding(last)
        <5>1. q \in all /\ q \in Nat /\ q <= last
          BY <1>4, <1>5, <3>2
        <5> QED
          BY <3>3, <4>1, <5>1
      <4>2. ASSUME NEW q \in Preceding(last)
            PROVE  q \in Cut(all)
        <5>1. q \in all /\ q \in Nat /\ q < last
          BY <1>4
        <5>2. last < first
          BY <2>4
        <5> QED
          BY <2>2, <2>4, <3>3, <5>1, <5>2
      <4> QED
        BY <4>1, <4>2
    <3>5. last \notin Preceding(last)
      BY <3>3
    <3>6. Cardinality(Cut(all)) = Cardinality(Preceding(last)) + 1
      <4>1. IsFiniteSet(Preceding(last))
        BY <1>3, <3>3
      <4> HIDE DEF Preceding
      <4> QED
        BY <3>4, <3>5, <4>1, FS_AddElement
    <3>7. Cardinality(Preceding(last)) \in Nat
      BY <1>3, <3>3
    <3> QED
      BY <1>1, <2>3, <2>4, <3>3, <3>6, <3>7
  <2> QED
    BY <2>5, <2>6
<1> QED
  BY <1>5, <1>6

------------------------------------------------------------------------------
(* The inductive invariant of the filter, in parts. *)

\* The record of the command; what it found is what it found.
FilterShape ==
  filter \in
    [at : {"dimensions", "conditions", "place", "entities", "told"}, known : {filter.known},
     left : SUBSET Parseable, places : {filter.places}, restricted : BOOLEAN,
     candidates : {filter.candidates}, applied : SUBSET Parseable, placed : BOOLEAN,
     matched : {filter.matched}, missing : {filter.missing}]

\* Nobody is asked for, or active, who does not exist; what holds now has held.
HistorySound ==
  /\ Conditions \subseteq Nat \ {0} /\ setting.active \subseteq Figures
  /\ PlacesNamed(setting, wanted.place) \subseteq PlacesEver
  /\ Holds(setting, PlacesEver) \subseteq everHeld
  /\ ~changed => everHeld = Holds(setting, {})

\* What was read so far, and what is left to read.
ReadingSound ==
  /\ Reads("dimensions") => filter = Fresh
  /\ ~Reads("dimensions") =>
       filter.applied \cup filter.left =
         {i \in Parseable : wanted.conditions[i].key \in filter.known}
  /\ filter.at \notin {"dimensions", "conditions"} => filter.left = {}
  /\ filter.at \in {"dimensions", "conditions", "place"} => ~filter.placed
  /\ filter.restricted <=> filter.applied # {} \/ filter.placed
  /\ Reads("place") =>
       /\ filter.places \subseteq PlacesEver
       /\ ~changed => filter.places = PlacesNamed(setting, wanted.place)

Meets(p) ==
  /\ \A i \in filter.applied : <<p, i>> \in everHeld
  /\ filter.placed => <<p, Placed>> \in everHeld

\* The candidates met all that was applied, and if nothing changed, nobody else did.
CandidatesSound ==
  /\ \A p \in filter.candidates : Meets(p)
  /\ filter.restricted /\ ~changed => \A p \in Figures \ filter.candidates : ~Meets(p)

ToldSound ==
  Told =>
    /\ filter.missing = Keys \ filter.known
    /\ \A p \in filter.matched : p \in filter.candidates /\ <<p, Active>> \in everHeld
    /\ ~changed => \A p \in setting.active \cap filter.candidates :
                     p \in filter.matched \/ Cardinality(filter.matched) = Limit

FilterInv ==
  FilterShape /\ HistorySound /\ ReadingSound /\ CandidatesSound /\ ToldSound

------------------------------------------------------------------------------
(* What holds, told apart by number *)

LEMMA HoldsWhat ==
  ASSUME Conditions \subseteq Nat \ {0}, NEW w, NEW places, NEW p
  PROVE  /\ <<p, Active>> \in Holds(w, places) <=> p \in w.active
         /\ <<p, Placed>> \in Holds(w, places) <=>
              p \in StandingAt(w, places \cup PlacesNamed(w, wanted.place), wanted.place, wanted.at)
         /\ \A i \in Parseable : <<p, i>> \in Holds(w, places) <=>
              p \in Satisfying(w, wanted.conditions[i], wanted.at)
<1> DEFINE met(i) == Satisfying(w, wanted.conditions[i], wanted.at)
           there == StandingAt(w, places \cup PlacesNamed(w, wanted.place), wanted.place, wanted.at)
<1> HIDE DEF met, there
<1>1. Holds(w, places) =
        (w.active \X {0}) \cup (UNION {met(i) \X {i} : i \in Parseable}) \cup (there \X {-1})
  BY DEF Holds, met, there, Active, Placed
<1>2. \A i \in Parseable : i \in Nat \ {0}
  BY DEF Parseable
<1>3. ASSUME NEW k
      PROVE  <<p, k>> \in Holds(w, places) <=>
               \/ p \in w.active /\ k = 0
               \/ \E i \in Parseable : p \in met(i) /\ k = i
               \/ p \in there /\ k = -1
  <2>1. <<p, k>> \in w.active \X {0} <=> p \in w.active /\ k = 0
    OBVIOUS
  <2>2. <<p, k>> \in there \X {-1} <=> p \in there /\ k = -1
    OBVIOUS
  <2>3. \A i : <<p, k>> \in met(i) \X {i} <=> p \in met(i) /\ k = i
    OBVIOUS
  <2>4. <<p, k>> \in UNION {met(i) \X {i} : i \in Parseable} <=>
          \E i \in Parseable : p \in met(i) /\ k = i
    BY <2>3
  <2>5. <<p, k>> \in Holds(w, places) <=>
          \/ <<p, k>> \in w.active \X {0}
          \/ <<p, k>> \in UNION {met(i) \X {i} : i \in Parseable}
          \/ <<p, k>> \in there \X {-1}
    BY <1>1
  <2> QED
    BY <2>1, <2>2, <2>4, <2>5
<1>4. <<p, 0>> \in Holds(w, places) <=> p \in w.active
  BY <1>2, <1>3
<1>5. <<p, -1>> \in Holds(w, places) <=> p \in there
  BY <1>2, <1>3
<1>6. ASSUME NEW i \in Parseable
      PROVE  <<p, i>> \in Holds(w, places) <=> p \in met(i)
  BY <1>2, <1>3
<1> QED
  BY <1>4, <1>5, <1>6 DEF met, there, Active, Placed

LEMMA StandingGrows ==
  ASSUME NEW w, NEW few, NEW many, few \subseteq many, NEW place, NEW at
  PROVE  StandingAt(w, few, place, at) \subseteq StandingAt(w, many, place, at)
BY DEF StandingAt

\* The part of the invariant that a reading step takes and leaves.
LEMMA HistoryKept ==
  ASSUME HistorySound, OnlyReads
  PROVE  HistorySound' /\ PlacesEver' = PlacesEver /\ Parseable' = Parseable /\ Keys' = Keys
         /\ PlacesNamed(setting, wanted.place)' = PlacesNamed(setting, wanted.place)
         /\ Conditions' = Conditions
BY DEF HistorySound, OnlyReads, Conditions, Parseable, Keys, PlacesEver, Holds, PlacesNamed

LEMMA FilterStarts == FilterInit => FilterInv
<1> SUFFICES ASSUME FilterInit
             PROVE  FilterInv
  OBVIOUS
<1>1. filter = Fresh /\ ~changed /\ everHeld = Holds(setting, {})
  BY DEF FilterInit
<1>2. Conditions \subseteq Nat \ {0} /\ setting.active \subseteq Figures
  BY FilterAssumption DEF FilterInit, Conditions
<1>3. \A p : <<p, Active>> \in everHeld <=> p \in setting.active
  BY <1>1, <1>2, HoldsWhat
<1>4. PlacesEver = PlacesNamed(setting, wanted.place)
  BY <1>2, <1>3 DEF PlacesEver, PlacesNamed
<1>5. Holds(setting, PlacesEver) = Holds(setting, {})
  BY <1>4 DEF Holds
<1>6. FilterShape
  BY <1>1 DEF FilterShape, Fresh
<1>7. HistorySound
  BY <1>1, <1>2, <1>4, <1>5 DEF HistorySound
<1>8. ReadingSound /\ CandidatesSound /\ ToldSound
  BY <1>1 DEF ReadingSound, CandidatesSound, ToldSound, Fresh, Reads, Told, Meets
<1> QED
  BY <1>6, <1>7, <1>8 DEF FilterInv

------------------------------------------------------------------------------
(* The steps of the command *)

LEMMA DimensionsRead ==
  ASSUME FilterInv, ReadDimensions
  PROVE  FilterInv'
<1>1. filter = Fresh /\ HistorySound' /\ Parseable' = Parseable
  BY HistoryKept DEF FilterInv, ReadDimensions, ReadingSound, Reads
<1>2. filter' = [Fresh EXCEPT
        !.at = "conditions", !.known = setting.dimensions,
        !.left = {i \in Parseable : wanted.conditions[i].key \in setting.dimensions}]
  BY <1>1 DEF ReadDimensions
<1>3. wanted' = wanted
  BY DEF ReadDimensions, OnlyReads
<1>4. FilterShape'
  BY <1>1, <1>2 DEF FilterShape, Fresh
<1>5. ReadingSound'
  BY <1>1, <1>2, <1>3 DEF ReadingSound, Fresh, Reads
<1>6. CandidatesSound' /\ ToldSound'
  BY <1>2 DEF CandidatesSound, ToldSound, Fresh, Reads, Told
<1> QED
  BY <1>1, <1>4, <1>5, <1>6 DEF FilterInv

LEMMA ConditionRead ==
  ASSUME FilterInv, ReadCondition
  PROVE  FilterInv'
<1> DEFINE i == Min(filter.left)
           met == Satisfying(setting, wanted.conditions[i], wanted.at)
<1>1. /\ HistorySound /\ HistorySound' /\ PlacesEver' = PlacesEver /\ Parseable' = Parseable
      /\ wanted' = wanted /\ changed' = changed /\ everHeld' = everHeld /\ setting' = setting
  BY HistoryKept DEF FilterInv, ReadCondition, OnlyReads
<1>2. filter.at = "conditions" /\ filter.left # {} /\ filter.left \subseteq Parseable
  BY DEF ReadCondition, Reads, FilterInv, FilterShape
<1>3. i \in filter.left
  <2>1. filter.left \in SUBSET Nat
    BY <1>1, <1>2 DEF HistorySound, Parseable
  <2>2. PICK x \in filter.left : \A y \in filter.left : x <= y
    BY <1>2, <2>1, LeastExists
  <2> QED
    BY <2>2 DEF Min
<1> HIDE DEF i
<1>4. filter' = [filter EXCEPT !.left = @ \ {i}, !.applied = @ \cup {i},
                               !.restricted = TRUE, !.candidates = Narrow(met)]
  BY DEF ReadCondition, i
<1> HIDE DEF met
<1>5. FilterShape'
  BY <1>1, <1>2, <1>3, <1>4 DEF FilterShape, FilterInv
<1>6. /\ filter'.at = "conditions" /\ filter'.known = filter.known
      /\ filter'.left = filter.left \ {i} /\ filter'.applied = filter.applied \cup {i}
      /\ filter'.placed = filter.placed /\ filter'.restricted = TRUE
      /\ filter'.candidates = Narrow(met) /\ filter.placed = FALSE
  BY <1>2, <1>4 DEF FilterShape, FilterInv, ReadingSound
<1>7. ReadingSound'
  BY <1>1, <1>2, <1>3, <1>6 DEF ReadingSound, FilterInv, Reads
<1>8. \A p : p \in met => <<p, i>> \in everHeld
  BY <1>1, <1>2, <1>3, HoldsWhat DEF met, HistorySound
<1>9. ~changed => \A p : <<p, i>> \in everHeld => p \in met
  BY <1>1, <1>2, <1>3, HoldsWhat DEF met, HistorySound
<1>10. CandidatesSound'
  <2>1. ASSUME NEW p \in Narrow(met)
        PROVE  Meets(p)'
    BY <1>1, <1>6, <1>8, <2>1 DEF Narrow, Meets, FilterInv, CandidatesSound, ReadingSound
  <2>2. ASSUME ~changed, NEW p \in Figures \ Narrow(met)
        PROVE  ~Meets(p)'
    BY <1>1, <1>6, <1>9, <2>2 DEF Narrow, Meets, FilterInv, CandidatesSound
  <2> QED
    BY <1>1, <1>6, <2>1, <2>2 DEF CandidatesSound
<1>11. ToldSound'
  BY <1>6 DEF ToldSound, Told, Reads
<1> QED
  BY <1>1, <1>5, <1>7, <1>10, <1>11 DEF FilterInv

LEMMA PlacesRead ==
  ASSUME FilterInv, ReadPlaces
  PROVE  FilterInv'
<1>1. /\ HistorySound /\ HistorySound' /\ PlacesEver' = PlacesEver /\ Parseable' = Parseable
      /\ PlacesNamed(setting, wanted.place)' = PlacesNamed(setting, wanted.place)
      /\ wanted' = wanted /\ changed' = changed /\ everHeld' = everHeld
  BY HistoryKept DEF FilterInv, ReadPlaces, OnlyReads
<1>2. filter' = [filter EXCEPT !.at = "place", !.places = PlacesNamed(setting, wanted.place)]
  BY DEF ReadPlaces
<1>3. FilterShape'
  BY <1>1, <1>2 DEF FilterShape, FilterInv
<1>4. /\ filter.at = "conditions" /\ filter.left = {} /\ filter'.at = "place"
      /\ filter'.known = filter.known /\ filter'.left = filter.left
      /\ filter'.applied = filter.applied /\ filter'.placed = filter.placed
      /\ filter'.restricted = filter.restricted /\ filter'.candidates = filter.candidates
      /\ filter'.places = PlacesNamed(setting, wanted.place)
  BY <1>2 DEF FilterShape, FilterInv, ReadPlaces, Reads
<1>5. ReadingSound'
  BY <1>1, <1>4 DEF ReadingSound, FilterInv, Reads, HistorySound
<1>6. CandidatesSound'
  BY <1>1, <1>4 DEF CandidatesSound, FilterInv, Meets
<1>7. ToldSound'
  BY <1>4 DEF ToldSound, Told, Reads
<1> QED
  BY <1>1, <1>3, <1>5, <1>6, <1>7 DEF FilterInv

LEMMA StandingRead ==
  ASSUME FilterInv, ReadStanding
  PROVE  FilterInv'
<1> DEFINE there == StandingAt(setting, filter.places, wanted.place, wanted.at)
           standing == StandingAt(setting, PlacesEver \cup PlacesNamed(setting, wanted.place),
                                  wanted.place, wanted.at)
<1>1. /\ HistorySound /\ HistorySound' /\ PlacesEver' = PlacesEver /\ Parseable' = Parseable
      /\ wanted' = wanted /\ changed' = changed /\ everHeld' = everHeld
  BY HistoryKept DEF FilterInv, ReadStanding, OnlyReads
<1>2. filter.at = "place" /\ filter.left = {} /\ filter.placed = FALSE
  BY DEF ReadStanding, Reads, FilterInv, ReadingSound, FilterShape
<1>3. filter' = IF there = {} THEN [filter EXCEPT !.at = "entities"]
                ELSE [filter EXCEPT !.at = "entities", !.placed = TRUE,
                                    !.restricted = TRUE, !.candidates = Narrow(there)]
  BY DEF ReadStanding
<1>4. \A p : p \in there => <<p, Placed>> \in everHeld
  <2>1. there \subseteq standing
    <3>1. filter.places \subseteq PlacesEver \cup PlacesNamed(setting, wanted.place)
      BY <1>2 DEF FilterInv, ReadingSound, Reads
    <3> QED
      BY <3>1, StandingGrows
  <2>2. \A p : p \in standing => <<p, Placed>> \in Holds(setting, PlacesEver)
    BY <1>1, HoldsWhat DEF HistorySound
  <2> QED
    BY <1>1, <2>1, <2>2 DEF HistorySound
<1>5. ~changed => \A p : <<p, Placed>> \in everHeld => p \in there
  <2>1. ASSUME ~changed
        PROVE  \A p : <<p, Placed>> \in everHeld => p \in there
    <3>1. filter.places = {} \cup PlacesNamed(setting, wanted.place)
      BY <1>2, <2>1 DEF FilterInv, ReadingSound, Reads
    <3>2. everHeld = Holds(setting, {})
      BY <1>1, <2>1 DEF HistorySound
    <3> QED
      BY <1>1, <3>1, <3>2, HoldsWhat DEF HistorySound
  <2> QED
    BY <2>1
<1> HIDE DEF there
<1>6. FilterShape'
  <2>1. filter' \in [at : {"dimensions", "conditions", "place", "entities", "told"},
                     known : {filter.known}, left : SUBSET Parseable, places : {filter.places},
                     restricted : BOOLEAN, candidates : {filter'.candidates},
                     applied : SUBSET Parseable, placed : BOOLEAN, matched : {filter.matched},
                     missing : {filter.missing}]
    BY <1>3 DEF FilterShape, FilterInv
  <2> QED
    BY <1>1, <2>1 DEF FilterShape
<1>7. /\ filter'.at = "entities" /\ filter'.known = filter.known
      /\ filter'.left = filter.left /\ filter'.applied = filter.applied
      /\ filter'.placed = (there # {})
      /\ there = {} => filter'.restricted = filter.restricted
                       /\ filter'.candidates = filter.candidates
      /\ there # {} => filter'.restricted = TRUE /\ filter'.candidates = Narrow(there)
  BY <1>2, <1>3 DEF FilterShape, FilterInv
<1>8. ReadingSound'
  BY <1>1, <1>2, <1>7 DEF ReadingSound, FilterInv, Reads
<1>9. CandidatesSound'
  <2>1. CASE there = {}
    BY <1>1, <1>2, <1>7, <2>1 DEF CandidatesSound, FilterInv, Meets
  <2>2. CASE there # {}
    <3>1. ASSUME NEW p \in Narrow(there)
          PROVE  Meets(p)'
      BY <1>1, <1>2, <1>4, <1>7, <2>2, <3>1
      DEF Narrow, Meets, FilterInv, CandidatesSound, ReadingSound
    <3>2. ASSUME ~changed, NEW p \in Figures \ Narrow(there)
          PROVE  ~Meets(p)'
      BY <1>1, <1>2, <1>5, <1>7, <2>2, <3>2 DEF Narrow, Meets, FilterInv, CandidatesSound
    <3> QED
      BY <1>1, <1>7, <2>2, <3>1, <3>2 DEF CandidatesSound
  <2> QED
    BY <2>1, <2>2
<1>10. ToldSound'
  BY <1>7 DEF ToldSound, Told, Reads
<1> QED
  BY <1>1, <1>6, <1>8, <1>9, <1>10 DEF FilterInv

LEMMA Listed ==
  ASSUME FilterInv, ListMatched
  PROVE  FilterInv'
<1> DEFINE all == setting.active \cap filter.candidates
<1>1. /\ HistorySound /\ HistorySound' /\ Parseable' = Parseable /\ Keys' = Keys
      /\ setting' = setting /\ wanted' = wanted /\ changed' = changed /\ everHeld' = everHeld
  BY HistoryKept DEF FilterInv, ListMatched, List, OnlyReads
<1>2. filter.left = {} /\ filter.at \in {"conditions", "entities"}
  BY DEF ListMatched, List, Reads, FilterInv, ReadingSound
<1>3. filter' = [filter EXCEPT !.at = "told", !.missing = Keys \ filter.known,
                               !.matched = Cut(all)]
  BY DEF ListMatched, List
<1>4. FilterShape'
  BY <1>1, <1>3 DEF FilterShape, FilterInv
<1>5. /\ filter'.at = "told" /\ filter'.known = filter.known
      /\ filter'.left = filter.left /\ filter'.applied = filter.applied
      /\ filter'.placed = filter.placed /\ filter'.restricted = filter.restricted
      /\ filter'.candidates = filter.candidates
      /\ filter'.matched = Cut(all) /\ filter'.missing = Keys \ filter.known
  BY <1>3 DEF FilterShape, FilterInv
<1>6. ReadingSound'
  BY <1>1, <1>2, <1>5 DEF ReadingSound, FilterInv, Reads
<1>7. CandidatesSound'
  BY <1>1, <1>5 DEF CandidatesSound, FilterInv, Meets
<1>8. /\ Cut(all) \subseteq all
      /\ \A p \in all : p \in Cut(all) \/ Cardinality(Cut(all)) = Limit
  <2>1. all \in SUBSET Figures
    BY <1>1 DEF HistorySound
  <2> QED
    BY <2>1, CutAtLimit
<1>9. \A p \in setting.active : <<p, Active>> \in everHeld
  <2>1. \A p \in setting.active : <<p, Active>> \in Holds(setting, PlacesEver)
    BY <1>1, HoldsWhat DEF HistorySound
  <2> QED
    BY <1>1, <2>1 DEF HistorySound
<1>10. ToldSound'
  BY <1>1, <1>5, <1>8, <1>9 DEF ToldSound, Told, Reads
<1> QED
  BY <1>1, <1>4, <1>6, <1>7, <1>10 DEF FilterInv

------------------------------------------------------------------------------
(* The author changes the world *)

LEMMA SceneChanged ==
  ASSUME FilterInv, NEW ticket \in SceneTickets, ChangeScene(ticket)
  PROVE  FilterInv'
<1> DEFINE ever == PlacesEver
           now == setting'
<1> HIDE DEF ever
<1>1. /\ wanted' = wanted /\ filter' = filter /\ changed' = TRUE
      /\ everHeld' = everHeld \cup Holds(now, ever)
      /\ now.active = (setting.active \cup ticket.enter) \ ticket.leave
      /\ ~Reads("told") /\ HistorySound
  BY DEF ChangeScene, FilterInv, ever
<1>2. Parseable' = Parseable /\ Conditions' = Conditions
  BY <1>1 DEF Parseable, Conditions
<1>3. Conditions \subseteq Nat \ {0} /\ now.active \subseteq Figures
  BY <1>1, FilterAssumption DEF HistorySound
<1>4. PlacesEver \subseteq PlacesEver'
  BY <1>1 DEF PlacesEver
<1>5. PlacesEver' = ever \cup PlacesNamed(now, wanted.place)
  <2>1. \A p : <<p, Active>> \in Holds(now, ever) <=> p \in now.active
    BY <1>3, HoldsWhat
  <2> QED
    BY <1>1, <1>3, <2>1 DEF PlacesEver, PlacesNamed, ever
<1>6. HistorySound'
  <2>1. PlacesNamed(now, wanted.place) \subseteq PlacesEver'
    BY <1>5
  <2>2. Holds(setting, PlacesEver)' \subseteq everHeld'
    <3>1. (PlacesEver' \cup PlacesNamed(now, wanted.place)) =
            (ever \cup PlacesNamed(now, wanted.place))
      BY <1>5
    <3>2. Holds(setting, PlacesEver)' = Holds(now, ever)
      <4>1. setting' = now
        OBVIOUS
      <4> HIDE DEF now
      <4>2. now.active \X {Active} = setting'.active \X {Active}
        BY <4>1
      <4>3. \A i : (Satisfying(setting, wanted.conditions[i], wanted.at) \X {i})' =
              Satisfying(now, wanted.conditions[i], wanted.at) \X {i}
        BY <1>1, <4>1
      <4>4. UNION {(Satisfying(setting, wanted.conditions[i], wanted.at) \X {i})' :
                   i \in Parseable'} =
              UNION {Satisfying(now, wanted.conditions[i], wanted.at) \X {i} : i \in Parseable}
        BY <1>2, <4>3, Zenon
      <4> QED
        BY <1>1, <3>1, <4>1, <4>2, <4>4 DEF Holds
    <3> QED
      BY <1>1, <3>2
  <2> QED
    BY <1>1, <1>2, <1>3, <2>1, <2>2 DEF HistorySound
<1>7. FilterShape'
  BY <1>1, <1>2 DEF FilterShape, FilterInv
<1>8. ReadingSound'
  BY <1>1, <1>2, <1>4 DEF ReadingSound, FilterInv, Reads
<1>9. CandidatesSound'
  BY <1>1, <1>2 DEF CandidatesSound, FilterInv, Meets
<1>10. ToldSound'
  BY <1>1 DEF ToldSound, Told, Reads
<1> QED
  BY <1>6, <1>7, <1>8, <1>9, <1>10 DEF FilterInv

------------------------------------------------------------------------------
LEMMA FilterInductive == FilterSpec => []FilterInv
<1>1. ASSUME FilterInv, [FilterNext]_filterVars
      PROVE  FilterInv'
  <2>1. CASE UNCHANGED filterVars
    BY <1>1, <2>1
    DEF filterVars, FilterInv, FilterShape, HistorySound, ReadingSound, CandidatesSound,
        ToldSound, Told, Reads, Meets, Conditions, Parseable, Keys, PlacesEver, Holds
  <2>2. CASE FilterNext
    BY <1>1, <2>2, DimensionsRead, ConditionRead, PlacesRead, StandingRead, Listed,
       SceneChanged
    DEF FilterNext
  <2> QED
    BY <1>1, <2>1, <2>2
<1> QED
  BY <1>1, FilterStarts, PTL DEF FilterSpec

\* Whoever the filter admits has a reason to be in the scene, and whoever it leaves out
\* one not to be, for any world, request and changes meanwhile (select_scene_entities,
\* build_scene_filter_contract).
THEOREM FilterExplains == FilterSpec => []ScenesAreExplained
<1>1. ASSUME FilterInv, Told
      PROVE  ScenesAreExplained
  <2>1. /\ FilterShape /\ HistorySound /\ ReadingSound /\ CandidatesSound /\ ToldSound
        /\ filter.at = "told" /\ filter.left = {} /\ filter.applied \subseteq Parseable
    BY <1>1 DEF FilterInv, Told, Reads, ReadingSound, FilterShape
  <2>2. \A i \in Conditions : GapFor(i) <=> i \notin filter.applied
    <3>1. ASSUME NEW i \in Conditions, Parses(wanted.conditions[i])
          PROVE  wanted.conditions[i].key \in Keys
      BY <3>1 DEF Keys, Parses
    <3>2. filter.applied = {i \in Parseable : wanted.conditions[i].key \in filter.known}
      BY <2>1 DEF ReadingSound, Reads
    <3> QED
      BY <1>1, <2>1, <3>1, <3>2 DEF ToldSound, GapFor, Parseable
  <2>3. AdmittedForAReason
    <3>1. ASSUME NEW p \in filter.matched
          PROVE  Meets(p) /\ <<p, Active>> \in everHeld
      BY <1>1, <2>1, <3>1 DEF ToldSound, CandidatesSound
    <3> QED
      BY <2>2, <3>1 DEF AdmittedForAReason, Admitted, Meets, PlaceGap
  <2>4. LeftOutForAReason
    <3>1. ASSUME ~changed, NEW p \in setting.active \ Admitted
          PROVE  \/ Cardinality(filter.matched) = Limit
                 \/ ~filter.placed /\ \A i \in Conditions : GapFor(i)
                 \/ \E i \in Conditions : ~GapFor(i) /\ <<p, i>> \notin everHeld
                 \/ filter.placed /\ <<p, Placed>> \notin everHeld
      <4>1. CASE p \in filter.candidates
        BY <1>1, <2>1, <3>1, <4>1 DEF ToldSound, Admitted
      <4>2. CASE p \notin filter.candidates /\ filter.restricted
        <5>1. p \in Figures
          BY <2>1, <3>1 DEF HistorySound
        <5>2. ~Meets(p)
          BY <2>1, <3>1, <4>2, <5>1 DEF CandidatesSound
        <5> QED
          BY <2>1, <2>2, <5>2 DEF Meets, Parseable
      <4>3. CASE ~filter.restricted
        BY <2>1, <2>2, <4>3 DEF ReadingSound
      <4> QED
        BY <4>1, <4>2, <4>3
    <3> QED
      BY <3>1 DEF LeftOutForAReason
  <2> QED
    BY <2>3, <2>4 DEF ScenesAreExplained
<1>2. FilterInv => ScenesAreExplained
  BY <1>1 DEF ScenesAreExplained, AdmittedForAReason, LeftOutForAReason
<1> QED
  BY <1>2, FilterInductive, PTL
------------------------------------------------------------------------------
(* The context of an actor: order and budget *)

LEMMA PriorityType ==
  ASSUME NEW r \in Records
  PROVE  Priority(r) \in Int
<1>1. /\ Rec[r].table \in Tables
      /\ Rec[r].table = "facts" => Rec[r].role \in {"actor", "world", "other"}
  BY RecAssumption DEF Records
<1>2. \A role \in {"actor", "world", "other"} : FactPriority[role] \in Int
  BY DEF FactPriority
<1>3. \A table \in Tables \ {"facts"} : TablePriority[table] \in Int
  BY DEF TablePriority, Tables
<1> QED
  BY <1>1, <1>2, <1>3 DEF Priority

\* Records are asked for in one order.
LEMMA BeforeIsOrder ==
  /\ \A a, b, c \in Records : Before(a, b) /\ Before(b, c) => Before(a, c)
  /\ \A a \in Records : ~Before(a, a)
  /\ \A a, b \in Records : a # b => Before(a, b) \/ Before(b, a)
<1>1. \A r \in Records : Priority(r) \in Int /\ Rec[r].relevance \in Int /\ r \in Int
  BY PriorityType, RecAssumption DEF Records
<1> QED
  BY <1>1 DEF Before

LEMMA InOrderSorts ==
  ASSUME NEW C \in SUBSET Records
  PROVE  /\ InOrder(C) \in Seq(C) /\ Len(InOrder(C)) \in Nat
         /\ \A i, j \in 1..Len(InOrder(C)) : i < j => Before(InOrder(C)[i], InOrder(C)[j])
         /\ \A r \in C : \E i \in 1..Len(InOrder(C)) : InOrder(C)[i] = r
<1> DEFINE R == {p \in C \X C : Before(p[1], p[2])}
           rank(r) == Cardinality({s \in C : <<s, r>> \in R})
           N == Cardinality(C)
           list == InOrder(C)
<1>1. IsFiniteSet(C) /\ N \in Nat
  BY RecAssumption, FS_Subset, FS_CardinalityType DEF Records
<1>2. \A a, b \in C : <<a, b>> \in R <=> Before(a, b)
  OBVIOUS
<1>3. \A r \in C : {s \in C : <<s, r>> \in R} = {s \in C : Before(s, r)}
  OBVIOUS
<1> HIDE DEF R
<1>4. /\ \A a, b, c \in C : <<a, b>> \in R /\ <<b, c>> \in R => <<a, c>> \in R
      /\ \A a \in C : <<a, a>> \notin R
      /\ \A a, b \in C : a # b => <<a, b>> \in R \/ <<b, a>> \in R
  BY <1>2, BeforeIsOrder
<1>5. /\ \A r \in C : rank(r) \in 0..(N - 1)
      /\ \A a, b \in C : <<a, b>> \in R => rank(a) < rank(b)
      /\ \A n \in 0..(N - 1) : \E r \in C : rank(r) = n
  <2>1. IsFiniteSet(C)
    BY <1>1
  <2>2. \A a, b, c \in C : <<a, b>> \in R /\ <<b, c>> \in R => <<a, c>> \in R
    BY <1>4
  <2>3. \A a \in C : <<a, a>> \notin R
    BY <1>4
  <2>4. \A a, b \in C : a # b => <<a, b>> \in R \/ <<b, a>> \in R
    BY <1>4
  <2> QED
    BY <2>1, <2>2, <2>3, <2>4, RanksTaken, ZenonT(60)
<1>6. list = [n \in 1..N |-> CHOOSE r \in C : rank(r) = n - 1]
  <2>1. \A n \in 1..N : (CHOOSE r \in C : rank(r) = n - 1)
                          = CHOOSE r \in C : Cardinality({s \in C : Before(s, r)}) = n - 1
    BY <1>3
  <2> QED
    BY <2>1 DEF InOrder
<1> HIDE DEF list, rank, N
<1>7. ASSUME NEW n \in 1..N
      PROVE  list[n] \in C /\ rank(list[n]) = n - 1
  <2>1. n - 1 \in 0..(N - 1)
    BY <1>1
  <2>2. \E r \in C : rank(r) = n - 1
    BY <1>5, <2>1
  <2> QED
    BY <1>6, <2>2
<1>8. list \in Seq(C) /\ Len(list) = N
  BY <1>1, <1>6, <1>7
<1>9. ASSUME NEW i \in 1..N, NEW j \in 1..N, i < j
      PROVE  Before(list[i], list[j])
  <2>1. /\ list[i] \in C /\ list[j] \in C /\ rank(list[i]) = i - 1 /\ rank(list[j]) = j - 1
    BY <1>7
  <2>2. ~(rank(list[j]) < rank(list[i])) /\ list[i] # list[j]
    BY <1>9, <2>1
  <2> QED
    BY <1>2, <1>4, <1>5, <2>1, <2>2
<1>10. ASSUME NEW r \in C
       PROVE  \E i \in 1..N : list[i] = r
  <2>1. rank(r) \in 0..(N - 1)
    BY <1>5
  <2>2. rank(r) + 1 \in 1..N
    BY <1>1, <2>1
  <2>3. list[rank(r) + 1] \in C /\ rank(list[rank(r) + 1]) = rank(r)
    <3>1. rank(list[rank(r) + 1]) = (rank(r) + 1) - 1
      BY <1>7, <2>2
    <3> QED
      BY <1>7, <2>1, <2>2, <3>1
  <2>4. list[rank(r) + 1] = r
    <3> SUFFICES ASSUME list[rank(r) + 1] # r PROVE FALSE
      OBVIOUS
    <3>1. <<list[rank(r) + 1], r>> \in R \/ <<r, list[rank(r) + 1]>> \in R
      BY <1>4, <2>3
    <3>2. rank(list[rank(r) + 1]) < rank(r) \/ rank(r) < rank(list[rank(r) + 1])
      BY <1>5, <2>3, <3>1
    <3> QED
      BY <2>1, <2>3, <3>2
  <2> QED
    BY <2>2, <2>4
<1> QED
  BY <1>1, <1>8, <1>9, <1>10 DEF list

\* One more record weighs what it weighs.
LEMMA UnitsAdd ==
  ASSUME NEW S \in SUBSET Records, NEW r \in Records \ S, NEW n \in [Records -> Nat],
         IsFiniteSet(Units(S, n))
  PROVE  /\ IsFiniteSet(Units(S \cup {r}, n))
         /\ Cardinality(Units(S \cup {r}, n)) = Cardinality(Units(S, n)) + n[r]
<1> DEFINE own == {r} \X (1..n[r])
<1>1. n[r] \in Nat
  OBVIOUS
<1>2. IsFiniteSet(1..n[r]) /\ Cardinality(1..n[r]) = n[r]
  <2>1. IsFiniteSet(1..n[r]) /\ Cardinality(1..n[r]) = IF 1 > n[r] THEN 0 ELSE n[r] - 1 + 1
    BY <1>1, FS_Interval
  <2> QED
    BY <1>1, <2>1
<1>3. IsFiniteSet({r}) /\ Cardinality({r}) = 1
  BY FS_Singleton
<1>4. IsFiniteSet(own) /\ Cardinality(own) = n[r]
  <2>1. IsFiniteSet(own) /\ Cardinality(own) = Cardinality({r}) * Cardinality(1..n[r])
    BY <1>2, <1>3, FS_Product
  <2> QED
    BY <1>1, <1>2, <1>3, <2>1
<1>5. Units(S \cup {r}, n) = Units(S, n) \cup own
  BY DEF Units
<1>6. Units(S, n) \cap own = {}
  BY DEF Units
<1> HIDE DEF own
<1>7. /\ IsFiniteSet(Units(S, n) \cup own)
      /\ Cardinality(Units(S, n) \cup own) =
           Cardinality(Units(S, n)) + Cardinality(own) - Cardinality(Units(S, n) \cap own)
  BY <1>4, FS_Union
<1>8. Cardinality(Units(S, n) \cap own) = 0 /\ Cardinality(Units(S, n)) \in Nat
  BY <1>6, FS_EmptySet, FS_CardinalityType
<1>9. Cardinality(Units(S, n) \cup own) = Cardinality(Units(S, n)) + n[r]
  BY <1>1, <1>4, <1>7, <1>8
<1> QED
  BY <1>5, <1>7, <1>9

------------------------------------------------------------------------------
(* The context of an actor: the loop of the budget *)

Packets == [told : Seq(Records), left : SUBSET Records, chars : Nat, tokens : Nat]
ToldIn(p) == {p.told[i] : i \in DOMAIN p.told}

\* What the packet is after the first records of a list.
Fair(p) ==
  /\ p \in Packets
  /\ IsFiniteSet(ToldIn(p)) /\ Cardinality(ToldIn(p)) = Len(p.told) /\ ToldIn(p) \cap p.left = {}
  /\ IsFiniteSet(Units(ToldIn(p), Characters)) /\ IsFiniteSet(Units(ToldIn(p), Tokens))
  /\ p.chars = Weight(ToldIn(p)).chars /\ p.tokens = Weight(ToldIn(p)).tokens
  /\ p.chars <= request.chars /\ \A budget \in request.tokens : p.tokens <= budget
  /\ \A r \in p.left : Exceeds(Weight({s \in ToldIn(p) : Before(s, r)}), Rec[r])
Covers(p, list, n) == ToldIn(p) \cup p.left = {list[i] : i \in 1..n}

LEMMA NothingIsFair ==
  ASSUME request \in Requests
  PROVE  Fair(NothingTold) /\ \A list : Covers(NothingTold, list, 0)
<1>1. NothingTold \in Packets /\ NothingTold.told = <<>> /\ NothingTold.left = {}
      /\ NothingTold.chars = 0 /\ NothingTold.tokens = 0
  BY DEF NothingTold, Packets
<1>2. ToldIn(NothingTold) = {}
  BY <1>1 DEF ToldIn
<1>3. IsFiniteSet({}) /\ Cardinality({}) = 0
  BY FS_EmptySet
<1>4. Units({}, Characters) = {} /\ Units({}, Tokens) = {}
  BY DEF Units
<1>5. request.chars \in Nat /\ request.tokens \subseteq Nat
  BY RequestsAssumption
<1>6. Weight({}).chars = 0 /\ Weight({}).tokens = 0
  BY <1>3, <1>4 DEF Weight
<1>7. 0 <= request.chars /\ \A budget \in request.tokens : 0 <= budget
  BY <1>5
<1>8. Fair(NothingTold)
  BY <1>1, <1>2, <1>3, <1>4, <1>6, <1>7 DEF Fair
<1>9. \A list : {list[i] : i \in 1..0} = {}
  OBVIOUS
<1> QED
  BY <1>1, <1>2, <1>8, <1>9 DEF Covers

\* One more record is told, or left out behind what comes before it.
LEMMA TakeIsFair ==
  ASSUME request \in Requests, NEW r \in Records, NEW p, Fair(p),
         \A s \in ToldIn(p) \cup p.left : Before(s, r)
  PROVE  /\ Fair(Take(p, r))
         /\ ToldIn(Take(p, r)) \cup Take(p, r).left = ToldIn(p) \cup p.left \cup {r}
<1>1. /\ p \in Packets /\ p.told \in Seq(Records) /\ p.left \in SUBSET Records
      /\ p.chars \in Nat /\ p.tokens \in Nat /\ ToldIn(p) \subseteq Records
  BY DEF Fair, Packets, ToldIn
<1>2. r \notin ToldIn(p) /\ r \notin p.left
  BY BeforeIsOrder
<1>3. /\ Rec[r].chars \in Nat /\ Rec[r].tokens \in Nat
      /\ Characters[r] = Rec[r].chars /\ Tokens[r] = Rec[r].tokens
      /\ Characters \in [Records -> Nat] /\ Tokens \in [Records -> Nat]
  BY RecAssumption DEF Records, Characters, Tokens
<1>4. CASE Exceeds(p, Rec[r])
  <2> DEFINE q == [p EXCEPT !.left = @ \cup {r}]
  <2>1. /\ Take(p, r) = q
        /\ q \in Packets /\ q.told = p.told /\ q.left = p.left \cup {r}
        /\ q.chars = p.chars /\ q.tokens = p.tokens
    BY <1>1, <1>4 DEF Take, Packets
  <2>2. ToldIn(q) = ToldIn(p)
    BY <2>1 DEF ToldIn
  <2>3. {s \in ToldIn(p) : Before(s, r)} = ToldIn(p)
    OBVIOUS
  <2>4. Exceeds(Weight(ToldIn(p)), Rec[r])
    BY <1>4 DEF Exceeds, Fair
  <2> HIDE DEF q
  <2>5. \A s \in q.left : Exceeds(Weight({t \in ToldIn(q) : Before(t, s)}), Rec[s])
    <3>1. \A s \in p.left : Exceeds(Weight({t \in ToldIn(q) : Before(t, s)}), Rec[s])
      BY <2>2 DEF Fair
    <3>2. Exceeds(Weight({t \in ToldIn(q) : Before(t, r)}), Rec[r])
      BY <2>2, <2>3, <2>4
    <3> QED
      BY <2>1, <3>1, <3>2
  <2>6. Fair(q)
    BY <1>2, <2>1, <2>2, <2>5 DEF Fair
  <2> QED
    BY <2>1, <2>2, <2>6
<1>5. CASE ~Exceeds(p, Rec[r])
  <2> DEFINE q == [p EXCEPT !.told = Append(@, r), !.chars = @ + Rec[r].chars,
                            !.tokens = @ + Rec[r].tokens]
  <2>1. /\ Take(p, r) = q
        /\ q \in Packets /\ q.told = Append(p.told, r) /\ q.left = p.left
        /\ q.chars = p.chars + Rec[r].chars /\ q.tokens = p.tokens + Rec[r].tokens
    <3>1. /\ Append(p.told, r) \in Seq(Records) /\ p.chars + Rec[r].chars \in Nat
          /\ p.tokens + Rec[r].tokens \in Nat
      BY <1>1, <1>3
    <3> QED
      BY <1>1, <1>5, <3>1 DEF Take, Packets
  <2> HIDE DEF q
  <2>2. ToldIn(q) = ToldIn(p) \cup {r} /\ Len(q.told) = Len(p.told) + 1
    <3>1. /\ Len(p.told) \in Nat /\ DOMAIN p.told = 1..Len(p.told)
          /\ DOMAIN q.told = 1..(Len(p.told) + 1)
          /\ \A i \in 1..Len(p.told) : q.told[i] = p.told[i]
          /\ q.told[Len(p.told) + 1] = r /\ Len(q.told) = Len(p.told) + 1
      BY <1>1, <2>1
    <3>2. 1..(Len(p.told) + 1) = 1..Len(p.told) \cup {Len(p.told) + 1}
      BY <3>1
    <3> QED
      BY <3>1, <3>2 DEF ToldIn
  <2>3. IsFiniteSet(ToldIn(q)) /\ Cardinality(ToldIn(q)) = Len(q.told)
    <3>1. IsFiniteSet(ToldIn(p)) /\ Cardinality(ToldIn(p)) = Len(p.told)
      BY DEF Fair
    <3>2. /\ IsFiniteSet(ToldIn(p) \cup {r})
          /\ Cardinality(ToldIn(p) \cup {r}) =
               IF r \in ToldIn(p) THEN Cardinality(ToldIn(p)) ELSE Cardinality(ToldIn(p)) + 1
      BY <3>1, FS_AddElement
    <3> QED
      BY <1>2, <2>2, <3>1, <3>2
  <2>4. /\ IsFiniteSet(Units(ToldIn(q), Characters)) /\ IsFiniteSet(Units(ToldIn(q), Tokens))
        /\ q.chars = Weight(ToldIn(q)).chars /\ q.tokens = Weight(ToldIn(q)).tokens
    <3>1. /\ IsFiniteSet(Units(ToldIn(p), Characters)) /\ IsFiniteSet(Units(ToldIn(p), Tokens))
          /\ p.chars = Cardinality(Units(ToldIn(p), Characters))
          /\ p.tokens = Cardinality(Units(ToldIn(p), Tokens))
      BY DEF Fair, Weight
    <3>2. r \in Records \ ToldIn(p) /\ ToldIn(p) \in SUBSET Records
      BY <1>1, <1>2
    <3>3. /\ IsFiniteSet(Units(ToldIn(p) \cup {r}, Characters))
          /\ Cardinality(Units(ToldIn(p) \cup {r}, Characters)) =
               Cardinality(Units(ToldIn(p), Characters)) + Characters[r]
      BY <1>3, <3>1, <3>2, UnitsAdd
    <3>4. /\ IsFiniteSet(Units(ToldIn(p) \cup {r}, Tokens))
          /\ Cardinality(Units(ToldIn(p) \cup {r}, Tokens)) =
               Cardinality(Units(ToldIn(p), Tokens)) + Tokens[r]
      BY <1>3, <3>1, <3>2, UnitsAdd
    <3> QED
      BY <1>3, <2>1, <2>2, <3>1, <3>3, <3>4 DEF Weight
  <2>5. q.chars <= request.chars /\ \A budget \in request.tokens : q.tokens <= budget
    <3>1. /\ ~(p.chars + Rec[r].chars > request.chars)
          /\ \A budget \in request.tokens : ~(p.tokens + Rec[r].tokens > budget)
      BY <1>5 DEF Exceeds
    <3>2. request.chars \in Nat /\ \A budget \in request.tokens : budget \in Nat
      BY RequestsAssumption
    <3>3. p.chars + Rec[r].chars \in Nat /\ p.tokens + Rec[r].tokens \in Nat
      BY <1>1, <1>3
    <3> QED
      BY <2>1, <3>1, <3>2, <3>3
  <2>6. ASSUME NEW s \in p.left
        PROVE  Exceeds(Weight({t \in ToldIn(q) : Before(t, s)}), Rec[s])
    <3>1. Before(s, r) /\ s \in Records
      BY <1>1
    <3>2. ~Before(r, s)
      BY <3>1, BeforeIsOrder
    <3>3. {t \in ToldIn(q) : Before(t, s)} = {t \in ToldIn(p) : Before(t, s)}
      BY <2>2, <3>2
    <3> QED
      BY <3>3 DEF Fair
  <2>7. ToldIn(q) \cap q.left = {}
    BY <1>2, <2>1, <2>2 DEF Fair
  <2>8. Fair(q)
    BY <2>1, <2>3, <2>4, <2>5, <2>6, <2>7 DEF Fair
  <2> QED
    BY <2>1, <2>2, <2>8
<1> QED
  BY <1>4, <1>5

LEMMA BudgetIsFair ==
  ASSUME request \in Requests, NEW C \in SUBSET Records
  PROVE  /\ Fair(ApplyBudget(C))
         /\ ToldIn(ApplyBudget(C)) \cup ApplyBudget(C).left = C
<1> DEFINE list == InOrder(C)
           N == Len(list)
           after == CHOOSE f : f = [n \in 0..N |-> IF n = 0 THEN NothingTold
                                                   ELSE Take(f[n - 1], list[n])]
<1>1. /\ list \in Seq(C) /\ N \in Nat
      /\ \A i, j \in 1..N : i < j => Before(list[i], list[j])
      /\ \A r \in C : \E i \in 1..N : list[i] = r
  BY InOrderSorts
<1>2. ApplyBudget(C) = after[N]
  BY DEF ApplyBudget
<1> HIDE DEF list, N
<1>3. ASSUME NEW p \in Packets, NEW i \in 1..N
      PROVE  list[i] \in Records /\ Take(p, list[i]) \in Packets
  <2>1. list[i] \in C
    BY <1>1 DEF N
  <2>2. list[i] \in Records /\ Rec[list[i]].chars \in Nat /\ Rec[list[i]].tokens \in Nat
    BY <2>1, RecAssumption DEF Records
  <2> DEFINE r == list[i]
  <2>3. /\ p.told \in Seq(Records) /\ p.left \in SUBSET Records
        /\ p.chars \in Nat /\ p.tokens \in Nat
    BY DEF Packets
  <2>4. /\ Append(p.told, r) \in Seq(Records) /\ p.left \cup {r} \in SUBSET Records
        /\ p.chars + Rec[r].chars \in Nat /\ p.tokens + Rec[r].tokens \in Nat
    BY <2>2, <2>3
  <2> HIDE DEF r
  <2>5. Take(p, r) \in Packets
    BY <2>4 DEF Take, Packets
  <2> QED
    BY <2>2, <2>5 DEF r
<1>4. \E f : f = [n \in 0..N |-> IF n = 0 THEN NothingTold ELSE Take(f[n - 1], list[n])]
  <2> DEFINE step == [x \in Packets \X (1..N) |-> Take(x[1], list[x[2]])]
  <2>1. step \in [Packets \X (1..N) -> Packets]
    BY <1>3
  <2>2. \A p \in Packets, i \in 1..N : step[<<p, i>>] = Take(p, list[i])
    OBVIOUS
  <2>3. NothingTold \in Packets
    BY DEF NothingTold, Packets
  <2> HIDE DEF step
  <2>4. \E f \in [0..N -> Packets] :
          f[0] = NothingTold /\ \A i \in 1..N : f[i] = step[<<f[i - 1], i>>]
    <3>1. N \in Nat /\ step \in Turning(Packets, N)
      BY <1>1, <2>1 DEF Turning
    <3>2. Unfoldings(Packets, N, NothingTold, step) # {}
      BY <2>3, <3>1, LoopExists
    <3> QED
      BY <3>2 DEF Unfoldings
  <2>5. PICK f \in [0..N -> Packets] :
          f[0] = NothingTold /\ \A i \in 1..N : f[i] = step[<<f[i - 1], i>>]
    BY <2>4
  <2>6. ASSUME NEW n \in 0..N
        PROVE  f[n] = IF n = 0 THEN NothingTold ELSE Take(f[n - 1], list[n])
    <3>1. CASE n = 0
      BY <2>5, <3>1
    <3>2. CASE n # 0
      <4>1. n \in 1..N /\ n - 1 \in 0..N
        BY <1>1, <3>2
      <4>2. f[n - 1] \in Packets /\ f[n] = step[<<f[n - 1], n>>]
        BY <2>5, <4>1
      <4> QED
        BY <2>2, <3>2, <4>1, <4>2
    <3> QED
      BY <3>1, <3>2
  <2>7. f = [n \in 0..N |-> f[n]]
    OBVIOUS
  <2> QED
    BY <2>6, <2>7
<1>5. after = [n \in 0..N |-> IF n = 0 THEN NothingTold ELSE Take(after[n - 1], list[n])]
  BY <1>4
<1> HIDE DEF after
<1>6. after[0] = NothingTold /\ \A i \in 1..N : after[i] = Take(after[i - 1], list[i])
  BY <1>1, <1>5
<1> DEFINE good == {n \in 0..N : Fair(after[n]) /\ Covers(after[n], list, n)}
<1>7. 0 \in good
  BY <1>1, <1>6, NothingIsFair
<1>8. ASSUME NEW n \in 1..N, n - 1 \in good
      PROVE  n \in good
  <2> DEFINE p == after[n - 1]
             r == list[n]
  <2>1. Fair(p) /\ ToldIn(p) \cup p.left = {list[i] : i \in 1..(n - 1)} /\ r \in Records
    <3>1. p \in Packets
      BY <1>8 DEF Fair
    <3> QED
      BY <1>3, <1>8, <3>1 DEF Covers
  <2>2. \A i \in 1..(n - 1) : Before(list[i], r)
    BY <1>1
  <2>3. after[n] = Take(p, r)
    BY <1>6
  <2> HIDE DEF p, r
  <2>4. /\ Fair(after[n])
        /\ ToldIn(after[n]) \cup after[n].left = ToldIn(p) \cup p.left \cup {r}
    BY <2>1, <2>2, <2>3, TakeIsFair
  <2>5. {list[i] : i \in 1..n} = {list[i] : i \in 1..(n - 1)} \cup {r}
    <3>1. 1..n = 1..(n - 1) \cup {n}
      OBVIOUS
    <3> QED
      BY <3>1 DEF r
  <2>6. Covers(after[n], list, n)
    BY <2>1, <2>4, <2>5 DEF Covers
  <2> QED
    BY <2>4, <2>6
<1>9. N \in good
  <2>1. good \in SUBSET (0..N)
    OBVIOUS
  <2> HIDE DEF good
  <2>2. good = 0..N
    BY <1>1, <1>7, <1>8, <2>1, LoopInduction
  <2> QED
    BY <1>1, <2>2
<1>10. {list[i] : i \in 1..N} = C
  BY <1>1 DEF N
<1> QED
  BY <1>2, <1>9, <1>10 DEF Covers

------------------------------------------------------------------------------
(* The context of an actor: reading *)

\* After the first k queries, what nobody touched is among the rows if it is visible and
\* one of them returns it; whatever is there was returned.
AfterQueries(k) ==
  /\ reading = [i \in 1..(7 - k) |-> Queries[i + k]]
  /\ \A r \in rows : r \in Records /\ \E i \in 1..k : r \in Result(Queries[i])
  /\ \A r \in Records \ touched :
       r \in rows <=> status[r] = "visible" /\ \E i \in 1..k : r \in Result(Queries[i])

ContextInv ==
  /\ request \in Requests
  /\ \E k \in 0..7 : AfterQueries(k)
  /\ packet # NoPacket =>
       /\ reading = <<>> /\ Fair(packet)
       /\ ToldIn(packet) \cup packet.left = Candidates(rows)

LEMMA QueriesLength == Len(Queries) = 7 /\ DOMAIN Queries = 1..7
BY DEF Queries

LEMMA AllRead ==
  ASSUME ContextInv, reading = <<>>
  PROVE  AfterQueries(7)
<1>1. PICK k \in 0..7 : AfterQueries(k)
  BY DEF ContextInv
<1>2. k = 7
  <2>1. Len(reading) = 0 /\ reading = [i \in 1..(7 - k) |-> Queries[i + k]]
    BY <1>1 DEF AfterQueries
  <2>2. DOMAIN reading = 1..(7 - k) /\ DOMAIN reading = {}
    BY <2>1
  <2> QED
    BY <2>2
<1> QED
  BY <1>1, <1>2

LEMMA ResultsAreRecords ==
  ASSUME NEW i \in 1..7
  PROVE  Result(Queries[i]) \subseteq Records
<1>1. Queries[i] \in {"knowledge", "facts", "actor_profiles", "temporal_attributes",
                      "subject_edges", "object_edges", "memories"}
  BY DEF Queries
<1> QED
  BY <1>1 DEF Result, KnowledgeRows, FactRows, ProfileRows, SpanRows, EdgeRows, MemoryRows, Of

LEMMA ResultsKept ==
  ASSUME request' = request
  PROVE  \A i \in 1..7 : Result(Queries[i])' = Result(Queries[i])
BY DEF Result, KnowledgeRows, FactRows, ProfileRows, SpanRows, EdgeRows, MemoryRows, InForce

LEMMA AfterQueriesKept ==
  ASSUME UNCHANGED <<request, reading, rows>>, NEW k \in 0..7, AfterQueries(k),
         \A r \in Records \ touched' : r \notin touched /\ status'[r] = status[r]
  PROVE  AfterQueries(k)'
<1>1. \A i \in 1..k : Result(Queries[i])' = Result(Queries[i])
  BY ResultsKept
<1>2. \A r \in rows' : r \in Records /\ \E i \in 1..k : r \in Result(Queries[i])'
  BY <1>1 DEF AfterQueries
<1>3. \A r \in Records \ touched' :
        r \in rows' <=> status'[r] = "visible" /\ \E i \in 1..k : r \in Result(Queries[i])'
  BY <1>1 DEF AfterQueries
<1> QED
  BY <1>2, <1>3 DEF AfterQueries

LEMMA ReadKeeps ==
  ASSUME ContextInv, Read
  PROVE  ContextInv'
<1>1. PICK k \in 0..7 : AfterQueries(k)
  BY DEF ContextInv
<1> DEFINE query == Head(reading)
<1>2. k \in 0..6 /\ query = Queries[k + 1]
      /\ reading' = [i \in 1..(7 - (k + 1)) |-> Queries[i + (k + 1)]]
  <2>1. Len(reading) > 0 /\ reading' = Tail(reading)
    BY DEF Read
  <2>2. reading = [i \in 1..(7 - k) |-> Queries[i + k]] /\ 7 - k \in Nat
    BY <1>1 DEF AfterQueries
  <2>3. Len(reading) = 7 - k
    BY <2>2
  <2>4. k \in 0..6
    BY <2>1, <2>3
  <2>5. Head(reading) = Queries[k + 1]
    BY <2>2, <2>3, <2>4
  <2>6. Tail(reading) = [i \in 1..(Len(reading) - 1) |-> reading[i + 1]]
    BY <2>2, <2>3, <2>4
  <2>7. \A i \in 1..(6 - k) : reading[i + 1] = Queries[i + (k + 1)]
    BY <2>2, <2>4
  <2>8. Len(reading) - 1 = 6 - k /\ 7 - (k + 1) = 6 - k
    BY <2>3
  <2>9. Tail(reading) = [i \in 1..(6 - k) |-> Queries[i + (k + 1)]]
    BY <2>6, <2>7, <2>8
  <2> QED
    BY <2>1, <2>4, <2>5, <2>8, <2>9
<1>3. /\ rows' = (rows \ Result(query)) \cup {r \in Result(query) : status[r] = "visible"}
      /\ status' = status /\ touched' = touched /\ request' = request /\ packet' = packet
  BY DEF Read
<1>4. packet = NoPacket
  BY DEF ContextInv, Read
<1>5. \A i \in 1..7 : Result(Queries[i])' = Result(Queries[i])
  BY <1>3, ResultsKept
<1>6. Result(query) \subseteq Records
  BY <1>2, ResultsAreRecords
<1> HIDE DEF query
<1>7. ASSUME NEW r
      PROVE  (\E i \in 1..(k + 1) : r \in Result(Queries[i]))
               <=> r \in Result(query) \/ \E i \in 1..k : r \in Result(Queries[i])
  <2>1. 1..(k + 1) = 1..k \cup {k + 1}
    OBVIOUS
  <2> QED
    BY <1>2, <2>1
<1>8. \A i \in 1..(k + 1) : Result(Queries[i])' = Result(Queries[i])
  BY <1>2, <1>5
<1>9. \A r \in rows' : r \in Records /\ \E i \in 1..(k + 1) : r \in Result(Queries[i])
  BY <1>1, <1>3, <1>6, <1>7 DEF AfterQueries
<1>10. \A r \in Records \ touched :
         r \in rows' <=> status[r] = "visible" /\ \E i \in 1..(k + 1) : r \in Result(Queries[i])
  BY <1>1, <1>3, <1>7 DEF AfterQueries
<1>11. AfterQueries(k + 1)'
  BY <1>2, <1>3, <1>8, <1>9, <1>10 DEF AfterQueries
<1> QED
  BY <1>2, <1>3, <1>4, <1>11 DEF ContextInv

LEMMA CandidatesRead == \A read : Candidates(read) \subseteq read
BY DEF Candidates

LEMMA AssembleKeeps ==
  ASSUME ContextInv, Assemble
  PROVE  ContextInv'
<1>1. /\ reading = <<>> /\ packet' = ApplyBudget(Candidates(rows))
      /\ UNCHANGED <<request, reading, rows, touched, status>>
  BY DEF Assemble
<1>2. AfterQueries(7)
  BY <1>1, AllRead
<1>3. rows \subseteq Records
  BY <1>2 DEF AfterQueries
<1>4. Candidates(rows) \in SUBSET Records
  BY <1>3, CandidatesRead
<1>5. /\ Fair(packet') /\ ToldIn(packet') \cup packet'.left = Candidates(rows)
  BY <1>1, <1>4, BudgetIsFair DEF ContextInv
<1>6. \A p : Fair(p) => (Fair(p))'
  BY <1>1 DEF Fair, Exceeds
<1>7. Candidates(rows)' = Candidates(rows)
  BY <1>1 DEF Candidates, Timely, InForce, Concealed
<1>8. AfterQueries(7)'
  <2>1. \A r \in Records \ touched' : r \notin touched /\ status'[r] = status[r]
    BY <1>1
  <2> QED
    BY <1>1, <1>2, <2>1, AfterQueriesKept
<1> QED
  BY <1>1, <1>5, <1>6, <1>7, <1>8 DEF ContextInv

LEMMA TicketKeeps ==
  ASSUME ContextInv, NEW t \in ContextTickets, ApplyTicket(t)
  PROVE  ContextInv'
<1>1. PICK k \in 0..7 : AfterQueries(k)
  BY DEF ContextInv
<1> DEFINE new == [r \in Records |-> IF r \in t.show THEN "visible"
                                     ELSE IF r \in t.hide /\ status[r] = "visible" THEN "other"
                                     ELSE status[r]]
<1>2. /\ packet = NoPacket /\ UNCHANGED <<request, reading, rows, packet>>
      /\ status' = new /\ touched' = touched \cup {r \in Records : new[r] # status[r]}
  BY DEF ApplyTicket
<1> HIDE DEF new
<1>3. \A r \in Records \ touched' : r \notin touched /\ status'[r] = status[r]
  BY <1>2
<1>4. AfterQueries(k)'
  BY <1>1, <1>2, <1>3, AfterQueriesKept
<1> QED
  BY <1>2, <1>4 DEF ContextInv

LEMMA ContextStarts == ContextInit => ContextInv
<1> SUFFICES ASSUME ContextInit PROVE ContextInv
  OBVIOUS
<1>1. reading = [i \in 1..(7 - 0) |-> Queries[i + 0]]
  BY DEF ContextInit, Queries
<1>2. AfterQueries(0)
  BY <1>1 DEF ContextInit, AfterQueries
<1> QED
  BY <1>2 DEF ContextInit, ContextInv

LEMMA ContextStutters == ContextInv /\ UNCHANGED contextVars => ContextInv'
<1> SUFFICES ASSUME ContextInv, UNCHANGED contextVars PROVE ContextInv'
  OBVIOUS
<1>1. UNCHANGED <<request, reading, rows, packet, status, touched>>
  BY DEF contextVars
<1>2. PICK k \in 0..7 : AfterQueries(k)
  BY DEF ContextInv
<1>3. AfterQueries(k)'
  <2>1. \A r \in Records \ touched' : r \notin touched /\ status'[r] = status[r]
    BY <1>1
  <2> QED
    BY <1>1, <1>2, <2>1, AfterQueriesKept
<1>4. Fair(packet) => Fair(packet)'
  BY <1>1 DEF Fair, Exceeds
<1>5. Candidates(rows)' = Candidates(rows)
  BY <1>1 DEF Candidates, Timely, InForce, Concealed
<1> QED
  BY <1>1, <1>3, <1>4, <1>5 DEF ContextInv

LEMMA ContextSteps == ContextInv /\ [ContextNext]_contextVars => ContextInv'
BY ReadKeeps, AssembleKeeps, TicketKeeps, ContextStutters DEF ContextNext

\* The invariant holds however the queries of a context and the author's tickets alternate
\* (context_assembly.py, assemble).
THEOREM ContextInductive == ContextSpec => []ContextInv
BY ContextStarts, ContextSteps, PTL DEF ContextSpec

------------------------------------------------------------------------------
(* The context of an actor: what may be told *)

\* A record is named by the attributions about it.
LEMMA NamedRight ==
  ASSUME NEW r \in Records, Rec[r].table # "knowledge", NEW type, NEW id
  PROVE  Target(r) \in Targets(type, id) <=> id = r /\ type \in TypeNames(r)
<1>1. Rec[r].table \in Tables
  BY RecAssumption DEF Records
<1>2. /\ TypeOf["facts"] = "fact" /\ TypeOf["actor_profiles"] = "actor_profile"
      /\ TypeOf["memories"] = "actor_memory_packet"
      /\ TypeOf["temporal_attributes"] = "entity_attribute_span"
      /\ TypeOf["relationships"] = "world_edge"
  BY DEF TypeOf
<1> QED
  BY <1>1, <1>2 DEF Tables, Target, Targets, TypeNames

LEMMA KnowledgeResults ==
  ASSUME NEW r \in Of("knowledge")
  PROVE  (\E i \in 1..7 : r \in Result(Queries[i])) <=> r \in KnowledgeRows
<1>1. Rec[r].table = "knowledge"
  BY DEF Of
<1>2. /\ Queries[1] = "knowledge"
      /\ \A i \in 2..7 : Queries[i] \in {"facts", "actor_profiles", "temporal_attributes",
                                         "subject_edges", "object_edges", "memories"}
  BY DEF Queries
<1>3. \A i \in 2..7 : r \notin Result(Queries[i])
  BY <1>1, <1>2 DEF Result, FactRows, ProfileRows, SpanRows, EdgeRows, MemoryRows, Of
<1>4. Result(Queries[1]) = KnowledgeRows
  BY <1>2 DEF Result
<1>5. \A i \in 1..7 : i = 1 \/ i \in 2..7
  OBVIOUS
<1> QED
  BY <1>3, <1>4, <1>5

\* What nobody touched is a candidate exactly if one may tell it.
LEMMA CandidatesRight ==
  ASSUME AfterQueries(7), NEW r \in Records, ({r} \cup About(r)) \cap touched = {}
  PROVE  r \in Candidates(rows) <=> MayTell(r)
<1> DEFINE returned(x) == \E i \in 1..7 : x \in Result(Queries[i])
           usable == {k \in {x \in rows : Timely(x)} : Rec[k].table = "knowledge"}
           says == {Rec[k].state :
                      k \in {j \in About(r) : status[j] = "visible" /\ InForce(j, request.at)}}
           forbidden == Named({k \in usable : Rec[k].state = "forbidden"})
           known == Named({k \in usable : Rec[k].state \in KnownStates}) \ forbidden
<1>1. r \in rows <=> status[r] = "visible" /\ returned(r)
  BY DEF AfterQueries
<1>2. \A k \in Records : Rec[k].table = "knowledge" => Timely(k)
  BY DEF Timely
<1>3. MayTell(r) <=>
        /\ returned(r) /\ status[r] = "visible" /\ Timely(r)
        /\ "forbidden" \notin says
        /\ (Rec[r].table # "knowledge" /\ Concealed(r)) => says \cap KnownStates # {}
  BY QueriesLength DEF MayTell
<1>4. r \in Candidates(rows) <=>
        r \in usable \/ (/\ r \in rows /\ Timely(r) /\ r \notin usable
                         /\ Target(r) \notin forbidden
                         /\ Concealed(r) => Target(r) \in known)
  BY DEF Candidates
<1>5. CASE Rec[r].table = "knowledge"
  <2>1. About(r) = {}
    BY <1>5 DEF About
  <2>2. says = {}
    BY <2>1
  <2>3. r \in usable <=> r \in rows
    BY <1>2, <1>5
  <2> HIDE DEF says, usable, returned
  <2> QED
    BY <1>1, <1>2, <1>3, <1>4, <1>5, <2>2, <2>3
<1>6. CASE Rec[r].table # "knowledge"
  <2>1. ASSUME NEW k
        PROVE  k \in usable /\ Target(r) \in Targets(Rec[k].names[1], Rec[k].names[2])
                 <=> k \in About(r) /\ status[k] = "visible" /\ InForce(k, request.at)
    <3>1. ASSUME k \in usable, Target(r) \in Targets(Rec[k].names[1], Rec[k].names[2])
          PROVE  k \in About(r) /\ status[k] = "visible" /\ InForce(k, request.at)
      <4>1. k \in rows /\ k \in Records /\ Rec[k].table = "knowledge" /\ returned(k)
        BY <3>1 DEF AfterQueries
      <4>2. k \in Of("knowledge")
        BY <4>1 DEF Of
      <4>3. k \in KnowledgeRows
        BY <4>1, <4>2, KnowledgeResults
      <4>4. k \in About(r)
        BY <1>6, <3>1, <4>2, <4>3, NamedRight DEF About, KnowledgeRows
      <4>5. k \notin touched
        BY <4>4
      <4> QED
        BY <4>1, <4>3, <4>4, <4>5 DEF AfterQueries, KnowledgeRows
    <3>2. ASSUME k \in About(r), status[k] = "visible", InForce(k, request.at)
          PROVE  k \in usable /\ Target(r) \in Targets(Rec[k].names[1], Rec[k].names[2])
      <4>1. /\ k \in Of("knowledge") /\ k \in Records /\ Rec[k].table = "knowledge"
            /\ Rec[k].role = request.viewpoint
            /\ Rec[k].names[2] = r /\ Rec[k].names[1] \in TypeNames(r)
        BY <1>6, <3>2 DEF About, Of
      <4>2. returned(k)
        BY <3>2, <4>1, KnowledgeResults DEF KnowledgeRows
      <4>3. k \in rows
        BY <3>2, <4>1, <4>2 DEF AfterQueries
      <4> QED
        BY <1>2, <1>6, <4>1, <4>3, NamedRight
    <3> QED
      BY <3>1, <3>2
  <2>2. \A K : Target(r) \in Named(K) <=>
                 \E k \in K : Target(r) \in Targets(Rec[k].names[1], Rec[k].names[2])
    BY DEF Named
  <2>3. r \notin usable
    BY <1>6
  <2> HIDE DEF usable
  <2>4. Target(r) \in forbidden <=> "forbidden" \in says
    BY <2>1, <2>2
  <2>5. Target(r) \in known <=> "forbidden" \notin says /\ says \cap KnownStates # {}
    <3>1. Target(r) \in Named({k \in usable : Rec[k].state \in KnownStates})
            <=> says \cap KnownStates # {}
      BY <2>1, <2>2
    <3> QED
      BY <2>4, <3>1
  <2> HIDE DEF says, forbidden, known, returned
  <2> QED
    BY <1>1, <1>3, <1>4, <1>6, <2>3, <2>4, <2>5
<1> QED
  BY <1>5, <1>6

LEMMA ToldRight == ContextInv => ToldIsRight
<1> SUFFICES ASSUME ContextInv, packet # NoPacket PROVE ToldIsRight
  BY DEF ToldIsRight
<1>1. /\ Fair(packet) /\ AfterQueries(7)
      /\ ToldIn(packet) \cup packet.left = Candidates(rows)
  BY AllRead DEF ContextInv
<1>2. \A r \in Records : ({r} \cup About(r)) \cap touched = {} =>
        (r \in ToldIn(packet) \cup packet.left <=> MayTell(r))
  BY <1>1, CandidatesRight
<1>3. /\ Cardinality(ToldIn(packet)) = Len(packet.told)
      /\ ToldIn(packet) \cap packet.left = {}
      /\ \A r \in packet.left :
           Exceeds(Weight({s \in ToldIn(packet) : Before(s, r)}), Rec[r])
  BY <1>1 DEF Fair
<1>4. ~Exceeds(Weight(ToldIn(packet)), [Row EXCEPT !.chars = 0, !.tokens = 0])
  <2> DEFINE nothing == [Row EXCEPT !.chars = 0, !.tokens = 0]
             w == Weight(ToldIn(packet))
  <2>1. nothing.chars = 0 /\ nothing.tokens = 0
    BY DEF Row
  <2>2. /\ w.chars = packet.chars /\ w.tokens = packet.tokens
        /\ packet.chars \in Nat /\ packet.tokens \in Nat
        /\ packet.chars <= request.chars
        /\ \A budget \in request.tokens : packet.tokens <= budget
    BY <1>1 DEF Fair, Packets
  <2>3. request.chars \in Nat /\ \A budget \in request.tokens : budget \in Nat
    BY RequestsAssumption DEF ContextInv
  <2> HIDE DEF w, nothing
  <2>4. ~Exceeds(w, nothing)
    BY <2>1, <2>2, <2>3 DEF Exceeds
  <2> QED
    BY <2>4 DEF w, nothing
<1> QED
  BY <1>2, <1>3, <1>4 DEF ToldIsRight, ToldIn

\* Whatever tickets are applied between the queries, what none of them touches is told or
\* left to the budget exactly if one may tell it; nothing is told twice; and the budget is
\* kept, and used in order of priority (ContextAssembler.assemble, _apply_budget).
THEOREM ActorsAreToldRight == ContextSpec => []ToldIsRight
BY ContextInductive, ToldRight, PTL

------------------------------------------------------------------------------
(* What authors write: the inductive invariant, in parts. *)

FirstIds(n) == {EntityIds[i] : i \in 1..n}
Origins == {"import", "candidate", "draft", "parted", "split"}
TicketStates == {"proposed", "approved", "rejected", "applied", "converted", "superseded"}
Modes == {"none", "compose", "candidate", "revision", "split", "merge", "review", "apply"}
DraftPackets ==
  [made : Origins, status : TicketStates, changes : Seq(Changes), payload : Proposals \cup {<<>>}]
DraftsType ==
  /\ \E n \in 1..Len(EntityIds) : DOMAIN named = FirstIds(n)
  /\ named = [e \in DOMAIN named |-> named[e]]
  /\ packets \in Seq(DraftPackets)
  /\ screen \in [mode : Modes, sources : Seq(Nat), drafts : Seq(Seq(Changes)), parted : BOOLEAN]
  /\ \A k \in ToSet(screen.sources) : k \in DOMAIN packets
  /\ screen.mode \in {"review", "apply"} => 1 \in DOMAIN screen.sources

\* Those that the author saw then who bear the name.
Namesakes(world, t) == {e \in t.seen : world[e] = t.said}

Says(c) == {c.subject, c.object}

\* What is said of a name is about an entity of the world, or about one of the change set.
BearerIn(world, changes, t) ==
  t.said # Blank =>
    /\ t.seen \subseteq DOMAIN world
    /\ \/ /\ t.how = "id" /\ t.of \in DOMAIN world /\ world[t.of] = t.said
          /\ Namesakes(world, t) \subseteq {t.of}
       \/ /\ t.how = "ref" /\ t.of # Blank /\ Namesakes(world, t) = {}
          /\ \E j \in DOMAIN changes :
               Entity(changes[j]) /\ changes[j].ref = t.of /\ changes[j].name = t.said
Kindred(world, changes) ==
  \A i \in DOMAIN changes : \A t \in Says(changes[i]) : BearerIn(world, changes, t)

\* A ref is that of an entity before it, of which the last has the name that was said.
LastNamed(changes, i, t) ==
  \E j \in 1..(i - 1) :
    /\ Entity(changes[j]) /\ changes[j].ref = t.of
    /\ t.said # Blank => changes[j].name = t.said
    /\ \A h \in (j + 1)..(i - 1) : Entity(changes[h]) => changes[h].ref # t.of
Ordered(changes) ==
  \A i \in DOMAIN changes : ~Entity(changes[i]) =>
    /\ changes[i].subject.how = "ref" => LastNamed(changes, i, changes[i].subject)
    /\ /\ changes[i].object.how = "ref"
       /\ changes[i].kind # "fact" \/ changes[i].object.said # Blank
       => LastNamed(changes, i, changes[i].object)

Whole(world, made, changes) ==
  /\ made \in {"draft", "import"} => Kindred(world, changes)
  /\ made = "draft" => Ordered(changes)
PacketsWhole == \A k \in DOMAIN packets : Whole(named, packets[k].made, packets[k].changes)
ScreenWhole == \A g \in DOMAIN screen.drafts : Whole(named, Making, screen.drafts[g])

FactKept(world, f) ==
  f.made = "draft" /\ f.said # Blank =>
    /\ f.seen \subseteq DOMAIN world /\ f.who \in DOMAIN world
    /\ world[f.who] = f.said /\ Namesakes(world, f) \subseteq {f.who}
FactsKept == \A f \in facts : FactKept(named, f)

DraftsInv == DraftsType /\ PacketsWhole /\ ScreenWhole /\ FactsKept

------------------------------------------------------------------------------
(* Lemmas about lists of changes *)

\* The items of the lists at those places, each once and in order.
InPlaces(items, lists, places) ==
  \E N \in Nat : \E at \in [1..N -> places] :
    /\ items = [n \in 1..N |-> items[n]]
    /\ \A n \in 1..N : items[n] = lists[at[n][1]][at[n][2]]
    /\ \A p \in places : \E n \in 1..N : at[n] = p
    /\ \A n, m \in 1..N : n < m => Precedes(at[n], at[m])

LEMMA ItemsArePlaced ==
  ASSUME NEW lists, NEW places, IsFiniteSet(places), places \subseteq Int \X Int,
         NEW items, items = ItemsAt(lists, places)
  PROVE  InPlaces(items, lists, places)
<1> DEFINE R == {pq \in places \X places : Precedes(pq[1], pq[2])}
           N == Cardinality(places)
           at == Ranked(places, R)
<1>1. N \in Nat
  BY FS_CardinalityType
<1>2. \A p, q \in places : <<p, q>> \in R <=> Precedes(p, q)
  OBVIOUS
<1>3. \A p \in places : p = <<p[1], p[2]>> /\ p[1] \in Int /\ p[2] \in Int
  OBVIOUS
<1> HIDE DEF R
<1>4. /\ \A a, b, c \in places : <<a, b>> \in R /\ <<b, c>> \in R => <<a, c>> \in R
      /\ \A a \in places : <<a, a>> \notin R
  BY <1>2, <1>3 DEF Precedes
<1>5. \A a, b \in places : a # b => <<a, b>> \in R \/ <<b, a>> \in R
  <2> SUFFICES ASSUME NEW a \in places, NEW b \in places, a # b
               PROVE  Precedes(a, b) \/ Precedes(b, a)
    BY <1>2
  <2>1. a = <<a[1], a[2]>> /\ a[1] \in Int /\ a[2] \in Int
    BY <1>3
  <2>2. b = <<b[1], b[2]>> /\ b[1] \in Int /\ b[2] \in Int
    BY <1>3
  <2>3. a[1] # b[1] \/ a[2] # b[2]
    BY <2>1, <2>2
  <2> QED
    BY <2>1, <2>2, <2>3 DEF Precedes
<1>6. at = Ranked(places, R)
  OBVIOUS
<1> HIDE DEF at
<1>7. /\ \A n \in 1..N : at[n] \in places
      /\ \A r \in places : \E n \in 1..N : at[n] = r
      /\ \A n, m \in 1..N : n < m => <<at[n], at[m]>> \in R
  BY <1>4, <1>5, <1>6, RankedList
<1>8. at = [n \in 1..N |-> at[n]]
  <2> DEFINE pick(n) == CHOOSE r \in places : Cardinality({s \in places : <<s, r>> \in R}) + 1 = n
  <2>1. at = [n \in 1..N |-> pick(n)]
    BY <1>6 DEF Ranked
  <2> HIDE DEF pick, N
  <2> QED
    BY <2>1
<1>9. at \in [1..N -> places]
  BY <1>7, <1>8
<1>10. ASSUME NEW n \in 1..N
       PROVE  at[n] = CHOOSE q \in places : Cardinality({p \in places : Precedes(p, q)}) + 1 = n
  <2>1. at[n] = CHOOSE q \in places : Cardinality({p \in places : <<p, q>> \in R}) + 1 = n
    BY <1>6 DEF Ranked
  <2>2. \A q \in places : {p \in places : <<p, q>> \in R} = {p \in places : Precedes(p, q)}
    BY <1>2
  <2>3. \A q \in places : Cardinality({p \in places : <<p, q>> \in R}) + 1 = n
                           <=> Cardinality({p \in places : Precedes(p, q)}) + 1 = n
    BY <2>2
  <2> QED
    BY <2>1, <2>3
<1>11. items = [n \in 1..N |-> items[n]] /\ \A n \in 1..N : items[n] = lists[at[n][1]][at[n][2]]
  <2> DEFINE pick(n) == CHOOSE q \in places : Cardinality({p \in places : Precedes(p, q)}) + 1 = n
  <2>1. items = [n \in 1..N |-> lists[pick(n)[1]][pick(n)[2]]]
    BY DEF ItemsAt
  <2>2. \A n \in 1..N : at[n] = pick(n)
    BY <1>10
  <2> HIDE DEF pick, N
  <2> QED
    BY <2>1, <2>2
<1>12. \A n, m \in 1..N : n < m => Precedes(at[n], at[m])
  BY <1>2, <1>7
<1> HIDE DEF N
<1> QED
  BY <1>1, <1>7, <1>9, <1>11, <1>12 DEF InPlaces

\* The items of the list that are not skipped, each once and in order.
KeptBy(items, list, skipped) ==
  \E m \in Nat : \E at \in [1..m -> DOMAIN list \ skipped] :
    /\ items = [i \in 1..m |-> items[i]] /\ \A i \in 1..m : items[i] = list[at[i]]
    /\ \A j \in DOMAIN list \ skipped : \E i \in 1..m : at[i] = j
    /\ \A i, j \in 1..m : i < j => at[i] < at[j]

LEMMA KeptItems ==
  ASSUME NEW list, NEW n \in Nat, DOMAIN list = 1..n, NEW skipped,
         NEW items, items = Kept(list, skipped)
  PROVE  KeptBy(items, list, skipped)
<1> DEFINE kept == DOMAIN list \ skipped
           places == {1} \X kept
<1>1. IsFiniteSet(kept)
  <2>1. IsFiniteSet(1..n)
    BY FS_Interval
  <2> QED
    BY <2>1, FS_Subset
<1>2. IsFiniteSet(places)
  <2>1. IsFiniteSet({1})
    BY FS_Singleton
  <2> QED
    BY <1>1, <2>1, FS_Product
<1>3. places \subseteq Int \X Int
  OBVIOUS
<1>4. items = ItemsAt(<<list>>, places)
  BY DEF Kept
<1>5. \A p \in places : p = <<1, p[2]>> /\ p[1] = 1 /\ p[2] \in kept
  OBVIOUS
<1>6. \A j \in kept : <<1, j>> \in places
  OBVIOUS
<1> DEFINE one == <<list>>
<1>o. items = ItemsAt(one, places)
  BY <1>4
<1>p. one[1] = list
  OBVIOUS
<1> HIDE DEF places, one
<1>g. InPlaces(items, one, places)
  BY <1>2, <1>3, <1>o, ItemsArePlaced
<1>m. PICK m \in Nat : \E to \in [1..m -> places] :
           /\ items = [i \in 1..m |-> items[i]]
           /\ \A i \in 1..m : items[i] = one[to[i][1]][to[i][2]]
           /\ \A p \in places : \E i \in 1..m : to[i] = p
           /\ \A i, j \in 1..m : i < j => Precedes(to[i], to[j])
  BY <1>g DEF InPlaces
<1>7. PICK to \in [1..m -> places] :
           /\ items = [i \in 1..m |-> items[i]]
           /\ \A i \in 1..m : items[i] = one[to[i][1]][to[i][2]]
           /\ \A p \in places : \E i \in 1..m : to[i] = p
           /\ \A i, j \in 1..m : i < j => Precedes(to[i], to[j])
  BY <1>m
<1> DEFINE at == [i \in 1..m |-> to[i][2]]
<1>8. \A i \in 1..m : to[i] \in places /\ to[i] = <<1, at[i]>> /\ at[i] \in kept
  BY <1>5, <1>7
<1>9. at \in [1..m -> kept]
  BY <1>8
<1>10. items = [i \in 1..m |-> items[i]] /\ \A i \in 1..m : items[i] = list[at[i]]
  <2>1. \A i \in 1..m : one[to[i][1]][to[i][2]] = list[at[i]]
    BY <1>8, <1>p
  <2> HIDE DEF at
  <2> QED
    BY <1>7, <2>1
<1>11. \A j \in kept : \E i \in 1..m : at[i] = j
  <2> SUFFICES ASSUME NEW j \in kept PROVE \E i \in 1..m : at[i] = j
    OBVIOUS
  <2>1. PICK i \in 1..m : to[i] = <<1, j>>
    BY <1>6, <1>7
  <2>2. to[i] = <<1, at[i]>>
    BY <1>8
  <2> HIDE DEF at
  <2> QED
    BY <2>1, <2>2
<1>12. \A i, j \in 1..m : i < j => at[i] < at[j]
  <2> SUFFICES ASSUME NEW i \in 1..m, NEW j \in 1..m, i < j
               PROVE  at[i] < at[j]
    OBVIOUS
  <2>1. Precedes(to[i], to[j])
    BY <1>7
  <2>2. to[i][1] = 1 /\ to[j][1] = 1 /\ to[i][2] = at[i] /\ to[j][2] = at[j]
    BY <1>8
  <2> QED
    BY <2>1, <2>2 DEF Precedes
<1> HIDE DEF at
<1> QED
  BY <1>9, <1>10, <1>11, <1>12 DEF KeptBy

\* What is in a list after some are left out, is of the same kind.
LEMMA KeptInSeq ==
  ASSUME NEW S, NEW list \in Seq(S), NEW skipped
  PROVE  Kept(list, skipped) \in Seq(S)
<1> DEFINE items == Kept(list, skipped)
<1>1. Len(list) \in Nat /\ DOMAIN list = 1..Len(list)
  OBVIOUS
<1>2. items = Kept(list, skipped)
  OBVIOUS
<1> HIDE DEF items
<1>3. KeptBy(items, list, skipped)
  BY <1>1, <1>2, KeptItems
<1>4. PICK m \in Nat : \E at \in [1..m -> DOMAIN list \ skipped] :
        items = [i \in 1..m |-> items[i]] /\ \A i \in 1..m : items[i] = list[at[i]]
  BY <1>3 DEF KeptBy
<1>5. PICK at \in [1..m -> DOMAIN list \ skipped] :
        items = [i \in 1..m |-> items[i]] /\ \A i \in 1..m : items[i] = list[at[i]]
  BY <1>4
<1>6. \A i \in 1..m : items[i] \in S
  BY <1>5
<1>7. items \in [1..m -> S]
  BY <1>5, <1>6
<1>8. items \in Seq(S)
  BY <1>7
<1> QED
  BY <1>2, <1>8

\* A list put in another order, the entities first.
Reordered(items, list) ==
  \E N \in Nat : \E at \in [1..N -> DOMAIN list] :
    /\ DOMAIN items = 1..N /\ \A n \in 1..N : items[n] = list[at[n]]
    /\ \A i \in DOMAIN list : \E n \in 1..N : at[n] = i
    /\ \A n, m \in 1..N : at[n] = at[m] => n = m
    /\ \A n, m \in 1..N : n < m /\ Entity(items[m]) => Entity(items[n])

LEMMA EntitiesComeFirst ==
  ASSUME NEW S, NEW list \in Seq(S), NEW items, items = EntitiesFirst(list)
  PROVE  items \in Seq(S) /\ Reordered(items, list)
<1> DEFINE ents == {i \in DOMAIN list : Entity(list[i])}
           others == DOMAIN list \ ents
           A == Kept(list, others)
           B == Kept(list, ents)
<1>1. Len(list) \in Nat /\ DOMAIN list = 1..Len(list)
  OBVIOUS
<1>2. items = A \o B
  BY DEF EntitiesFirst
<1>3. A \in Seq(S) /\ B \in Seq(S)
  BY KeptInSeq
<1>4. /\ KeptBy(A, list, others)
      /\ KeptBy(B, list, ents)
  BY <1>1, KeptItems
<1>5. /\ \A i \in ents : i \in DOMAIN list /\ Entity(list[i])
      /\ \A i \in others : i \in DOMAIN list /\ ~Entity(list[i])
      /\ \A i \in DOMAIN list : i \in ents \/ i \in others
      /\ DOMAIN list \ ents = others /\ DOMAIN list \ others = ents
  OBVIOUS
<1> HIDE DEF A, B, ents, others
<1>6. PICK a \in Nat : \E at \in [1..a -> ents] :
        /\ A = [i \in 1..a |-> A[i]] /\ \A i \in 1..a : A[i] = list[at[i]]
        /\ \A j \in ents : \E i \in 1..a : at[i] = j
        /\ \A i, j \in 1..a : i < j => at[i] < at[j]
  BY <1>4, <1>5 DEF KeptBy
<1>7. PICK b \in Nat : \E at \in [1..b -> others] :
        /\ B = [i \in 1..b |-> B[i]] /\ \A i \in 1..b : B[i] = list[at[i]]
        /\ \A j \in others : \E i \in 1..b : at[i] = j
        /\ \A i, j \in 1..b : i < j => at[i] < at[j]
  BY <1>4, <1>5 DEF KeptBy
<1>8. PICK p \in [1..a -> ents] :
        /\ A = [i \in 1..a |-> A[i]] /\ \A i \in 1..a : A[i] = list[p[i]]
        /\ \A j \in ents : \E i \in 1..a : p[i] = j
        /\ \A i, j \in 1..a : i < j => p[i] < p[j]
  BY <1>6
<1>9. PICK q \in [1..b -> others] :
        /\ B = [i \in 1..b |-> B[i]] /\ \A i \in 1..b : B[i] = list[q[i]]
        /\ \A j \in others : \E i \in 1..b : q[i] = j
        /\ \A i, j \in 1..b : i < j => q[i] < q[j]
  BY <1>7
<1>10. Len(A) = a /\ Len(B) = b
  BY <1>3, <1>8, <1>9
<1>11. /\ items \in Seq(S) /\ DOMAIN items = 1..(a + b)
       /\ \A n \in 1..(a + b) : items[n] = IF n <= a THEN A[n] ELSE B[n - a]
  <2>s. A \o B \in Seq(S)
    BY <1>3
  <2>l. Len(A \o B) = Len(A) + Len(B)
    BY <1>3
  <2>1. items \in Seq(S) /\ Len(items) = a + b
    BY <1>2, <1>10, <2>s, <2>l
  <2>2. DOMAIN items = 1..(a + b)
    BY <2>1
  <2>3. ASSUME NEW n \in 1..(a + b)
        PROVE  items[n] = IF n <= a THEN A[n] ELSE B[n - a]
    <3>1. n \in 1..(Len(A) + Len(B))
      BY <1>10
    <3>2. (A \o B)[n] = IF n <= Len(A) THEN A[n] ELSE B[n - Len(A)]
      BY <1>3, <3>1
    <3> QED
      BY <1>2, <1>10, <3>2
  <2> QED
    BY <2>1, <2>2, <2>3
<1> DEFINE N == a + b
           at == [n \in 1..N |-> IF n <= a THEN p[n] ELSE q[n - a]]
<1>12. N \in Nat /\ \A n \in 1..N : n <= a \/ n - a \in 1..b
  OBVIOUS
<1>13. ASSUME NEW n \in 1..N
       PROVE  /\ n <= a => at[n] = p[n] /\ at[n] \in ents /\ n \in 1..a
              /\ ~(n <= a) => at[n] = q[n - a] /\ at[n] \in others /\ n - a \in 1..b
  BY <1>8, <1>9, <1>12
<1>14. at \in [1..N -> DOMAIN list]
  BY <1>5, <1>13
<1>15. \A n \in 1..N : items[n] = list[at[n]]
  BY <1>8, <1>9, <1>11, <1>13
<1>16. ASSUME NEW i \in DOMAIN list
       PROVE  \E n \in 1..N : at[n] = i
  <2>1. CASE i \in ents
    <3>1. PICK n \in 1..a : p[n] = i
      BY <1>8, <2>1
    <3>2. n \in 1..N /\ n <= a
      OBVIOUS
    <3> QED
      BY <1>13, <3>1, <3>2
  <2>2. CASE i \in others
    <3>1. PICK n \in 1..b : q[n] = i
      BY <1>9, <2>2
    <3>2. n + a \in 1..N /\ ~(n + a <= a) /\ (n + a) - a = n
      OBVIOUS
    <3> QED
      BY <1>13, <3>1, <3>2
  <2> QED
    BY <1>5, <2>1, <2>2
<1>17. \A n \in 1..N : Entity(items[n]) <=> n <= a
  BY <1>5, <1>13, <1>15
<1>18. ASSUME NEW n \in 1..N, NEW m \in 1..N, at[n] = at[m]
       PROVE  n = m
  <2> HIDE DEF at
  <2>1. n <= a <=> m <= a
    BY <1>5, <1>13, <1>18
  <2>p. /\ \A i \in 1..a : p[i] \in Int
        /\ \A i, j \in 1..a : i < j => p[i] < p[j]
    BY <1>1, <1>5, <1>8
  <2>q. /\ \A i \in 1..b : q[i] \in Int
        /\ \A i, j \in 1..b : i < j => q[i] < q[j]
    BY <1>1, <1>5, <1>9
  <2>a. \A i, j \in 1..a : p[i] = p[j] => i = j
    <3> SUFFICES ASSUME NEW i \in 1..a, NEW j \in 1..a, p[i] = p[j] PROVE i = j
      OBVIOUS
    <3>1. ~(i < j) /\ ~(j < i)
      BY <2>p
    <3> QED
      BY <3>1
  <2>b. \A i, j \in 1..b : q[i] = q[j] => i = j
    <3> SUFFICES ASSUME NEW i \in 1..b, NEW j \in 1..b, q[i] = q[j] PROVE i = j
      OBVIOUS
    <3>1. ~(i < j) /\ ~(j < i)
      BY <2>q
    <3> QED
      BY <3>1
  <2>2. CASE n <= a
    <3>1. n \in 1..a /\ m \in 1..a /\ p[n] = p[m]
      BY <1>13, <1>18, <2>1, <2>2
    <3> QED
      BY <2>a, <3>1
  <2>3. CASE ~(n <= a)
    <3>1. n - a \in 1..b /\ m - a \in 1..b /\ q[n - a] = q[m - a]
      BY <1>13, <1>18, <2>1, <2>3
    <3>2. n - a = m - a
      BY <2>b, <3>1
    <3> QED
      BY <3>2
  <2> QED
    BY <2>2, <2>3
<1>19. \A n, m \in 1..N : n < m /\ Entity(items[m]) => Entity(items[n])
  BY <1>17
<1> HIDE DEF at
<1>20. DOMAIN items = 1..N
  BY <1>11
<1> HIDE DEF N
<1> QED
  BY <1>11, <1>12, <1>14, <1>15, <1>16, <1>18, <1>19, <1>20 DEF Reordered

LEMMA FreeRefsAreFree ==
  ASSUME NEW changes, NEW free, free = FreeRefs(changes)
  PROVE  /\ free \in Seq(STRING)
         /\ \A i \in DOMAIN free : free[i] # Blank /\ free[i] \notin RefsOf(changes)
         /\ \A i, j \in DOMAIN free : free[i] = free[j] => i = j
<1> DEFINE taken == {n \in DOMAIN DraftRefs : DraftRefs[n] \in RefsOf(changes)}
<1>1. free = Kept(DraftRefs, taken)
  BY DEF FreeRefs
<1>2. \A n \in DOMAIN DraftRefs \ taken : DraftRefs[n] \notin RefsOf(changes)
  OBVIOUS
<1> HIDE DEF taken
<1>3. /\ DraftRefs \in Seq(STRING) /\ \A n \in DOMAIN DraftRefs : DraftRefs[n] # Blank
      /\ \A i, j \in DOMAIN DraftRefs : DraftRefs[i] = DraftRefs[j] => i = j
  BY AuthoringAssumption DEF IsInjective
<1>4. Len(DraftRefs) \in Nat /\ DOMAIN DraftRefs = 1..Len(DraftRefs)
  BY <1>3
<1>5. free \in Seq(STRING)
  BY <1>1, <1>3, KeptInSeq
<1>6. KeptBy(free, DraftRefs, taken)
  BY <1>1, <1>4, KeptItems
<1>7. PICK m \in Nat : \E at \in [1..m -> DOMAIN DraftRefs \ taken] :
        /\ free = [i \in 1..m |-> free[i]] /\ \A i \in 1..m : free[i] = DraftRefs[at[i]]
        /\ \A i, j \in 1..m : i < j => at[i] < at[j]
  BY <1>6 DEF KeptBy
<1>8. PICK at \in [1..m -> DOMAIN DraftRefs \ taken] :
        /\ free = [i \in 1..m |-> free[i]] /\ \A i \in 1..m : free[i] = DraftRefs[at[i]]
        /\ \A i, j \in 1..m : i < j => at[i] < at[j]
  BY <1>7
<1>9. DOMAIN free = 1..m
  BY <1>8
<1>10. \A i \in 1..m : free[i] # Blank /\ free[i] \notin RefsOf(changes)
  BY <1>2, <1>3, <1>8
<1>11. ASSUME NEW i \in 1..m, NEW j \in 1..m, free[i] = free[j]
       PROVE  i = j
  <2>1. at[i] = at[j] /\ at[i] \in Int
    BY <1>3, <1>4, <1>8, <1>11
  <2>2. ~(i < j) /\ ~(j < i)
    BY <1>8, <2>1
  <2> QED
    BY <2>2
<1> QED
  BY <1>5, <1>9, <1>10, <1>11

\* The changes, in which every entity has a ref of its own.
RefsGiven(marked, changes) ==
  /\ marked \in Seq(Changes) /\ DOMAIN marked = DOMAIN changes
  /\ \A i \in DOMAIN changes :
       /\ marked[i].kind = changes[i].kind /\ marked[i].name = changes[i].name
       /\ marked[i].subject = changes[i].subject /\ marked[i].object = changes[i].object
       /\ changes[i].ref # Blank => marked[i].ref = changes[i].ref
       /\ Entity(changes[i]) => marked[i].ref # Blank
  /\ \A i, j \in DOMAIN changes :
       Entity(changes[i]) /\ Entity(changes[j]) /\ marked[i].ref = marked[j].ref => i = j

LEMMA RefsAreGiven ==
  ASSUME NEW changes \in Seq(Changes), EnoughRefs(changes),
         \A i, j \in DOMAIN changes :
           Entity(changes[i]) /\ Entity(changes[j]) /\ i # j =>
             changes[i].ref = Blank \/ changes[i].ref # changes[j].ref
  PROVE  RefsGiven(WithRefs(changes), changes)
<1> DEFINE free == FreeRefs(changes)
           count(i) == Cardinality(Unnamed(changes, i))
           marked == WithRefs(changes)
           N == Len(changes)
<1>1. free = FreeRefs(changes)
  OBVIOUS
<1>2. N \in Nat /\ DOMAIN changes = 1..N /\ \A i \in 1..N : changes[i] \in Changes
  OBVIOUS
<1>3. marked = [i \in 1..N |-> IF i \in Unnamed(changes, i)
                               THEN [changes[i] EXCEPT !.ref = free[count(i)]] ELSE changes[i]]
  BY <1>2 DEF WithRefs
<1>4. \A i \in 1..N : i \in Unnamed(changes, i) <=> Entity(changes[i]) /\ changes[i].ref = Blank
  BY DEF Unnamed
<1>5. \A i \in 1..N : Unnamed(changes, i) \subseteq Unnamed(changes, N)
  BY DEF Unnamed
<1>6. IsFiniteSet(Unnamed(changes, N))
  <2>1. IsFiniteSet(1..N) /\ Unnamed(changes, N) \subseteq 1..N
    BY <1>2, FS_Interval DEF Unnamed
  <2> QED
    BY <2>1, FS_Subset
<1>7. \A i \in 1..N : IsFiniteSet(Unnamed(changes, i)) /\ count(i) <= count(N)
  BY <1>5, <1>6, FS_Subset
<1>8. count(N) \in Nat /\ \A i \in 1..N : count(i) \in Nat
  BY <1>6, <1>7, FS_CardinalityType
<1>9. /\ free \in Seq(STRING)
      /\ \A i \in DOMAIN free : free[i] # Blank /\ free[i] \notin RefsOf(changes)
      /\ \A i, j \in DOMAIN free : free[i] = free[j] => i = j
  BY <1>1, FreeRefsAreFree
<1>10. count(N) <= Len(free) /\ Len(free) \in Nat /\ DOMAIN free = 1..Len(free)
  BY <1>9 DEF EnoughRefs
<1>11. \A i \in 1..N : \A j \in 1..N :
         i < j /\ j \in Unnamed(changes, j) => count(i) < count(j)
  <2> SUFFICES ASSUME NEW i \in 1..N, NEW j \in 1..N, i < j, j \in Unnamed(changes, j)
               PROVE  count(i) < count(j)
    OBVIOUS
  <2>1. Unnamed(changes, i) \subseteq Unnamed(changes, j) /\ j \notin Unnamed(changes, i)
    BY DEF Unnamed
  <2>2. count(i) <= count(j) /\ count(i) # count(j)
    BY <1>7, <2>1, FS_Subset
  <2> QED
    BY <1>8, <2>2
<1>12. \A i \in 1..N : i \in Unnamed(changes, i) => count(i) \in DOMAIN free
  <2> SUFFICES ASSUME NEW i \in 1..N, i \in Unnamed(changes, i) PROVE count(i) \in DOMAIN free
    OBVIOUS
  <2>1. count(i) # 0
    BY <1>7, FS_EmptySet
  <2> QED
    BY <1>7, <1>8, <1>10, <2>1
<1> HIDE DEF count, free, marked, N
<1>13. ASSUME NEW i \in 1..N
       PROVE  /\ marked[i] \in Changes
              /\ marked[i].kind = changes[i].kind /\ marked[i].name = changes[i].name
              /\ marked[i].subject = changes[i].subject /\ marked[i].object = changes[i].object
              /\ Entity(changes[i]) /\ changes[i].ref = Blank => marked[i].ref = free[count(i)]
              /\ changes[i].ref # Blank => marked[i].ref = changes[i].ref
  <2>1. CASE i \in Unnamed(changes, i)
    <3>1. marked[i] = [changes[i] EXCEPT !.ref = free[count(i)]]
      BY <1>3, <2>1
    <3>2. free[count(i)] \in STRING /\ changes[i].ref = Blank
      BY <1>4, <1>9, <1>12, <2>1
    <3> QED
      BY <1>2, <3>1, <3>2 DEF Changes
  <2>2. CASE i \notin Unnamed(changes, i)
    <3>1. marked[i] = changes[i]
      BY <1>3, <2>2
    <3> QED
      BY <1>2, <1>4, <2>2, <3>1
  <2> QED
    BY <2>1, <2>2
<1>14. DOMAIN marked = 1..N
  BY <1>3
<1>15. marked \in Seq(Changes)
  <2>1. marked \in [1..N -> Changes]
    BY <1>3, <1>13
  <2> QED
    BY <1>2, <2>1
<1>16. ASSUME NEW i \in 1..N, Entity(changes[i])
       PROVE  marked[i].ref # Blank
  BY <1>4, <1>9, <1>12, <1>13, <1>16
<1>17. ASSUME NEW i \in 1..N, NEW j \in 1..N, Entity(changes[i]), Entity(changes[j]),
              marked[i].ref = marked[j].ref, i < j
       PROVE  FALSE
  <2>1. \A n \in 1..N : Entity(changes[n]) => changes[n].ref \in RefsOf(changes)
    BY <1>2 DEF RefsOf
  <2>2. CASE changes[i].ref = Blank /\ changes[j].ref = Blank
    <3>1. count(i) = count(j)
      BY <1>4, <1>9, <1>12, <1>13, <1>17, <2>2
    <3> QED
      BY <1>4, <1>8, <1>11, <1>17, <2>2, <3>1
  <2>3. CASE changes[i].ref = Blank /\ changes[j].ref # Blank
    BY <1>4, <1>9, <1>12, <1>13, <1>17, <2>1, <2>3
  <2>4. CASE changes[i].ref # Blank /\ changes[j].ref = Blank
    BY <1>4, <1>9, <1>12, <1>13, <1>17, <2>1, <2>4
  <2>5. CASE changes[i].ref # Blank /\ changes[j].ref # Blank
    BY <1>2, <1>13, <1>17, <2>5
  <2> QED
    BY <2>2, <2>3, <2>4, <2>5
<1>18. ASSUME NEW i \in 1..N, NEW j \in 1..N, Entity(changes[i]), Entity(changes[j]),
              marked[i].ref = marked[j].ref
       PROVE  i = j
  <2>1. ~(i < j) /\ ~(j < i)
    BY <1>17, <1>18
  <2> QED
    BY <1>2, <2>1
<1> QED
  BY <1>2, <1>13, <1>14, <1>15, <1>16, <1>18 DEF RefsGiven, marked

\* The entities of the one list are also in the other.
HasEntities(ys, xs) ==
  \A j \in DOMAIN xs : Entity(xs[j]) /\ xs[j].ref # Blank =>
    \E i \in DOMAIN ys : Entity(ys[i]) /\ ys[i].ref = xs[j].ref /\ ys[i].name = xs[j].name

LEMMA BearersStay ==
  ASSUME NEW xs, NEW ys, HasEntities(ys, xs), NEW t, BearerIn(named, xs, t)
  PROVE  BearerIn(named, ys, t)
BY DEF HasEntities, BearerIn

\* There is an entity with the ref, and with the name that was said.
RefIn(changes, t) ==
  \E j \in DOMAIN changes :
    /\ Entity(changes[j]) /\ changes[j].ref = t.of
    /\ t.said # Blank => changes[j].name = t.said

\* What a reference points to is what was meant.
LEMMA PointedIsMeant ==
  ASSUME NEW changes \in Seq(Changes), NEW marked, RefsGiven(marked, changes),
         DOMAIN named \subseteq STRING,
         NEW t \in References, NEW u, u = Pointed(named, marked, t), u # Missing
  PROVE  /\ u \in References
         /\ BearerIn(named, changes, t) =>
              /\ BearerIn(named, marked, u)
              /\ u.how = "ref" => RefIn(marked, u)
<1>1. \A i \in DOMAIN marked : marked[i] \in Changes /\ Entity(marked[i]) <=> Entity(changes[i])
  BY DEF RefsGiven, Entity
<1>2. HasEntities(marked, changes)
  BY DEF RefsGiven, HasEntities, Entity
<1>3. BearerIn(named, changes, t) => BearerIn(named, marked, t)
  BY <1>2, BearersStay
<1>4. t.how \in Hows /\ t.of \in STRING /\ t.said \in STRING /\ t.seen \in SUBSET STRING
  BY DEF References
<1>r. \A how \in Hows : \A of, said \in STRING : \A seen \in SUBSET STRING :
        [how |-> how, of |-> of, said |-> said, seen |-> seen] \in References
  BY DEF References
<1>s. "id" \in Hows /\ "ref" \in Hows /\ "id" # "ref"
  BY DEF Hows
<1>b. Blank \in STRING
  BY AuthoringAssumption
<1>t. ASSUME NEW how \in Hows, NEW of \in STRING
      PROVE  /\ Token(how, of) \in References /\ Token(how, of).said = Blank
             /\ Token(how, of).how = how /\ Token(how, of).of = of
  <2>1. Token(how, of) = [how |-> how, of |-> of, said |-> Blank, seen |-> {}]
    BY DEF Token
  <2>2. {} \in SUBSET STRING
    OBVIOUS
  <2> QED
    BY <1>b, <1>r, <2>1, <2>2
<1>5. CASE t.how = "ref"
  <2>1. t.of \in RefsOf(marked) /\ u = t
    BY <1>5 DEF Pointed
  <2>2. CASE t.said = Blank
    <3>1. RefIn(marked, t)
      BY <2>1, <2>2 DEF RefsOf, RefIn
    <3> QED
      BY <1>3, <2>1, <3>1
  <2>3. CASE t.said # Blank
    <3>1. BearerIn(named, changes, t) => RefIn(marked, t)
      BY <1>3, <1>5, <2>3 DEF BearerIn, RefIn
    <3> QED
      BY <1>3, <2>1, <3>1
  <2> QED
    BY <2>2, <2>3
<1>6. CASE t.how = "name"
  <2>1. CASE t.of = "world" \/ t.of \in DOMAIN named
    <3>1. u = Token("id", t.of)
      BY <1>6, <2>1 DEF Pointed
    <3>i. "id" \in Hows /\ t.of \in STRING
      BY <1>4, <1>s
    <3>j. /\ Token("id", t.of) \in References /\ Token("id", t.of).said = Blank
          /\ Token("id", t.of).how = "id"
      BY <1>t, <3>i
    <3>2. u \in References /\ u.said = Blank /\ u.how = "id"
      BY <3>1, <3>j
    <3> QED
      BY <1>s, <3>2 DEF BearerIn
  <2>2. CASE ~(t.of = "world" \/ t.of \in DOMAIN named) /\ t.of \in RefsOf(marked)
    <3>1. u = Token("ref", t.of)
      BY <1>6, <2>2 DEF Pointed
    <3>i. "ref" \in Hows /\ t.of \in STRING
      BY <1>4, <1>s
    <3>j. /\ Token("ref", t.of) \in References /\ Token("ref", t.of).said = Blank
          /\ Token("ref", t.of).of = t.of
      BY <1>t, <3>i
    <3>2. u \in References /\ u.said = Blank /\ u.of = t.of
      BY <3>1, <3>j
    <3>3. BearerIn(named, marked, u) /\ RefIn(marked, u)
      BY <2>2, <3>2 DEF BearerIn, RefIn, RefsOf
    <3> QED
      BY <3>2, <3>3
  <2>3. CASE ~(t.of = "world" \/ t.of \in DOMAIN named) /\ t.of \notin RefsOf(marked)
    <3> DEFINE bearers == Bearers(named, marked, t.of)
               b == CHOOSE x \in bearers : TRUE
    <3>1. u = IF \A x \in bearers : bearers # {x} THEN Missing
              ELSE [b EXCEPT !.said = t.of, !.seen = DOMAIN named]
      BY <1>6, <2>3 DEF Pointed
    <3>2. \E x \in bearers : bearers = {x}
      BY <3>1
    <3> HIDE DEF bearers
    <3>3. bearers = {b} /\ b \in bearers
      BY <3>2
    <3> HIDE DEF b
    <3>4. u = [b EXCEPT !.said = t.of, !.seen = DOMAIN named]
      BY <3>1, <3>2
    <3>5. /\ \A e \in DOMAIN named : named[e] = t.of => Token("id", e) \in bearers
          /\ \A x \in bearers :
               \/ \E e \in DOMAIN named : named[e] = t.of /\ x = Token("id", e)
               \/ \E i \in DOMAIN marked :
                    /\ Entity(marked[i]) /\ marked[i].name = t.of /\ x = Token("ref", marked[i].ref)
      BY DEF bearers, Bearers
    <3>6. CASE \E e \in DOMAIN named : named[e] = t.of /\ b = Token("id", e)
      <4>1. PICK e \in DOMAIN named : named[e] = t.of /\ b = Token("id", e)
        BY <3>6
      <4>2. u = [how |-> "id", of |-> e, said |-> t.of, seen |-> DOMAIN named]
        BY <3>4, <4>1 DEF Token
      <4>3. \A x \in DOMAIN named : named[x] = t.of => x = e
        <5> SUFFICES ASSUME NEW x \in DOMAIN named, named[x] = t.of PROVE x = e
          OBVIOUS
        <5>1. Token("id", x) = Token("id", e)
          BY <3>3, <3>5, <4>1
        <5> QED
          BY <5>1 DEF Token
      <4>4. u \in References
        BY <1>4, <1>r, <1>s, <4>2
      <4>5. u.how = "id" /\ u.of = e /\ u.said = t.of /\ u.seen = DOMAIN named
        BY <4>2
      <4>6. Namesakes(named, u) \subseteq {e}
        BY <4>3, <4>5 DEF Namesakes
      <4>7. BearerIn(named, marked, u)
        BY <4>1, <4>5, <4>6 DEF BearerIn
      <4> QED
        BY <4>4, <4>5, <4>7
    <3>7. CASE \E i \in DOMAIN marked :
                 /\ Entity(marked[i]) /\ marked[i].name = t.of /\ b = Token("ref", marked[i].ref)
      <4>1. PICK i \in DOMAIN marked :
                 /\ Entity(marked[i]) /\ marked[i].name = t.of /\ b = Token("ref", marked[i].ref)
        BY <3>7
      <4>2. u = [how |-> "ref", of |-> marked[i].ref, said |-> t.of, seen |-> DOMAIN named]
        BY <3>4, <4>1 DEF Token
      <4>3. \A x \in DOMAIN named : named[x] # t.of
        <5> SUFFICES ASSUME NEW x \in DOMAIN named, named[x] = t.of PROVE FALSE
          OBVIOUS
        <5>1. Token("id", x) = Token("ref", marked[i].ref)
          BY <3>3, <3>5, <4>1
        <5> QED
          BY <5>1 DEF Token
      <4>4. marked[i].ref \in STRING /\ marked[i].ref # Blank
        <5>1. marked[i].ref # Blank /\ marked[i] \in Changes
          BY <1>1, <4>1 DEF RefsGiven
        <5> QED
          BY <5>1 DEF Changes
      <4>5. u \in References
        BY <1>4, <1>r, <1>s, <4>2, <4>4
      <4>6. u.how = "ref" /\ u.of = marked[i].ref /\ u.said = t.of /\ u.seen = DOMAIN named
        BY <4>2
      <4>7. Namesakes(named, u) = {}
        BY <4>3, <4>6 DEF Namesakes
      <4>8. BearerIn(named, marked, u)
        BY <4>1, <4>4, <4>6, <4>7 DEF BearerIn
      <4>9. RefIn(marked, u)
        BY <4>1, <4>6 DEF RefIn
      <4> QED
        BY <4>5, <4>8, <4>9
    <3> QED
      BY <3>3, <3>5, <3>6, <3>7
  <2> QED
    BY <2>1, <2>2, <2>3
<1>7. CASE t.how \notin {"ref", "name"}
  <2>1. u = t
    BY <1>7 DEF Pointed
  <2> QED
    BY <1>3, <1>7, <2>1
<1> QED
  BY <1>5, <1>6, <1>7
\* Change sets come out of the resolution with every reference after what it refers to.
LEMMA NormalizedIsWhole ==
  ASSUME NEW changes \in Seq(Changes), DOMAIN named \subseteq STRING,
         Resolvable(named, changes), NEW items, items = Normalized(named, changes)
  PROVE  /\ items \in Seq(Changes)
         /\ Kindred(named, changes) => Kindred(named, items) /\ Ordered(items)
<1> DEFINE marked == WithRefs(changes)
           resolved == [i \in DOMAIN marked |-> ResolvedChange(named, marked, marked[i])]
           S == {resolved[i] : i \in DOMAIN resolved}
<1>1. RefsGiven(marked, changes)
  BY RefsAreGiven DEF Resolvable
<1>2. items = EntitiesFirst(resolved)
  BY DEF Normalized
<1>3. \A c \in ToSet(items) : Missing # c.subject /\ Missing # c.object
  BY DEF Resolvable
<1> HIDE DEF marked
<1>4. /\ marked \in Seq(Changes) /\ DOMAIN marked = DOMAIN changes
      /\ DOMAIN changes = 1..Len(changes) /\ Len(changes) \in Nat
      /\ \A i \in DOMAIN changes : changes[i] \in Changes /\ marked[i] \in Changes
  BY <1>1 DEF RefsGiven
<1>5. /\ DOMAIN resolved = DOMAIN changes
      /\ \A i \in DOMAIN changes : resolved[i] = ResolvedChange(named, marked, marked[i])
  BY <1>4
<1>6. resolved \in Seq(S)
  <2>1. resolved \in [1..Len(changes) -> S]
    BY <1>4
  <2> HIDE DEF resolved, S
  <2> QED
    BY <1>4, <2>1
<1> HIDE DEF resolved, S
<1>7. Reordered(items, resolved)
  BY <1>2, <1>6, EntitiesComeFirst
<1>8. PICK N \in Nat : \E at \in [1..N -> DOMAIN resolved] :
        /\ DOMAIN items = 1..N /\ \A n \in 1..N : items[n] = resolved[at[n]]
        /\ \A i \in DOMAIN resolved : \E n \in 1..N : at[n] = i
        /\ \A n, m \in 1..N : at[n] = at[m] => n = m
        /\ \A n, m \in 1..N : n < m /\ Entity(items[m]) => Entity(items[n])
  BY <1>7 DEF Reordered
<1>9. PICK at \in [1..N -> DOMAIN changes] :
        /\ DOMAIN items = 1..N /\ \A n \in 1..N : items[n] = resolved[at[n]]
        /\ \A i \in DOMAIN changes : \E n \in 1..N : at[n] = i
        /\ \A n, m \in 1..N : at[n] = at[m] => n = m
        /\ \A n, m \in 1..N : n < m /\ Entity(items[m]) => Entity(items[n])
  BY <1>5, <1>8
<1>10. \A i \in DOMAIN changes : resolved[i].subject # Missing /\ resolved[i].object # Missing
  <2> SUFFICES ASSUME NEW i \in DOMAIN changes
               PROVE  resolved[i].subject # Missing /\ resolved[i].object # Missing
    OBVIOUS
  <2>1. PICK n \in 1..N : at[n] = i
    BY <1>9
  <2>2. items[n] \in ToSet(items) /\ items[n] = resolved[i]
    BY <1>9, <2>1 DEF ToSet
  <2> QED
    BY <1>3, <2>2
<1>11. ASSUME NEW i \in DOMAIN changes
       PROVE  /\ resolved[i] \in Changes
              /\ resolved[i].kind = marked[i].kind /\ resolved[i].name = marked[i].name
              /\ resolved[i].ref = marked[i].ref
              /\ Kindred(named, changes) =>
                   /\ \A t \in Says(resolved[i]) : BearerIn(named, marked, t)
                   /\ resolved[i].subject.how = "ref" => RefIn(marked, resolved[i].subject)
                   /\ /\ resolved[i].object.how = "ref"
                      /\ resolved[i].kind # "fact" \/ resolved[i].object.said # Blank
                      => RefIn(marked, resolved[i].object)
  <2> DEFINE c == changes[i]
             m == marked[i]
             r == resolved[i]
             pointed(t) == Pointed(named, marked, t)
             kin == Kindred(named, changes)
             looked == ~(m.kind = "fact" /\ m.object.how = "ref")
  <2>1. m.subject = c.subject /\ m.object = c.object
    BY <1>1 DEF RefsGiven
  <2>2. /\ c.subject \in References /\ c.object \in References
        /\ kin => BearerIn(named, changes, c.subject) /\ BearerIn(named, changes, c.object)
    BY <1>4 DEF Kindred, Says, Changes
  <2>3. r = [m EXCEPT !.subject = pointed(m.subject),
                      !.object = IF looked THEN pointed(m.object) ELSE m.object]
    <3>1. r = ResolvedChange(named, marked, m)
      BY <1>5
    <3> HIDE DEF r, m
    <3> QED
      BY <3>1 DEF ResolvedChange
  <2> HIDE DEF pointed
  <2>4. /\ r.subject = pointed(c.subject)
        /\ looked => r.object = pointed(c.object)
        /\ ~looked => r.object = c.object /\ m.kind = "fact" /\ c.object.how = "ref"
        /\ r.kind = m.kind /\ r.name = m.name /\ r.ref = m.ref
    BY <1>4, <2>1, <2>3 DEF Changes
  <2>s. /\ r.subject \in References
        /\ kin => /\ BearerIn(named, marked, r.subject)
                  /\ r.subject.how = "ref" => RefIn(marked, r.subject)
    BY <1>1, <1>10, <2>2, <2>4, PointedIsMeant DEF pointed
  <2>5. CASE looked
    <3>1. /\ r.object \in References
          /\ kin => /\ BearerIn(named, marked, r.object)
                    /\ r.object.how = "ref" => RefIn(marked, r.object)
      BY <1>1, <1>10, <2>2, <2>4, <2>5, PointedIsMeant DEF pointed
    <3>2. r \in Changes
      BY <1>4, <2>3, <2>4, <2>5, <2>s, <3>1 DEF Changes
    <3> HIDE DEF r, m, looked
    <3> QED
      BY <2>4, <2>s, <3>1, <3>2 DEF Says, r, m
  <2>6. CASE ~looked
    <3>1. HasEntities(marked, changes)
      BY <1>1 DEF RefsGiven, HasEntities, Entity
    <3>2. /\ r.object \in References /\ r.kind = "fact"
          /\ kin => BearerIn(named, marked, r.object)
      BY <2>2, <2>4, <2>6, <3>1, BearersStay
    <3>3. kin /\ r.object.how = "ref" /\ r.object.said # Blank => RefIn(marked, r.object)
      BY <3>2 DEF BearerIn, RefIn
    <3>4. r \in Changes
      BY <1>4, <2>3, <2>4, <2>6, <2>s, <3>2 DEF Changes
    <3> HIDE DEF r, m, looked
    <3> QED
      BY <2>4, <2>s, <3>2, <3>3, <3>4 DEF Says, r, m
  <2> QED
    BY <2>5, <2>6
<1>12. items \in Seq(Changes)
  <2>1. resolved \in Seq(Changes)
    <3>1. resolved \in [1..Len(changes) -> Changes]
      BY <1>4, <1>5, <1>6, <1>11
    <3> QED
      BY <1>4, <3>1
  <2> QED
    BY <1>2, <2>1, EntitiesComeFirst
<1>13. HasEntities(items, marked)
  <2> SUFFICES ASSUME NEW i \in DOMAIN marked, Entity(marked[i])
               PROVE  \E n \in DOMAIN items : Entity(items[n]) /\ items[n].ref = marked[i].ref
                                              /\ items[n].name = marked[i].name
    BY DEF HasEntities
  <2>1. PICK n \in 1..N : at[n] = i
    BY <1>4, <1>9
  <2>2. items[n] = resolved[i] /\ n \in DOMAIN items
    BY <1>9, <2>1
  <2> QED
    BY <1>4, <1>11, <2>2 DEF Entity
<1>14. ASSUME Kindred(named, changes)
       PROVE  Kindred(named, items)
  <2> SUFFICES ASSUME NEW n \in DOMAIN items, NEW t \in Says(items[n])
               PROVE  BearerIn(named, items, t)
    BY DEF Kindred
  <2>1. at[n] \in DOMAIN changes /\ items[n] = resolved[at[n]]
    BY <1>9
  <2>2. BearerIn(named, marked, t)
    BY <1>11, <1>14, <2>1
  <2> QED
    BY <1>13, <2>2, BearersStay
<1>15. ASSUME NEW n \in 1..N, ~Entity(items[n]), NEW t, RefIn(marked, t)
       PROVE  LastNamed(items, n, t)
  <2>1. PICK j \in DOMAIN changes :
          /\ Entity(marked[j]) /\ marked[j].ref = t.of
          /\ t.said # Blank => marked[j].name = t.said
    BY <1>4, <1>15 DEF RefIn
  <2>2. PICK m \in 1..N : at[m] = j
    BY <1>9
  <2>3. /\ Entity(items[m]) /\ items[m].ref = t.of
        /\ t.said # Blank => items[m].name = t.said
    BY <1>9, <1>11, <2>1, <2>2 DEF Entity
  <2>4. m # n /\ ~(n < m)
    BY <1>9, <1>15, <2>3
  <2>5. m \in 1..(n - 1)
    BY <2>4
  <2>6. ASSUME NEW h \in (m + 1)..(n - 1), Entity(items[h]), items[h].ref = t.of
        PROVE  FALSE
    <3>1. h \in 1..N /\ h # m
      OBVIOUS
    <3>2. at[h] \in DOMAIN changes /\ items[h] = resolved[at[h]]
      BY <1>9, <3>1
    <3>3. Entity(marked[at[h]]) /\ marked[at[h]].ref = t.of
      BY <1>11, <2>6, <3>2 DEF Entity
    <3>4. Entity(changes[at[h]]) /\ Entity(changes[j])
      BY <1>1, <2>1, <3>2, <3>3 DEF RefsGiven, Entity
    <3>5. at[h] = j
      BY <1>1, <2>1, <3>2, <3>3, <3>4 DEF RefsGiven
    <3> QED
      BY <1>9, <2>2, <3>1, <3>5
  <2> QED
    BY <2>3, <2>5, <2>6 DEF LastNamed
<1>16. ASSUME Kindred(named, changes)
       PROVE  Ordered(items)
  <2> SUFFICES ASSUME NEW n \in DOMAIN items, ~Entity(items[n])
               PROVE  /\ items[n].subject.how = "ref" => LastNamed(items, n, items[n].subject)
                      /\ /\ items[n].object.how = "ref"
                         /\ items[n].kind # "fact" \/ items[n].object.said # Blank
                         => LastNamed(items, n, items[n].object)
    BY DEF Ordered
  <2>1. n \in 1..N /\ at[n] \in DOMAIN changes /\ items[n] = resolved[at[n]]
    BY <1>9
  <2> QED
    BY <1>11, <1>15, <1>16, <2>1
<1> QED
  BY <1>12, <1>14, <1>16

LEMMA PositionsAreFinite ==
  ASSUME NEW lists, NEW N \in Nat, DOMAIN lists = 1..N,
         \A l \in 1..N : Len(lists[l]) \in Nat /\ DOMAIN lists[l] = 1..Len(lists[l])
  PROVE  /\ IsFiniteSet(Positions(lists)) /\ Positions(lists) \subseteq Int \X Int
         /\ \A q \in Positions(lists) :
              q = <<q[1], q[2]>> /\ q[1] \in 1..N /\ q[2] \in DOMAIN lists[q[1]]
         /\ \A l \in 1..N : \A i \in DOMAIN lists[l] : <<l, i>> \in Positions(lists)
<1> DEFINE row(l) == {l} \X DOMAIN lists[l]
           boxes == {row(l) : l \in 1..N}
           f == [l \in 1..N |-> row(l)]
<1>1. ASSUME NEW l \in 1..N
      PROVE  /\ IsFiniteSet(row(l)) /\ row(l) \subseteq Int \X Int
             /\ \A q \in row(l) : q = <<q[1], q[2]>> /\ q[1] = l /\ q[2] \in DOMAIN lists[l]
             /\ \A i \in DOMAIN lists[l] : <<l, i>> \in row(l)
  <2>i. IsFiniteSet(1..Len(lists[l]))
    BY FS_Interval
  <2>1. IsFiniteSet({l}) /\ IsFiniteSet(DOMAIN lists[l])
    BY <2>i, FS_Singleton
  <2>2. IsFiniteSet(row(l))
    BY <2>1, FS_Product
  <2>3. DOMAIN lists[l] \subseteq Int
    OBVIOUS
  <2> QED
    BY <2>2, <2>3
<1> HIDE DEF row
<1>2. f \in Surjection(1..N, boxes)
  BY DEF Surjection
<1>3. IsFiniteSet(1..N)
  BY FS_Interval
<1>4. IsFiniteSet(boxes)
  BY <1>2, <1>3, FS_Surjection
<1>5. \A r \in boxes : IsFiniteSet(r)
  BY <1>1
<1>6. Positions(lists) = UNION boxes
  BY DEF Positions, row
<1>7. IsFiniteSet(Positions(lists))
  <2> HIDE DEF boxes
  <2> QED
    BY <1>4, <1>5, <1>6, FS_UNION
<1>8. \A q \in Positions(lists) : \E l \in 1..N : q \in row(l)
  BY <1>6
<1>9. \A l \in 1..N : \A q \in row(l) : q \in Positions(lists)
  BY <1>6
<1> HIDE DEF boxes, f
<1>10. Positions(lists) \subseteq Int \X Int
  BY <1>1, <1>8
<1>11. ASSUME NEW q \in Positions(lists)
       PROVE  q = <<q[1], q[2]>> /\ q[1] \in 1..N /\ q[2] \in DOMAIN lists[q[1]]
  BY <1>1, <1>8
<1>12. ASSUME NEW l \in 1..N, NEW i \in DOMAIN lists[l]
       PROVE  <<l, i>> \in Positions(lists)
  BY <1>1, <1>9
<1> QED
  BY <1>7, <1>10, <1>11, <1>12

\* What comes from outside says nothing of names that were looked up.
LEMMA GivenIsKindred ==
  ASSUME NEW changes \in Seq(GivenChanges)
  PROVE  changes \in Seq(Changes) /\ Kindred(named, changes)
<1>1. /\ Len(changes) \in Nat /\ DOMAIN changes = 1..Len(changes)
      /\ changes \in [1..Len(changes) -> GivenChanges]
      /\ \A i \in DOMAIN changes : changes[i] \in GivenChanges
  OBVIOUS
<1>2. ASSUME NEW t \in GivenReferences
      PROVE  t \in References /\ BearerIn(named, changes, t)
  BY AuthoringAssumption DEF GivenReferences, References, BearerIn
<1>3. ASSUME NEW c \in GivenChanges
      PROVE  c \in Changes /\ c.subject \in GivenReferences /\ c.object \in GivenReferences
  <2>1. /\ c = [kind |-> c.kind, subject |-> c.subject, object |-> c.object, name |-> c.name,
                ref |-> c.ref]
        /\ c.kind \in Kinds /\ c.name \in STRING /\ c.ref \in STRING
        /\ c.subject \in GivenReferences /\ c.object \in GivenReferences
    BY DEF GivenChanges
  <2>2. c.subject \in References /\ c.object \in References
    BY <1>2, <2>1
  <2> QED
    BY <2>1, <2>2 DEF Changes
<1>4. changes \in Seq(Changes)
  <2>1. changes \in [1..Len(changes) -> Changes]
    BY <1>1, <1>3
  <2> QED
    BY <1>1, <2>1
<1> QED
  BY <1>1, <1>2, <1>3, <1>4 DEF Kindred, Says

LEMMA ExtractedIsGiven ==
  ASSUME NEW payload \in Proposals \cup {<<>>}, NEW items, items = Extracted(payload)
  PROVE  items \in Seq(GivenChanges)
<1> DEFINE typed(l) == Kept(payload[l], {i \in DOMAIN payload[l] : payload[l][i].kind = "free"})
           places == {q \in Positions(payload) :
                        /\ payload[q[1]][q[2]].kind # "free"
                        /\ \A h \in 1..(q[1] - 1) : typed(h) # typed(q[1])}
<1>1. items = ItemsAt(payload, places)
  BY DEF Extracted
<1>2. /\ Len(payload) \in Nat /\ DOMAIN payload = 1..Len(payload)
      /\ \A l \in DOMAIN payload :
           /\ Len(payload[l]) \in Nat /\ DOMAIN payload[l] = 1..Len(payload[l])
           /\ \A i \in DOMAIN payload[l] :
                payload[l][i].kind = "free" \/ payload[l][i] \in GivenChanges
  <2>1. CASE payload \in Proposals
    BY <2>1, AuthoringAssumption
  <2>2. CASE payload = <<>>
    BY <2>2
  <2> QED
    BY <2>1, <2>2
<1>3. /\ IsFiniteSet(Positions(payload)) /\ Positions(payload) \subseteq Int \X Int
      /\ \A q \in Positions(payload) : q[1] \in DOMAIN payload /\ q[2] \in DOMAIN payload[q[1]]
  BY <1>2, PositionsAreFinite
<1> HIDE DEF typed
<1>4. /\ places \subseteq Positions(payload)
      /\ \A q \in places : q \in Positions(payload) /\ payload[q[1]][q[2]].kind # "free"
  OBVIOUS
<1> HIDE DEF places
<1>5. IsFiniteSet(places) /\ places \subseteq Int \X Int
  BY <1>3, <1>4, FS_Subset
<1>6. InPlaces(items, payload, places)
  BY <1>1, <1>5, ItemsArePlaced
<1>7. PICK N \in Nat : \E at \in [1..N -> places] :
        /\ items = [n \in 1..N |-> items[n]]
        /\ \A n \in 1..N : items[n] = payload[at[n][1]][at[n][2]]
  BY <1>6 DEF InPlaces
<1>8. PICK at \in [1..N -> places] :
        /\ items = [n \in 1..N |-> items[n]]
        /\ \A n \in 1..N : items[n] = payload[at[n][1]][at[n][2]]
  BY <1>7
<1>9. \A n \in 1..N : items[n] \in GivenChanges
  <2> SUFFICES ASSUME NEW n \in 1..N PROVE items[n] \in GivenChanges
    OBVIOUS
  <2> DEFINE q == at[n]
  <2>1. q \in places
    OBVIOUS
  <2>2. items[n] = payload[q[1]][q[2]]
    BY <1>8
  <2> HIDE DEF q
  <2> QED
    BY <1>2, <1>3, <1>4, <2>1, <2>2
<1>10. items \in [1..N -> GivenChanges]
  BY <1>8, <1>9
<1> QED
  BY <1>10

LEMMA ParsedIsGiven ==
  ASSUME NEW flags, GivenFlags(flags), NEW i \in DOMAIN flags, WellGiven(flags[i])
  PROVE  Parsed(flags[i]) \in GivenChanges
<1> DEFINE flag == flags[i]
<1>1. /\ flag.kind \in DOMAIN Sorts
      /\ \A f \in DOMAIN flag.fields :
           flag.fields[f] \in (IF f \in {"name", "label", "ref"} THEN STRING ELSE GivenReferences)
  BY DEF GivenFlags
<1>2. WellGiven(flag)
  OBVIOUS
<1> SUFFICES Parsed(flag) \in GivenChanges
  OBVIOUS
<1> HIDE DEF flag
<1>b. Blank \in STRING
  BY AuthoringAssumption
<1>t. ASSUME NEW how \in Hows, NEW of \in STRING
      PROVE  Token(how, of) \in GivenReferences
  BY <1>b DEF Token, GivenReferences
<1>n. NoToken \in GivenReferences
  BY <1>b, <1>t DEF NoToken, Hows
<1>g. \A kind \in Kinds : \A subject, object \in GivenReferences : \A name, ref \in STRING :
        [kind |-> kind, subject |-> subject, object |-> object, name |-> name, ref |-> ref]
          \in GivenChanges
  BY DEF GivenChanges
<1>3. flag.kind \in Kinds /\ DOMAIN flag.fields \subseteq Sorts[flag.kind]
  BY <1>1, <1>2 DEF WellGiven, Sorts, Kinds
<1>4. CASE flag.kind \in {"entity", "point"}
  <2> DEFINE name == IF flag.kind = "entity" THEN flag.fields.name ELSE flag.fields.label
             ref == IF "ref" \in DOMAIN flag.fields THEN flag.fields.ref ELSE Blank
  <2>1. Parsed(flag) = [kind |-> flag.kind, subject |-> NoToken, object |-> NoToken,
                        name |-> name, ref |-> ref]
    BY <1>4 DEF Parsed
  <2>2. flag.kind = "entity" => "name" \in DOMAIN flag.fields
    BY <1>2 DEF WellGiven
  <2>3. flag.kind = "point" => "label" \in DOMAIN flag.fields
    BY <1>2 DEF WellGiven
  <2>4. name \in STRING
    BY <1>1, <1>4, <2>2, <2>3
  <2>5. ref \in STRING
    BY <1>1, <1>b
  <2> HIDE DEF name, ref
  <2> QED
    BY <1>3, <1>g, <1>n, <2>1, <2>4, <2>5
<1>5. ASSUME NEW fields \in SUBSET DOMAIN flag.fields, fields \cap {"name", "label", "ref"} = {}
      PROVE  Reference(flag, fields) \in GivenReferences
  <2>1. CASE fields = {}
    BY <1>n, <2>1 DEF Reference
  <2>2. CASE fields # {}
    <3> DEFINE f == CHOOSE x \in fields : TRUE
               given == flag.fields[f]
    <3>1. f \in fields
      BY <2>2
    <3>2. Reference(flag, fields) = Reading(flag.kind, f, given)
      BY <2>2 DEF Reference
    <3>3. given \in GivenReferences
      BY <1>1, <1>5, <3>1
    <3> HIDE DEF f, given
    <3>4. given.of \in STRING
      BY <3>3 DEF GivenReferences
    <3>5. /\ Token("id", given.of) \in GivenReferences
          /\ Token("value", given.of) \in GivenReferences
          /\ Token("name", given.of) \in GivenReferences
      BY <1>t, <3>4 DEF Hows
    <3>6. Reading(flag.kind, f, given) \in GivenReferences
      BY <3>3, <3>5 DEF Reading
    <3> QED
      BY <3>2, <3>6
  <2> QED
    BY <2>1, <2>2
<1>6. CASE flag.kind \notin {"entity", "point"}
  <2>1. flag.kind \in {"fact", "edge"}
    BY <1>3, <1>6 DEF Kinds
  <2>2. Sorts[flag.kind] \cap {"name", "label", "ref"} = {}
    BY <2>1 DEF Sorts
  <2>3. /\ SubjectsIn(flag) \in SUBSET DOMAIN flag.fields
        /\ SubjectsIn(flag) \cap {"name", "label", "ref"} = {}
        /\ ObjectsIn(flag) \in SUBSET DOMAIN flag.fields
        /\ ObjectsIn(flag) \cap {"name", "label", "ref"} = {}
    BY <1>3, <2>2 DEF SubjectsIn, ObjectsIn
  <2>4. /\ Reference(flag, SubjectsIn(flag)) \in GivenReferences
        /\ Reference(flag, ObjectsIn(flag)) \in GivenReferences
    BY <1>5, <2>3
  <2>5. Parsed(flag) = [kind |-> flag.kind, name |-> Blank, ref |-> Blank,
                        subject |-> Reference(flag, SubjectsIn(flag)),
                        object |-> Reference(flag, ObjectsIn(flag))]
    BY <1>6 DEF Parsed
  <2> QED
    BY <1>3, <1>b, <2>4, <2>5 DEF GivenChanges
<1> QED
  BY <1>4, <1>6
LEMMA KeptIsKindred ==
  ASSUME NEW source \in Seq(Changes), Kindred(named, source), NEW skipped,
         \A i \in skipped : ~Entity(source[i])
  PROVE  Kindred(named, Kept(source, skipped))
<1> DEFINE kept == Kept(source, skipped)
<1>1. Len(source) \in Nat /\ DOMAIN source = 1..Len(source)
  OBVIOUS
<1>2. kept = Kept(source, skipped)
  OBVIOUS
<1> SUFFICES Kindred(named, kept)
  OBVIOUS
<1> HIDE DEF kept
<1>3. KeptBy(kept, source, skipped)
  BY <1>1, <1>2, KeptItems
<1>4. PICK m \in Nat : \E at \in [1..m -> DOMAIN source \ skipped] :
        /\ kept = [i \in 1..m |-> kept[i]] /\ \A i \in 1..m : kept[i] = source[at[i]]
        /\ \A j \in DOMAIN source \ skipped : \E i \in 1..m : at[i] = j
  BY <1>3 DEF KeptBy
<1>5. PICK at \in [1..m -> DOMAIN source \ skipped] :
        /\ kept = [i \in 1..m |-> kept[i]] /\ \A i \in 1..m : kept[i] = source[at[i]]
        /\ \A j \in DOMAIN source \ skipped : \E i \in 1..m : at[i] = j
  BY <1>4
<1>6. DOMAIN kept = 1..m
  BY <1>5
<1>7. HasEntities(kept, source)
  <2> SUFFICES ASSUME NEW j \in DOMAIN source, Entity(source[j])
               PROVE  \E i \in DOMAIN kept : kept[i] = source[j]
    BY DEF HasEntities
  <2>1. j \in DOMAIN source \ skipped
    OBVIOUS
  <2> QED
    BY <1>5, <1>6, <2>1
<1>8. ASSUME NEW i \in DOMAIN kept, NEW t \in Says(kept[i])
      PROVE  BearerIn(named, kept, t)
  <2>1. kept[i] = source[at[i]] /\ at[i] \in DOMAIN source
    BY <1>5, <1>6
  <2>2. BearerIn(named, source, t)
    BY <1>8, <2>1 DEF Kindred
  <2> QED
    BY <1>7, <2>2, BearersStay
<1> QED
  BY <1>8 DEF Kindred

LEMMA JoinedIsKindred ==
  ASSUME NEW xs \in Seq(Changes), NEW ys \in Seq(Changes), Kindred(named, xs), Kindred(named, ys)
  PROVE  xs \o ys \in Seq(Changes) /\ Kindred(named, xs \o ys)
<1> DEFINE zs == xs \o ys
           a == Len(xs)
           b == Len(ys)
<1>1. /\ zs \in Seq(Changes) /\ Len(zs) = a + b
      /\ a \in Nat /\ b \in Nat /\ DOMAIN xs = 1..a /\ DOMAIN ys = 1..b
  OBVIOUS
<1>2. DOMAIN zs = 1..(a + b)
  BY <1>1
<1>3. /\ \A i \in 1..a : zs[i] = xs[i]
      /\ \A i \in 1..b : zs[a + i] = ys[i]
  OBVIOUS
<1> SUFFICES zs \in Seq(Changes) /\ Kindred(named, zs)
  OBVIOUS
<1> HIDE DEF zs, a, b
<1>4. HasEntities(zs, xs)
  BY <1>1, <1>2, <1>3 DEF HasEntities
<1>5. HasEntities(zs, ys)
  <2> SUFFICES ASSUME NEW j \in 1..b, Entity(ys[j])
               PROVE  \E i \in DOMAIN zs : zs[i] = ys[j]
    BY <1>1 DEF HasEntities
  <2>1. a + j \in DOMAIN zs
    BY <1>1, <1>2
  <2> QED
    BY <1>3, <2>1
<1>6. ASSUME NEW i \in DOMAIN zs, NEW t \in Says(zs[i])
      PROVE  BearerIn(named, zs, t)
  <2>1. CASE i <= a
    <3>1. i \in DOMAIN xs /\ zs[i] = xs[i]
      BY <1>1, <1>2, <1>3, <2>1
    <3>2. BearerIn(named, xs, t)
      BY <1>6, <3>1 DEF Kindred
    <3> QED
      BY <1>4, <3>2, BearersStay
  <2>2. CASE ~(i <= a)
    <3>1. i - a \in 1..b /\ a + (i - a) = i
      BY <1>1, <1>2, <2>2
    <3>2. i - a \in DOMAIN ys /\ zs[i] = ys[i - a]
      BY <1>1, <1>3, <3>1
    <3>3. BearerIn(named, ys, t)
      BY <1>6, <3>2 DEF Kindred
    <3> QED
      BY <1>5, <3>3, BearersStay
  <2> QED
    BY <2>1, <2>2
<1> QED
  BY <1>1, <1>6 DEF Kindred

LEMMA MergedIsWhole ==
  ASSUME NEW lists, NEW L \in Nat, DOMAIN lists = 1..L,
         \A l \in 1..L : lists[l] \in Seq(Changes),
         NEW items, items = ItemsAt(lists, Positions(lists))
  PROVE  /\ items \in Seq(Changes)
         /\ (\A l \in 1..L : Kindred(named, lists[l])) => Kindred(named, items)
         /\ (\A l \in 1..L : Ordered(lists[l])) => Ordered(items)
<1> DEFINE places == Positions(lists)
<1>1. \A l \in 1..L : /\ Len(lists[l]) \in Nat /\ DOMAIN lists[l] = 1..Len(lists[l])
                      /\ \A i \in DOMAIN lists[l] : lists[l][i] \in Changes
  OBVIOUS
<1>2. /\ IsFiniteSet(places) /\ places \subseteq Int \X Int
      /\ \A q \in places : q = <<q[1], q[2]>> /\ q[1] \in 1..L /\ q[2] \in DOMAIN lists[q[1]]
      /\ \A l \in 1..L : \A i \in DOMAIN lists[l] : <<l, i>> \in places
  BY <1>1, PositionsAreFinite
<1>3. items = ItemsAt(lists, places)
  OBVIOUS
<1> HIDE DEF places
<1>4. InPlaces(items, lists, places)
  BY <1>2, <1>3, ItemsArePlaced
<1>5. PICK N \in Nat : \E at \in [1..N -> places] :
        /\ items = [n \in 1..N |-> items[n]]
        /\ \A n \in 1..N : items[n] = lists[at[n][1]][at[n][2]]
        /\ \A p \in places : \E n \in 1..N : at[n] = p
        /\ \A n, m \in 1..N : n < m => Precedes(at[n], at[m])
  BY <1>4 DEF InPlaces
<1>6. PICK at \in [1..N -> places] :
        /\ items = [n \in 1..N |-> items[n]]
        /\ \A n \in 1..N : items[n] = lists[at[n][1]][at[n][2]]
        /\ \A p \in places : \E n \in 1..N : at[n] = p
        /\ \A n, m \in 1..N : n < m => Precedes(at[n], at[m])
  BY <1>5
<1>7. \A n \in 1..N : /\ at[n] \in places /\ at[n] = <<at[n][1], at[n][2]>>
                      /\ at[n][1] \in 1..L /\ at[n][2] \in DOMAIN lists[at[n][1]]
  BY <1>2
<1>8. \A n \in 1..N : items[n] \in Changes
  BY <1>1, <1>6, <1>7
<1>9. items \in [1..N -> Changes] /\ DOMAIN items = 1..N
  BY <1>6, <1>8
<1>10. ASSUME NEW l \in 1..L
       PROVE  HasEntities(items, lists[l])
  <2> SUFFICES ASSUME NEW j \in DOMAIN lists[l]
               PROVE  \E n \in DOMAIN items : items[n] = lists[l][j]
    BY DEF HasEntities
  <2>1. <<l, j>> \in places
    BY <1>2
  <2>2. PICK n \in 1..N : at[n] = <<l, j>>
    BY <1>6, <2>1
  <2>3. at[n][1] = l /\ at[n][2] = j
    BY <2>2
  <2> QED
    BY <1>6, <1>9, <2>3
<1>11. ASSUME \A l \in 1..L : Kindred(named, lists[l])
       PROVE  Kindred(named, items)
  <2> SUFFICES ASSUME NEW n \in 1..N, NEW t \in Says(items[n]) PROVE BearerIn(named, items, t)
    BY <1>9 DEF Kindred
  <2> DEFINE l == at[n][1]
             i == at[n][2]
  <2>1. l \in 1..L /\ i \in DOMAIN lists[l] /\ items[n] = lists[l][i]
    BY <1>6, <1>7
  <2> HIDE DEF l, i
  <2>2. BearerIn(named, lists[l], t)
    BY <1>11, <2>1 DEF Kindred
  <2> QED
    BY <1>10, <2>1, <2>2, BearersStay
<1>12. ASSUME NEW n \in 1..N, NEW t, LastNamed(lists[at[n][1]], at[n][2], t)
       PROVE  LastNamed(items, n, t)
  <2> DEFINE l == at[n][1]
             i == at[n][2]
  <2>1. l \in 1..L /\ i \in DOMAIN lists[l] /\ at[n] = <<l, i>>
    BY <1>7
  <2>2. LastNamed(lists[l], i, t)
    BY <1>12
  <2> HIDE DEF l, i
  <2>3. PICK j \in 1..(i - 1) :
          /\ Entity(lists[l][j]) /\ lists[l][j].ref = t.of
          /\ t.said # Blank => lists[l][j].name = t.said
          /\ \A h \in (j + 1)..(i - 1) : Entity(lists[l][h]) => lists[l][h].ref # t.of
    BY <2>2 DEF LastNamed
  <2>4. i \in Int /\ l \in Int /\ j \in Int /\ j < i /\ j \in DOMAIN lists[l]
    BY <1>1, <2>1
  <2>5. PICK m \in 1..N : at[m] = <<l, j>>
    BY <1>2, <1>6, <2>1, <2>4
  <2>6. ~Precedes(at[n], at[m]) /\ at[n] # at[m]
    BY <2>1, <2>4, <2>5 DEF Precedes
  <2>7. m \in 1..(n - 1)
    <3>1. ~(n < m) /\ n # m
      BY <1>6, <2>6
    <3> QED
      BY <3>1
  <2>8. items[m] = lists[l][j]
    BY <1>6, <2>5
  <2>9. ASSUME NEW h \in (m + 1)..(n - 1), Entity(items[h])
        PROVE  items[h].ref # t.of
    <3>1. h \in 1..N /\ m < h /\ h < n
      OBVIOUS
    <3>2. Precedes(at[m], at[h]) /\ Precedes(at[h], at[n])
      BY <1>6, <3>1
    <3>3. at[h][1] \in Int /\ at[h][2] \in Int
      BY <1>1, <1>7, <3>1
    <3>4. at[h][1] = l /\ at[h][2] \in (j + 1)..(i - 1)
      BY <2>1, <2>4, <2>5, <3>2, <3>3 DEF Precedes
    <3>5. items[h] = lists[l][at[h][2]]
      BY <1>6, <3>1, <3>4
    <3> QED
      BY <2>3, <2>9, <3>4, <3>5
  <2> QED
    BY <2>3, <2>7, <2>8, <2>9 DEF LastNamed
<1>13. ASSUME \A l \in 1..L : Ordered(lists[l])
       PROVE  Ordered(items)
  <2> SUFFICES ASSUME NEW n \in 1..N, ~Entity(items[n])
               PROVE  /\ items[n].subject.how = "ref" => LastNamed(items, n, items[n].subject)
                      /\ /\ items[n].object.how = "ref"
                         /\ items[n].kind # "fact" \/ items[n].object.said # Blank
                         => LastNamed(items, n, items[n].object)
    BY <1>9 DEF Ordered
  <2> DEFINE l == at[n][1]
             i == at[n][2]
  <2>1. l \in 1..L /\ i \in DOMAIN lists[l] /\ items[n] = lists[l][i]
    BY <1>6, <1>7
  <2>2. ASSUME NEW t, LastNamed(lists[l], i, t)
        PROVE  LastNamed(items, n, t)
    BY <1>12, <2>2
  <2> HIDE DEF l, i
  <2> QED
    BY <1>13, <2>1, <2>2 DEF Ordered
<1> QED
  BY <1>9, <1>11, <1>13
------------------------------------------------------------------------------
(* Lemmas about the application *)

LEMMA IdsAreCounted ==
  ASSUME NEW n \in 0..Len(EntityIds)
  PROVE  Cardinality(FirstIds(n)) = n /\ FirstIds(n) \subseteq STRING
<1>1. /\ EntityIds \in Seq(STRING) /\ Len(EntityIds) \in Nat
      /\ DOMAIN EntityIds = 1..Len(EntityIds)
      /\ \A i, j \in DOMAIN EntityIds : EntityIds[i] = EntityIds[j] => i = j
      /\ \A i \in DOMAIN EntityIds : EntityIds[i] \in STRING
  BY AuthoringAssumption DEF IsInjective
<1> DEFINE f == [i \in 1..n |-> EntityIds[i]]
           ids == FirstIds(n)
<1>2. n \in Nat /\ \A i \in 1..n : i \in DOMAIN EntityIds
  BY <1>1
<1>3. f \in [1..n -> ids]
  BY DEF FirstIds
<1>4. \A i, j \in 1..n : f[i] = f[j] => i = j
  BY <1>1, <1>2
<1>5. \A e \in ids : \E i \in 1..n : f[i] = e
  BY DEF FirstIds
<1>6. ids \subseteq STRING
  BY <1>1, <1>2 DEF FirstIds
<1> HIDE DEF f, ids
<1>7. f \in Bijection(1..n, ids)
  BY <1>3, <1>4, <1>5 DEF Bijection, Injection, Surjection, IsInjective
<1>8. IsFiniteSet(1..n) /\ Cardinality(1..n) = n
  BY <1>2, FS_Interval
<1>9. Cardinality(ids) = n
  BY <1>7, <1>8, FS_Bijection DEF ExistsBijection
<1> QED
  BY <1>6, <1>9 DEF ids

\* The n-th entity that a ticket adds gets the n-th id that there is left.
LEMMA EntitiesAreNumbered ==
  ASSUME NEW changes \in Seq(Changes),
         NEW ents, ents = EntitiesIn(changes, Len(changes))
  PROVE  /\ Cardinality(ents) \in Nat
         /\ \A j \in ents : Cardinality(EntitiesIn(changes, j)) \in 1..Cardinality(ents)
         /\ \A i, j \in ents :
              Cardinality(EntitiesIn(changes, i)) = Cardinality(EntitiesIn(changes, j)) => i = j
         /\ \A c \in 1..Cardinality(ents) :
              \E j \in ents : Cardinality(EntitiesIn(changes, j)) = c
<1> DEFINE N == Len(changes)
           count(j) == Cardinality(EntitiesIn(changes, j))
           E == Cardinality(ents)
<1>1. N \in Nat
  OBVIOUS
<1>2. /\ ents \subseteq 1..N
      /\ \A j \in ents : /\ EntitiesIn(changes, j) \subseteq ents /\ j \in EntitiesIn(changes, j)
                         /\ \A i \in EntitiesIn(changes, j) : i <= j
      /\ \A i, j \in ents : i < j => EntitiesIn(changes, i) \subseteq EntitiesIn(changes, j)
  BY <1>1 DEF EntitiesIn
<1>3. IsFiniteSet(ents)
  <2>1. IsFiniteSet(1..N)
    BY <1>1, FS_Interval
  <2> QED
    BY <1>2, <2>1, FS_Subset
<1>4. E \in Nat
  BY <1>3, FS_CardinalityType
<1>5. ASSUME NEW j \in ents
      PROVE  IsFiniteSet(EntitiesIn(changes, j)) /\ count(j) \in 1..E
  <2>1. IsFiniteSet(EntitiesIn(changes, j)) /\ count(j) <= E
    BY <1>2, <1>3, FS_Subset
  <2>2. count(j) \in Nat /\ count(j) # 0
    BY <1>2, <2>1, FS_CardinalityType, FS_EmptySet
  <2> QED
    BY <1>4, <2>1, <2>2
<1>6. ASSUME NEW i \in ents, NEW j \in ents, i < j
      PROVE  count(i) # count(j)
  <2>1. /\ EntitiesIn(changes, i) \subseteq EntitiesIn(changes, j)
        /\ EntitiesIn(changes, i) # EntitiesIn(changes, j)
    BY <1>1, <1>2, <1>6
  <2> QED
    BY <1>5, <2>1, FS_Subset
<1>7. ASSUME NEW i \in ents, NEW j \in ents, count(i) = count(j)
      PROVE  i = j
  <2>1. ~(i < j) /\ ~(j < i)
    BY <1>6, <1>7
  <2> QED
    BY <1>2, <2>1
<1> DEFINE f == [j \in ents |-> count(j)]
<1>8. f \in Injection(ents, 1..E)
  <2>1. f \in [ents -> 1..E]
    BY <1>5
  <2>2. \A i, j \in ents : f[i] = f[j] => i = j
    BY <1>7
  <2> HIDE DEF f
  <2> QED
    BY <2>1, <2>2 DEF Injection, IsInjective
<1>9. IsFiniteSet(1..E) /\ Cardinality(1..E) = E
  BY <1>4, FS_Interval
<1>10. f \in Surjection(ents, 1..E)
  <2> HIDE DEF f
  <2> QED
    BY <1>8, <1>9, FS_Injection
<1>11. \A c \in 1..E : \E j \in ents : f[j] = c
  <2> HIDE DEF f
  <2> QED
    BY <1>10 DEF Surjection
<1>12. \A c \in 1..E : \E j \in ents : count(j) = c
  BY <1>11
<1> QED
  BY <1>4, <1>5, <1>7, <1>12

\* The world after the application.
LEMMA WorldGrows ==
  ASSUME NEW n \in 1..Len(EntityIds), DOMAIN named = FirstIds(n),
         NEW changes \in Seq(Changes), RoomFor(changes), NEW world, world = NamedBy(changes)
  PROVE  /\ \E m \in 1..Len(EntityIds) : DOMAIN world = FirstIds(m)
         /\ world = [e \in DOMAIN world |-> world[e]]
         /\ DOMAIN named \subseteq DOMAIN world /\ \A e \in DOMAIN named : world[e] = named[e]
         /\ \A j \in EntitiesIn(changes, Len(changes)) :
              NewId(changes, j) \in DOMAIN world /\ world[NewId(changes, j)] = changes[j].name
<1> DEFINE ents == EntitiesIn(changes, Len(changes))
           count(j) == Cardinality(EntitiesIn(changes, j))
           E == Cardinality(ents)
           m == n + E
<1>1. /\ Len(EntityIds) \in Nat /\ DOMAIN EntityIds = 1..Len(EntityIds)
      /\ \A i, j \in DOMAIN EntityIds : EntityIds[i] = EntityIds[j] => i = j
  BY AuthoringAssumption DEF IsInjective
<1>2. Cardinality(DOMAIN named) = n /\ n \in Nat
  BY <1>1, IdsAreCounted
<1>3. ents = EntitiesIn(changes, Len(changes))
  OBVIOUS
<1>r. n + E <= Len(EntityIds)
  BY <1>2 DEF RoomFor
<1>w. world = [e \in DOMAIN named \cup {NewId(changes, j) : j \in ents} |->
                 IF e \in DOMAIN named THEN named[e]
                 ELSE changes[CHOOSE j \in ents : NewId(changes, j) = e].name]
  BY DEF NamedBy
<1> HIDE DEF ents
<1>4. /\ E \in Nat /\ \A j \in ents : count(j) \in 1..E
      /\ \A i, j \in ents : count(i) = count(j) => i = j
      /\ \A c \in 1..E : \E j \in ents : count(j) = c
  BY <1>3, EntitiesAreNumbered
<1>5. \A j \in ents : NewId(changes, j) = EntityIds[n + count(j)]
  BY <1>2 DEF NewId
<1> HIDE DEF count, E
<1>6. m \in 1..Len(EntityIds)
  BY <1>1, <1>2, <1>4, <1>r
<1>7. \A j \in ents : n + count(j) \in (n + 1)..m
  BY <1>2, <1>4
<1>8. ASSUME NEW j \in ents
      PROVE  NewId(changes, j) \notin DOMAIN named
  <2> SUFFICES ASSUME NEW i \in 1..n, NewId(changes, j) = EntityIds[i] PROVE FALSE
    BY DEF FirstIds
  <2>1. i \in DOMAIN EntityIds /\ n + count(j) \in DOMAIN EntityIds /\ i # n + count(j)
    BY <1>1, <1>2, <1>6, <1>7
  <2> QED
    BY <1>1, <1>5, <2>1
<1>9. ASSUME NEW i \in ents, NEW j \in ents, NewId(changes, i) = NewId(changes, j)
      PROVE  i = j
  <2>1. n + count(i) \in DOMAIN EntityIds /\ n + count(j) \in DOMAIN EntityIds
    BY <1>1, <1>2, <1>6, <1>7
  <2>2. n + count(i) = n + count(j)
    BY <1>1, <1>5, <1>9, <2>1
  <2>3. count(i) \in Int /\ count(j) \in Int
    BY <1>4
  <2>4. count(i) = count(j)
    BY <1>2, <2>2, <2>3
  <2> QED
    BY <1>4, <2>4
<1>10. DOMAIN world = DOMAIN named \cup {NewId(changes, j) : j \in ents}
  BY <1>w
<1>11. DOMAIN world = FirstIds(m)
  <2>1. ASSUME NEW e \in DOMAIN world
        PROVE  e \in FirstIds(m)
    <3>1. CASE e \in DOMAIN named
      <4>1. PICK i \in 1..n : e = EntityIds[i]
        BY <3>1 DEF FirstIds
      <4>2. i \in 1..m
        BY <1>2, <1>4
      <4> QED
        BY <4>1, <4>2 DEF FirstIds
    <3>2. CASE e \notin DOMAIN named
      <4>1. PICK j \in ents : e = NewId(changes, j)
        BY <1>10, <2>1, <3>2
      <4>2. n + count(j) \in 1..m
        BY <1>2, <1>7
      <4> QED
        BY <1>5, <4>1, <4>2 DEF FirstIds
    <3> QED
      BY <3>1, <3>2
  <2>2. ASSUME NEW i \in 1..m
        PROVE  EntityIds[i] \in DOMAIN world
    <3>1. CASE i <= n
      <4>1. i \in 1..n
        BY <1>2, <3>1
      <4> QED
        BY <1>10, <4>1 DEF FirstIds
    <3>2. CASE ~(i <= n)
      <4>1. i - n \in 1..E /\ n + (i - n) = i
        BY <1>2, <1>4, <3>2
      <4>2. PICK j \in ents : count(j) = i - n
        BY <1>4, <4>1
      <4>3. NewId(changes, j) = EntityIds[i]
        BY <1>5, <4>1, <4>2
      <4> QED
        BY <1>10, <4>3
    <3> QED
      BY <3>1, <3>2
  <2> QED
    BY <2>1, <2>2 DEF FirstIds
<1>12. DOMAIN named \subseteq DOMAIN world /\ \A e \in DOMAIN named : world[e] = named[e]
  BY <1>w
<1>13. ASSUME NEW j \in ents
       PROVE  NewId(changes, j) \in DOMAIN world /\ world[NewId(changes, j)] = changes[j].name
  <2> DEFINE e == NewId(changes, j)
             i == CHOOSE x \in ents : NewId(changes, x) = e
  <2>1. e \in DOMAIN world /\ e \notin DOMAIN named
    BY <1>8, <1>10
  <2>2. world[e] = changes[i].name
    BY <1>w, <2>1
  <2>3. i \in ents /\ NewId(changes, i) = e
    OBVIOUS
  <2> HIDE DEF i
  <2>4. i = j
    BY <1>9, <2>3
  <2> QED
    BY <2>1, <2>2, <2>4
<1>14. world = [e \in DOMAIN world |-> world[e]]
  BY <1>w
<1> QED
  BY <1>6, <1>11, <1>12, <1>13, <1>14 DEF ents

\* Entities are added, and none is renamed.
Grows(old, later) ==
  DOMAIN old \subseteq DOMAIN later /\ \A e \in DOMAIN old : later[e] = old[e]

LEMMA WholeStays ==
  ASSUME NEW old, NEW later, Grows(old, later), NEW made, NEW changes, Whole(old, made, changes)
  PROVE  Whole(later, made, changes)
<1>1. ASSUME NEW t, BearerIn(old, changes, t)
      PROVE  BearerIn(later, changes, t)
  <2>1. CASE t.said = Blank
    BY <2>1 DEF BearerIn
  <2>2. CASE t.said # Blank
    <3>1. t.seen \subseteq DOMAIN old
      BY <1>1, <2>2 DEF BearerIn
    <3>2. Namesakes(later, t) = Namesakes(old, t)
      BY <3>1 DEF Namesakes, Grows
    <3> QED
      BY <1>1, <2>2, <3>1, <3>2 DEF BearerIn, Grows
  <2> QED
    BY <2>1, <2>2
<1> QED
  BY <1>1 DEF Whole, Kindred

LEMMA FactStays ==
  ASSUME NEW old, NEW later, Grows(old, later), NEW f, FactKept(old, f)
  PROVE  FactKept(later, f)
<1> SUFFICES ASSUME f.made = "draft", f.said # Blank
             PROVE  /\ f.seen \subseteq DOMAIN later /\ f.who \in DOMAIN later
                    /\ later[f.who] = f.said /\ Namesakes(later, f) \subseteq {f.who}
  BY DEF FactKept
<1>1. /\ f.seen \subseteq DOMAIN old /\ f.who \in DOMAIN old
      /\ old[f.who] = f.said /\ Namesakes(old, f) \subseteq {f.who}
  BY DEF FactKept
<1>2. Namesakes(later, f) = Namesakes(old, f)
  BY <1>1 DEF Namesakes, Grows
<1> QED
  BY <1>1, <1>2 DEF Grows

\* What a ref stands for when the change is applied: the last entity before it.
LEMMA LastIsLatest ==
  ASSUME NEW changes \in Seq(Changes), NEW i \in DOMAIN changes, ~Entity(changes[i]),
         NEW t, LastNamed(changes, i, t)
  PROVE  /\ Marked(changes, i, t.of) # {}
         /\ Latest(Marked(changes, i, t.of)) \in EntitiesIn(changes, Len(changes))
         /\ t.said # Blank => changes[Latest(Marked(changes, i, t.of))].name = t.said
<1> DEFINE marked == Marked(changes, i, t.of)
           last == Latest(marked)
<1>1. Len(changes) \in Nat /\ DOMAIN changes = 1..Len(changes) /\ i \in 1..Len(changes)
  OBVIOUS
<1>2. PICK j \in 1..(i - 1) :
        /\ Entity(changes[j]) /\ changes[j].ref = t.of
        /\ t.said # Blank => changes[j].name = t.said
        /\ \A h \in (j + 1)..(i - 1) : Entity(changes[h]) => changes[h].ref # t.of
  BY DEF LastNamed
<1>3. \A h : h \in marked <=> h \in 1..i /\ Entity(changes[h]) /\ changes[h].ref = t.of
  BY DEF Marked, EntitiesIn
<1> HIDE DEF marked
<1>4. j \in marked
  BY <1>1, <1>2, <1>3
<1>5. ASSUME NEW h \in marked
      PROVE  h <= j /\ h \in Int
  <2>1. h \in 1..i /\ h # i
    BY <1>3
  <2>2. h \notin (j + 1)..(i - 1)
    BY <1>2, <1>3
  <2> QED
    BY <1>1, <2>1, <2>2
<1>6. last \in marked /\ \A h \in marked : h <= last
  BY <1>4, <1>5 DEF Latest
<1> HIDE DEF last
<1>7. last = j
  BY <1>4, <1>5, <1>6
<1>8. j \in EntitiesIn(changes, Len(changes))
  BY <1>1, <1>2 DEF EntitiesIn
<1> QED
  BY <1>2, <1>4, <1>7, <1>8 DEF marked, last

\* The facts of a ticket are about those that its author meant.
LEMMA NewFactsAreKept ==
  ASSUME NEW n \in 1..Len(EntityIds), DOMAIN named = FirstIds(n),
         NEW changes \in Seq(Changes), RoomFor(changes), NEW world, world = NamedBy(changes),
         NEW made, Whole(named, made, changes), NEW f \in FactsOf(made, changes)
  PROVE  FactKept(world, f)
<1> SUFFICES ASSUME f.made = "draft", f.said # Blank
             PROVE  /\ f.seen \subseteq DOMAIN world /\ f.who \in DOMAIN world
                    /\ world[f.who] = f.said /\ Namesakes(world, f) \subseteq {f.who}
  BY DEF FactKept
<1>1. PICK i \in DOMAIN changes : \E t \in Mentions(changes[i]) :
        f = [made |-> made, who |-> Referent(changes, i, t), said |-> t.said, seen |-> t.seen]
  BY DEF FactsOf
<1>2. PICK t \in Mentions(changes[i]) :
        f = [made |-> made, who |-> Referent(changes, i, t), said |-> t.said, seen |-> t.seen]
  BY <1>1
<1>3. ~Entity(changes[i]) /\ (t = changes[i].subject \/ t = changes[i].object)
  BY DEF Mentions
<1>4. /\ made = "draft" /\ t.said # Blank /\ f.said = t.said /\ f.seen = t.seen
      /\ f.who = Referent(changes, i, t)
  BY <1>2
<1>5. Kindred(named, changes) /\ Ordered(changes)
  BY <1>4 DEF Whole
<1>6. BearerIn(named, changes, t)
  BY <1>3, <1>5 DEF Kindred, Says
<1>7. /\ DOMAIN named \subseteq DOMAIN world /\ \A e \in DOMAIN named : world[e] = named[e]
      /\ \A j \in EntitiesIn(changes, Len(changes)) :
           NewId(changes, j) \in DOMAIN world /\ world[NewId(changes, j)] = changes[j].name
  BY WorldGrows
<1>8. f.seen \subseteq DOMAIN named /\ Namesakes(world, f) = Namesakes(named, t)
  BY <1>4, <1>6, <1>7 DEF BearerIn, Namesakes
<1>9. CASE t.how = "ref"
  <2> DEFINE j == Latest(Marked(changes, i, t.of))
  <2>1. LastNamed(changes, i, t)
    BY <1>3, <1>4, <1>5, <1>9 DEF Ordered
  <2>2. j \in EntitiesIn(changes, Len(changes)) /\ changes[j].name = t.said
    BY <1>3, <1>4, <2>1, LastIsLatest
  <2>3. f.who = NewId(changes, j)
    BY <1>4, <1>9 DEF Referent
  <2> HIDE DEF j
  <2>4. Namesakes(named, t) = {}
    BY <1>4, <1>6, <1>9 DEF BearerIn
  <2> QED
    BY <1>4, <1>7, <1>8, <2>2, <2>3, <2>4
<1>10. CASE t.how # "ref"
  <2>1. f.who = t.of
    BY <1>4, <1>10 DEF Referent
  <2>2. t.of \in DOMAIN named /\ named[t.of] = t.said /\ Namesakes(named, t) \subseteq {t.of}
    BY <1>4, <1>6, <1>10 DEF BearerIn
  <2> QED
    BY <1>4, <1>7, <1>8, <2>1, <2>2
<1> QED
  BY <1>9, <1>10

\* In order, every reference finds its entity.
LEMMA OrderedIsFound ==
  ASSUME NEW changes \in Seq(Changes), Ordered(changes), ObjectRefsKnown(changes)
  PROVE  RefsAreFound(changes)
<1> SUFFICES ASSUME NEW i \in DOMAIN changes, NEW t \in Mentions(changes[i]), t.how = "ref"
             PROVE  Marked(changes, i, t.of) # {}
  BY DEF RefsAreFound
<1>1. ~Entity(changes[i]) /\ (t = changes[i].subject \/ t = changes[i].object)
  BY DEF Mentions
<1>2. CASE t = changes[i].object /\ changes[i].kind = "fact"
  BY <1>2 DEF ObjectRefsKnown
<1>3. CASE t = changes[i].subject \/ changes[i].kind # "fact"
  <2>1. LastNamed(changes, i, t)
    BY <1>1, <1>3 DEF Ordered
  <2> QED
    BY <1>1, <2>1, LastIsLatest
<1> QED
  BY <1>1, <1>2, <1>3

------------------------------------------------------------------------------
(* Lemmas about the steps *)

\* Tickets keep their changes, others are added, and the world and the facts grow.
LEMMA PacketsMove ==
  ASSUME DraftsInv, packets' \in Seq(DraftPackets), DOMAIN packets \subseteq DOMAIN packets',
         \A k \in DOMAIN packets :
           packets'[k].made = packets[k].made /\ packets'[k].changes = packets[k].changes,
         \A k \in DOMAIN packets' \ DOMAIN packets :
           Whole(named', packets'[k].made, packets'[k].changes),
         \E n \in 1..Len(EntityIds) : DOMAIN named' = FirstIds(n),
         named' = [e \in DOMAIN named' |-> named'[e]], Grows(named, named'),
         \A f \in facts' : f \in facts \/ FactKept(named', f),
         screen' = screen \/ screen' = NoPreview
  PROVE  DraftsInv'
<1>1. PacketsWhole'
  <2> SUFFICES ASSUME NEW k \in DOMAIN packets'
               PROVE  Whole(named', packets'[k].made, packets'[k].changes)
    BY DEF PacketsWhole
  <2>1. CASE k \in DOMAIN packets
    <3>1. Whole(named, packets[k].made, packets[k].changes)
      BY <2>1 DEF DraftsInv, PacketsWhole
    <3>2. Whole(named', packets[k].made, packets[k].changes)
      BY <3>1, WholeStays
    <3> QED
      BY <2>1, <3>2
  <2>2. CASE k \notin DOMAIN packets
    BY <2>2
  <2> QED
    BY <2>1, <2>2
<1>2. FactsKept'
  <2> SUFFICES ASSUME NEW f \in facts' PROVE FactKept(named', f)
    BY DEF FactsKept
  <2>1. CASE f \in facts
    BY <2>1, FactStays DEF DraftsInv, FactsKept
  <2> QED
    BY <2>1
<1>3. CASE screen' = screen
  <2>1. DraftsType'
    BY <1>3 DEF DraftsInv, DraftsType
  <2>2. {packets'[k].made : k \in ToSet(screen.sources)}
          = {packets[k].made : k \in ToSet(screen.sources)}
    BY DEF DraftsInv, DraftsType
  <2>3. Making' = Making
    BY <1>3, <2>2 DEF Making
  <2>4. ScreenWhole'
    <3> SUFFICES ASSUME NEW g \in DOMAIN screen.drafts
                 PROVE  Whole(named', Making, screen.drafts[g])
      BY <1>3, <2>3 DEF ScreenWhole
    <3>1. Whole(named, Making, screen.drafts[g])
      BY DEF DraftsInv, ScreenWhole
    <3> QED
      BY <3>1, WholeStays
  <2> QED
    BY <1>1, <1>2, <2>1, <2>4 DEF DraftsInv
<1>4. CASE screen' = NoPreview
  <2>1. /\ screen' = [mode |-> "none", sources |-> <<>>, drafts |-> <<>>, parted |-> FALSE]
        /\ "none" \in Modes /\ "none" \notin {"review", "apply"}
    BY <1>4 DEF NoPreview, Modes
  <2>2. /\ screen' \in [mode : Modes, sources : Seq(Nat), drafts : Seq(Seq(Changes)),
                        parted : BOOLEAN]
        /\ ToSet(screen'.sources) = {} /\ DOMAIN screen'.drafts = {}
        /\ screen'.mode \notin {"review", "apply"}
    BY <2>1 DEF ToSet
  <2>3. DraftsType'
    BY <2>2 DEF DraftsInv, DraftsType
  <2>4. ScreenWhole'
    BY <2>2 DEF ScreenWhole
  <2> QED
    BY <1>1, <1>2, <2>3, <2>4 DEF DraftsInv
<1> QED
  BY <1>3, <1>4

\* A preview is shown, and nothing else happens.
LEMMA PreviewIsWhole ==
  ASSUME DraftsInv, NEW mode \in Modes, NEW sources \in Seq(Nat), NEW drafts \in Seq(Seq(Changes)),
         NEW parted \in BOOLEAN, Shows(mode, sources, drafts, parted),
         \A k \in ToSet(sources) : k \in DOMAIN packets,
         mode \in {"review", "apply"} => 1 \in DOMAIN sources,
         \A g \in DOMAIN drafts : Whole(named, Making', drafts[g])
  PROVE  DraftsInv'
<1>1. /\ screen' = [mode |-> mode, sources |-> sources, drafts |-> drafts, parted |-> parted]
      /\ named' = named /\ packets' = packets /\ facts' = facts
  BY DEF Shows
<1>2. /\ screen' \in [mode : Modes, sources : Seq(Nat), drafts : Seq(Seq(Changes)),
                      parted : BOOLEAN]
      /\ screen'.mode = mode /\ screen'.sources = sources /\ screen'.drafts = drafts
  BY <1>1
<1>3. DraftsType'
  BY <1>1, <1>2 DEF DraftsInv, DraftsType
<1>4. ScreenWhole'
  BY <1>1, <1>2 DEF ScreenWhole
<1>5. PacketsWhole' /\ FactsKept'
  BY <1>1 DEF DraftsInv, PacketsWhole, FactsKept
<1> QED
  BY <1>3, <1>4, <1>5 DEF DraftsInv

\* What a status change leaves of the tickets.
LEMMA StatusIsSet ==
  ASSUME DraftsInv, NEW k \in DOMAIN packets, NEW word \in TicketStates, SetStatus(k, word)
  PROVE  /\ packets' \in Seq(DraftPackets) /\ DOMAIN packets' = DOMAIN packets
         /\ \A j \in DOMAIN packets :
              packets'[j].made = packets[j].made /\ packets'[j].changes = packets[j].changes
<1>1. packets \in Seq(DraftPackets)
  BY DEF DraftsInv, DraftsType
<1>2. \A j \in DOMAIN packets : packets[j] \in DraftPackets
  BY <1>1
<1> DEFINE moved == [packets[k] EXCEPT !.status = word]
<1>3. /\ moved \in DraftPackets
      /\ moved.made = packets[k].made /\ moved.changes = packets[k].changes
  BY <1>2 DEF DraftPackets
<1>4. packets' = [packets EXCEPT ![k] = moved]
  BY DEF SetStatus
<1> HIDE DEF moved
<1>5. packets' \in Seq(DraftPackets) /\ DOMAIN packets' = DOMAIN packets
  BY <1>1, <1>3, <1>4
<1> QED
  BY <1>3, <1>4, <1>5

LEMMA StatusMoves ==
  ASSUME DraftsInv, NEW k \in DOMAIN packets, NEW word \in TicketStates, SetStatus(k, word),
         UNCHANGED <<named, facts>>, screen' = screen \/ screen' = NoPreview
  PROVE  DraftsInv'
<1>1. /\ packets' \in Seq(DraftPackets) /\ DOMAIN packets' = DOMAIN packets
      /\ \A j \in DOMAIN packets :
           packets'[j].made = packets[j].made /\ packets'[j].changes = packets[j].changes
  BY StatusIsSet
<1>2. Grows(named, named') /\ named' = [e \in DOMAIN named' |-> named'[e]]
  BY DEF Grows, DraftsInv, DraftsType
<1>3. \E n \in 1..Len(EntityIds) : DOMAIN named' = FirstIds(n)
  BY DEF DraftsInv, DraftsType
<1> QED
  BY <1>1, <1>2, <1>3, PacketsMove

\* apply_ticket
LEMMA ApplicationIsKept ==
  ASSUME DraftsInv, NEW k \in DOMAIN packets, ApplyPacket(k),
         screen' = screen \/ screen' = NoPreview
  PROVE  DraftsInv'
<1> DEFINE made == packets[k].made
           changes == packets[k].changes
<1>1. packets[k] \in DraftPackets
  BY DEF DraftsInv, DraftsType
<1>2. changes \in Seq(Changes) /\ Whole(named, made, changes) /\ RoomFor(changes)
  BY <1>1 DEF DraftPackets, DraftsInv, PacketsWhole, ApplyPacket
<1>3. PICK n \in 1..Len(EntityIds) : DOMAIN named = FirstIds(n)
  BY DEF DraftsInv, DraftsType
<1>4. named' = NamedBy(changes) /\ facts' = facts \cup FactsOf(made, changes)
  BY DEF ApplyPacket
<1> HIDE DEF made, changes
<1>5. /\ \E m \in 1..Len(EntityIds) : DOMAIN named' = FirstIds(m)
      /\ named' = [e \in DOMAIN named' |-> named'[e]]
      /\ DOMAIN named \subseteq DOMAIN named' /\ \A e \in DOMAIN named : named'[e] = named[e]
  BY <1>2, <1>3, <1>4, WorldGrows
<1>6. \A f \in FactsOf(made, changes) : FactKept(named', f)
  BY <1>2, <1>3, <1>4, NewFactsAreKept
<1>7. /\ packets' \in Seq(DraftPackets) /\ DOMAIN packets' = DOMAIN packets
      /\ \A j \in DOMAIN packets :
           packets'[j].made = packets[j].made /\ packets'[j].changes = packets[j].changes
  <2>1. SetStatus(k, "applied") /\ "applied" \in TicketStates
    BY DEF ApplyPacket, TicketStates
  <2> QED
    BY <2>1, StatusIsSet
<1>8. Grows(named, named')
  BY <1>5 DEF Grows
<1> QED
  BY <1>4, <1>5, <1>6, <1>7, <1>8, PacketsMove

\* A ticket is added to the last.
LEMMA PacketIsAdded ==
  ASSUME DraftsInv, NEW made \in Origins, NEW changes \in Seq(Changes),
         NEW payload \in Proposals \cup {<<>>},
         packets' = Append(packets, NewTicket(made, changes, payload)),
         UNCHANGED <<named, screen, facts>>, Whole(named, made, changes)
  PROVE  DraftsInv'
<1> DEFINE new == NewTicket(made, changes, payload)
<1>1. packets \in Seq(DraftPackets)
  BY DEF DraftsInv, DraftsType
<1>2. new \in DraftPackets /\ new.made = made /\ new.changes = changes
  BY DEF NewTicket, DraftPackets, TicketStates
<1>3. packets' = Append(packets, new)
  OBVIOUS
<1> HIDE DEF new
<1>4. packets' \in Seq(DraftPackets) /\ Len(packets') = Len(packets) + 1
  BY <1>1, <1>2, <1>3
<1>5. /\ Len(packets) \in Nat /\ DOMAIN packets = 1..Len(packets)
      /\ DOMAIN packets' = 1..(Len(packets) + 1)
  BY <1>1, <1>4
<1>6. /\ \A j \in DOMAIN packets : packets'[j] = packets[j]
      /\ packets'[Len(packets) + 1] = new
  BY <1>1, <1>2, <1>3
<1>7. \A j \in DOMAIN packets' \ DOMAIN packets : j = Len(packets) + 1
  BY <1>5
<1>8. DOMAIN packets \subseteq DOMAIN packets'
  BY <1>5
<1>9. /\ Grows(named, named') /\ named' = [e \in DOMAIN named' |-> named'[e]]
      /\ \E n \in 1..Len(EntityIds) : DOMAIN named' = FirstIds(n)
  BY DEF Grows, DraftsInv, DraftsType
<1>10. \A j \in DOMAIN packets' \ DOMAIN packets :
         Whole(named', packets'[j].made, packets'[j].changes)
  BY <1>2, <1>6, <1>7
<1> QED
  BY <1>4, <1>6, <1>8, <1>9, <1>10, PacketsMove

\* ChangeDraftService.compose: the draft is whole, unless what it is made of was parted.
LEMMA CompositionIsWhole ==
  ASSUME DraftsInv, NEW mode \in {"compose", "candidate", "revision"}, NEW sources \in Seq(Nat),
         \A k \in ToSet(sources) : k \in DOMAIN packets,
         NEW source \in Seq(Changes), NEW skipped, NEW flags, GivenFlags(flags),
         (\A k \in ToSet(sources) : packets[k].made \notin {"split", "parted"})
           => Kindred(named, source),
         Composes(mode, sources, source, skipped, flags)
  PROVE  DraftsInv'
<1> DEFINE kept == Kept(source, skipped)
           parsed == [i \in DOMAIN flags |-> Parsed(flags[i])]
           combined == kept \o parsed
           parted == \E i \in skipped : Entity(source[i])
           draft == Normalized(named, combined)
<1>1. DOMAIN named \subseteq STRING
  <2>1. PICK n \in 1..Len(EntityIds) : DOMAIN named = FirstIds(n)
    BY DEF DraftsInv, DraftsType
  <2>2. n \in 0..Len(EntityIds)
    BY AuthoringAssumption
  <2> QED
    BY <2>1, <2>2, IdsAreCounted
<1>2. kept \in Seq(Changes)
  BY KeptInSeq
<1>3. parsed \in Seq(GivenChanges)
  <2> DEFINE n == Len(flags)
  <2>1. n \in Nat /\ DOMAIN flags = 1..n
    BY DEF GivenFlags
  <2> HIDE DEF n
  <2>2. \A i \in DOMAIN flags : WellGiven(flags[i])
    BY DEF Composes
  <2>3. \A i \in DOMAIN flags : Parsed(flags[i]) \in GivenChanges
    BY <2>2, ParsedIsGiven
  <2>4. parsed \in [1..n -> GivenChanges]
    BY <2>1, <2>3
  <2> HIDE DEF parsed
  <2> QED
    BY <2>1, <2>4
<1>4. Resolvable(named, combined) /\ Shows(mode, sources, <<draft>>, parted)
  BY DEF Composes
<1> HIDE DEF kept, parsed
<1>5. parsed \in Seq(Changes) /\ Kindred(named, parsed)
  BY <1>3, GivenIsKindred
<1>6. combined \in Seq(Changes)
  BY <1>2, <1>5
<1>7. /\ draft \in Seq(Changes)
      /\ Kindred(named, combined) => Kindred(named, draft) /\ Ordered(draft)
  <2> HIDE DEF combined, draft
  <2>1. draft = Normalized(named, combined)
    BY DEF draft
  <2> QED
    BY <1>1, <1>4, <1>6, <2>1, NormalizedIsWhole
<1>8. screen' = [mode |-> mode, sources |-> sources, drafts |-> <<draft>>, parted |-> parted]
      /\ packets' = packets
  BY <1>4 DEF Shows
<1>9. Whole(named, Making', draft)
  <2> DEFINE mades == {packets[k].made : k \in ToSet(sources)}
  <2> HIDE DEF draft, combined, parted
  <2>1. /\ screen'.mode = mode /\ screen'.sources = sources /\ screen'.parted = parted
        /\ packets' = packets
    BY <1>8
  <2>2. Making' \in {"draft", "import"}
          => "split" \notin mades /\ "parted" \notin mades /\ ~parted
    <3>1. mades = {packets'[k].made : k \in ToSet(screen'.sources)}
      BY <2>1
    <3> HIDE DEF mades
    <3>2. Making' = IF screen'.mode = "split" \/ "split" \in mades THEN "split"
                    ELSE IF screen'.parted \/ "parted" \in mades THEN "parted"
                    ELSE IF screen'.mode = "merge" /\ "import" \in mades THEN "import"
                    ELSE "draft"
      BY <3>1 DEF Making
    <3> QED
      BY <2>1, <3>2
  <2>3. CASE Making' \notin {"draft", "import"}
    BY <2>3 DEF Whole
  <2>4. CASE "split" \notin mades /\ "parted" \notin mades /\ ~parted
    <3>1. Kindred(named, source)
      BY <2>4
    <3>2. \A i \in skipped : ~Entity(source[i])
      BY <2>4 DEF parted
    <3>3. Kindred(named, kept)
      BY <3>1, <3>2, KeptIsKindred DEF kept
    <3>4. Kindred(named, combined)
      BY <1>2, <1>5, <3>3, JoinedIsKindred DEF combined
    <3> QED
      BY <1>7, <3>4 DEF Whole
  <2> QED
    BY <2>2, <2>3, <2>4
<1> HIDE DEF draft, combined
<1>10. <<draft>> \in Seq(Seq(Changes)) /\ \A g \in DOMAIN <<draft>> : <<draft>>[g] = draft
  BY <1>7
<1>11. parted \in BOOLEAN /\ mode \in Modes /\ mode \notin {"review", "apply"}
  BY DEF Modes
<1> HIDE DEF parted
<1> QED
  BY <1>4, <1>9, <1>10, <1>11, PreviewIsWhole

LEMMA SplitIsShown ==
  ASSUME DraftsInv, NEW k \in DOMAIN packets, NEW parts \in Parts, PreviewSplit(k, parts)
  PROVE  DraftsInv'
<1> DEFINE changes == packets[k].changes
           piece(g) == [i \in DOMAIN parts[g] |-> changes[parts[g][i]]]
           drafts == [g \in DOMAIN parts |-> piece(g)]
<1>1. packets \in Seq(DraftPackets) /\ packets[k] \in DraftPackets /\ k \in Nat
  BY DEF DraftsInv, DraftsType
<1>2. changes \in Seq(Changes)
  BY <1>1 DEF DraftPackets
<1>3. /\ parts \in Seq(Seq(Nat)) /\ Len(parts) \in Nat /\ DOMAIN parts = 1..Len(parts)
      /\ \A g \in DOMAIN parts : /\ Len(parts[g]) \in Nat
                                 /\ DOMAIN parts[g] = 1..Len(parts[g])
  BY AuthoringAssumption
<1>4. Shows("split", <<k>>, drafts, FALSE) /\ Partitions(parts, changes)
  BY DEF PreviewSplit
<1> HIDE DEF changes
<1>5. ASSUME NEW g \in DOMAIN parts
      PROVE  piece(g) \in Seq(Changes)
  <2>1. ASSUME NEW i \in DOMAIN parts[g]
        PROVE  changes[parts[g][i]] \in Changes
    <3>1. <<g, i>> \in Positions(parts)
      BY <1>3, PositionsAreFinite
    <3>2. parts[<<g, i>>[1]][<<g, i>>[2]] \in DOMAIN changes
      BY <1>4, <3>1 DEF Partitions
    <3>3. parts[g][i] \in DOMAIN changes
      BY <3>2
    <3> QED
      BY <1>2, <3>3
  <2>2. PICK n \in Nat : piece(g) \in [1..n -> Changes]
    BY <1>3, <2>1
  <2> HIDE DEF piece
  <2> QED
    BY <2>2
<1>6. drafts \in Seq(Seq(Changes))
  <2> HIDE DEF piece
  <2> DEFINE n == Len(parts)
  <2>1. n \in Nat /\ DOMAIN parts = 1..n
    BY <1>3
  <2> HIDE DEF n
  <2>2. drafts \in [1..n -> Seq(Changes)]
    BY <1>5, <2>1
  <2> HIDE DEF drafts
  <2> QED
    BY <2>1, <2>2
<1> HIDE DEF drafts
<1>7. Making' = "split"
  <2>1. screen'.mode = "split"
    BY <1>4 DEF Shows
  <2> QED
    BY <2>1 DEF Making
<1>8. \A g \in DOMAIN drafts : Whole(named, Making', drafts[g])
  BY <1>7 DEF Whole
<1>9. <<k>> \in Seq(Nat) /\ \A j \in ToSet(<<k>>) : j \in DOMAIN packets
  BY <1>1 DEF ToSet
<1>10. "split" \in Modes /\ "split" \notin {"review", "apply"} /\ FALSE \in BOOLEAN
  BY DEF Modes
<1> QED
  BY <1>4, <1>6, <1>8, <1>9, <1>10, PreviewIsWhole

LEMMA MergeIsShown ==
  ASSUME DraftsInv, NEW j \in DOMAIN packets, NEW k \in DOMAIN packets,
         PreviewMerge(<<j, k>>)
  PROVE  DraftsInv'
<1> DEFINE sources == <<j, k>>
           lists == [i \in DOMAIN sources |-> packets[sources[i]].changes]
           draft == ItemsAt(lists, Positions(lists))
           mades == {packets[i].made : i \in ToSet(sources)}
<1>1. /\ packets \in Seq(DraftPackets) /\ j \in Nat /\ k \in Nat
      /\ \A i \in DOMAIN packets : packets[i] \in DraftPackets
  BY DEF DraftsInv, DraftsType
<1>2. /\ sources \in Seq(Nat) /\ DOMAIN sources = 1..2
      /\ \A i \in 1..2 : sources[i] \in {j, k}
      /\ ToSet(sources) = {j, k}
  BY <1>1 DEF ToSet
<1>3. \A i \in {j, k} : Concrete(i)
  <2>1. \A i \in ToSet(sources) : Concrete(i)
    BY DEF PreviewMerge
  <2> QED
    BY <1>2, <2>1
<1>4. Shows("merge", sources, <<draft>>, FALSE)
  BY DEF PreviewMerge
<1> HIDE DEF sources
<1>5. mades = {packets[j].made, packets[k].made}
  BY <1>2
<1>6. /\ DOMAIN lists = 1..2
      /\ \A l \in 1..2 : lists[l] = packets[j].changes \/ lists[l] = packets[k].changes
  BY <1>2
<1> HIDE DEF lists, mades
<1>7. \A l \in 1..2 : lists[l] \in Seq(Changes)
  <2>1. packets[j].changes \in Seq(Changes) /\ packets[k].changes \in Seq(Changes)
    BY <1>1 DEF DraftPackets
  <2> QED
    BY <1>6, <2>1
<1>8. /\ draft \in Seq(Changes)
      /\ (\A l \in 1..2 : Kindred(named, lists[l])) => Kindred(named, draft)
      /\ (\A l \in 1..2 : Ordered(lists[l])) => Ordered(draft)
  <2>1. draft = ItemsAt(lists, Positions(lists))
    OBVIOUS
  <2> HIDE DEF draft
  <2> QED
    BY <1>6, <1>7, <2>1, MergedIsWhole
<1> HIDE DEF draft
<1>9. /\ screen'.mode = "merge" /\ screen'.sources = sources /\ ~screen'.parted
      /\ packets' = packets
  BY <1>4 DEF Shows
<1>10. Making' = IF "split" \in mades THEN "split"
                 ELSE IF "parted" \in mades THEN "parted"
                 ELSE IF "import" \in mades THEN "import"
                 ELSE "draft"
  <2>1. mades = {packets'[i].made : i \in ToSet(screen'.sources)}
    BY <1>9 DEF mades
  <2>2. Making' = IF screen'.mode = "split" \/ "split" \in mades THEN "split"
                  ELSE IF screen'.parted \/ "parted" \in mades THEN "parted"
                  ELSE IF screen'.mode = "merge" /\ "import" \in mades THEN "import"
                  ELSE "draft"
    BY <2>1 DEF Making
  <2> QED
    BY <1>9, <2>2
<1>11. \A i \in {j, k} : /\ packets[i].made \in {"import", "draft", "parted", "split"}
                         /\ Whole(named, packets[i].made, packets[i].changes)
  BY <1>1, <1>3 DEF DraftPackets, Origins, Concrete, DraftsInv, PacketsWhole
<1>12. Whole(named, Making', draft)
  <2>1. CASE "split" \in mades \/ "parted" \in mades
    BY <1>10, <2>1 DEF Whole
  <2>2. CASE "split" \notin mades /\ "parted" \notin mades
    <3>1. \A i \in {j, k} : packets[i].made \in {"import", "draft"}
      BY <1>5, <1>11, <2>2
    <3>2. \A i \in {j, k} : Kindred(named, packets[i].changes)
      BY <1>11, <3>1 DEF Whole
    <3>3. Kindred(named, draft)
      BY <1>6, <1>8, <3>2
    <3>4. CASE "import" \in mades
      <4>1. Making' = "import"
        BY <1>10, <2>2, <3>4
      <4> QED
        BY <3>3, <4>1 DEF Whole
    <3>5. CASE "import" \notin mades
      <4>1. \A i \in {j, k} : packets[i].made = "draft"
        BY <1>5, <3>1, <3>5
      <4>2. \A i \in {j, k} : Ordered(packets[i].changes)
        BY <1>11, <4>1 DEF Whole
      <4>3. Ordered(draft)
        BY <1>6, <1>8, <4>2
      <4> QED
        BY <3>3, <4>3 DEF Whole
    <3> QED
      BY <3>4, <3>5
  <2> QED
    BY <2>1, <2>2
<1>13. <<draft>> \in Seq(Seq(Changes)) /\ \A g \in DOMAIN <<draft>> : <<draft>>[g] = draft
  BY <1>8
<1>14. "merge" \in Modes /\ "merge" \notin {"review", "apply"} /\ FALSE \in BOOLEAN
  BY DEF Modes
<1>15. \A i \in ToSet(sources) : i \in DOMAIN packets
  BY <1>2
<1> QED
  BY <1>2, <1>4, <1>12, <1>13, <1>14, <1>15, PreviewIsWhole

LEMMA GuideIsShown ==
  ASSUME DraftsInv, NEW mode \in {"review", "apply"}, NEW word, Guided(mode, word)
  PROVE  DraftsInv'
<1> DEFINE eligible == {k \in DOMAIN packets : Concrete(k) /\ packets[k].status = word}
           k == CHOOSE j \in eligible : TRUE
<1>1. Cardinality(eligible) = 1 /\ Shows(mode, <<k>>, <<>>, FALSE)
  BY DEF Guided
<1>2. eligible # {}
  <2> HIDE DEF eligible
  <2> QED
    BY <1>1, FS_EmptySet
<1>3. k \in DOMAIN packets /\ k \in Nat
  BY <1>2 DEF DraftsInv, DraftsType
<1> HIDE DEF k
<1>4. <<k>> \in Seq(Nat) /\ 1 \in DOMAIN <<k>> /\ \A j \in ToSet(<<k>>) : j \in DOMAIN packets
  BY <1>3 DEF ToSet
<1> DEFINE nothing == <<>>
<1>5. nothing \in Seq(Seq(Changes)) /\ DOMAIN nothing = {} /\ nothing = <<>>
  OBVIOUS
<1>6. mode \in Modes /\ FALSE \in BOOLEAN
  BY DEF Modes
<1> HIDE DEF nothing
<1>7. Shows(mode, <<k>>, nothing, FALSE)
  BY <1>1, <1>5 DEF k
<1>8. \A g \in DOMAIN nothing : Whole(named, Making', nothing[g])
  BY <1>5
<1> QED
  BY <1>4, <1>5, <1>6, <1>7, <1>8, PreviewIsWhole

\* The preview becomes tickets, instead of its sources.
LEMMA DraftsAreWritten ==
  ASSUME DraftsInv, WriteTicket
  PROVE  DraftsInv'
<1> DEFINE drafts == screen.drafts
           making == Making
           closed == IF screen.mode = "candidate" THEN "converted" ELSE "superseded"
           kept == [k \in DOMAIN packets |->
                      IF k \notin ToSet(screen.sources) THEN packets[k]
                      ELSE [packets[k] EXCEPT !.status = closed]]
           new == [g \in DOMAIN drafts |-> NewTicket(making, drafts[g], <<>>)]
<1>1. packets' = kept \o new /\ screen' = NoPreview /\ UNCHANGED <<named, facts>>
  BY DEF WriteTicket
<1>2. packets \in Seq(DraftPackets) /\ drafts \in Seq(Seq(Changes))
  BY DEF DraftsInv, DraftsType
<1>3. making \in Origins
  BY DEF Making, Origins
<1>4. \A g \in DOMAIN drafts : Whole(named, making, drafts[g])
  BY DEF DraftsInv, ScreenWhole
<1> HIDE DEF making
<1> DEFINE m == Len(packets)
           n == Len(drafts)
<1>5. m \in Nat /\ DOMAIN packets = 1..m /\ n \in Nat /\ DOMAIN drafts = 1..n
  BY <1>2
<1>6. closed \in TicketStates
  BY DEF TicketStates
<1> HIDE DEF closed
<1>7. ASSUME NEW k \in DOMAIN packets
      PROVE  /\ kept[k] \in DraftPackets
             /\ kept[k].made = packets[k].made /\ kept[k].changes = packets[k].changes
  <2>1. packets[k] \in DraftPackets
    BY <1>2
  <2> QED
    BY <1>6, <2>1 DEF DraftPackets
<1>8. ASSUME NEW g \in DOMAIN drafts
      PROVE  new[g] \in DraftPackets /\ new[g].made = making /\ new[g].changes = drafts[g]
  <2>1. drafts[g] \in Seq(Changes) /\ new[g] = NewTicket(making, drafts[g], <<>>)
    BY <1>2
  <2> DEFINE draft == drafts[g]
  <2> HIDE DEF new
  <2> QED
    BY <1>3, <2>1 DEF NewTicket, DraftPackets, TicketStates
<1>9. DOMAIN kept = DOMAIN packets /\ DOMAIN new = DOMAIN drafts
  OBVIOUS
<1>10. kept \in [DOMAIN packets -> DraftPackets] /\ new \in [DOMAIN drafts -> DraftPackets]
  <2>1. \A k \in DOMAIN packets : kept[k] \in DraftPackets
    BY <1>7
  <2>2. \A g \in DOMAIN drafts : new[g] \in DraftPackets
    BY <1>8
  <2>3. kept = [k \in DOMAIN packets |-> kept[k]] /\ new = [g \in DOMAIN drafts |-> new[g]]
    OBVIOUS
  <2> HIDE DEF kept, new, drafts
  <2> QED
    BY <2>1, <2>2, <2>3
<1> HIDE DEF kept, new, drafts, m, n
<1>11. /\ kept \in Seq(DraftPackets) /\ Len(kept) = m
       /\ new \in Seq(DraftPackets) /\ Len(new) = n
  <2>1. kept \in [1..m -> DraftPackets] /\ new \in [1..n -> DraftPackets]
    BY <1>5, <1>10
  <2>2. kept \in Seq(DraftPackets) /\ new \in Seq(DraftPackets)
    BY <1>5, <2>1
  <2> QED
    BY <1>5, <1>9, <2>2
<1>12. /\ packets' \in Seq(DraftPackets) /\ Len(packets') = m + n
       /\ \A k \in 1..m : packets'[k] = kept[k]
       /\ \A k \in (m + 1)..(m + n) : packets'[k] = new[k - m]
  <2>s. kept \o new \in Seq(DraftPackets)
    BY <1>11
  <2>l. Len(kept \o new) = Len(kept) + Len(new)
    BY <1>11
  <2>1. kept \o new \in Seq(DraftPackets) /\ Len(kept \o new) = m + n
    BY <1>11, <2>s, <2>l
  <2>2. \A k \in 1..(m + n) : (kept \o new)[k] = IF k <= m THEN kept[k] ELSE new[k - m]
    BY <1>11
  <2> DEFINE joined == kept \o new
  <2> HIDE DEF joined
  <2>3. \A k \in 1..m : k \in 1..(m + n) /\ k <= m
    BY <1>5
  <2>4. \A k \in (m + 1)..(m + n) : k \in 1..(m + n) /\ ~(k <= m)
    BY <1>5
  <2>5. packets' = joined
    BY <1>1 DEF joined
  <2>6. joined \in Seq(DraftPackets) /\ Len(joined) = m + n
    BY <2>1 DEF joined
  <2>7. \A k \in 1..(m + n) : joined[k] = IF k <= m THEN kept[k] ELSE new[k - m]
    BY <2>2 DEF joined
  <2> QED
    BY <2>3, <2>4, <2>5, <2>6, <2>7
<1>13. DOMAIN packets' = 1..(m + n)
  BY <1>12
<1>14. DOMAIN packets \subseteq DOMAIN packets'
  BY <1>5, <1>13
<1>15. \A k \in DOMAIN packets :
         packets'[k].made = packets[k].made /\ packets'[k].changes = packets[k].changes
  BY <1>5, <1>7, <1>12
<1>16. ASSUME NEW k \in DOMAIN packets' \ DOMAIN packets
       PROVE  Whole(named', packets'[k].made, packets'[k].changes)
  <2>1. k \in (m + 1)..(m + n) /\ k - m \in DOMAIN drafts
    BY <1>5, <1>13
  <2>2. packets'[k].made = making /\ packets'[k].changes = drafts[k - m]
    BY <1>8, <1>12, <2>1
  <2> QED
    BY <1>1, <1>4, <2>1, <2>2
<1>17. /\ Grows(named, named') /\ named' = [e \in DOMAIN named' |-> named'[e]]
       /\ \E i \in 1..Len(EntityIds) : DOMAIN named' = FirstIds(i)
  BY <1>1 DEF Grows, DraftsInv, DraftsType
<1> QED
  BY <1>1, <1>12, <1>14, <1>15, <1>16, <1>17, PacketsMove

LEMMA DraftsStart ==
  ASSUME DraftsInit
  PROVE  DraftsInv
<1>1. /\ DOMAIN named = {EntityIds[1]} /\ packets = <<>> /\ facts = {}
      /\ screen = [mode |-> "none", sources |-> <<>>, drafts |-> <<>>, parted |-> FALSE]
      /\ named = [e \in DOMAIN named |-> named[e]]
  BY DEF DraftsInit, NoPreview
<1>2. 1 \in 1..Len(EntityIds) /\ DOMAIN named = FirstIds(1)
  <2>1. EntityIds \in Seq(STRING) /\ Len(EntityIds) > 0
    BY AuthoringAssumption
  <2> QED
    BY <1>1, <2>1 DEF FirstIds
<1>3. "none" \in Modes /\ "none" \notin {"review", "apply"}
  BY DEF Modes
<1>4. /\ screen \in [mode : Modes, sources : Seq(Nat), drafts : Seq(Seq(Changes)),
                     parted : BOOLEAN]
      /\ ToSet(screen.sources) = {} /\ DOMAIN screen.drafts = {}
      /\ screen.mode \notin {"review", "apply"}
  BY <1>1, <1>3 DEF ToSet
<1>5. DraftsType
  BY <1>1, <1>2, <1>4 DEF DraftsType
<1>6. PacketsWhole /\ ScreenWhole /\ FactsKept
  BY <1>1, <1>4 DEF PacketsWhole, ScreenWhole, FactsKept
<1> QED
  BY <1>5, <1>6 DEF DraftsInv

LEMMA DraftsStep ==
  ASSUME DraftsInv, [DraftsNext]_draftVars
  PROVE  DraftsInv'
<1>1. ASSUME NEW changes \in Imports, ImportPacket(changes)
      PROVE  DraftsInv'
  <2>1. changes \in Seq(GivenChanges)
    BY AuthoringAssumption
  <2>2. changes \in Seq(Changes) /\ Kindred(named, changes)
    BY <2>1, GivenIsKindred
  <2>3. Whole(named, "import", changes)
    BY <2>2 DEF Whole
  <2>4. "import" \in Origins /\ <<>> \in Proposals \cup {<<>>}
    BY DEF Origins
  <2> QED
    BY <1>1, <2>2, <2>3, <2>4, PacketIsAdded DEF ImportPacket
<1>2. ASSUME NEW payload \in Proposals, ProposeCandidate(payload)
      PROVE  DraftsInv'
  <2>1. "candidate" \in Origins /\ <<>> \in Seq(Changes)
    BY DEF Origins
  <2>2. Whole(named, "candidate", <<>>)
    BY DEF Whole
  <2> QED
    BY <1>2, <2>1, <2>2, PacketIsAdded DEF ProposeCandidate
<1>3. ASSUME NEW flags \in Flags, Compose(flags)
      PROVE  DraftsInv'
  <2> DEFINE none == <<>>
  <2>1. GivenFlags(flags)
    BY AuthoringAssumption
  <2>2. none \in Seq(Nat) /\ none \in Seq(Changes) /\ DOMAIN none = {} /\ ToSet(none) = {}
    BY DEF ToSet
  <2>3. Composes("compose", none, none, {}, flags)
    BY <1>3 DEF Compose
  <2> HIDE DEF none
  <2>4. Kindred(named, none)
    BY <2>2 DEF Kindred
  <2>5. "compose" \in {"compose", "candidate", "revision"}
    OBVIOUS
  <2> QED
    BY <2>1, <2>2, <2>3, <2>4, <2>5, CompositionIsWhole
<1>4. ASSUME NEW k \in DOMAIN packets, ReviewPacket(k), UNCHANGED <<named, facts>>,
             screen' = screen \/ screen' = NoPreview
      PROVE  DraftsInv'
  <2>1. SetStatus(k, "approved") /\ "approved" \in TicketStates
    BY <1>4 DEF ReviewPacket, TicketStates
  <2> QED
    BY <1>4, <2>1, StatusMoves
<1>5. ASSUME NEW k \in DOMAIN packets, RejectPacket(k)
      PROVE  DraftsInv'
  <2>1. SetStatus(k, "rejected") /\ "rejected" \in TicketStates
    BY <1>5 DEF RejectPacket, TicketStates
  <2> QED
    BY <1>5, <2>1, StatusMoves DEF RejectPacket
<1>p. /\ packets \in Seq(DraftPackets)
      /\ \A k \in DOMAIN packets : k \in Nat /\ packets[k] \in DraftPackets
  BY DEF DraftsInv, DraftsType
<1>s. ASSUME NEW k \in DOMAIN packets
      PROVE  /\ <<k>> \in Seq(Nat) /\ \A j \in ToSet(<<k>>) : j \in DOMAIN packets
             /\ k \in ToSet(<<k>>)
  BY <1>p DEF ToSet
<1>6. ASSUME NEW k \in DOMAIN packets, NEW by \in Amendments,
             AcceptCandidate(k, by.skipped, by.flags)
      PROVE  DraftsInv'
  <2> DEFINE source == Extracted(packets[k].payload)
  <2>1. GivenFlags(by.flags)
    BY AuthoringAssumption
  <2>2. packets[k].payload \in Proposals \cup {<<>>}
    BY <1>p DEF DraftPackets
  <2>3. source \in Seq(GivenChanges)
    BY <2>2, ExtractedIsGiven
  <2>4. Composes("candidate", <<k>>, source, by.skipped, by.flags)
    BY <1>6 DEF AcceptCandidate
  <2> HIDE DEF source
  <2>5. source \in Seq(Changes) /\ Kindred(named, source)
    BY <2>3, GivenIsKindred
  <2> QED
    BY <1>s, <2>1, <2>4, <2>5, CompositionIsWhole
<1>7. ASSUME NEW k \in DOMAIN packets, NEW by \in Amendments, AmendTicket(k, by.skipped, by.flags)
      PROVE  DraftsInv'
  <2> DEFINE source == packets[k].changes
  <2>1. GivenFlags(by.flags)
    BY AuthoringAssumption
  <2>2. source \in Seq(Changes) /\ packets[k].made \in Origins
    BY <1>p DEF DraftPackets
  <2>3. Composes("revision", <<k>>, source, by.skipped, by.flags) /\ packets[k].made # "candidate"
    BY <1>7 DEF AmendTicket, Concrete
  <2>4. packets[k].made \notin {"split", "parted"} => Kindred(named, source)
    BY <2>2, <2>3 DEF Origins, DraftsInv, PacketsWhole, Whole
  <2> HIDE DEF source
  <2> QED
    BY <1>s, <2>1, <2>2, <2>3, <2>4, CompositionIsWhole
<1>8. ASSUME NEW k \in DOMAIN packets, ApplyPacket(k), screen' = screen \/ screen' = NoPreview
      PROVE  DraftsInv'
  BY <1>8, ApplicationIsKept
<1>9. ASSUME FinishGuided
      PROVE  DraftsInv'
  <2> DEFINE k == screen.sources[1]
  <2>1. screen.mode \in {"review", "apply"} /\ screen' = NoPreview
    BY <1>9 DEF FinishGuided
  <2>2. k \in DOMAIN packets
    <3>1. 1 \in DOMAIN screen.sources
      BY <2>1 DEF DraftsInv, DraftsType
    <3>2. k \in ToSet(screen.sources)
      BY <3>1 DEF ToSet
    <3> QED
      BY <3>2 DEF DraftsInv, DraftsType
  <2> HIDE DEF k
  <2>3. \/ ReviewPacket(k) /\ UNCHANGED <<named, facts>>
        \/ ApplyPacket(k)
    BY <1>9 DEF FinishGuided, k
  <2> QED
    BY <1>4, <1>8, <2>1, <2>2, <2>3
<1>10. ASSUME packets' = packets, named' = named, facts' = facts,
              screen' = screen \/ screen' = NoPreview
       PROVE  DraftsInv'
  <2>1. /\ packets' \in Seq(DraftPackets) /\ DOMAIN packets \subseteq DOMAIN packets'
        /\ \A k \in DOMAIN packets :
             packets'[k].made = packets[k].made /\ packets'[k].changes = packets[k].changes
        /\ DOMAIN packets' \ DOMAIN packets = {}
    BY <1>p, <1>10
  <2>2. /\ Grows(named, named') /\ named' = [e \in DOMAIN named' |-> named'[e]]
        /\ \E n \in 1..Len(EntityIds) : DOMAIN named' = FirstIds(n)
    BY <1>10 DEF Grows, DraftsInv, DraftsType
  <2> QED
    BY <1>10, <2>1, <2>2, PacketsMove
<1>11. CASE LeaveCommand
  BY <1>10, <1>11 DEF LeaveCommand
<1>12. CASE UNCHANGED draftVars
  BY <1>10, <1>12 DEF draftVars
<1>13. CASE WriteTicket
  BY <1>13, DraftsAreWritten
<1>14. CASE Guided("review", "proposed") \/ Guided("apply", "approved")
  <2>1. "review" \in {"review", "apply"} /\ "apply" \in {"review", "apply"}
    OBVIOUS
  <2> QED
    BY <1>14, <2>1, GuideIsShown
<1>15. ASSUME NEW k \in DOMAIN packets,
              \/ ReviewPacket(k) /\ UNCHANGED <<named, screen, facts>>
              \/ ApplyPacket(k) /\ UNCHANGED screen
              \/ RejectPacket(k)
              \/ \E by \in Amendments :
                   AcceptCandidate(k, by.skipped, by.flags) \/ AmendTicket(k, by.skipped, by.flags)
              \/ \E parts \in Parts : PreviewSplit(k, parts)
              \/ \E j \in DOMAIN packets : PreviewMerge(<<j, k>>)
       PROVE  DraftsInv'
  BY <1>4, <1>5, <1>6, <1>7, <1>8, <1>15, SplitIsShown, MergeIsShown
<1> QED
  BY <1>1, <1>2, <1>3, <1>9, <1>11, <1>12, <1>13, <1>14, <1>15 DEF DraftsNext

LEMMA DraftsHold ==
  ASSUME DraftsInv
  PROVE  DraftsMeanWhatTheySay
<1>1. DraftsCanBeApplied
  <2> SUFFICES ASSUME NEW k \in DOMAIN packets, packets[k].made = "draft",
                      ObjectRefsKnown(packets[k].changes)
               PROVE  RefsAreFound(packets[k].changes)
    BY DEF DraftsCanBeApplied
  <2>p. packets[k] \in DraftPackets
    BY DEF DraftsInv, DraftsType
  <2>1. packets[k].changes \in Seq(Changes)
    BY <2>p DEF DraftPackets
  <2>2. Ordered(packets[k].changes)
    BY DEF DraftsInv, PacketsWhole, Whole
  <2> QED
    BY <2>1, <2>2, OrderedIsFound
<1>2. NamesKeepTheirBearer
  BY DEF DraftsInv, FactsKept, FactKept, Namesakes, NamesKeepTheirBearer, KeepsBearer
<1> QED
  BY <1>1, <1>2 DEF DraftsMeanWhatTheySay

\* What authors write by name stays about the entity that bore the name, however the world
\* changes between the preview, the review and the application, and however tickets are
\* amended and merged; and every ref of a draft is found when it is applied
\* (resolve_change_references, _merge_ticket_packets, apply_ticket).
THEOREM DraftsStayMeant == DraftsSpec => []DraftsMeanWhatTheySay
<1>1. DraftsSpec => []DraftsInv
  BY DraftsStart, DraftsStep, PTL DEF DraftsSpec
<1> QED
  BY <1>1, DraftsHold, PTL
==============================================================================
