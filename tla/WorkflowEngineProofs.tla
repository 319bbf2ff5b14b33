------------------------- MODULE WorkflowEngineProofs ------------------------
(****************************************************************************)
(* Proofs about WorkflowEngine for any number of processes and calls.       *)
(****************************************************************************)
EXTENDS WorkflowEngine, TLAPS

------------------------------------------------------------------------------
(* The inductive invariant, in parts. *)

InFlight(p) == pc[p] \in {"update", "save"}

\* A run has a payload exactly when it has a row.
RowShape ==
  /\ revision = 0 <=> payload = NoRun
  /\ payload # NoRun => payload \in Payloads

\* Calls that make no edit have none, and no edit is made twice.
EditOwnership ==
  /\ \A p \in Procs : pc[p] \in {"idle", "adopt"} => edit[p] = 0
  /\ \A p, q \in Procs : edit[p] # 0 /\ edit[p] = edit[q] => p = q
  /\ \A p \in Procs : edit[p] <= calls
  /\ \A e \in DurableEdits \cup acked \cup refused : e \in 1..calls

\* What a call in flight wants to save is derived from the revision it expects;
\* when that is still the row's revision, it is derived from the row, and past
\* validation the step from the row to it is permitted.
Derivation ==
  \A p \in Procs : InFlight(p) =>
    /\ at[p] \in 1..revision
    /\ want[p] \in Payloads
    /\ edit[p] # 0
    /\ edit[p] \notin DurableEdits \cup acked \cup refused
    /\ at[p] = revision => want[p].edits = Append(payload.edits, edit[p])
    /\ pc[p] = "save" /\ at[p] = revision
         => Permits(payload.status, want[p].status)

\* A call past its save has its edit in the row.
Durability ==
  /\ \A p \in Procs : Projecting(p) =>
       /\ at[p] \in 1..revision
       /\ edit[p] # 0 => edit[p] \in DurableEdits
       /\ edit[p] \notin refused
  /\ acked \subseteq DurableEdits
  /\ refused \cap DurableEdits = {}

\* Without overlap there is one projection at a time, of the row's revision.
LoneProjection ==
  ~overlap =>
    /\ \A p, q \in Procs : Projecting(p) /\ Projecting(q) => p = q
    /\ \A p \in Procs : Projecting(p) => at[p] = revision
    /\ \A p \in Procs : pc[p] = "mark" => runJson = revision
    /\ projection = "current" => runJson = revision

IInv ==
  /\ TypeOK
  /\ RowShape
  /\ EditOwnership
  /\ Derivation
  /\ Durability
  /\ LoneProjection

------------------------------------------------------------------------------
(* Lemmas about the operators *)

\* Appending an element adds it to the elements of a sequence.
LEMMA AppendAdds ==
  ASSUME NEW S, NEW s \in Seq(S), NEW e \in S
  PROVE  {Append(s, e)[i] : i \in DOMAIN Append(s, e)}
           = {s[i] : i \in DOMAIN s} \cup {e}
<1>1. /\ DOMAIN s = 1..Len(s)
      /\ DOMAIN Append(s, e) = 1..(Len(s) + 1)
      /\ Len(s) \in Nat
  OBVIOUS
<1>2. \A i \in 1..Len(s) : Append(s, e)[i] = s[i]
  OBVIOUS
<1>3. Append(s, e)[Len(s) + 1] = e
  OBVIOUS
<1> QED
  BY <1>1, <1>2, <1>3

\* RunStore.update and the payloads it may be given stay within the types.
LEMMA StartType ==
  ASSUME TypeOK, RowShape, NEW p \in Procs, NEW s \in RUN_STATES,
         NEW f \in RUN_STATES \cup {NoState}, Start(p, s, f)
  PROVE  /\ want'[p] \in Payloads
         /\ TypeOK'
<1>1. /\ payload \in Payloads
      /\ calls + 1 \in Edits
  BY MaxCallsAssumption DEF TypeOK, RowShape, Start, Registered, Edits
<1>2. Append(payload.edits, calls + 1) \in Seq(Edits)
  BY <1>1 DEF Payloads
<1>3. want'[p] \in Payloads
  BY <1>2 DEF TypeOK, Start, Payloads
<1>4. TypeOK'
  BY <1>1, <1>3, MaxCallsAssumption
     DEF TypeOK, Start, Goto, Steps, store, history, Edits
<1> QED
  BY <1>3, <1>4

\* Every call that makes an edit starts with a status of the table.
LEMMA BeginStarts ==
  ASSUME TypeOK, RowShape, NEW p \in Procs,
         Edit(p) \/ Interrupt(p) \/ Resume(p) \/ Close(p)
  PROVE  \E s \in RUN_STATES, f \in RUN_STATES \cup {NoState} : Start(p, s, f)
<1>1. payload \in Payloads
  BY DEF RowShape, Edit, Interrupt, Resume, Close, Start, Registered
<1>2. /\ payload.status \in RUN_STATES
      /\ payload.from \in RUN_STATES \cup {NoState}
  BY <1>1 DEF Payloads
<1>3. CASE Edit(p)
  BY <1>2, <1>3, TargetsAssumption DEF Edit
<1>4. CASE Interrupt(p)
  BY <1>2, <1>4 DEF Interrupt, RUN_STATES
<1>5. CASE Resume(p)
  <2>1. (IF payload.from = NoState THEN "awaiting_callback" ELSE payload.from)
          \in RUN_STATES
    BY <1>2 DEF RUN_STATES
  <2> QED
    BY <1>2, <1>5, <2>1 DEF Resume
<1>6. CASE Close(p)
  BY <1>2, <1>6 DEF Close, RUN_STATES
<1> QED
  BY <1>3, <1>4, <1>5, <1>6

------------------------------------------------------------------------------
(* Each action preserves the invariant. *)

\* What the invariant says of a row that a step leaves alone.
LEMMA SameRow ==
  ASSUME UNCHANGED <<revision, payload>>
  PROVE  DurableEdits' = DurableEdits
BY DEF DurableEdits, EditsOf

LEMMA StartInv ==
  ASSUME IInv, NEW p \in Procs, NEW s \in RUN_STATES,
         NEW f \in RUN_STATES \cup {NoState}, Start(p, s, f)
  PROVE  IInv'
<1> USE DEF IInv
<1>1. /\ TypeOK'
      /\ want'[p] \in Payloads
  BY StartType
<1>2. /\ UNCHANGED <<store, history>>
      /\ DurableEdits' = DurableEdits
  BY SameRow DEF Start, store
<1>3. /\ pc' = [pc EXCEPT ![p] = "update"]
      /\ edit' = [edit EXCEPT ![p] = calls + 1]
      /\ at' = [at EXCEPT ![p] = revision]
      /\ calls' = calls + 1
      /\ pc[p] = "idle"
      /\ revision # 0
      /\ \A q \in Procs \ {p} : want'[q] = want[q]
      /\ want'[p].edits = Append(payload.edits, calls + 1)
  BY DEF Start, Goto, Registered, TypeOK
<1>4. RowShape'
  BY <1>2 DEF RowShape, store, Payloads
<1>5. EditOwnership'
  BY <1>2, <1>3, MaxCallsAssumption
     DEF EditOwnership, history, TypeOK, Edits
<1>6. calls + 1 \notin DurableEdits \cup acked \cup refused
  BY MaxCallsAssumption DEF EditOwnership, TypeOK
<1>7. Derivation'
  BY <1>1, <1>2, <1>3, <1>6, MaxCallsAssumption
     DEF Derivation, InFlight, store, history, TypeOK
<1>8. Durability'
  BY <1>2, <1>3 DEF Durability, Projecting, store, history, TypeOK
<1>9. LoneProjection'
  BY <1>2, <1>3 DEF LoneProjection, Projecting, store, history, TypeOK
<1> QED
  BY <1>1, <1>4, <1>5, <1>7, <1>8, <1>9

\* A call that returns or dies with the row as it is, having told its caller at
\* most what is true.
LEMMA ReturnInv ==
  ASSUME IInv, NEW p \in Procs, Return(p),
         UNCHANGED <<revision, payload, runJson, overlap>>,
         projection' \in ProjectionStates,
         ~overlap /\ projection' = "current" => runJson = revision,
         acked' \in {acked, acked \cup {edit[p]}},
         acked' # acked => edit[p] # 0 /\ Projecting(p),
         refused' \in {refused, refused \cup {edit[p]}},
         refused' # refused => InFlight(p),
         orphan' \in BOOLEAN
  PROVE  IInv'
<1> USE DEF IInv
<1>1. DurableEdits' = DurableEdits
  BY SameRow
<1>2. /\ pc' = [pc EXCEPT ![p] = "idle"]
      /\ edit' = [edit EXCEPT ![p] = 0]
      /\ at' = [at EXCEPT ![p] = 0]
      /\ want' = [want EXCEPT ![p] = NoRun]
      /\ calls' = calls
  BY DEF Return, Goto
<1>3. /\ acked' \subseteq DurableEdits
      /\ refused' \cap DurableEdits = {}
      /\ \A e \in acked' \cup refused' : e \in 1..calls
      /\ \A q \in Procs \ {p} : edit[q] # 0 => edit[q] # edit[p]
      /\ \A q \in Procs \ {p} : InFlight(q) => edit[q] \notin acked' \cup refused'
      /\ \A q \in Procs \ {p} : Projecting(q) => edit[q] \notin refused'
  BY MaxCallsAssumption
     DEF Durability, Derivation, EditOwnership, InFlight, Projecting, TypeOK, Edits
<1>4. TypeOK'
  BY <1>2, <1>3, MaxCallsAssumption DEF TypeOK, Steps, Edits
<1>5. RowShape'
  BY DEF RowShape
<1>6. EditOwnership'
  BY <1>1, <1>2, <1>3 DEF EditOwnership, TypeOK
<1>7. Derivation'
  BY <1>1, <1>2, <1>3 DEF Derivation, InFlight, TypeOK
<1>8. Durability'
  BY <1>1, <1>2, <1>3 DEF Durability, Projecting, TypeOK
<1>9. LoneProjection'
  BY <1>1, <1>2 DEF LoneProjection, Projecting, TypeOK
<1> QED
  BY <1>4, <1>5, <1>6, <1>7, <1>8, <1>9

LEMMA UpdateInv ==
  ASSUME IInv, NEW p \in Procs, Update(p)
  PROVE  IInv'
<1> USE DEF IInv
<1>1. /\ UNCHANGED <<store, at, want, edit, calls, history>>
      /\ pc' = [pc EXCEPT ![p] = "save"]
      /\ pc[p] = "update"
      /\ Permits(payload.status, want[p].status)
      /\ DurableEdits' = DurableEdits
  BY SameRow DEF Update, Goto, store
<1>2. TypeOK'
  BY <1>1 DEF TypeOK, Steps, store, history
<1>3. RowShape' /\ EditOwnership'
  BY <1>1 DEF RowShape, EditOwnership, store, history, TypeOK
<1>4. Derivation'
  BY <1>1 DEF Derivation, InFlight, store, history, TypeOK, Permits
<1>5. Durability' /\ LoneProjection'
  BY <1>1 DEF Durability, LoneProjection, Projecting, store, history, TypeOK
<1> QED
  BY <1>2, <1>3, <1>4, <1>5

LEMMA SaveInv ==
  ASSUME IInv, NEW p \in Procs, SaveRun(p)
  PROVE  /\ IInv'
         /\ DurableEdits' = DurableEdits \cup {edit[p]}
<1> USE DEF IInv
<1>1. /\ pc[p] = "save"
      /\ at[p] = revision
      /\ revision' = revision + 1
      /\ payload' = want[p]
      /\ projection' = "pending"
      /\ runJson' = runJson
      /\ at' = [at EXCEPT ![p] = revision + 1]
      /\ pc' = [pc EXCEPT ![p] = "project"]
      /\ overlap' = OthersProject(p)
      /\ orphan' = FALSE
      /\ UNCHANGED <<want, edit, calls, acked, refused>>
  BY DEF SaveRun, Save, CompareAndSwap, EnterProjection, Goto
<1>2. /\ want[p] \in Payloads
      /\ want[p] # NoRun
      /\ edit[p] \in Edits
      /\ edit[p] \notin DurableEdits \cup acked \cup refused
      /\ revision \in Nat \ {0}
      /\ want[p].edits = Append(payload.edits, edit[p])
  BY <1>1, NoRunAssumption, MaxCallsAssumption
     DEF Derivation, InFlight, TypeOK, Payloads, Edits
<1>3. payload \in Payloads /\ payload # NoRun
  BY <1>2 DEF RowShape, TypeOK
<1>4. DurableEdits' = DurableEdits \cup {edit[p]}
  <2>1. payload.edits \in Seq(Edits)
    BY <1>3 DEF Payloads
  <2>2. {Append(payload.edits, edit[p])[i] :
           i \in DOMAIN Append(payload.edits, edit[p])}
          = {payload.edits[i] : i \in DOMAIN payload.edits} \cup {edit[p]}
    BY <1>2, <2>1, AppendAdds
  <2>3. EditsOf(want[p]) = EditsOf(payload) \cup {edit[p]}
    BY <1>2, <2>2, Zenon DEF EditsOf
  <2> QED
    BY <1>1, <1>2, <1>3, <2>3, Zenon DEF DurableEdits, EditsOf
<1>5. TypeOK'
  <2>1. overlap' \in BOOLEAN /\ orphan' \in BOOLEAN
    BY <1>1, Zenon DEF OthersProject
  <2> QED
    BY <1>1, <1>2, <2>1 DEF TypeOK, Steps, ProjectionStates
<1>6. RowShape'
  BY <1>1, <1>2 DEF RowShape, TypeOK
<1>7. EditOwnership'
  BY <1>1, <1>2, <1>4, MaxCallsAssumption DEF EditOwnership, TypeOK, Edits
<1>8. Derivation'
  BY <1>1, <1>2, <1>4 DEF Derivation, InFlight, EditOwnership, TypeOK
<1>9. Durability'
  BY <1>1, <1>2, <1>4 DEF Durability, Projecting, TypeOK
<1>10. LoneProjection'
  BY <1>1, <1>2 DEF LoneProjection, Projecting, OthersProject, TypeOK
<1> QED
  BY <1>4, <1>5, <1>6, <1>7, <1>8, <1>9, <1>10

LEMMA ProjectInv ==
  ASSUME IInv, NEW p \in Procs, Project(p) \/ ProjectFails(p)
  PROVE  IInv'
<1> USE DEF IInv
<1>1. /\ pc[p] = "project"
      /\ \/ pc' = [pc EXCEPT ![p] = "mark"] /\ runJson' = at[p]
         \/ pc' = [pc EXCEPT ![p] = "fail"] /\ runJson' = runJson
      /\ UNCHANGED <<revision, payload, projection, at, want, edit, calls, history>>
      /\ DurableEdits' = DurableEdits
  BY SameRow DEF Project, ProjectFails, WriteRunJson, Goto, store
<1>2. TypeOK'
  BY <1>1 DEF TypeOK, Steps, history
<1>3. RowShape' /\ EditOwnership'
  BY <1>1 DEF RowShape, EditOwnership, history, TypeOK
<1>4. Derivation'
  BY <1>1 DEF Derivation, InFlight, history, TypeOK
<1>5. Durability'
  BY <1>1 DEF Durability, Projecting, history, TypeOK
<1>6. LoneProjection'
  BY <1>1 DEF LoneProjection, Projecting, history, TypeOK
<1> QED
  BY <1>2, <1>3, <1>4, <1>5, <1>6

\* A step that creates the row: nobody can be in flight or projecting.
LEMMA CreateInv ==
  ASSUME IInv, NEW p \in Procs, Register(p) \/ Adopt(p)
  PROVE  IInv'
<1> USE DEF IInv
<1>1. /\ revision = 0
      /\ revision' = 1
      /\ pc[p] \in {"idle", "adopt"}
      /\ \/ /\ pc' = [pc EXCEPT ![p] = "project"]
            /\ at' = [at EXCEPT ![p] = 1]
            /\ projection' = "pending"
            /\ overlap' = OthersProject(p)
            /\ orphan' = FALSE
         \/ /\ pc' = [pc EXCEPT ![p] = "idle"]
            /\ projection' = "not_requested"
            /\ UNCHANGED <<at, overlap, orphan>>
      /\ UNCHANGED <<runJson, want, edit, calls, acked, refused>>
  BY DEF Register, Adopt, Insert, InsertRow, Registered, EnterProjection, Goto, history
<1>2. PICK s \in RUN_STATES : payload' = NewPayload(s)
  BY DEF Register, Adopt, Insert, InsertRow, InitialStates, RUN_STATES
<1>3. /\ payload' \in Payloads
      /\ payload' # NoRun
      /\ payload'.edits = <<>>
  <2>1. NewPayload(s).edits = <<>> /\ <<>> \in Seq(1..MaxCalls)
    BY DEF NewPayload
  <2>2. NewPayload(s) \in Payloads
    BY <2>1 DEF NewPayload, Payloads, Edits
  <2> QED
    BY <1>2, <2>1, <2>2, NoRunAssumption DEF Payloads, Edits
<1>4. payload = NoRun /\ DurableEdits = {} /\ DurableEdits' = {}
  BY <1>1, <1>3 DEF RowShape, DurableEdits, EditsOf
<1>5. \A q \in Procs : ~InFlight(q) /\ ~Projecting(q)
  BY <1>1 DEF Derivation, Durability
<1>6. TypeOK'
  <2>1. overlap' \in BOOLEAN /\ orphan' \in BOOLEAN
    BY <1>1, Zenon DEF OthersProject, TypeOK
  <2>2. /\ pc' \in [Procs -> Steps]
        /\ at' \in [Procs -> Nat]
        /\ projection' \in ProjectionStates
    BY <1>1 DEF TypeOK, Steps, ProjectionStates
  <2> QED
    BY <1>1, <1>3, <2>1, <2>2 DEF TypeOK
<1>7. RowShape' /\ EditOwnership'
  BY <1>1, <1>3, <1>4 DEF RowShape, EditOwnership, TypeOK
<1>8. Derivation'
  BY <1>1, <1>5 DEF Derivation, InFlight, TypeOK
<1>9. Durability'
  BY <1>1, <1>4, <1>5 DEF Durability, Projecting, TypeOK, EditOwnership
<1>10. LoneProjection'
  BY <1>1, <1>5 DEF LoneProjection, Projecting, OthersProject, TypeOK
<1> QED
  BY <1>6, <1>7, <1>8, <1>9, <1>10

LEMMA NoEditInv ==
  ASSUME IInv, NEW p \in Procs,
         FindUnregistered(p) \/ AdoptRefused(p) \/ Repair(p)
  PROVE  IInv'
<1> USE DEF IInv
<1>1. /\ pc[p] \in {"idle", "adopt"}
      /\ \/ /\ pc' = [pc EXCEPT ![p] = "project"]
            /\ at' = [at EXCEPT ![p] = revision]
            /\ overlap' = (overlap \/ OthersProject(p))
            /\ revision # 0
         \/ /\ \/ pc' = [pc EXCEPT ![p] = "idle"]
               \/ pc' = [pc EXCEPT ![p] = "adopt"]
            /\ UNCHANGED <<at, overlap>>
      /\ UNCHANGED <<store, want, edit, calls, acked, refused, orphan>>
      /\ DurableEdits' = DurableEdits
  BY SameRow DEF FindUnregistered, AdoptRefused, Repair, Registered, Goto,
     history, store
<1>2. TypeOK'
  BY <1>1 DEF TypeOK, Steps, store, OthersProject
<1>3. RowShape' /\ EditOwnership'
  BY <1>1 DEF RowShape, EditOwnership, store, TypeOK
<1>4. Derivation'
  BY <1>1 DEF Derivation, InFlight, store, TypeOK
<1>5. Durability'
  BY <1>1 DEF Durability, Projecting, EditOwnership, store, TypeOK
<1>6. LoneProjection'
  <2> SUFFICES ASSUME ~overlap'
               PROVE  /\ \A q, r \in Procs :
                           Projecting(q)' /\ Projecting(r)' => q = r
                      /\ \A q \in Procs : Projecting(q)' => at'[q] = revision'
                      /\ \A q \in Procs : pc'[q] = "mark" => runJson' = revision'
                      /\ projection' = "current" => runJson' = revision'
    BY DEF LoneProjection
  <2>1. CASE /\ pc' = [pc EXCEPT ![p] = "project"]
             /\ at' = [at EXCEPT ![p] = revision]
             /\ overlap' = (overlap \/ OthersProject(p))
    <3>1. ~overlap /\ \A q \in Procs \ {p} : ~Projecting(q)
      BY <2>1, Zenon DEF OthersProject
    <3> QED
      BY <1>1, <2>1, <3>1 DEF LoneProjection, Projecting, store, TypeOK
  <2>2. CASE UNCHANGED <<at, overlap>> /\ pc' # [pc EXCEPT ![p] = "project"]
    <3>1. ~overlap
      BY <2>2, Zenon
    <3> QED
      BY <1>1, <2>2, <3>1 DEF LoneProjection, Projecting, store, TypeOK
  <2> QED
    BY <1>1, <2>1, <2>2 DEF TypeOK
<1> QED
  BY <1>2, <1>3, <1>4, <1>5, <1>6

LEMMA EndInv ==
  ASSUME IInv, NEW p \in Procs,
         \/ UpdateInvalid(p) \/ SaveConflict(p)
         \/ MarkCurrent(p) \/ MarkFailed(p) \/ Crash(p)
  PROVE  IInv'
<1> USE DEF IInv
<1>1. CASE UpdateInvalid(p) \/ SaveConflict(p)
  <2>1. InFlight(p) /\ Refuse(p)
    BY <1>1 DEF UpdateInvalid, SaveConflict, InFlight
  <2> QED
    BY <2>1, ReturnInv DEF Refuse, store, TypeOK, LoneProjection
<1>2. CASE MarkCurrent(p)
  <2>1. ~overlap => runJson = revision
    BY <1>2 DEF MarkCurrent, LoneProjection
  <2> QED
    BY <1>2, <2>1, ReturnInv
       DEF MarkCurrent, SetProjection, Acknowledge, Projecting, TypeOK,
           ProjectionStates
<1>3. CASE MarkFailed(p)
  BY <1>3, ReturnInv
     DEF MarkFailed, SetProjection, Acknowledge, Projecting, TypeOK,
         ProjectionStates
<1>4. CASE Crash(p)
  BY <1>4, ReturnInv DEF Crash, store, TypeOK, LoneProjection, Projecting
<1> QED
  BY <1>1, <1>2, <1>3, <1>4

LEMMA InitInv == Init => IInv
<1> SUFFICES ASSUME Init PROVE IInv
  OBVIOUS
<1>1. TypeOK
  <2>1. overlap \in BOOLEAN /\ orphan \in BOOLEAN
    BY Zenon DEF Init
  <2> QED
    BY <2>1, MaxCallsAssumption DEF Init, TypeOK, Steps, ProjectionStates
<1>2. RowShape /\ EditOwnership
  BY MaxCallsAssumption DEF Init, RowShape, EditOwnership, DurableEdits
<1>3. Derivation /\ Durability /\ LoneProjection
  BY DEF Init, Derivation, Durability, LoneProjection, InFlight, Projecting,
     DurableEdits
<1> QED
  BY <1>1, <1>2, <1>3 DEF IInv

LEMMA NextInv == IInv /\ [Next]_vars => IInv'
<1> SUFFICES ASSUME IInv, [Next]_vars PROVE IInv'
  OBVIOUS
<1>1. CASE UNCHANGED vars
  BY <1>1 DEF vars, store, callVars, history, IInv, TypeOK, RowShape,
     EditOwnership, Derivation, Durability, LoneProjection, InFlight,
     Projecting, DurableEdits, EditsOf, Permits
<1>2. CASE Next
  <2> PICK p \in Procs : Begin(p) \/ Continue(p) \/ Crash(p)
    BY <1>2 DEF Next
  <2>1. CASE Edit(p) \/ Interrupt(p) \/ Resume(p) \/ Close(p)
    BY <2>1, BeginStarts, StartInv DEF IInv
  <2>2. CASE Register(p) \/ Adopt(p)
    BY <2>2, CreateInv
  <2>3. CASE FindUnregistered(p) \/ AdoptRefused(p) \/ Repair(p)
    BY <2>3, NoEditInv
  <2>4. CASE Update(p)
    BY <2>4, UpdateInv
  <2>5. CASE SaveRun(p)
    BY <2>5, SaveInv
  <2>6. CASE Project(p) \/ ProjectFails(p)
    BY <2>6, ProjectInv
  <2>7. CASE \/ UpdateInvalid(p) \/ SaveConflict(p)
             \/ MarkCurrent(p) \/ MarkFailed(p) \/ Crash(p)
    BY <2>7, EndInv
  <2> QED
    BY <2>1, <2>2, <2>3, <2>4, <2>5, <2>6, <2>7 DEF Begin, Continue
<1> QED
  BY <1>1, <1>2

------------------------------------------------------------------------------
(* Theorems *)

\* IInv is an invariant.
THEOREM Inductive == Spec => []IInv
  BY InitInv, NextInv, PTL DEF Spec

\* The state keeps its shape: no step of any interleaving of calls, with crashes
\* between any two of them, leaves the types.
THEOREM TypeCorrect == Spec => []TypeOK
<1>1. IInv => TypeOK
  BY DEF IInv
<1> QED
  BY <1>1, Inductive, PTL

\* A call that learnt its edit is durable finds it in every later payload.
THEOREM AckedDurable == Spec => []AckedEditsAreDurable
<1>1. IInv => AckedEditsAreDurable
  BY DEF IInv, Durability, AckedEditsAreDurable
<1> QED
  BY <1>1, Inductive, PTL

\* A call that raised a conflict or an invalid transition left nothing behind.
THEOREM RefusedNoTrace == Spec => []RefusedEditsLeaveNoTrace
<1>1. IInv => RefusedEditsLeaveNoTrace
  BY DEF IInv, Durability, RefusedEditsLeaveNoTrace
<1> QED
  BY <1>1, Inductive, PTL

\* Without overlap, a projection called current holds the row's payload.
THEOREM ProjectionTrue == Spec => []ProjectionTruth
<1>1. IInv => ProjectionTruth
  BY DEF IInv, LoneProjection, ProjectionTruth
<1> QED
  BY <1>1, Inductive, PTL

------------------------------------------------------------------------------
(* The engine implements one atomic register. *)

\* The register that the row stands for.
RowValue == IF payload = NoRun THEN NoRun
            ELSE [status |-> payload.status, edits |-> payload.edits]

\* Creating the row creates the register.
LEMMA CreateRefines ==
  ASSUME IInv, IInv', NEW p \in Procs, Register(p) \/ Adopt(p)
  PROVE  RunRegisterOf!Create
<1>1. payload = NoRun
  BY DEF Register, Adopt, Insert, InsertRow, Registered, IInv, RowShape
<1>2. PICK s \in InitialStates : payload' = NewPayload(s)
  BY DEF Register, Adopt, Insert, InsertRow
<1>3. payload' # NoRun
  BY DEF Register, Adopt, Insert, InsertRow, IInv, RowShape
<1>4. /\ payload'.status = s
      /\ payload'.edits = <<>>
  BY <1>2 DEF NewPayload
<1> QED
  BY <1>1, <1>2, <1>3, <1>4
     DEF RunRegisterOf!Create, RunRegisterOf!InitialStates, InitialStates

\* The compare-and-swap is where the edit takes effect.
LEMMA SaveRefines ==
  ASSUME IInv, NEW p \in Procs, SaveRun(p)
  PROVE  \E e \in Edits, s \in RUN_STATES : RunRegisterOf!Apply(e, s)
<1> DEFINE e == edit[p]
           s == want[p].status
<1>1. /\ pc[p] = "save"
      /\ at[p] = revision
      /\ payload' = want[p]
      /\ payload # NoRun
  BY DEF SaveRun, Save, CompareAndSwap, Registered, IInv, RowShape
<1>2. /\ want[p] \in Payloads
      /\ e \in Edits
      /\ e \notin DurableEdits
      /\ want[p].edits = Append(payload.edits, e)
      /\ Permits(payload.status, s)
  BY <1>1, MaxCallsAssumption
     DEF IInv, TypeOK, Derivation, InFlight, Edits
<1>3. payload' # NoRun /\ s \in RUN_STATES
  BY <1>1, <1>2, NoRunAssumption DEF Payloads, Edits
<1>4. [status |-> payload.status, edits |-> payload.edits] # NoRun
  BY <1>1, NoValueAssumption DEF IInv, RowShape, Payloads, Edits
<1>5. e \notin {payload.edits[i] : i \in DOMAIN payload.edits}
  BY <1>1, <1>2 DEF DurableEdits, EditsOf
<1>6. RunRegisterOf!Apply(e, s)
  BY <1>1, <1>2, <1>3, <1>4, <1>5
     DEF RunRegisterOf!Apply, RunRegisterOf!EditsOf, RunRegisterOf!Permits,
         RunRegisterOf!ALLOWED_TRANSITIONS, Permits, ALLOWED_TRANSITIONS,
         RunRegisterOf!RUN_STATES, RUN_STATES
<1> QED
  BY <1>2, <1>3, <1>6

\* All other steps leave the row alone.
LEMMA OthersStutter ==
  ASSUME NEW p \in Procs,
         Begin(p) \/ Continue(p) \/ Crash(p),
         ~Register(p), ~Adopt(p), ~SaveRun(p)
  PROVE  UNCHANGED payload
BY DEF Begin, Continue, FindUnregistered, Repair, Edit, Interrupt, Resume,
       Close, Start, AdoptRefused, Update, UpdateInvalid, SaveConflict, Refuse,
       Project, WriteRunJson, ProjectFails, MarkCurrent, MarkFailed,
       SetProjection, Crash, store

\* The processes of the engine, however they interleave and wherever they die,
\* behave as one atomic register: no update is lost or applied twice, and each
\* status the run takes is permitted by the status it replaces.
THEOREM AtomicRegister == Spec => IsAtomicRegister
<1>1. Init => RunRegisterOf!Init
  BY DEF Init, RunRegisterOf!Init
<1>2. IInv /\ IInv' /\ [Next]_vars
        => [RunRegisterOf!Next]_RowValue
  <2> SUFFICES ASSUME IInv, IInv', [Next]_vars
               PROVE  RunRegisterOf!Next \/ UNCHANGED RowValue
    OBVIOUS
  <2>1. CASE UNCHANGED vars
    BY <2>1 DEF vars, store, RowValue
  <2>2. CASE Next
    <3> PICK p \in Procs : Begin(p) \/ Continue(p) \/ Crash(p)
      BY <2>2 DEF Next
    <3>1. CASE Register(p) \/ Adopt(p)
      BY <3>1, CreateRefines DEF RunRegisterOf!Next
    <3>2. CASE SaveRun(p)
      BY <3>2, SaveRefines DEF RunRegisterOf!Next, RunRegisterOf!RUN_STATES,
         RUN_STATES
    <3>3. CASE ~Register(p) /\ ~Adopt(p) /\ ~SaveRun(p)
      BY <3>3, OthersStutter DEF RowValue
    <3> QED
      BY <3>1, <3>2, <3>3
  <2> QED
    BY <2>1, <2>2
<1> QED
  BY <1>1, <1>2, Inductive, PTL
     DEF Spec, IsAtomicRegister, RunRegisterOf!Spec, RowValue
==============================================================================
