--------------------------- MODULE HermesTasksProofs ---------------------------
(****************************************************************************)
(* Proofs about HermesTasks for any number of tasks, callback files,        *)
(* sessions and commands.                                                   *)
(*                                                                          *)
(* The invariant has three layers, each inductive given the ones before it: *)
(* what a command knows where it is, the order of messages, and what has    *)
(* been made known of a task's answers while nothing disturbed it.          *)
(****************************************************************************)
EXTENDS HermesTasks, TLAPS

------------------------------------------------------------------------------
(* The first layer: where a command is, it has done what comes before. *)

SendPlaces == {"send", "insert", "envelope"}
CreatePlaces == SendPlaces \cup {"write_task", "write_state"}
Lookups == {"find", "load_queued", "load_archived", "check"}
Refusals == {"quarantine", "quarantine_state"}
ReportPlaces == {"report", "render", "name_file"}
Archived == {"archive_callback", "move_callback", "settle"}
AfterSend == {"archive", "move_task"} \cup Archived
CollectPlaces == Lookups \cup Refusals \cup ReportPlaces \cup SendPlaces \cup AfterSend

Calls ==
  [op : {"idle", "create", "collect"}, task : Tasks \cup {None},
   callback : Callbacks \cup {None}, at : CreatePlaces \cup CollectPlaces \cup {"start"},
   sequence : Nat, after : Nat, made : ReportIds \cup Nat \cup {None}]
Abouts == ({"intent"} \X Tasks) \cup ({"final_report"} \X Callbacks)
MessageRows == [session : Sessions, about : Abouts, sequence : Nat, after : Nat]

Types ==
  /\ reports \in [ReportIds -> ReportRows \cup {NoReport}]
  /\ messages \in Seq(MessageRows)
  /\ tasks \in [Tasks -> Packets \cup {None}]
  /\ queue \subseteq Tasks /\ archive \subseteq Tasks
  /\ taskState \in [Tasks -> TaskStates]
  /\ answers \in [Callbacks -> Answers \cup {None}] /\ inbox \subseteq Callbacks
  /\ call \in [Procs -> Calls]

Sent(c) == \E i \in SentAbout(ReportOf(c)) : i \in envelopes
Made(t, c) == answers[c].report => \E r \in ReportIds : r[1] = t /\ Reported(r) /\ ArtifactExists(r)
Answered(t, c) == c \in Callbacks /\ answers[c] # None /\ answers[c].task = t
Whole(t, c) == Answered(t, c) /\ Sent(c) /\ Made(t, c) /\ t \in archive \ queue

Fits(x) ==
  /\ x.op # "idle" => x.task \in Tasks /\ tasks[x.task] # None
  /\ x.op = "create" => x.at \in CreatePlaces
  /\ x.op = "create" /\ x.at = "envelope" => x.made \in DOMAIN messages
  /\ x.op = "collect" =>
       /\ x.at \in CollectPlaces /\ Answered(x.task, x.callback)
       /\ x.at \in ReportPlaces => answers[x.callback].report
       /\ x.at \in {"render", "name_file"} =>
            x.made \in ReportIds /\ x.made[1] = x.task /\ Reported(x.made)
       /\ x.at = "name_file" => <<x.made, "inbox">> \in files
       /\ x.at \in SendPlaces \cup AfterSend => Made(x.task, x.callback)
       /\ x.at = "envelope" =>
            x.made \in DOMAIN messages /\ messages[x.made].about = ReportOf(x.callback)
       /\ x.at \in AfterSend => Sent(x.callback)
       /\ x.at \in Archived => x.task \in archive \ queue

\* Tasks with a file were created, answers are to tasks with a file.
FilesSound ==
  /\ \A t \in queue \cup archive : tasks[t] # None
  /\ queue \cap archive = {}
  /\ \A c \in Callbacks : answers[c] # None => answers[c].task \in queue \cup archive
  /\ \A c \in inbox : answers[c] # None
  /\ \A i \in DOMAIN messages, c \in Callbacks :
       messages[i].about = ReportOf(c) => answers[c] # None

\* Only one command creates a task, whose file is not there before.
CreatorsSound ==
  \A p \in Procs : Creating(p) =>
    /\ call[p].at # "write_state" => call[p].task \notin queue \cup archive
    /\ \A q \in Procs : Creating(q) /\ call[q].task = call[p].task => q = p

StatesSound ==
  \A t \in Tasks : taskState[t].callback # None => Whole(t, taskState[t].callback)

\* MAX(sequence) exists.
Numbers(s) == {0} \cup {m.sequence : m \in {n \in Range(messages) : n.session = s}}
NumbersSound == \A s \in Sessions : \E n \in Numbers(s) : \A k \in Numbers(s) : k <= n

Basic ==
  /\ Types /\ FilesSound /\ CreatorsSound /\ StatesSound /\ NumbersSound
  /\ \A p \in Procs : Fits(call[p])

------------------------------------------------------------------------------
(* The second layer: the order of messages. *)

\* The INSERT that is due follows what the SELECT saw.
Follows(x) ==
  x.op # "idle" /\ x.at = "insert" =>
    /\ x.after <= Len(messages)
    /\ \A i \in 1..x.after :
         messages[i].session = tasks[x.task].session => messages[i].sequence < x.sequence

Ordered ==
  /\ \A i \in DOMAIN messages : messages[i].after < i
  /\ \A p \in Procs : Follows(call[p])
  /\ SequencesFollow

------------------------------------------------------------------------------
(* The third layer: what is known of a task's answers. *)

MessagesOf(t) ==
  {i \in DOMAIN messages : \E c \in Callbacks : Answered(t, c) /\ messages[i].about = ReportOf(c)}
ReportsOf(t) == {r \in ReportIds : r[1] = t /\ Reported(r)}
AtMostOne(S) == \A x, y \in S : x = y
Works(p, t) == Busy(p) /\ call[p].task = t

Unnamed(t) == taskState[t].callback = None
Unmade(t) == MessagesOf(t) = {} /\ ReportsOf(t) = {}

\* What a command on a task knows when it is the only one.
Knows(x, t) ==
  /\ x.op = "create" \/ x.at \in Refusals \cup {"report"} => Unnamed(t) /\ Unmade(t)
  /\ x.op = "collect" /\ x.at \in Lookups /\ Unnamed(t) => Unmade(t)
  /\ x.at = "load_queued" => t \in queue
  /\ x.at = "load_archived" => t \in archive
  /\ x.at \in {"render", "name_file"} => MessagesOf(t) = {} /\ ReportsOf(t) \subseteq {x.made}
  /\ x.op = "collect" /\ x.at \in {"send", "insert"} => MessagesOf(t) = {}

Undisturbed(t) ==
  /\ AtMostOne(MessagesOf(t)) /\ AtMostOne(ReportsOf(t))
  /\ \A p, q \in Procs : Works(p, t) /\ Works(q, t) => p = q
  /\ \A p \in Procs : Works(p, t) => Knows(call[p], t)
  /\ (\A p \in Procs : ~Works(p, t)) /\ Unnamed(t) => Unmade(t)

Once == \A t \in Tasks \ disturbed : Undisturbed(t)

------------------------------------------------------------------------------
(* What one step leaves the other commands *)

\* What was created, said, sent or written stays; a report keeps its file; a task file
\* that was archived stays in the archive.
Moves ==
  /\ \A t \in Tasks : tasks[t] # None => tasks'[t] = tasks[t]
  /\ \A c \in Callbacks : answers[c] # None => answers'[c] = answers[c]
  /\ \A i \in DOMAIN messages : i \in DOMAIN messages' /\ messages'[i] = messages[i]
  /\ envelopes \subseteq envelopes' /\ files \subseteq files'
  /\ \A r \in ReportIds : Reported(r) =>
       Reported(r)' /\ (ArtifactExists(r) => ArtifactExists(r)')
  /\ archive \ queue \subseteq archive' \ queue'

LEMMA Facts ==
  ASSUME Basic
  PROVE  /\ Types /\ FilesSound /\ CreatorsSound /\ StatesSound /\ NumbersSound
         /\ call \in [Procs -> Calls]
         /\ \A p \in Procs : call[p] \in Calls /\ Fits(call[p])
BY DEF Basic, Types

LEMMA SentKept ==
  ASSUME Moves, NEW c, Sent(c)
  PROVE  Sent(c)'
BY DEF Moves, Sent, SentAbout

LEMMA MadeKept ==
  ASSUME Moves, NEW t, NEW c, Answered(t, c), Made(t, c)
  PROVE  Answered(t, c)' /\ Made(t, c)'
<1>1. answers'[c] = answers[c] /\ c \in Callbacks
  BY DEF Moves, Answered
<1>2. Answered(t, c)'
  BY <1>1 DEF Answered
<1>3. Made(t, c)'
  <2> SUFFICES ASSUME answers[c].report
               PROVE  (\E r \in ReportIds : r[1] = t /\ Reported(r) /\ ArtifactExists(r))'
    BY <1>1 DEF Made
  <2>1. PICK r \in ReportIds : r[1] = t /\ Reported(r) /\ ArtifactExists(r)
    BY DEF Made
  <2>2. Reported(r)' /\ ArtifactExists(r)'
    BY <2>1 DEF Moves
  <2> QED
    BY <2>1, <2>2
<1> QED
  BY <1>2, <1>3

LEMMA WholeKept ==
  ASSUME Moves, NEW t, NEW c, Whole(t, c)
  PROVE  Whole(t, c)'
BY SentKept, MadeKept DEF Whole, Moves

LEMMA AnsweredKept ==
  ASSUME Moves, NEW t, NEW c, Answered(t, c)
  PROVE  Answered(t, c)' /\ answers'[c] = answers[c]
BY DEF Moves, Answered

LEMMA FitsKept ==
  ASSUME Moves, NEW x, Fits(x)
  PROVE  Fits(x)'
<1>1. x.op # "idle" => x.task \in Tasks /\ tasks'[x.task] # None
  BY DEF Fits, Moves
<1>2. x.op = "create" => /\ x.at \in CreatePlaces
                         /\ x.at = "envelope" => x.made \in DOMAIN messages'
  BY DEF Fits, Moves
<1>3. ASSUME x.op = "collect"
      PROVE  /\ x.at \in CollectPlaces /\ Answered(x.task, x.callback)'
             /\ answers'[x.callback] = answers[x.callback]
             /\ x.at \in ReportPlaces => answers'[x.callback].report
             /\ x.at \in {"render", "name_file"} =>
                  x.made \in ReportIds /\ x.made[1] = x.task /\ Reported(x.made)'
             /\ x.at = "name_file" => <<x.made, "inbox">> \in files'
  BY <1>3, AnsweredKept DEF Fits, Moves
<1>4. ASSUME x.op = "collect", x.at \in SendPlaces \cup AfterSend
      PROVE  Made(x.task, x.callback)'
  BY <1>4, MadeKept DEF Fits
<1>5. ASSUME x.op = "collect", x.at = "envelope"
      PROVE  x.made \in DOMAIN messages' /\ messages'[x.made].about = ReportOf(x.callback)
  BY <1>5 DEF Fits, Moves
<1>6. ASSUME x.op = "collect", x.at \in AfterSend
      PROVE  Sent(x.callback)'
  BY <1>6, SentKept DEF Fits
<1>7. ASSUME x.op = "collect", x.at \in Archived
      PROVE  x.task \in archive' \ queue'
  BY <1>7 DEF Fits, Moves
<1> QED
  BY <1>1, <1>2, <1>3, <1>4, <1>5, <1>6, <1>7 DEF Fits

\* What is known of a command after a step is known of what it is doing then.
LEMMA FitsNext ==
  ASSUME NEW p \in Procs, NEW y, call'[p] = y, Fits(y)'
  PROVE  Fits(call[p])'
BY DEF Fits, Answered, Sent, SentAbout, Made, Reported, ArtifactExists

LEMMA OthersFit ==
  ASSUME Basic, Moves, NEW p \in Procs, call'[p] = call[p]
  PROVE  Fits(call[p])'
<1>1. PICK x : x = call[p] /\ Fits(x)
  BY Facts
<1> QED
  BY <1>1, FitsKept, FitsNext

LEMMA StatesKept ==
  ASSUME Basic, Moves,
         \A t \in Tasks : taskState'[t].callback \in {taskState[t].callback, None}
  PROVE  StatesSound'
<1> SUFFICES ASSUME NEW t \in Tasks, taskState'[t].callback # None
             PROVE  Whole(t, taskState[t].callback)'
  BY DEF StatesSound
<1>1. PICK c : c = taskState[t].callback /\ taskState'[t].callback = c
  OBVIOUS
<1>2. Whole(t, c)
  BY <1>1, Facts DEF StatesSound
<1>3. Whole(t, c)'
  BY <1>2, WholeKept
<1> QED
  BY <1>1, <1>3 DEF Whole, Answered, Sent, SentAbout, Made

\* A command that creates a task still does, and its file is not forgotten.
Advances(x, y) ==
  y.op = "create" =>
    /\ x.op = "create" /\ y.task = x.task
    /\ y.at # "write_state" => x.at # "write_state"

LEMMA CreatorsKept ==
  ASSUME Basic, NEW p \in Procs, NEW y \in Calls, call' = [call EXCEPT ![p] = y],
         queue' \cup archive' = queue \cup archive, Advances(call[p], y)
  PROVE  CreatorsSound'
<1>1. \A q \in Procs : call'[q] = IF q = p THEN y ELSE call[q]
  BY Facts
<1>2. ASSUME NEW q \in Procs, call'[q].op = "create"
      PROVE  /\ call[q].op = "create" /\ call'[q].task = call[q].task
             /\ call'[q].at # "write_state" => call[q].at # "write_state"
  BY <1>1, <1>2 DEF Advances
<1>3. \A q \in Procs : call[q].op = "create" =>
        /\ call[q].at # "write_state" => call[q].task \notin queue \cup archive
        /\ \A r \in Procs : call[r].op = "create" /\ call[r].task = call[q].task => r = q
  BY Facts DEF CreatorsSound, Creating
<1>4. \A q \in Procs : call'[q].op = "create" =>
        /\ call'[q].at # "write_state" => call'[q].task \notin queue' \cup archive'
        /\ \A r \in Procs : call'[r].op = "create" /\ call'[r].task = call'[q].task => r = q
  BY <1>2, <1>3
<1> QED
  BY <1>4 DEF CreatorsSound, Creating

LEMMA NumbersKept ==
  ASSUME Basic, messages' = messages
  PROVE  NumbersSound'
BY Facts DEF NumbersSound, Numbers

\* The step of one command.
LEMMA StepOf ==
  ASSUME Basic, Types', FilesSound', CreatorsSound', StatesSound', NumbersSound', Moves,
         NEW p \in Procs, NEW y \in Calls, call' = [call EXCEPT ![p] = y], Fits(y)'
  PROVE  Basic'
<1>1. ASSUME NEW q \in Procs
      PROVE  Fits(call[q])'
  <2>1. CASE q = p
    <3>1. call'[p] = y
      BY Facts
    <3>2. Fits(call[p])'
      BY <3>1, FitsNext
    <3> QED
      BY <2>1, <3>2
  <2>2. CASE q # p
    BY <2>2, Facts, OthersFit
  <2> QED
    BY <2>1, <2>2
<1> QED
  BY <1>1 DEF Basic

\* The step of none.
LEMMA StepOfNone ==
  ASSUME Basic, Types', FilesSound', StatesSound', NumbersSound', Moves,
         UNCHANGED <<call, queue, archive>>
  PROVE  Basic'
<1>1. \A q \in Procs : Fits(call[q])'
  BY OthersFit
<1>2. CreatorsSound'
  BY Facts DEF CreatorsSound, Creating
<1> QED
  BY <1>1, <1>2 DEF Basic

\* A step that changes nothing but what its command is doing.
LEMMA QuietStep ==
  ASSUME Basic, UNCHANGED <<mailbox, transport, packets, callbackFiles>>,
         NEW p \in Procs, NEW y \in Calls, call' = [call EXCEPT ![p] = y],
         Fits(y), Advances(call[p], y)
  PROVE  Basic'
<1>1. UNCHANGED <<reports, files, sessions, messages, envelopes, tasks, queue, archive,
                  taskState, answers, inbox, filed, quarantine>>
  BY DEF mailbox, transport, packets, callbackFiles
<1>2. Moves
  BY <1>1 DEF Moves, Reported, ArtifactExists
<1>3. call' \in [Procs -> Calls]
  BY Facts
<1>4. Types' /\ FilesSound' /\ NumbersSound'
  BY <1>1, <1>3, Facts, NumbersKept DEF Types, FilesSound
<1>5. StatesSound'
  BY <1>1, <1>2, StatesKept
<1>6. CreatorsSound'
  BY <1>1, CreatorsKept
<1>7. Fits(y)'
  BY <1>2, FitsKept
<1> QED
  BY <1>2, <1>4, <1>5, <1>6, <1>7, StepOf

LEMMA IdleFits ==
  /\ Idle \in Calls /\ Fits(Idle) /\ Fits(Idle)' /\ Idle.op = "idle"
  /\ \A x : Advances(x, Idle)
BY DEF Idle, Calls, Fits, Advances

Everywhere == CreatePlaces \cup CollectPlaces \cup {"start"}

\* A command that goes on to another place.
Going(x, place) == [x EXCEPT !.at = place]

LEMMA GoingCall ==
  ASSUME NEW x \in Calls, NEW place \in Everywhere
  PROVE  /\ Going(x, place) \in Calls
         /\ Going(x, place).at = place /\ Going(x, place).op = x.op
         /\ Going(x, place).task = x.task /\ Going(x, place).callback = x.callback
         /\ Going(x, place).made = x.made /\ Going(x, place).sequence = x.sequence
         /\ Going(x, place).after = x.after
BY DEF Going, Calls, Everywhere

LEMMA GoGoing ==
  ASSUME Basic, NEW p \in Procs, NEW place, Go(p, place)
  PROVE  call' = [call EXCEPT ![p] = Going(call[p], place)]
BY Facts DEF Go, Going

\* What a busy command is.
LEMMA BusyFacts ==
  ASSUME Basic, NEW p \in Procs, Busy(p)
  PROVE  /\ call[p] \in Calls /\ Fits(call[p])
         /\ call[p].task \in Tasks /\ tasks[call[p].task] \in Packets
         /\ call[p].op \in {"create", "collect"}
         /\ call[p].op = "create" <=> call[p].op # "collect"
         /\ call[p].op = "create" => call[p].at \in CreatePlaces
         /\ call[p].op = "collect" =>
              /\ call[p].at \in CollectPlaces /\ call[p].callback \in Callbacks
              /\ answers[call[p].callback] \in Answers
              /\ answers[call[p].callback].task = call[p].task
              /\ call[p].task \in queue \cup archive
<1>1. call[p] \in Calls /\ Fits(call[p]) /\ call[p].op # "idle" /\ Types /\ FilesSound
  BY Facts DEF Busy
<1> QED
  BY <1>1 DEF Calls, Fits, Answered, Types, FilesSound

------------------------------------------------------------------------------
(* Steps that change nothing but what their command is doing *)

LEMMA EndsQuietly ==
  ASSUME Basic, NEW p \in Procs, End(p), UNCHANGED <<mailbox, transport, packets, callbackFiles>>
  PROVE  Basic'
BY IdleFits, QuietStep DEF End

LEMMA GoesQuietly ==
  ASSUME Basic, NEW p \in Procs, NEW place \in Everywhere, Collecting(p), Go(p, place),
         UNCHANGED <<mailbox, transport, packets, callbackFiles>>,
         Fits(Going(call[p], place))
  PROVE  Basic'
<1>1. call' = [call EXCEPT ![p] = Going(call[p], place)]
  BY GoGoing
<1>2. /\ Going(call[p], place) \in Calls /\ Going(call[p], place).op = "collect"
  BY Facts, GoingCall DEF Collecting
<1>3. Advances(call[p], Going(call[p], place))
  BY <1>2 DEF Advances
<1> HIDE DEF Going
<1> QED
  BY <1>1, <1>2, <1>3, QuietStep

\* On the way to a place that asks nothing new.
LEMMA FitsGoing ==
  ASSUME Basic, NEW p \in Procs, Collecting(p), NEW place \in Lookups \cup Refusals
  PROVE  Fits(Going(call[p], place)) /\ place \in Everywhere
<1> DEFINE y == Going(call[p], place)
<1>1. place \in Everywhere /\ place \in CollectPlaces
  BY DEF Everywhere, CollectPlaces
<1>2. Fits(call[p]) /\ call[p].op = "collect"
  BY Facts DEF Collecting
<1>3. /\ y.at = place /\ y.op = "collect" /\ y.task = call[p].task
      /\ y.callback = call[p].callback
  BY <1>1, <1>2, Facts, GoingCall
<1> HIDE DEF y
<1>4. place \notin ReportPlaces \cup SendPlaces \cup AfterSend \cup Archived
  BY DEF Lookups, Refusals, ReportPlaces, SendPlaces, AfterSend, Archived
<1>5. place \notin {"render", "name_file", "envelope"}
  BY DEF Lookups, Refusals
<1>6. Fits(y)
  BY <1>1, <1>2, <1>3, <1>4, <1>5 DEF Fits
<1> QED
  BY <1>1, <1>6 DEF y

LEMMA AtCollects ==
  ASSUME Basic, NEW p \in Procs, NEW place, At(p, place), place \notin CreatePlaces
  PROVE  Collecting(p) /\ Busy(p) /\ call[p].at = place
BY BusyFacts DEF At, Collecting

LEMMA FindTaskBasic ==
  ASSUME Basic, NEW p \in Procs, FindTask(p)
  PROVE  Basic'
<1>1. Collecting(p)
  BY AtCollects DEF FindTask, CreatePlaces, SendPlaces
<1>2. PICK place \in Lookups : Go(p, place)
  BY DEF FindTask, Lookups
<1> QED
  BY <1>1, <1>2, FitsGoing, GoesQuietly DEF FindTask

LEMMA LoadTaskBasic ==
  ASSUME Basic, NEW p \in Procs, LoadTask(p)
  PROVE  Basic'
<1>1. Collecting(p)
  BY AtCollects DEF LoadTask, CreatePlaces, SendPlaces
<1>2. PICK place \in Lookups \cup Refusals : Go(p, place)
  BY DEF LoadTask, Lookups, Refusals
<1> QED
  BY <1>1, <1>2, FitsGoing, GoesQuietly DEF LoadTask

LEMMA ValidateBasic ==
  ASSUME Basic, NEW p \in Procs, Validate(p)
  PROVE  Basic'
<1>1. Collecting(p) /\ Busy(p)
  BY AtCollects DEF Validate, CreatePlaces, SendPlaces
<1>2. UNCHANGED <<mailbox, transport, packets, callbackFiles>>
  BY DEF Validate
<1>3. \/ Go(p, "quarantine") \/ End(p)
      \/ Go(p, "report") /\ Answer(p).report
      \/ Go(p, "send") /\ ~Answer(p).report
  <2>1. CASE Answer(p).fault = "route"
    BY <2>1 DEF Validate
  <2>2. CASE Answer(p).fault = "operations"
    BY <2>2 DEF Validate
  <2>3. CASE Answer(p).fault \notin {"route", "operations"}
    BY <2>3 DEF Validate, Go
  <2> QED
    BY <2>1, <2>2, <2>3
<1>4. CASE Go(p, "quarantine")
  BY <1>1, <1>2, <1>4, FitsGoing, GoesQuietly DEF Refusals
<1>5. CASE End(p)
  BY <1>2, <1>5, EndsQuietly
<1>6. CASE Go(p, "report") /\ Answer(p).report
  <2> DEFINE y == Going(call[p], "report")
  <2>1. "report" \in Everywhere
    BY DEF Everywhere, CollectPlaces, ReportPlaces
  <2>2. /\ y.at = "report" /\ y.op = "collect" /\ y.task = call[p].task
        /\ y.callback = call[p].callback
    BY <1>1, <2>1, Facts, GoingCall DEF Collecting
  <2> HIDE DEF y
  <2>3. Fits(call[p]) /\ call[p].op = "collect" /\ answers[call[p].callback].report
    BY <1>1, <1>6, Facts DEF Collecting, Answer
  <2>4. "report" \in CollectPlaces /\ "report" \notin SendPlaces \cup AfterSend \cup Archived
    BY DEF CollectPlaces, ReportPlaces, SendPlaces, AfterSend, Archived
  <2>5. Fits(y)
    BY <2>2, <2>3, <2>4 DEF Fits
  <2> QED
    BY <1>1, <1>2, <1>6, <2>1, <2>5, GoesQuietly DEF y
<1>7. CASE Go(p, "send") /\ ~Answer(p).report
  <2> DEFINE y == Going(call[p], "send")
  <2>1. "send" \in Everywhere
    BY DEF Everywhere, CollectPlaces, SendPlaces
  <2>2. /\ y.at = "send" /\ y.op = "collect" /\ y.task = call[p].task
        /\ y.callback = call[p].callback
    BY <1>1, <2>1, Facts, GoingCall DEF Collecting
  <2> HIDE DEF y
  <2>3. /\ Fits(call[p]) /\ call[p].op = "collect" /\ Made(call[p].task, call[p].callback)
    BY <1>1, <1>7, Facts DEF Collecting, Answer, Made
  <2>4. "send" \in CollectPlaces /\ "send" \notin ReportPlaces \cup AfterSend \cup Archived
    BY DEF CollectPlaces, ReportPlaces, SendPlaces, AfterSend, Archived
  <2>5. Fits(y)
    BY <2>2, <2>3, <2>4 DEF Fits
  <2> QED
    BY <1>1, <1>2, <1>7, <2>1, <2>5, GoesQuietly DEF y
<1> QED
  BY <1>3, <1>4, <1>5, <1>6, <1>7

\* On the way to a place after the message was sent.
LEMMA FitsAfter ==
  ASSUME Basic, NEW p \in Procs, Collecting(p), Busy(p), NEW place \in AfterSend,
         Made(call[p].task, call[p].callback), Sent(call[p].callback),
         place \in Archived => call[p].task \in archive \ queue
  PROVE  Fits(Going(call[p], place)) /\ place \in Everywhere
<1> DEFINE y == Going(call[p], place)
<1>1. place \in Everywhere /\ place \in CollectPlaces
  BY DEF Everywhere, CollectPlaces
<1>2. Fits(call[p]) /\ call[p].op = "collect"
  BY Facts DEF Collecting
<1>3. /\ y.at = place /\ y.op = "collect" /\ y.task = call[p].task
      /\ y.callback = call[p].callback
  BY <1>1, <1>2, Facts, GoingCall
<1> HIDE DEF y
<1>4. place \notin ReportPlaces \cup {"render", "name_file", "envelope"}
  BY DEF AfterSend, Archived, ReportPlaces
<1>5. Fits(y)
  BY <1>1, <1>2, <1>3, <1>4 DEF Fits
<1> QED
  BY <1>1, <1>5 DEF y

LEMMA AfterFacts ==
  ASSUME Basic, NEW p \in Procs, Collecting(p), call[p].at \in AfterSend
  PROVE  /\ Made(call[p].task, call[p].callback) /\ Sent(call[p].callback)
         /\ Answered(call[p].task, call[p].callback)
         /\ call[p].at \in Archived => call[p].task \in archive \ queue
BY Facts DEF Fits, Collecting

LEMMA FindTaskFileBasic ==
  ASSUME Basic, NEW p \in Procs, FindTaskFile(p)
  PROVE  Basic'
<1>1. Collecting(p) /\ Busy(p) /\ call[p].at = "archive"
  BY AtCollects DEF FindTaskFile, CreatePlaces, SendPlaces
<1>2. UNCHANGED <<mailbox, transport, packets, callbackFiles>>
  BY DEF FindTaskFile
<1>3. PICK place \in {"move_task", "archive_callback"} :
        Go(p, place) /\ (place = "archive_callback" => call[p].task \notin queue)
  BY DEF FindTaskFile
<1>4. /\ place \in AfterSend /\ call[p].at \in AfterSend
      /\ place \in Archived => call[p].task \in archive \ queue
  BY <1>1, <1>3, BusyFacts DEF AfterSend, Archived, Collecting
<1>5. Fits(Going(call[p], place)) /\ place \in Everywhere
  BY <1>1, <1>4, AfterFacts, FitsAfter
<1> QED
  BY <1>1, <1>2, <1>3, <1>5, GoesQuietly

LEMMA FindCallbackBasic ==
  ASSUME Basic, NEW p \in Procs, FindCallback(p)
  PROVE  Basic'
<1>1. Collecting(p) /\ Busy(p) /\ call[p].at = "archive_callback"
  BY AtCollects DEF FindCallback, CreatePlaces, SendPlaces
<1>2. UNCHANGED <<mailbox, transport, packets, callbackFiles>>
  BY DEF FindCallback
<1>3. PICK place \in {"move_callback", "settle"} : Go(p, place)
  BY DEF FindCallback
<1>4. place \in AfterSend /\ call[p].at \in AfterSend /\ call[p].at \in Archived
  BY <1>1 DEF AfterSend, Archived
<1>5. Fits(Going(call[p], place)) /\ place \in Everywhere
  BY <1>1, <1>4, AfterFacts, FitsAfter
<1> QED
  BY <1>1, <1>2, <1>3, <1>5, GoesQuietly

\* MAX(sequence) is no less than any sequence of the session.
LEMMA LastIsMax ==
  ASSUME Basic, NEW s \in Sessions
  PROVE  /\ LastSequence(s) \in Nat
         /\ \A i \in DOMAIN messages :
              messages[i].session = s => messages[i].sequence <= LastSequence(s)
<1>1. messages \in Seq(MessageRows)
  BY Facts DEF Types
<1>2. \A i \in DOMAIN messages : messages[i] \in MessageRows /\ messages[i] \in Range(messages)
  BY <1>1 DEF Range
<1>3. \A m \in Range(messages) : m \in MessageRows
  BY <1>2 DEF Range
<1>4. Numbers(s) \subseteq Nat
  BY <1>3 DEF Numbers, MessageRows
<1>5. PICK n \in Numbers(s) : \A k \in Numbers(s) : k <= n
  BY Facts DEF NumbersSound
<1>6. \A k \in Numbers(s) : n >= k
  BY <1>4, <1>5
<1>7. LastSequence(s) = Max(Numbers(s))
  BY DEF LastSequence, Numbers
<1>8. LastSequence(s) \in Numbers(s) /\ \A k \in Numbers(s) : LastSequence(s) >= k
  BY <1>6, <1>7 DEF Max
<1>9. \A i \in DOMAIN messages : messages[i].session = s => messages[i].sequence \in Numbers(s)
  BY <1>2 DEF Numbers
<1> QED
  BY <1>4, <1>8, <1>9

LEMMA ReadSequenceBasic ==
  ASSUME Basic, NEW p \in Procs, ReadSequence(p)
  PROVE  Basic'
<1>1. Busy(p) /\ call[p].at = "send" /\ UNCHANGED <<mailbox, transport, packets, callbackFiles>>
  BY DEF ReadSequence, At
<1> DEFINE last == LastSequence(SessionOf(p)) + 1
           y == [call[p] EXCEPT !.at = "insert", !.sequence = last, !.after = Len(messages)]
<1>2. SessionOf(p) \in Sessions
  BY <1>1, BusyFacts DEF SessionOf, Packets
<1>3. last \in Nat
  BY <1>2, LastIsMax
<1>4. Len(messages) \in Nat
  BY Facts DEF Types
<1>5. call' = [call EXCEPT ![p] = y]
  BY DEF ReadSequence, NextSequence
<1> HIDE DEF last
<1>6. /\ y \in Calls /\ y.at = "insert" /\ y.op = call[p].op /\ y.task = call[p].task
      /\ y.callback = call[p].callback /\ y.made = call[p].made
  BY <1>3, <1>4, Facts DEF Calls, CreatePlaces, SendPlaces
<1> HIDE DEF y
<1>7. Advances(call[p], y)
  BY <1>1, <1>6 DEF Advances
<1>8. Fits(y)
  BY <1>1, <1>6, BusyFacts
     DEF Fits, CreatePlaces, CollectPlaces, SendPlaces, AfterSend, Archived, ReportPlaces
<1> QED
  BY <1>1, <1>5, <1>6, <1>7, <1>8, QuietStep

------------------------------------------------------------------------------
(* Steps of one command that change more *)

\* What is owed when messages, sessions and the files of tasks and answers stay.
LEMMA WritingStep ==
  ASSUME Basic, Moves, UNCHANGED <<messages, tasks, queue, archive, answers>>,
         reports' \in [ReportIds -> ReportRows \cup {NoReport}],
         taskState' \in [Tasks -> TaskStates], StatesSound', inbox' \subseteq inbox,
         NEW p \in Procs, NEW y \in Calls, call' = [call EXCEPT ![p] = y], Fits(y)',
         Advances(call[p], y)
  PROVE  Basic'
<1>1. call' \in [Procs -> Calls]
  BY Facts
<1>2. Types' /\ FilesSound' /\ NumbersSound'
  BY <1>1, Facts, NumbersKept DEF Types, FilesSound
<1>3. CreatorsSound'
  BY CreatorsKept
<1> QED
  BY <1>2, <1>3, StepOf

LEMMA WriteQueuedBasic ==
  ASSUME Basic, NEW p \in Procs, WriteQueued(p)
  PROVE  Basic'
<1> DEFINE t == call[p].task
           st == [status |-> "queued", callback |-> None]
<1>1. UNCHANGED <<reports, files, sessions, messages, envelopes, tasks, queue, archive,
                  answers, inbox>>
  BY DEF WriteQueued, mailbox, transport, callbackFiles
<1>2. call' = [call EXCEPT ![p] = Idle] /\ taskState' = [taskState EXCEPT ![t] = st]
  BY DEF WriteQueued, End
<1>3. st \in TaskStates /\ st.callback = None
  BY DEF TaskStates
<1>4. Moves
  BY <1>1 DEF Moves, Reported, ArtifactExists
<1> HIDE DEF st, t
<1>5. /\ taskState' \in [Tasks -> TaskStates]
      /\ \A u \in Tasks : taskState'[u].callback \in {taskState[u].callback, None}
  BY <1>2, <1>3, Facts DEF Types
<1>6. StatesSound'
  BY <1>4, <1>5, StatesKept
<1> QED
  BY <1>1, <1>2, <1>4, <1>5, <1>6, Facts, IdleFits, WritingStep DEF Types

LEMMA WriteQuarantinedBasic ==
  ASSUME Basic, NEW p \in Procs, WriteQuarantined(p)
  PROVE  Basic'
<1> DEFINE t == call[p].task
           st == [status |-> "quarantined", callback |-> None]
<1>1. UNCHANGED <<reports, files, sessions, messages, envelopes, tasks, queue, archive,
                  answers, inbox>>
  BY DEF WriteQuarantined, mailbox, transport, callbackFiles
<1>2. call' = [call EXCEPT ![p] = Idle] /\ taskState' = [taskState EXCEPT ![t] = st]
  BY DEF WriteQuarantined, End
<1>3. st \in TaskStates /\ st.callback = None
  BY DEF TaskStates
<1>4. Moves
  BY <1>1 DEF Moves, Reported, ArtifactExists
<1> HIDE DEF st, t
<1>5. /\ taskState' \in [Tasks -> TaskStates]
      /\ \A u \in Tasks : taskState'[u].callback \in {taskState[u].callback, None}
  BY <1>2, <1>3, Facts DEF Types
<1>6. StatesSound'
  BY <1>4, <1>5, StatesKept
<1> QED
  BY <1>1, <1>2, <1>4, <1>5, <1>6, Facts, IdleFits, WritingStep DEF Types

\* The task state is written last, when all it says is done.
LEMMA WriteCollectedBasic ==
  ASSUME Basic, NEW p \in Procs, WriteCollected(p)
  PROVE  Basic'
<1> DEFINE t == call[p].task
           c == call[p].callback
           st == [status |-> "collected", callback |-> c]
<1>1. UNCHANGED <<reports, files, sessions, messages, envelopes, tasks, queue, archive,
                  answers, inbox>>
  BY DEF WriteCollected, mailbox, transport, callbackFiles
<1>2. call' = [call EXCEPT ![p] = Idle] /\ taskState' = [taskState EXCEPT ![t] = st]
  BY DEF WriteCollected, End
<1>3. Collecting(p) /\ call[p].at = "settle"
  BY AtCollects DEF WriteCollected, CreatePlaces, SendPlaces
<1>4. Whole(t, c)
  BY <1>3, AfterFacts DEF AfterSend, Archived, Whole
<1>5. st \in TaskStates /\ st.callback = c
  BY <1>4 DEF TaskStates, Whole, Answered
<1>6. Moves
  BY <1>1 DEF Moves, Reported, ArtifactExists
<1> HIDE DEF st, t, c
<1>7. /\ taskState' \in [Tasks -> TaskStates]
      /\ \A u \in Tasks : taskState'[u] = IF u = t THEN st ELSE taskState[u]
  BY <1>2, <1>5, Facts DEF Types
<1>8. StatesSound'
  <2> SUFFICES ASSUME NEW u \in Tasks, taskState'[u].callback # None
               PROVE  Whole(u, taskState[u].callback)'
    BY DEF StatesSound
  <2>1. PICK d : d = taskState'[u].callback
    OBVIOUS
  <2>2. Whole(u, d)
    <3>1. CASE u = t
      BY <1>4, <1>5, <1>7, <2>1, <3>1
    <3>2. CASE u # t
      BY <1>7, <2>1, <3>2, Facts DEF StatesSound
    <3> QED
      BY <3>1, <3>2
  <2>3. Whole(u, d)'
    BY <1>6, <2>2, WholeKept
  <2> QED
    BY <2>1, <2>3 DEF Whole, Answered, Sent, SentAbout, Made
<1> QED
  BY <1>1, <1>2, <1>6, <1>7, <1>8, Facts, IdleFits, WritingStep DEF Types

\* A step of the report of a callback.
LEMMA ReportingStep ==
  ASSUME Basic, NEW p \in Procs, Collecting(p), UNCHANGED <<transport, packets, callbackFiles>>,
         reports' \in [ReportIds -> ReportRows \cup {NoReport}], files \subseteq files',
         \A r \in ReportIds : Reported(r) =>
           Reported(r)' /\ (ArtifactExists(r) => ArtifactExists(r)'),
         NEW y \in Calls, call' = [call EXCEPT ![p] = y], y.op = "collect", Fits(y)'
  PROVE  Basic'
<1>1. UNCHANGED <<sessions, messages, envelopes, tasks, queue, archive, taskState, answers,
                  inbox>>
  BY DEF transport, packets, callbackFiles
<1>2. Moves
  BY <1>1 DEF Moves
<1>3. StatesSound'
  BY <1>1, <1>2, StatesKept
<1>4. taskState' \in [Tasks -> TaskStates]
  BY <1>1, Facts DEF Types
<1> QED
  BY <1>1, <1>2, <1>3, <1>4, WritingStep DEF Advances

LEMMA ReportRowBasic ==
  ASSUME Basic, NEW p \in Procs, NEW r \in ReportIds, ReportRow(p, r)
  PROVE  Basic'
<1> DEFINE row == [status |-> "inbox", artifact |-> "none"]
           z == [call[p] EXCEPT !.at = "render", !.made = r]
<1>1. Collecting(p) /\ Busy(p) /\ call[p].at = "report"
  BY AtCollects DEF ReportRow, CreatePlaces, SendPlaces
<1>2. /\ ~Reported(r) /\ reports' = [reports EXCEPT ![r] = row] /\ files' = files
      /\ r[1] = call[p].task /\ call' = [call EXCEPT ![p] = z]
  BY DEF ReportRow, InsertReport
<1>3. row \in ReportRows /\ row # NoReport
  BY NoReportAssumption DEF ReportRows, MailboxStates
<1>4. PICK y \in Calls :
        /\ y = z /\ y.at = "render" /\ y.op = "collect" /\ y.task = call[p].task
        /\ y.callback = call[p].callback /\ y.made = r
  <2>1. /\ r \in ReportIds \cup Nat \cup {None}
        /\ "render" \in CreatePlaces \cup CollectPlaces \cup {"start"}
    BY DEF CollectPlaces, ReportPlaces
  <2>2. z \in Calls
    BY <2>1, Facts, Zenon DEF Calls
  <2>3. call[p] \in Calls /\ call[p].op = "collect"
    BY <1>1, Facts DEF Collecting
  <2>4. /\ z.at = "render" /\ z.op = "collect" /\ z.task = call[p].task
        /\ z.callback = call[p].callback /\ z.made = r
    BY <2>3 DEF Calls
  <2> QED
    BY <2>2, <2>4
<1> HIDE DEF row, z
<1>5. reports' \in [ReportIds -> ReportRows \cup {NoReport}]
  BY <1>2, <1>3, Facts DEF Types
<1>6. \A q \in ReportIds : reports'[q] = IF q = r THEN row ELSE reports[q]
  BY <1>2, Facts DEF Types
<1>7. /\ Reported(r)'
      /\ \A q \in ReportIds : Reported(q) =>
           Reported(q)' /\ (ArtifactExists(q) => ArtifactExists(q)')
  BY <1>2, <1>3, <1>6 DEF Reported, ArtifactExists
<1>8. UNCHANGED <<transport, packets, callbackFiles>>
  BY DEF ReportRow
<1>9. Fits(y)'
  <2>1. /\ Fits(call[p]) /\ call[p].op = "collect" /\ tasks' = tasks /\ answers' = answers
    BY <1>1, <1>8, Facts DEF Collecting, packets, callbackFiles
  <2>2. /\ call[p].at \in ReportPlaces /\ "render" \in CollectPlaces
        /\ "render" \notin SendPlaces \cup AfterSend \cup Archived
    BY <1>1 DEF ReportPlaces, CollectPlaces, SendPlaces, AfterSend, Archived
  <2> QED
    BY <1>2, <1>4, <1>7, <2>1, <2>2 DEF Fits, Answered
<1> QED
  BY <1>1, <1>2, <1>4, <1>5, <1>7, <1>8, <1>9, ReportingStep

\* The command at its report, where it makes the file and names it.
LEMMA ReportFacts ==
  ASSUME Basic, NEW p \in Procs, Collecting(p), call[p].at \in {"render", "name_file"}
  PROVE  /\ Fits(call[p]) /\ call[p].op = "collect"
         /\ call[p].made \in ReportIds /\ call[p].made[1] = call[p].task
         /\ Reported(call[p].made) /\ answers[call[p].callback].report
         /\ call[p].at = "name_file" => <<call[p].made, "inbox">> \in files
BY Facts DEF Fits, Collecting, ReportPlaces

LEMMA ReportFileBasic ==
  ASSUME Basic, NEW p \in Procs, ReportFile(p)
  PROVE  Basic'
<1> DEFINE z == Going(call[p], "name_file")
<1>1. Collecting(p) /\ Busy(p) /\ call[p].at = "render"
  BY AtCollects DEF ReportFile, CreatePlaces, SendPlaces
<1>2. /\ files' = files \cup {<<call[p].made, "inbox">>} /\ reports' = reports
      /\ UNCHANGED <<transport, packets, callbackFiles>>
  BY DEF ReportFile, RenderReport
<1>3. "name_file" \in Everywhere
  BY DEF Everywhere, CollectPlaces, ReportPlaces
<1>4. call' = [call EXCEPT ![p] = z]
  BY GoGoing DEF ReportFile
<1>5. PICK y \in Calls :
        /\ y = z /\ y.at = "name_file" /\ y.op = "collect" /\ y.task = call[p].task
        /\ y.callback = call[p].callback /\ y.made = call[p].made
  BY <1>1, <1>3, Facts, GoingCall DEF Collecting
<1> HIDE DEF z
<1>6. \A q \in ReportIds : Reported(q) =>
           Reported(q)' /\ (ArtifactExists(q) => ArtifactExists(q)')
  BY <1>2 DEF Reported, ArtifactExists
<1>7. Fits(y)'
  <2>1. tasks' = tasks /\ answers' = answers
    BY <1>2 DEF packets, callbackFiles
  <2>2. /\ "name_file" \in CollectPlaces
        /\ "name_file" \notin SendPlaces \cup AfterSend \cup Archived
    BY DEF ReportPlaces, CollectPlaces, SendPlaces, AfterSend, Archived
  <2>3. y.made \in ReportIds /\ y.made[1] = y.task /\ Reported(y.made)'
    BY <1>1, <1>5, <1>6, ReportFacts
  <2> QED
    BY <1>1, <1>2, <1>5, <2>1, <2>2, <2>3, ReportFacts DEF Fits, Answered
<1>8. reports' \in [ReportIds -> ReportRows \cup {NoReport}]
  BY <1>2, Facts DEF Types
<1> QED
  BY <1>1, <1>2, <1>4, <1>5, <1>6, <1>7, <1>8, ReportingStep

LEMMA ReportNamedBasic ==
  ASSUME Basic, NEW p \in Procs, ReportNamed(p)
  PROVE  Basic'
<1> DEFINE z == Going(call[p], "send")
           row == [status |-> "inbox", artifact |-> "inbox"]
<1>1. Collecting(p) /\ Busy(p) /\ call[p].at = "name_file"
  BY AtCollects DEF ReportNamed, CreatePlaces, SendPlaces
<1>2. /\ reports' = [reports EXCEPT ![call[p].made] = row] /\ files' = files
      /\ UNCHANGED <<transport, packets, callbackFiles>>
  BY DEF ReportNamed, UpdateReport
<1>3. "send" \in Everywhere
  BY DEF Everywhere, CollectPlaces, SendPlaces
<1>4. call' = [call EXCEPT ![p] = z]
  BY GoGoing DEF ReportNamed
<1>5. PICK y \in Calls :
        /\ y = z /\ y.at = "send" /\ y.op = "collect" /\ y.task = call[p].task
        /\ y.callback = call[p].callback
  BY <1>1, <1>3, Facts, GoingCall DEF Collecting
<1>6. row \in ReportRows /\ row # NoReport /\ row.artifact = "inbox"
  BY NoReportAssumption DEF ReportRows, MailboxStates
<1>7. PICK r \in ReportIds :
        /\ r = call[p].made /\ r[1] = call[p].task /\ <<r, "inbox">> \in files
        /\ Fits(call[p]) /\ call[p].op = "collect"
  BY <1>1, ReportFacts
<1> HIDE DEF z, row
<1>8. reports' \in [ReportIds -> ReportRows \cup {NoReport}]
  BY <1>2, <1>6, <1>7, Facts DEF Types
<1>9. \A q \in ReportIds : reports'[q] = IF q = r THEN row ELSE reports[q]
  BY <1>2, <1>7, Facts DEF Types
<1>10. /\ Reported(r)' /\ ArtifactExists(r)'
       /\ \A q \in ReportIds : Reported(q) =>
            Reported(q)' /\ (ArtifactExists(q) => ArtifactExists(q)')
  BY <1>2, <1>6, <1>7, <1>9 DEF Reported, ArtifactExists
<1>11. Fits(y)'
  <2>1. tasks' = tasks /\ answers' = answers
    BY <1>2 DEF packets, callbackFiles
  <2>2. /\ "send" \in CollectPlaces /\ "send" \notin ReportPlaces \cup AfterSend \cup Archived
    BY DEF ReportPlaces, CollectPlaces, SendPlaces, AfterSend, Archived
  <2>3. Made(y.task, y.callback)'
    BY <1>5, <1>7, <1>10 DEF Made
  <2> QED
    BY <1>5, <1>7, <2>1, <2>2, <2>3 DEF Fits, Answered
<1> QED
  BY <1>1, <1>2, <1>4, <1>5, <1>8, <1>10, <1>11, ReportingStep

LEMMA MoveCallbackBasic ==
  ASSUME Basic, NEW p \in Procs, MoveCallback(p)
  PROVE  Basic'
<1> DEFINE z == Going(call[p], "settle")
<1>1. Collecting(p) /\ Busy(p) /\ call[p].at = "move_callback"
  BY AtCollects DEF MoveCallback, CreatePlaces, SendPlaces
<1>2. /\ UNCHANGED <<reports, files, sessions, messages, envelopes, tasks, queue, archive,
                     taskState, answers>>
      /\ inbox' \subseteq inbox /\ call' = [call EXCEPT ![p] = z]
  BY GoGoing DEF MoveCallback, mailbox, transport, packets
<1>3. "settle" \in AfterSend /\ call[p].at \in AfterSend /\ call[p].at \in Archived
  BY <1>1 DEF AfterSend, Archived
<1>4. Fits(z) /\ "settle" \in Everywhere
  BY <1>1, <1>3, AfterFacts, FitsAfter
<1>5. PICK y \in Calls : y = z /\ y.op = "collect" /\ Fits(y)
  BY <1>1, <1>4, Facts, GoingCall DEF Collecting
<1> HIDE DEF z
<1>6. Moves
  BY <1>2 DEF Moves, Reported, ArtifactExists
<1>7. StatesSound' /\ Fits(y)' /\ Advances(call[p], y)
  BY <1>2, <1>5, <1>6, StatesKept, FitsKept DEF Advances
<1> QED
  BY <1>2, <1>5, <1>6, <1>7, Facts, WritingStep DEF Types

\* The task file is moved: nobody creates the task any more.
LEMMA MoveTaskBasic ==
  ASSUME Basic, NEW p \in Procs, MoveTask(p)
  PROVE  Basic'
<1> DEFINE z == Going(call[p], "archive_callback")
           t == call[p].task
<1>1. Collecting(p) /\ Busy(p) /\ call[p].at = "move_task"
  BY AtCollects DEF MoveTask, CreatePlaces, SendPlaces
<1>2. /\ UNCHANGED <<reports, files, sessions, messages, envelopes, tasks, taskState, answers,
                     inbox>>
      /\ call' = [call EXCEPT ![p] = z]
      /\ t \in queue /\ queue' = queue \ {t} /\ archive' = archive \cup {t}
  BY GoGoing DEF MoveTask, mailbox, transport, callbackFiles
<1>3. "archive_callback" \in Everywhere
  BY DEF Everywhere, CollectPlaces, AfterSend, Archived
<1>4. PICK y \in Calls :
        /\ y = z /\ y.op = "collect" /\ y.at = "archive_callback"
        /\ y.task = t /\ y.callback = call[p].callback
  BY <1>1, <1>3, Facts, GoingCall DEF Collecting
<1> HIDE DEF z
<1>5. Types /\ FilesSound /\ queue' \cup archive' = queue \cup archive
  BY <1>2, Facts
<1>6. Moves
  BY <1>2, <1>5 DEF Moves, Reported, ArtifactExists, FilesSound
<1>7. StatesSound'
  BY <1>2, <1>6, StatesKept
<1>8. Advances(call[p], y)
  BY <1>4 DEF Advances
<1>9. call' \in [Procs -> Calls]
  BY <1>2, <1>4, Facts
<1>10. Types' /\ FilesSound' /\ NumbersSound'
  BY <1>2, <1>5, <1>9, NumbersKept DEF Types, FilesSound
<1>11. CreatorsSound'
  BY <1>2, <1>4, <1>5, <1>8, CreatorsKept
<1>12. Fits(y)'
  <2>1. /\ Made(call[p].task, call[p].callback) /\ Sent(call[p].callback)
        /\ Answered(call[p].task, call[p].callback) /\ Fits(call[p])
    BY <1>1, AfterFacts, Facts DEF AfterSend
  <2>2. PICK c, u : c = y.callback /\ u = y.task
    OBVIOUS
  <2>3. Made(u, c)' /\ Sent(c)' /\ Answered(u, c)'
    BY <1>4, <1>6, <2>1, <2>2, MadeKept, SentKept
  <2>4. /\ "archive_callback" \in CollectPlaces
        /\ "archive_callback" \notin ReportPlaces \cup {"render", "name_file", "envelope"}
    BY DEF CollectPlaces, AfterSend, Archived, ReportPlaces
  <2>5. u \in Tasks /\ tasks'[u] # None /\ u \in archive' \ queue'
    BY <1>2, <1>4, <1>5, <2>2 DEF Types, FilesSound
  <2> QED
    BY <1>4, <2>2, <2>3, <2>4, <2>5 DEF Fits
<1> QED
  BY <1>2, <1>4, <1>6, <1>7, <1>10, <1>11, <1>12, StepOf

\* The file of a new task.  Its creator is the only one, and goes on to the task state.
LEMMA WriteTaskBasic ==
  ASSUME Basic, NEW p \in Procs, WriteTask(p)
  PROVE  Basic'
<1> DEFINE z == Going(call[p], "write_state")
           t == call[p].task
<1>1. /\ Busy(p) /\ call[p].at = "write_task"
      /\ UNCHANGED <<reports, files, sessions, messages, envelopes, tasks, archive, taskState,
                     answers, inbox>>
      /\ call' = [call EXCEPT ![p] = z] /\ queue' = queue \cup {t}
  BY GoGoing DEF WriteTask, At, mailbox, transport, callbackFiles
<1>2. call[p].op = "create"
  BY <1>1, BusyFacts
     DEF CollectPlaces, Lookups, Refusals, ReportPlaces, SendPlaces, AfterSend, Archived
<1>3. "write_state" \in Everywhere /\ "write_state" \in CreatePlaces
  BY DEF Everywhere, CreatePlaces
<1>4. PICK y \in Calls :
        y = z /\ y.op = "create" /\ y.at = "write_state" /\ y.task = t
  BY <1>2, <1>3, Facts, GoingCall
<1> HIDE DEF z
<1>5. /\ t \in Tasks /\ tasks[t] # None /\ t \notin queue \cup archive
      /\ \A q \in Procs : Creating(q) /\ call[q].task = t => q = p
  BY <1>1, <1>2, Facts DEF Fits, CreatorsSound, Creating
<1>6. Types /\ FilesSound
  BY Facts
<1>7. Moves
  BY <1>1, <1>5 DEF Moves, Reported, ArtifactExists
<1>8. StatesSound'
  BY <1>1, <1>7, StatesKept
<1>9. call' \in [Procs -> Calls] /\ \A q \in Procs : call'[q] = IF q = p THEN y ELSE call[q]
  BY <1>1, <1>4, Facts
<1>10. Types' /\ NumbersSound'
  BY <1>1, <1>5, <1>6, <1>9, NumbersKept DEF Types
<1>11. FilesSound'
  BY <1>1, <1>5, <1>6 DEF FilesSound
<1>12. CreatorsSound'
  <2> SUFFICES ASSUME NEW q \in Procs, call'[q].op = "create"
               PROVE  /\ call'[q].at # "write_state" => call'[q].task \notin queue' \cup archive'
                      /\ \A r \in Procs :
                           call'[r].op = "create" /\ call'[r].task = call'[q].task => r = q
    BY DEF CreatorsSound, Creating
  <2>1. \A r \in Procs : call'[r].op = call[r].op /\ call'[r].task = call[r].task
    BY <1>2, <1>4, <1>9
  <2>2. /\ call[q].at # "write_state" => call[q].task \notin queue \cup archive
        /\ \A r \in Procs : call[r].op = "create" /\ call[r].task = call[q].task => r = q
    BY <2>1, Facts DEF CreatorsSound, Creating
  <2>3. q # p => call[q].task # t
    BY <1>5, <2>1 DEF Creating
  <2> QED
    BY <1>1, <1>4, <1>9, <2>1, <2>2, <2>3
<1>13. Fits(y)'
  <2>1. t \in Tasks /\ tasks'[t] # None
    BY <1>1, <1>5
  <2> QED
    BY <1>1, <1>3, <1>4, <1>5 DEF Fits
<1> QED
  BY <1>1, <1>4, <1>7, <1>8, <1>10, <1>11, <1>12, <1>13, StepOf

------------------------------------------------------------------------------
(* The INSERT of a message and its envelope *)

LEMMA Appended ==
  ASSUME Basic, NEW m \in MessageRows, messages' = Append(messages, m)
  PROVE  /\ messages' \in Seq(MessageRows) /\ Len(messages') = Len(messages) + 1
         /\ Len(messages) \in Nat /\ DOMAIN messages = 1..Len(messages)
         /\ DOMAIN messages' = 1..(Len(messages) + 1)
         /\ \A i \in DOMAIN messages : messages'[i] = messages[i]
         /\ messages'[Len(messages) + 1] = m
<1>1. messages \in Seq(MessageRows)
  BY Facts DEF Types
<1> QED
  BY <1>1

LEMMA NumbersAppended ==
  ASSUME Basic, NEW m \in MessageRows, messages' = Append(messages, m)
  PROVE  NumbersSound'
<1> SUFFICES ASSUME NEW s \in Sessions
             PROVE  \E n \in Numbers(s)' : \A k \in Numbers(s)' : k <= n
  BY DEF NumbersSound
<1> DEFINE new == IF m.session = s THEN {m.sequence} ELSE {}
<1>1. Range(messages)' = Range(messages) \cup {m}
  BY Appended DEF Range
<1>2. Numbers(s)' = Numbers(s) \cup new
  BY <1>1 DEF Numbers
<1>3. PICK n \in Numbers(s) : \A k \in Numbers(s) : k <= n
  BY Facts DEF NumbersSound
<1>4. \A k \in Range(messages) : k \in MessageRows
  BY Facts DEF Types, Range
<1>5. Numbers(s) \subseteq Nat /\ m.sequence \in Nat
  BY <1>4 DEF Numbers, MessageRows
<1>6. new = {} \/ new = {m.sequence}
  OBVIOUS
<1> HIDE DEF new
<1>7. CASE new = {}
  BY <1>2, <1>3, <1>7
<1>8. CASE new = {m.sequence}
  <2>1. CASE m.sequence <= n
    BY <1>2, <1>3, <1>8, <2>1
  <2>2. CASE ~(m.sequence <= n)
    <3>1. n \in Nat /\ n <= m.sequence /\ m.sequence <= m.sequence
      BY <1>3, <1>5, <2>2
    <3>2. \A k \in Numbers(s) : k <= m.sequence
      BY <1>3, <1>5, <3>1
    <3>3. PICK x : x = m.sequence /\ x \in Numbers(s)'
      BY <1>2, <1>8
    <3>4. \A k \in Numbers(s)' : k <= x
      BY <1>2, <1>8, <3>1, <3>2, <3>3
    <3> QED
      BY <3>3, <3>4
  <2> QED
    BY <2>1, <2>2
<1> QED
  BY <1>6, <1>7, <1>8

LEMMA AboutFacts ==
  ASSUME Basic, NEW p \in Procs, Busy(p)
  PROVE  /\ About(p) \in Abouts
         /\ call[p].op = "collect" => About(p) = ReportOf(call[p].callback)
         /\ \A c \in Callbacks : About(p) = ReportOf(c) => answers[c] # None
<1>1. /\ \/ call[p].task \in Tasks /\ call[p].op = "create"
         \/ call[p].op = "collect"
      /\ call[p].op = "collect" => /\ call[p].callback \in Callbacks
                                   /\ answers[call[p].callback] \in Answers
  BY BusyFacts
<1>2. CASE call[p].op = "create"
  BY <1>1, <1>2 DEF About, Creating, Abouts, IntentOf, ReportOf
<1>3. CASE call[p].op = "collect"
  BY <1>1, <1>3, NoneAssumption DEF About, Creating, Abouts, ReportOf
<1> QED
  BY <1>1, <1>2, <1>3

LEMMA InsertFacts ==
  ASSUME Basic, NEW p \in Procs, SendInsert(p)
  PROVE  /\ Busy(p) /\ call[p].at = "insert" /\ SessionOf(p) \in Sessions
         /\ UNCHANGED <<reports, files, sessions, envelopes, tasks, queue, archive, taskState,
                        answers, inbox, disturbed>>
         /\ \E m \in MessageRows :
              /\ messages' = Append(messages, m)
              /\ m.session = SessionOf(p) /\ m.about = About(p)
              /\ m.sequence = call[p].sequence /\ m.after = call[p].after
         /\ \E y \in Calls :
              /\ call' = [call EXCEPT ![p] = y]
              /\ y.at = "envelope" /\ y.op = call[p].op /\ y.task = call[p].task
              /\ y.callback = call[p].callback /\ y.made = Len(messages) + 1
<1> DEFINE m == [session |-> SessionOf(p), about |-> About(p), sequence |-> call[p].sequence,
                 after |-> call[p].after]
           y == [call[p] EXCEPT !.at = "envelope", !.made = Len(messages')]
<1>1. /\ Busy(p) /\ call[p].at = "insert"
      /\ UNCHANGED <<reports, files, sessions, envelopes, tasks, queue, archive, taskState,
                     answers, inbox, disturbed>>
      /\ messages' = Append(messages, m) /\ call' = [call EXCEPT ![p] = y]
  BY DEF SendInsert, InsertMessage, At, mailbox, packets, callbackFiles, ghosts
<1>2. SessionOf(p) \in Sessions
  BY <1>1, BusyFacts DEF SessionOf, Packets
<1>3. call[p] \in Calls /\ About(p) \in Abouts
  BY <1>1, AboutFacts, Facts
<1>4. /\ m \in MessageRows /\ m.session = SessionOf(p) /\ m.about = About(p)
      /\ m.sequence = call[p].sequence /\ m.after = call[p].after
  BY <1>2, <1>3 DEF MessageRows, Calls
<1> HIDE DEF m
<1>5. Len(messages') = Len(messages) + 1 /\ Len(messages') \in ReportIds \cup Nat \cup {None}
  BY <1>1, <1>4, Appended
<1>6. "envelope" \in CreatePlaces \cup CollectPlaces \cup {"start"}
  BY DEF CreatePlaces, SendPlaces
<1>7. y \in Calls
  BY <1>3, <1>5, <1>6, Zenon DEF Calls
<1>8. /\ y.at = "envelope" /\ y.op = call[p].op /\ y.task = call[p].task
      /\ y.callback = call[p].callback /\ y.made = Len(messages) + 1
  BY <1>3, <1>5 DEF Calls
<1> HIDE DEF y
<1> QED
  BY <1>1, <1>2, <1>4, <1>7, <1>8

LEMMA SendInsertBasic ==
  ASSUME Basic, NEW p \in Procs, SendInsert(p)
  PROVE  Basic'
<1>1. /\ Busy(p) /\ call[p].at = "insert"
      /\ UNCHANGED <<reports, files, sessions, envelopes, tasks, queue, archive, taskState,
                     answers, inbox>>
  BY InsertFacts
<1>2. PICK m \in MessageRows : messages' = Append(messages, m) /\ m.about = About(p)
  BY InsertFacts
<1>3. PICK y \in Calls :
        /\ call' = [call EXCEPT ![p] = y]
        /\ y.at = "envelope" /\ y.op = call[p].op /\ y.task = call[p].task
        /\ y.callback = call[p].callback /\ y.made = Len(messages) + 1
  BY InsertFacts
<1>4. /\ \A i \in DOMAIN messages : i \in DOMAIN messages' /\ messages'[i] = messages[i]
      /\ Len(messages) + 1 \in DOMAIN messages' /\ messages'[Len(messages) + 1] = m
      /\ \A i \in DOMAIN messages' : i \in DOMAIN messages \/ i = Len(messages) + 1
      /\ messages' \in Seq(MessageRows)
  BY <1>2, Appended
<1>5. Moves
  BY <1>1, <1>4 DEF Moves, Reported, ArtifactExists
<1>6. call' \in [Procs -> Calls] /\ Types /\ FilesSound
  BY <1>3, Facts
<1>7. Types' /\ NumbersSound'
  BY <1>1, <1>2, <1>4, <1>6, NumbersAppended DEF Types
<1>8. FilesSound'
  <2>1. \A i \in DOMAIN messages', c \in Callbacks :
          messages'[i].about = ReportOf(c) => answers[c] # None
    BY <1>1, <1>2, <1>4, <1>6, AboutFacts DEF FilesSound
  <2> QED
    BY <1>1, <1>6, <2>1 DEF FilesSound
<1>9. StatesSound' /\ Advances(call[p], y)
  BY <1>1, <1>3, <1>5, StatesKept DEF Advances
<1>10. CreatorsSound'
  BY <1>1, <1>3, <1>9, CreatorsKept
<1>11. Fits(y)'
  <2>1. /\ call[p].task \in Tasks /\ tasks[call[p].task] # None
        /\ call[p].op = "collect" =>
             Answered(call[p].task, call[p].callback) /\ Made(call[p].task, call[p].callback)
    BY <1>1, Facts DEF Fits, Busy, SendPlaces
  <2>2. PICK c, u : c = y.callback /\ u = y.task
    OBVIOUS
  <2>3. y.op = "collect" => Answered(u, c)' /\ Made(u, c)'
    BY <1>3, <1>5, <2>1, <2>2, MadeKept
  <2>4. /\ "envelope" \in CollectPlaces /\ "envelope" \in CreatePlaces
        /\ "envelope" \notin ReportPlaces \cup AfterSend \cup Archived
    BY DEF CollectPlaces, CreatePlaces, SendPlaces, AfterSend, Archived, ReportPlaces
  <2>5. y.op = "collect" => messages'[y.made].about = ReportOf(y.callback)
    BY <1>1, <1>2, <1>3, <1>4, AboutFacts
  <2> QED
    BY <1>1, <1>3, <1>4, <2>1, <2>2, <2>3, <2>4, <2>5 DEF Fits
<1> QED
  BY <1>3, <1>5, <1>7, <1>8, <1>9, <1>10, <1>11, StepOf

LEMMA SendEnvelopeBasic ==
  ASSUME Basic, NEW p \in Procs, SendEnvelope(p)
  PROVE  Basic'
<1>1. /\ Busy(p) /\ call[p].at = "envelope"
      /\ UNCHANGED <<reports, files, sessions, messages, tasks, queue, archive, taskState,
                     answers, inbox>>
      /\ envelopes' = envelopes \cup {call[p].made}
  BY DEF SendEnvelope, WriteEnvelope, At, mailbox, packets, callbackFiles
<1>2. PICK place \in {"write_task", "archive"} :
        /\ Go(p, place)
        /\ call[p].op = "create" <=> place = "write_task"
  BY DEF SendEnvelope, Creating
<1> DEFINE z == Going(call[p], place)
<1>3. place \in Everywhere
  BY DEF Everywhere, CollectPlaces, CreatePlaces, AfterSend
<1>4. call' = [call EXCEPT ![p] = z]
  BY <1>2, GoGoing
<1>5. PICK y \in Calls :
        /\ y = z /\ y.at = place /\ y.op = call[p].op /\ y.task = call[p].task
        /\ y.callback = call[p].callback
  BY <1>3, Facts, GoingCall
<1> HIDE DEF z
<1>6. Moves
  BY <1>1 DEF Moves, Reported, ArtifactExists
<1>7. StatesSound' /\ Advances(call[p], y)
  BY <1>1, <1>2, <1>5, <1>6, StatesKept DEF Advances
<1>8. Fits(y)'
  <2>1. /\ call[p].task \in Tasks /\ tasks[call[p].task] # None
        /\ call[p].op \in {"create", "collect"}
        /\ call[p].op = "collect" =>
             /\ Answered(call[p].task, call[p].callback) /\ Made(call[p].task, call[p].callback)
             /\ call[p].made \in DOMAIN messages
             /\ messages[call[p].made].about = ReportOf(call[p].callback)
    BY <1>1, Facts, BusyFacts DEF Fits, Busy, SendPlaces
  <2>2. PICK c, u : c = y.callback /\ u = y.task
    OBVIOUS
  <2>3. y.op = "collect" => Answered(u, c)' /\ Made(u, c)'
    BY <1>5, <1>6, <2>1, <2>2, MadeKept
  <2>4. y.op = "collect" => Sent(c)'
    BY <1>1, <1>5, <2>1, <2>2 DEF Sent, SentAbout
  <2>5. /\ "archive" \in CollectPlaces /\ "write_task" \in CreatePlaces
        /\ "archive" \notin ReportPlaces \cup Archived \cup {"render", "name_file", "envelope"}
    BY DEF CollectPlaces, CreatePlaces, SendPlaces, AfterSend, Archived, ReportPlaces
  <2> QED
    BY <1>1, <1>2, <1>5, <2>1, <2>2, <2>3, <2>4, <2>5 DEF Fits
<1> QED
  BY <1>1, <1>4, <1>5, <1>6, <1>7, <1>8, Facts, WritingStep DEF Types

------------------------------------------------------------------------------
(* The runtime, and the start of a command *)

LEMMA RuntimeAnswersBasic ==
  ASSUME Basic, NEW c \in Callbacks, NEW answer \in Answers, RuntimeAnswers(c, answer)
  PROVE  Basic'
<1>1. /\ UNCHANGED <<reports, files, sessions, messages, envelopes, tasks, queue, archive,
                     taskState, call>>
      /\ answers[c] = None /\ answer.task \in queue \cup archive
      /\ answers' = [answers EXCEPT ![c] = answer] /\ inbox' = inbox \cup {c}
  BY DEF RuntimeAnswers, mailbox, transport, packets
<1>2. Types /\ FilesSound /\ answer # None
  BY Facts, NoneAssumption
<1>3. \A d \in Callbacks : answers'[d] = IF d = c THEN answer ELSE answers[d]
  BY <1>1, <1>2 DEF Types
<1>4. \A d : answers[d] # None => answers'[d] = answers[d]
  BY <1>1, <1>2 DEF Types
<1>5. Moves
  BY <1>1, <1>4 DEF Moves, Reported, ArtifactExists
<1>6. Types' /\ NumbersSound'
  BY <1>1, <1>2, NumbersKept DEF Types
<1>7. FilesSound'
  BY <1>1, <1>2, <1>3 DEF FilesSound
<1>8. StatesSound'
  BY <1>1, <1>5, StatesKept
<1> QED
  BY <1>1, <1>5, <1>6, <1>7, <1>8, StepOfNone

LEMMA ResidueArchivedBasic ==
  ASSUME Basic, NEW c \in Callbacks, ResidueArchived(c)
  PROVE  Basic'
<1>1. /\ UNCHANGED <<reports, files, sessions, messages, envelopes, tasks, queue, archive,
                     taskState, answers, call>>
      /\ inbox' = inbox \ {c}
  BY DEF ResidueArchived, mailbox, transport, packets
<1>2. Types /\ FilesSound
  BY Facts
<1>3. Moves
  BY <1>1 DEF Moves, Reported, ArtifactExists
<1>4. Types' /\ NumbersSound' /\ FilesSound'
  BY <1>1, <1>2, NumbersKept DEF Types, FilesSound
<1>5. StatesSound'
  BY <1>1, <1>3, StatesKept
<1> QED
  BY <1>1, <1>3, <1>4, <1>5, StepOfNone

\* A refused input leaves a session, which Basic says nothing of.
LEMMA CreateRefusedBasic ==
  ASSUME Basic, NEW p \in Procs, NEW s \in Sessions, CreateRefused(p, s)
  PROVE  Basic'
<1>1. UNCHANGED <<reports, files, messages, envelopes, tasks, queue, archive, taskState,
                  answers, inbox, call>>
  BY DEF CreateRefused, StartSession, mailbox, packets, callbackFiles
<1>2. Types /\ FilesSound
  BY Facts
<1>3. Moves
  BY <1>1 DEF Moves, Reported, ArtifactExists
<1>4. Types' /\ NumbersSound' /\ FilesSound'
  BY <1>1, <1>2, NumbersKept DEF Types, FilesSound
<1>5. StatesSound'
  BY <1>1, <1>3, StatesKept
<1> QED
  BY <1>1, <1>3, <1>4, <1>5, StepOfNone

\* The call that a command begins with.
LEMMA BeginCall ==
  ASSUME Basic, NEW p \in Procs, NEW t \in Tasks, NEW c \in Callbacks \cup {None},
         NEW op \in {"create", "collect"}, NEW place \in Everywhere,
         Begin(p, op, t, c, place)
  PROVE  \E y \in Calls :
           /\ call' = [call EXCEPT ![p] = y]
           /\ y.op = op /\ y.task = t /\ y.callback = c /\ y.at = place
<1> DEFINE y == [Idle EXCEPT !.op = op, !.task = t, !.callback = c, !.at = place]
<1>1. call' = [call EXCEPT ![p] = y]
  BY DEF Begin
<1>2. y \in Calls /\ y.op = op /\ y.task = t /\ y.callback = c /\ y.at = place
  BY DEF Idle, Calls, Everywhere
<1> QED
  BY <1>1, <1>2

LEMMA CollectBasic ==
  ASSUME Basic, NEW p \in Procs, NEW c \in Callbacks, Collect(p, c)
  PROVE  Basic'
<1>1. /\ Begin(p, "collect", answers[c].task, c, "find") /\ c \in inbox
      /\ UNCHANGED <<mailbox, transport, packets, callbackFiles>>
  BY DEF Collect
<1>2. /\ answers[c] # None /\ answers[c].task \in queue \cup archive
      /\ answers[c].task \in Tasks /\ tasks[answers[c].task] # None
  BY <1>1, Facts DEF FilesSound, Types
<1>3. /\ "find" \in Everywhere /\ "find" \in CollectPlaces
      /\ "find" \notin ReportPlaces \cup SendPlaces \cup AfterSend \cup Archived
  BY DEF Everywhere, CollectPlaces, Lookups, ReportPlaces, SendPlaces, AfterSend, Archived
<1>4. PICK y \in Calls :
        /\ call' = [call EXCEPT ![p] = y]
        /\ y.op = "collect" /\ y.task = answers[c].task /\ y.callback = c /\ y.at = "find"
  BY <1>1, <1>2, <1>3, BeginCall
<1>5. Fits(y) /\ Advances(call[p], y)
  BY <1>2, <1>3, <1>4 DEF Fits, Advances, Answered
<1> QED
  BY <1>1, <1>4, <1>5, QuietStep

LEMMA CreateTaskBasic ==
  ASSUME Basic, NEW p \in Procs, NEW t \in Tasks, NEW s \in Sessions, NEW bound \in BOOLEAN,
         CreateTask(p, t, s, bound)
  PROVE  Basic'
<1> DEFINE packet == [session |-> s, bound |-> bound]
<1>1. /\ UNCHANGED <<reports, files, messages, envelopes, queue, archive, taskState, answers,
                     inbox>>
      /\ tasks[t] = None /\ Begin(p, "create", t, None, "send")
      /\ tasks' = [tasks EXCEPT ![t] = packet]
  BY DEF CreateTask, StartSession, mailbox, transport, callbackFiles
<1>2. packet \in Packets /\ packet # None
  BY NoneAssumption DEF Packets
<1> HIDE DEF packet
<1>3. Types /\ FilesSound
  BY Facts
<1>4. /\ tasks' \in [Tasks -> Packets \cup {None}]
      /\ \A u \in Tasks : tasks'[u] = IF u = t THEN packet ELSE tasks[u]
      /\ t \notin queue \cup archive
  BY <1>1, <1>2, <1>3 DEF Types, FilesSound
<1>5. "send" \in Everywhere /\ "send" \in CreatePlaces
  BY DEF Everywhere, CreatePlaces, SendPlaces
<1>6. PICK y \in Calls :
        /\ call' = [call EXCEPT ![p] = y]
        /\ y.op = "create" /\ y.task = t /\ y.at = "send"
  BY <1>1, <1>5, BeginCall
<1>7. Moves
  BY <1>1, <1>3 DEF Moves, Reported, ArtifactExists, Types
<1>8. call' \in [Procs -> Calls] /\ \A q \in Procs : call'[q] = IF q = p THEN y ELSE call[q]
  BY <1>6, Facts
<1>9. Types' /\ NumbersSound'
  BY <1>1, <1>3, <1>4, <1>8, NumbersKept DEF Types
<1>10. FilesSound'
  BY <1>1, <1>2, <1>3, <1>4 DEF FilesSound, Types
<1>11. StatesSound'
  BY <1>1, <1>7, StatesKept
<1>12. CreatorsSound'
  <2> SUFFICES ASSUME NEW q \in Procs, call'[q].op = "create"
               PROVE  /\ call'[q].at # "write_state" => call'[q].task \notin queue' \cup archive'
                      /\ \A r \in Procs :
                           call'[r].op = "create" /\ call'[r].task = call'[q].task => r = q
    BY DEF CreatorsSound, Creating
  <2>1. \A r \in Procs : r # p /\ call[r].op = "create" => call[r].task # t
    BY <1>1, Facts DEF Fits
  <2>2. CASE q = p
    BY <1>1, <1>4, <1>6, <1>8, <2>1, <2>2
  <2>3. CASE q # p
    <3>1. /\ call'[q] = call[q]
          /\ call[q].at # "write_state" => call[q].task \notin queue \cup archive
          /\ \A r \in Procs : call[r].op = "create" /\ call[r].task = call[q].task => r = q
      BY <1>8, <2>3, Facts DEF CreatorsSound, Creating
    <3> QED
      BY <1>1, <1>6, <1>8, <2>1, <2>3, <3>1
  <2> QED
    BY <2>2, <2>3
<1>13. Fits(y)'
  <2>1. t \in Tasks /\ tasks'[t] # None
    BY <1>2, <1>4
  <2> QED
    BY <1>5, <1>6, <2>1 DEF Fits
<1> QED
  BY <1>6, <1>7, <1>9, <1>10, <1>11, <1>12, <1>13, StepOf

LEMMA QuarantineBasic ==
  ASSUME Basic, NEW p \in Procs, Quarantine(p)
  PROVE  Basic'
<1>1. Collecting(p)
  BY AtCollects DEF Quarantine, CreatePlaces, SendPlaces
<1>2. UNCHANGED <<reports, files, sessions, messages, envelopes, tasks, queue, archive,
                  taskState, answers, inbox>>
  BY DEF Quarantine, mailbox, transport, packets
<1>3. Moves
  BY <1>2 DEF Moves, Reported, ArtifactExists
<1>4. StatesSound' /\ reports' \in [ReportIds -> ReportRows \cup {NoReport}]
      /\ taskState' \in [Tasks -> TaskStates]
  BY <1>2, <1>3, StatesKept, Facts DEF Types
<1>5. CASE Go(p, "quarantine_state")
  <2> DEFINE z == Going(call[p], "quarantine_state")
  <2>1. Fits(z) /\ "quarantine_state" \in Everywhere
    BY <1>1, FitsGoing DEF Refusals
  <2>2. PICK y \in Calls : y = z /\ y.op = "collect" /\ Fits(y)
    BY <1>1, <2>1, Facts, GoingCall DEF Collecting
  <2>3. call' = [call EXCEPT ![p] = z]
    BY <1>5, GoGoing
  <2> HIDE DEF z
  <2>4. Fits(y)' /\ Advances(call[p], y)
    BY <1>3, <2>2, FitsKept DEF Advances
  <2> QED
    BY <1>2, <1>3, <1>4, <2>2, <2>3, <2>4, WritingStep
<1>6. CASE End(p)
  <2>1. call' = [call EXCEPT ![p] = Idle]
    BY <1>6 DEF End
  <2> QED
    BY <1>2, <1>3, <1>4, <2>1, IdleFits, WritingStep
<1>7. Go(p, "quarantine_state") \/ End(p)
  BY DEF Quarantine
<1> QED
  BY <1>5, <1>6, <1>7

\* Commands that stop: nothing is written.
Stops(p) ==
  SendInvalid(p) \/ ReplayBlocked(p) \/ MoveFails(p) \/ CallbackIdMissing(p) \/ HermesCrash(p)

LEMMA StopsBasic ==
  ASSUME Basic, NEW p \in Procs, Stops(p)
  PROVE  Basic'
<1>1. End(p) /\ UNCHANGED <<mailbox, transport, packets, callbackFiles>>
  BY DEF Stops, SendInvalid, ReplayBlocked, MoveFails, CallbackIdMissing, HermesCrash
<1> QED
  BY <1>1, EndsQuietly

------------------------------------------------------------------------------
LEMMA InitBasic ==
  ASSUME HermesInit
  PROVE  Basic
<1>1. /\ reports = [r \in ReportIds |-> NoReport] /\ messages = <<>>
      /\ tasks = [t \in Tasks |-> None] /\ queue = {} /\ archive = {}
      /\ taskState = [t \in Tasks |-> [status |-> "none", callback |-> None]]
      /\ answers = [c \in Callbacks |-> None] /\ inbox = {}
      /\ call = [p \in Procs |-> Idle]
  BY DEF HermesInit, MailboxInit, NoHermes, TransportInit
<1>2. call \in [Procs -> Calls]
  BY <1>1, IdleFits
<1>3. Types
  BY <1>1, <1>2 DEF Types, TaskStates
<1>4. FilesSound /\ StatesSound
  BY <1>1 DEF FilesSound, StatesSound
<1>5. CreatorsSound
  BY <1>1 DEF CreatorsSound, Creating, Idle
<1>6. NumbersSound
  <2> SUFFICES ASSUME NEW s \in Sessions
               PROVE  \E n \in Numbers(s) : \A k \in Numbers(s) : k <= n
    BY DEF NumbersSound
  <2>1. Range(messages) = {}
    BY <1>1 DEF Range
  <2>2. Numbers(s) = {0}
    BY <2>1 DEF Numbers
  <2> QED
    BY <2>2
<1>7. \A p \in Procs : Fits(call[p])
  BY <1>1 DEF Fits, Idle
<1> QED
  BY <1>3, <1>4, <1>5, <1>6, <1>7 DEF Basic

LEMMA QuietBasic ==
  ASSUME Basic, UNCHANGED hermesVars
  PROVE  Basic'
<1>1. UNCHANGED <<reports, files, messages, envelopes, tasks, queue, archive, taskState,
                  answers, inbox, call>>
  BY DEF hermesVars, mailbox, transport, packets, callbackFiles
<1>2. Types /\ FilesSound
  BY Facts
<1>3. Moves
  BY <1>1 DEF Moves, Reported, ArtifactExists
<1>4. Types' /\ NumbersSound' /\ FilesSound'
  BY <1>1, <1>2, NumbersKept DEF Types, FilesSound
<1>5. StatesSound'
  BY <1>1, <1>3, StatesKept
<1> QED
  BY <1>1, <1>3, <1>4, <1>5, StepOfNone

LEMMA NextBasic ==
  ASSUME Basic, HermesNext
  PROVE  Basic'
<1>1. CASE \E p \in Procs : \E t \in Tasks, s \in Sessions, bound \in BOOLEAN :
             CreateTask(p, t, s, bound)
  BY <1>1, CreateTaskBasic
<1>2. CASE \E p \in Procs : \E s \in Sessions : CreateRefused(p, s)
  BY <1>2, CreateRefusedBasic
<1>3. CASE \E p \in Procs : \E c \in Callbacks : Collect(p, c)
  BY <1>3, CollectBasic
<1>4. CASE \E p \in Procs : HermesContinue(p) \/ HermesCrash(p)
  <2>1. PICK p \in Procs : HermesContinue(p) \/ HermesCrash(p)
    BY <1>4
  <2>2. CASE Creation(p)
    BY <2>2, WriteTaskBasic, WriteQueuedBasic DEF Creation
  <2>3. CASE Stops(p)
    BY <2>3, StopsBasic
  <2>4. CASE ReadSequence(p) \/ SendInsert(p) \/ SendEnvelope(p)
    BY <2>4, ReadSequenceBasic, SendInsertBasic, SendEnvelopeBasic
  <2>5. CASE FindTask(p) \/ LoadTask(p) \/ Validate(p) \/ Quarantine(p) \/ WriteQuarantined(p)
    BY <2>5, FindTaskBasic, LoadTaskBasic, ValidateBasic, QuarantineBasic, WriteQuarantinedBasic
  <2>6. CASE Reporting(p)
    BY <2>6, ReportRowBasic, ReportFileBasic, ReportNamedBasic DEF Reporting
  <2>7. CASE \/ FindTaskFile(p) \/ MoveTask(p) \/ FindCallback(p) \/ MoveCallback(p)
             \/ WriteCollected(p)
    BY <2>7, FindTaskFileBasic, MoveTaskBasic, FindCallbackBasic, MoveCallbackBasic,
       WriteCollectedBasic
  <2> QED
    BY <2>1, <2>2, <2>3, <2>4, <2>5, <2>6, <2>7
       DEF HermesContinue, Sending, Checking, Settling, Stops
<1>5. CASE \E c \in Callbacks, answer \in Answers : RuntimeAnswers(c, answer)
  BY <1>5, RuntimeAnswersBasic
<1>6. CASE \E c \in Callbacks : ResidueArchived(c)
  BY <1>6, ResidueArchivedBasic
<1> QED
  BY <1>1, <1>2, <1>3, <1>4, <1>5, <1>6 DEF HermesNext

------------------------------------------------------------------------------
(* The second layer *)

\* No INSERT, and nobody comes to one.
NoInsert ==
  /\ messages' = messages
  /\ \A t \in Tasks : tasks[t] # None => tasks'[t] = tasks[t]
  /\ \A q \in Procs : \/ call'[q] = call[q]
                      \/ call'[q].op = "idle"
                      \/ call'[q].at # "insert"

LEMMA CallKept ==
  ASSUME Basic, NEW p \in Procs, End(p) \/ \E place : place # "insert" /\ Go(p, place)
  PROVE  \A q \in Procs : \/ call'[q] = call[q]
                          \/ call'[q].op = "idle"
                          \/ call'[q].at # "insert"
<1>1. CASE End(p)
  <2>1. \A q \in Procs : call'[q] = IF q = p THEN Idle ELSE call[q]
    BY <1>1, Facts DEF End
  <2> QED
    BY <2>1, IdleFits
<1>2. CASE \E place : place # "insert" /\ Go(p, place)
  <2>1. PICK place : place # "insert" /\ Go(p, place)
    BY <1>2
  <2>2. \A q \in Procs : call'[q] = IF q = p THEN [call[p] EXCEPT !.at = place] ELSE call[q]
    BY <2>1, Facts DEF Go
  <2>3. [call[p] EXCEPT !.at = place].at = place
    BY Facts DEF Calls
  <2> QED
    BY <2>1, <2>2, <2>3
<1> QED
  BY <1>1, <1>2

LEMMA BegunKept ==
  ASSUME Basic, NEW p \in Procs, NEW t \in Tasks, NEW c \in Callbacks \cup {None},
         NEW op \in {"create", "collect"}, NEW place \in Everywhere, place # "insert",
         Begin(p, op, t, c, place)
  PROVE  \A q \in Procs : call'[q] = call[q] \/ call'[q].at # "insert"
BY BeginCall, Facts

LEMMA NoInsertOrdered ==
  ASSUME Basic, Ordered, NoInsert
  PROVE  Ordered'
<1>1. ASSUME NEW q \in Procs
      PROVE  Follows(call[q])'
  <2>1. CASE call'[q].op = "idle" \/ call'[q].at # "insert"
    BY <2>1 DEF Follows
  <2>2. CASE call'[q] = call[q]
    <3>1. Follows(call[q]) /\ Fits(call[q])
      BY Facts DEF Ordered
    <3>2. call[q].op # "idle" => tasks'[call[q].task] = tasks[call[q].task]
      BY <3>1 DEF NoInsert, Fits
    <3> QED
      BY <2>2, <3>1, <3>2 DEF NoInsert, Follows
  <2> QED
    BY <2>1, <2>2 DEF NoInsert
<1> QED
  BY <1>1 DEF Ordered, NoInsert, SequencesFollow

LEMMA RowFacts ==
  ASSUME Basic
  PROVE  \A i \in DOMAIN messages : messages[i].sequence \in Nat /\ messages[i].after \in Nat
<1>1. messages \in Seq(MessageRows)
  BY Facts DEF Types
<1>2. \A i \in DOMAIN messages : messages[i] \in MessageRows
  BY <1>1
<1> QED
  BY <1>2 DEF MessageRows

LEMMA ReadSequenceOrdered ==
  ASSUME Basic, Ordered, NEW p \in Procs, ReadSequence(p)
  PROVE  Ordered'
<1> DEFINE last == LastSequence(SessionOf(p)) + 1
           y == [call[p] EXCEPT !.at = "insert", !.sequence = last, !.after = Len(messages)]
<1>1. /\ Busy(p) /\ call' = [call EXCEPT ![p] = y] /\ messages' = messages /\ tasks' = tasks
  BY DEF ReadSequence, NextSequence, At, transport, packets
<1>2. /\ SessionOf(p) \in Sessions /\ call[p].task \in Tasks
      /\ SessionOf(p) = tasks[call[p].task].session
  BY <1>1, BusyFacts DEF SessionOf, Packets
<1>3. /\ last \in Nat
      /\ \A i \in DOMAIN messages :
           messages[i].session = SessionOf(p) => messages[i].sequence < last
  <2>1. \A i \in DOMAIN messages : messages[i].sequence \in Nat
    BY RowFacts
  <2> QED
    BY <1>2, <2>1, LastIsMax
<1>4. Len(messages) \in Nat /\ DOMAIN messages = 1..Len(messages)
  BY Facts DEF Types
<1>5. /\ y.task = call[p].task /\ y.after = Len(messages) /\ y.sequence = last
  BY Facts DEF Calls
<1> HIDE DEF last
<1>6. Follows(y)
  BY <1>2, <1>3, <1>4, <1>5 DEF Follows
<1> HIDE DEF y
<1>7. \A q \in Procs : call'[q] = IF q = p THEN y ELSE call[q]
  BY <1>1, Facts
<1>8. ASSUME NEW q \in Procs
      PROVE  Follows(call[q])'
  BY <1>1, <1>6, <1>7 DEF Ordered, Follows
<1> QED
  BY <1>1, <1>8 DEF Ordered, SequencesFollow

\* The message is inserted with what the SELECT made due: after that many rows, and
\* above those of its session.
LEMMA SendInsertOrdered ==
  ASSUME Basic, Ordered, NEW p \in Procs, SendInsert(p)
  PROVE  Ordered'
<1>1. /\ Busy(p) /\ call[p].at = "insert" /\ SessionOf(p) \in Sessions /\ tasks' = tasks
  BY InsertFacts
<1>2. PICK m \in MessageRows :
        /\ messages' = Append(messages, m) /\ m.session = SessionOf(p)
        /\ m.sequence = call[p].sequence /\ m.after = call[p].after
  BY InsertFacts
<1>3. PICK y \in Calls : call' = [call EXCEPT ![p] = y] /\ y.at = "envelope"
  BY InsertFacts
<1>4. PICK n \in Nat : n = Len(messages)
  BY Facts DEF Types
<1>5. /\ DOMAIN messages = 1..n /\ DOMAIN messages' = 1..(n + 1) /\ Len(messages') = n + 1
      /\ \A i \in 1..n : messages'[i] = messages[i]
      /\ messages'[n + 1] = m
  BY <1>2, <1>4, Appended
<1>6. \A i \in 1..n : messages[i].after \in Nat /\ messages[i].after < i
  BY <1>5, RowFacts DEF Ordered
<1>7. /\ m.after \in Nat /\ m.after <= n
      /\ \A i \in 1..m.after :
           messages[i].session = m.session => messages[i].sequence < m.sequence
  BY <1>1, <1>2, <1>4, Facts DEF Ordered, Follows, Busy, SessionOf, MessageRows
<1>8. \A i \in 1..(n + 1) : messages'[i].after < i
  BY <1>5, <1>6, <1>7
<1>9. SequencesFollow'
  <2> SUFFICES ASSUME NEW i \in 1..(n + 1), NEW j \in 1..(n + 1),
                      messages'[i].session = messages'[j].session,
                      i <= messages'[j].after
               PROVE  messages'[i].sequence < messages'[j].sequence
    BY <1>5 DEF SequencesFollow
  <2>1. CASE j = n + 1
    <3>1. i \in 1..m.after /\ i \in 1..n
      BY <1>5, <1>7, <2>1
    <3> QED
      BY <1>5, <1>7, <2>1, <3>1
  <2>2. CASE j # n + 1
    <3>1. j \in 1..n /\ i \in 1..n
      BY <1>5, <1>6, <2>2
    <3>2. SequencesFollow
      BY DEF Ordered
    <3> QED
      BY <1>5, <3>1, <3>2 DEF SequencesFollow
  <2> QED
    BY <2>1, <2>2
<1>10. ASSUME NEW q \in Procs
       PROVE  Follows(call[q])'
  <2>1. CASE q = p
    BY <1>3, <2>1, Facts DEF Follows
  <2>2. CASE q # p
    <3>1. call'[q] = call[q] /\ Follows(call[q]) /\ call[q].after \in Nat
      BY <1>3, <2>2, Facts DEF Ordered, Calls
    <3> QED
      BY <1>1, <1>4, <1>5, <3>1 DEF Follows
  <2> QED
    BY <2>1, <2>2
<1> QED
  BY <1>5, <1>8, <1>9, <1>10 DEF Ordered

LEMMA NextOrdered ==
  ASSUME Basic, Ordered, HermesNext
  PROVE  Ordered'
<1>1. CASE \E p \in Procs : ReadSequence(p) \/ SendInsert(p)
  BY <1>1, ReadSequenceOrdered, SendInsertOrdered
<1>2. CASE \E p \in Procs : \E t \in Tasks, s \in Sessions, bound \in BOOLEAN :
             CreateTask(p, t, s, bound)
  <2>1. PICK p \in Procs, t \in Tasks, s \in Sessions, bound \in BOOLEAN :
          CreateTask(p, t, s, bound)
    BY <1>2
  <2>2. /\ messages' = messages /\ Begin(p, "create", t, None, "send") /\ tasks[t] = None
        /\ tasks' = [tasks EXCEPT ![t] = [session |-> s, bound |-> bound]]
    BY <2>1 DEF CreateTask, StartSession, transport
  <2>3. \A q \in Procs : call'[q] = call[q] \/ call'[q].at # "insert"
    BY <2>2, BegunKept DEF Everywhere, CreatePlaces, SendPlaces
  <2>4. NoInsert
    BY <2>2, <2>3, Facts DEF NoInsert, Types
  <2> QED
    BY <2>4, NoInsertOrdered
<1>3. CASE \E p \in Procs : \E c \in Callbacks : Collect(p, c)
  <2>1. PICK p \in Procs, c \in Callbacks : Collect(p, c)
    BY <1>3
  <2>2. /\ messages' = messages /\ Begin(p, "collect", answers[c].task, c, "find")
        /\ c \in inbox /\ tasks' = tasks
    BY <2>1 DEF Collect, transport, packets
  <2>3. answers[c].task \in Tasks
    BY <2>2, Facts DEF FilesSound, Types
  <2>4. \A q \in Procs : call'[q] = call[q] \/ call'[q].at # "insert"
    BY <2>2, <2>3, BegunKept DEF Everywhere, CollectPlaces, Lookups
  <2>5. NoInsert
    BY <2>2, <2>4 DEF NoInsert
  <2> QED
    BY <2>5, NoInsertOrdered
<1>4. CASE \/ \E p \in Procs : \E s \in Sessions : CreateRefused(p, s)
           \/ \E c \in Callbacks, answer \in Answers : RuntimeAnswers(c, answer)
           \/ \E c \in Callbacks : ResidueArchived(c)
  <2>1. messages' = messages /\ tasks' = tasks /\ call' = call
    BY <1>4 DEF CreateRefused, StartSession, RuntimeAnswers, ResidueArchived, transport, packets
  <2>2. NoInsert
    BY <2>1 DEF NoInsert
  <2> QED
    BY <2>2, NoInsertOrdered
<1>5. CASE \E p \in Procs :
             \/ Creation(p) \/ SendInvalid(p) \/ SendEnvelope(p) \/ Checking(p) \/ Settling(p)
             \/ ReportFile(p) \/ ReportNamed(p) \/ HermesCrash(p)
  <2>1. PICK p \in Procs :
          \/ Creation(p) \/ SendInvalid(p) \/ SendEnvelope(p) \/ Checking(p) \/ Settling(p)
          \/ ReportFile(p) \/ ReportNamed(p) \/ HermesCrash(p)
    BY <1>5
  <2>2. CASE Creation(p) \/ SendInvalid(p) \/ SendEnvelope(p)
    <3>1. messages' = messages /\ tasks' = tasks
      BY <2>2 DEF Creation, WriteTask, WriteQueued, SendInvalid, SendEnvelope, WriteEnvelope,
                  transport, packets
    <3>2. End(p) \/ Go(p, "write_state") \/ Go(p, "write_task") \/ Go(p, "archive")
      BY <2>2 DEF Creation, WriteTask, WriteQueued, SendInvalid, SendEnvelope
    <3>3. NoInsert
      BY <3>1, <3>2, CallKept DEF NoInsert
    <3> QED
      BY <3>3, NoInsertOrdered
  <2>3. CASE Checking(p)
    <3>1. messages' = messages /\ tasks' = tasks
      BY <2>3 DEF Checking, FindTask, LoadTask, ReplayBlocked, Validate, Quarantine,
                  WriteQuarantined, transport, packets
    <3>2. End(p) \/ \E place : place # "insert" /\ Go(p, place)
      <4>1. CASE Validate(p)
        <5>1. CASE Answer(p).fault = "route"
          BY <4>1, <5>1 DEF Validate
        <5>2. CASE Answer(p).fault = "operations"
          BY <4>1, <5>2 DEF Validate
        <5>3. CASE Answer(p).fault \notin {"route", "operations"}
          <6>1. Go(p, IF Answer(p).report THEN "report" ELSE "send")
            BY <4>1, <5>3 DEF Validate, Go
          <6> QED
            BY <6>1
        <5> QED
          BY <5>1, <5>2, <5>3
      <4>2. CASE FindTask(p) \/ LoadTask(p)
        BY <4>2 DEF FindTask, LoadTask
      <4>3. CASE ReplayBlocked(p) \/ Quarantine(p) \/ WriteQuarantined(p)
        BY <4>3 DEF ReplayBlocked, Quarantine, WriteQuarantined
      <4> QED
        BY <2>3, <4>1, <4>2, <4>3 DEF Checking
    <3>3. NoInsert
      BY <3>1, <3>2, CallKept DEF NoInsert
    <3> QED
      BY <3>3, NoInsertOrdered
  <2>4. CASE Settling(p)
    <3>1. messages' = messages /\ tasks' = tasks
      BY <2>4 DEF Settling, FindTaskFile, MoveTask, FindCallback, MoveCallback, MoveFails,
                  WriteCollected, CallbackIdMissing, transport, packets
    <3>2. \/ End(p) \/ Go(p, "move_task") \/ Go(p, "archive_callback")
          \/ Go(p, "move_callback") \/ Go(p, "settle")
      BY <2>4 DEF Settling, FindTaskFile, MoveTask, FindCallback, MoveCallback, MoveFails,
                  WriteCollected, CallbackIdMissing
    <3>3. NoInsert
      BY <3>1, <3>2, CallKept DEF NoInsert
    <3> QED
      BY <3>3, NoInsertOrdered
  <2>5. CASE ReportFile(p) \/ ReportNamed(p) \/ HermesCrash(p)
    <3>1. /\ messages' = messages /\ tasks' = tasks
          /\ End(p) \/ Go(p, "name_file") \/ Go(p, "send")
      BY <2>5 DEF ReportFile, ReportNamed, HermesCrash, transport, packets
    <3>2. NoInsert
      BY <3>1, CallKept DEF NoInsert
    <3> QED
      BY <3>2, NoInsertOrdered
  <2> QED
    BY <2>1, <2>2, <2>3, <2>4, <2>5
<1>6. CASE \E p \in Procs : \E r \in ReportIds : ReportRow(p, r)
  <2>1. PICK p \in Procs, r \in ReportIds : ReportRow(p, r)
    BY <1>6
  <2>2. /\ messages' = messages /\ tasks' = tasks
        /\ call' = [call EXCEPT ![p] = [call[p] EXCEPT !.at = "render", !.made = r]]
    BY <2>1 DEF ReportRow, transport, packets
  <2>3. [call[p] EXCEPT !.at = "render", !.made = r].at = "render"
    BY Facts DEF Calls
  <2>4. NoInsert
    BY <2>2, <2>3, Facts DEF NoInsert
  <2> QED
    BY <2>4, NoInsertOrdered
<1> QED
  BY <1>1, <1>2, <1>3, <1>4, <1>5, <1>6 DEF HermesNext, HermesContinue, Sending, Reporting

------------------------------------------------------------------------------
(* The third layer *)

\* What Undisturbed(t) speaks of, but for the commands.
Same(t) ==
  /\ MessagesOf(t)' = MessagesOf(t) /\ ReportsOf(t)' = ReportsOf(t)
  /\ taskState'[t].callback = taskState[t].callback
  /\ t \in queue' <=> t \in queue
  /\ t \in archive' <=> t \in archive

\* The same commands are busy with t, and where they were.
SameCommands(t) ==
  \A q \in Procs :
    /\ call'[q].op # "idle" /\ call'[q].task = t <=> call[q].op # "idle" /\ call[q].task = t
    /\ call[q].op # "idle" /\ call[q].task = t => call'[q] = call[q]

LEMMA SameKnows ==
  ASSUME NEW t, Same(t), NEW x, Knows(x, t)
  PROVE  Knows(x, t)'
BY DEF Same, Knows, Unnamed, Unmade

\* What is known of a command is known of what it is doing after the step.
LEMMA KnowsNext ==
  ASSUME NEW t, NEW p \in Procs, NEW y, call'[p] = y, Knows(y, t)'
  PROVE  Knows(call[p], t)'
BY DEF Knows, Unnamed, Unmade, MessagesOf, ReportsOf, Answered, Reported

LEMMA OthersOnce ==
  ASSUME NEW t \in Tasks, Same(t), SameCommands(t), Undisturbed(t)
  PROVE  Undisturbed(t)'
<1>1. ASSUME NEW q \in Procs, Works(q, t)'
      PROVE  Works(q, t) /\ Knows(call[q], t)'
  <2>1. Works(q, t) /\ call'[q] = call[q]
    BY <1>1 DEF SameCommands, Works, Busy
  <2>2. PICK x : x = call[q] /\ Knows(x, t)
    BY <2>1 DEF Undisturbed
  <2>3. Knows(x, t)'
    BY <2>2, SameKnows
  <2> QED
    BY <2>1, <2>2, <2>3, KnowsNext
<1>2. AtMostOne(MessagesOf(t))' /\ AtMostOne(ReportsOf(t))'
  BY DEF Undisturbed, AtMostOne, Same
<1>3. ASSUME \A q \in Procs : ~Works(q, t)'
      PROVE  \A q \in Procs : ~Works(q, t)
  BY <1>3 DEF SameCommands, Works, Busy
<1>4. (\A q \in Procs : ~Works(q, t)') /\ Unnamed(t)' => Unmade(t)'
  BY <1>3 DEF Undisturbed, Same, Unnamed, Unmade
<1> QED
  BY <1>1, <1>2, <1>4 DEF Undisturbed

\* What is owed of a task whose command goes on, or ends.
Owed(y, t) ==
  /\ AtMostOne(MessagesOf(t)) /\ AtMostOne(ReportsOf(t))
  /\ y.op # "idle" => Knows(y, t)
  /\ y.op = "idle" /\ Unnamed(t) => Unmade(t)

\* The command alone at its task.
LEMMA AloneOnce ==
  ASSUME NEW t \in Tasks, NEW p \in Procs, NEW y,
         \A q \in Procs \ {p} : ~Works(q, t)',
         call'[p] = y, y.op # "idle" => y.task = t, Owed(y, t)'
  PROVE  Undisturbed(t)'
<1>1. ASSUME NEW q \in Procs, Works(q, t)'
      PROVE  q = p /\ Knows(call[q], t)'
  <2>1. q = p
    BY <1>1
  <2>2. y.op # "idle"
    BY <1>1, <2>1 DEF Works, Busy
  <2>3. Knows(y, t)'
    BY <2>2 DEF Owed
  <2> QED
    BY <2>1, <2>3, KnowsNext
<1>2. (\A q \in Procs : ~Works(q, t)') /\ Unnamed(t)' => Unmade(t)'
  BY DEF Owed, Works, Busy
<1>3. AtMostOne(MessagesOf(t))' /\ AtMostOne(ReportsOf(t))'
  BY DEF Owed
<1> QED
  BY <1>1, <1>2, <1>3 DEF Undisturbed

\* The step of a command at its task.
LEMMA StepOnce ==
  ASSUME Basic, Once, disturbed \subseteq disturbed',
         NEW p \in Procs, Busy(p), NEW u, u = call[p].task,
         NEW y, call' = [call EXCEPT ![p] = y], y.op # "idle" => y.task = u,
         \A t \in Tasks \ {u} : Same(t),
         u \notin disturbed' => Owed(y, u)'
  PROVE  Once'
<1> SUFFICES ASSUME NEW t \in Tasks, t \notin disturbed'
             PROVE  Undisturbed(t)'
  BY DEF Once
<1>1. Undisturbed(t)
  BY DEF Once
<1>2. \A q \in Procs : call'[q] = IF q = p THEN y ELSE call[q]
  BY Facts
<1>3. CASE t = u
  <2>1. \A q \in Procs \ {p} : ~Works(q, t)
    BY <1>1, <1>3 DEF Undisturbed, Works
  <2>2. \A q \in Procs \ {p} : ~Works(q, t)'
    BY <1>2, <2>1 DEF Works, Busy
  <2>3. Owed(y, t)'
    BY <1>3
  <2> QED
    BY <1>2, <1>3, <2>2, <2>3, AloneOnce
<1>4. CASE t # u
  <2>1. SameCommands(t)
    BY <1>2, <1>4 DEF SameCommands, Busy
  <2> QED
    BY <1>1, <1>4, <2>1, OthersOnce
<1> QED
  BY <1>3, <1>4

\* What the command knows of its task where nothing disturbed it.
LEMMA UndisturbedFacts ==
  ASSUME Basic, Once, NEW p \in Procs, Busy(p), call[p].task \notin disturbed
  PROVE  /\ call[p].task \in Tasks /\ Knows(call[p], call[p].task)
         /\ AtMostOne(MessagesOf(call[p].task)) /\ AtMostOne(ReportsOf(call[p].task))
BY BusyFacts DEF Once, Undisturbed, Works

LEMMA SameAll ==
  ASSUME UNCHANGED <<reports, messages, queue, archive, taskState, answers>>
  PROVE  \A t : Same(t)
BY DEF Same, MessagesOf, ReportsOf, Answered, Reported

\* A step that changes nothing of this but what its command is doing.
LEMMA QuietOnce ==
  ASSUME Basic, Once, disturbed \subseteq disturbed', \A u : Same(u),
         NEW p \in Procs, Busy(p), NEW t, t = call[p].task,
         NEW y, call' = [call EXCEPT ![p] = y], y.op # "idle" => y.task = t,
         t \notin disturbed' =>
           /\ y.op # "idle" => Knows(y, t)
           /\ y.op = "idle" /\ Unnamed(t) => Unmade(t)
  PROVE  Once'
<1>1. Same(t) /\ \A u \in Tasks : Same(u)
  OBVIOUS
<1>2. ASSUME t \notin disturbed'
      PROVE  Owed(y, t)'
  <2>1. AtMostOne(MessagesOf(t)) /\ AtMostOne(ReportsOf(t))
    BY <1>2, UndisturbedFacts
  <2>2. y.op # "idle" => Knows(y, t)'
    BY <1>1, <1>2, SameKnows
  <2>3. y.op = "idle" /\ Unnamed(t)' => Unmade(t)'
    BY <1>1, <1>2 DEF Same, Unnamed, Unmade
  <2> QED
    BY <1>1, <2>1, <2>2, <2>3 DEF Owed, Same, AtMostOne
<1> QED
  BY <1>1, <1>2, StepOnce

\* Where a command that collects asks nothing more of its task.
LEMMA NothingKnown ==
  ASSUME NEW x, x.op = "collect", x.at \in AfterSend \cup {"envelope"}, NEW t
  PROVE  Knows(x, t)
BY DEF Knows, AfterSend, Archived, Refusals, Lookups

\* A command that dies or stops half way disturbs its task; one that finds it was
\* collected does not.
LEMMA StopsOnce ==
  ASSUME Basic, Once, NEW p \in Procs, Stops(p)
  PROVE  Once'
<1>1. /\ End(p) /\ Busy(p)
      /\ UNCHANGED <<reports, messages, queue, archive, taskState, answers>>
      /\ disturbed' = disturbed \cup {call[p].task} \/ (disturbed' = disturbed /\ Replayed(p))
  BY DEF Stops, SendInvalid, ReplayBlocked, MoveFails, CallbackIdMissing, HermesCrash, At, Disturb,
         mailbox, transport, packets, callbackFiles, ghosts
<1>2. PICK t : t = call[p].task
  OBVIOUS
<1>3. t \notin disturbed' => ~Unnamed(t)
  BY <1>1, <1>2 DEF Replayed, Unnamed
<1>4. \A u : Same(u)
  BY <1>1, SameAll
<1>5. call' = [call EXCEPT ![p] = Idle] /\ Idle.op = "idle"
  BY <1>1, IdleFits DEF End
<1> QED
  BY <1>1, <1>2, <1>3, <1>4, <1>5, QuietOnce

\* A command that goes on to a place where it knows what it did, or nothing.
LEMMA GoesOnce ==
  ASSUME Basic, Once, NEW p \in Procs, Busy(p), disturbed' = disturbed,
         UNCHANGED <<reports, messages, queue, archive, taskState, answers>>,
         NEW place \in Everywhere, Go(p, place),
         \A t : t = call[p].task /\ t \notin disturbed => Knows(Going(call[p], place), t)
  PROVE  Once'
<1> DEFINE z == Going(call[p], place)
<1>1. PICK t : t = call[p].task
  OBVIOUS
<1>2. PICK y : y = z /\ y.task = t /\ (t \notin disturbed => Knows(y, t)) /\ y.op = call[p].op
  BY <1>1, Facts, GoingCall
<1>3. call' = [call EXCEPT ![p] = z]
  BY GoGoing
<1> HIDE DEF z
<1>4. y.op # "idle"
  BY <1>2 DEF Busy
<1>5. \A u : Same(u)
  BY SameAll
<1> QED
  BY <1>1, <1>2, <1>3, <1>4, <1>5, QuietOnce

\* The task's file is found where it is: nobody else moves it.
LEMMA FindTaskOnce ==
  ASSUME Basic, Once, NEW p \in Procs, FindTask(p)
  PROVE  Once'
<1>1. /\ Collecting(p) /\ Busy(p) /\ call[p].at = "find"
      /\ disturbed' = disturbed
      /\ UNCHANGED <<reports, messages, queue, archive, taskState, answers>>
  BY AtCollects DEF FindTask, CreatePlaces, SendPlaces, mailbox, transport, packets, callbackFiles,
                    ghosts
<1>2. PICK place \in {"load_queued", "load_archived"} :
        /\ Go(p, place)
        /\ place = "load_queued" <=> call[p].task \in queue
  BY DEF FindTask
<1>3. place \in Everywhere
  BY DEF Everywhere, CollectPlaces, Lookups
<1>4. ASSUME NEW t, t = call[p].task, t \notin disturbed
      PROVE  Knows(Going(call[p], place), t)
  <2> DEFINE z == Going(call[p], place)
  <2>1. z.op = "collect" /\ z.at = place
    BY <1>1, <1>3, Facts, GoingCall DEF Collecting
  <2> HIDE DEF z
  <2>2. /\ call[p].op = "collect" /\ call[p].at \in Lookups /\ Knows(call[p], t)
        /\ t \in queue \cup archive
    BY <1>1, <1>4, BusyFacts, UndisturbedFacts DEF Collecting, Lookups
  <2>3. Unnamed(t) => Unmade(t)
    BY <2>2 DEF Knows
  <2>4. Knows(z, t)
    BY <1>2, <1>4, <2>1, <2>2, <2>3 DEF Knows, Refusals
  <2> QED
    BY <2>4 DEF z
<1> QED
  BY <1>1, <1>2, <1>3, <1>4, GoesOnce

LEMMA LoadTaskOnce ==
  ASSUME Basic, Once, NEW p \in Procs, LoadTask(p)
  PROVE  Once'
<1>1. /\ Collecting(p) /\ Busy(p) /\ disturbed' = disturbed
      /\ UNCHANGED <<reports, messages, queue, archive, taskState, answers>>
  BY AtCollects DEF LoadTask, CreatePlaces, SendPlaces, mailbox, transport, packets, callbackFiles,
                    ghosts
<1>2. PICK place \in {"check", "quarantine"} :
        /\ Go(p, place)
        /\ \/ call[p].at = "load_queued" /\ (place = "check" <=> call[p].task \in queue)
           \/ call[p].at = "load_archived" /\ (place = "check" <=> call[p].task \in archive)
  BY DEF LoadTask, At
<1>3. place \in Everywhere
  BY DEF Everywhere, CollectPlaces, Lookups, Refusals
<1>4. ASSUME NEW t, t = call[p].task, t \notin disturbed
      PROVE  Knows(Going(call[p], place), t)
  <2> DEFINE z == Going(call[p], place)
  <2>1. z.op = "collect" /\ z.at = place
    BY <1>1, <1>3, Facts, GoingCall DEF Collecting
  <2> HIDE DEF z
  <2>2. call[p].op = "collect" /\ call[p].at \in Lookups /\ Knows(call[p], t)
    BY <1>1, <1>2, <1>4, UndisturbedFacts DEF Collecting, Lookups
  <2>3. /\ place = "check"
        /\ Unnamed(t) => Unmade(t)
    BY <1>2, <1>4, <2>2 DEF Knows
  <2>4. Knows(z, t)
    BY <2>1, <2>3 DEF Knows, Refusals
  <2> QED
    BY <2>4 DEF z
<1> QED
  BY <1>1, <1>2, <1>3, <1>4, GoesOnce

\* Past the replay check, nothing was made of an answer.
LEMMA ValidateOnce ==
  ASSUME Basic, Once, NEW p \in Procs, Validate(p)
  PROVE  Once'
<1>1. /\ Collecting(p) /\ Busy(p) /\ call[p].at = "check" /\ ~Replayed(p)
      /\ disturbed' = disturbed
      /\ UNCHANGED <<reports, messages, queue, archive, taskState, answers>>
  BY AtCollects DEF Validate, CreatePlaces, SendPlaces, mailbox, transport, packets, callbackFiles,
                    ghosts
<1>2. ASSUME NEW t, t = call[p].task, t \notin disturbed
      PROVE  Unnamed(t) /\ Unmade(t)
  <2>1. call[p].op = "collect" /\ call[p].at \in Lookups /\ Knows(call[p], t) /\ Unnamed(t)
    BY <1>1, <1>2, UndisturbedFacts DEF Collecting, Lookups, Replayed, Unnamed
  <2> QED
    BY <2>1 DEF Knows
<1>3. End(p) \/ \E place \in {"quarantine", "report", "send"} : Go(p, place)
  <2>1. CASE Answer(p).fault = "route"
    BY <2>1 DEF Validate
  <2>2. CASE Answer(p).fault = "operations"
    BY <2>2 DEF Validate
  <2>3. CASE Answer(p).fault \notin {"route", "operations"}
    <3>1. Go(p, IF Answer(p).report THEN "report" ELSE "send")
      BY <2>3 DEF Validate, Go
    <3> QED
      BY <3>1
  <2> QED
    BY <2>1, <2>2, <2>3
<1>4. CASE End(p)
  <2>1. PICK t : t = call[p].task
    OBVIOUS
  <2>2. call' = [call EXCEPT ![p] = Idle] /\ Idle.op = "idle" /\ \A u : Same(u)
    BY <1>1, <1>4, IdleFits, SameAll DEF End
  <2> QED
    BY <1>1, <1>2, <2>1, <2>2, QuietOnce
<1>5. CASE \E place \in {"quarantine", "report", "send"} : Go(p, place)
  <2>1. PICK place \in {"quarantine", "report", "send"} : Go(p, place)
    BY <1>5
  <2>2. place \in Everywhere
    BY DEF Everywhere, CollectPlaces, Refusals, ReportPlaces, SendPlaces
  <2>3. ASSUME NEW t, t = call[p].task, t \notin disturbed
        PROVE  Knows(Going(call[p], place), t)
    <3> DEFINE z == Going(call[p], place)
    <3>1. z.op = "collect" /\ z.at = place
      BY <1>1, <2>2, Facts, GoingCall DEF Collecting
    <3> HIDE DEF z
    <3>2. Unnamed(t) /\ Unmade(t)
      BY <1>2, <2>3
    <3>3. Knows(z, t)
      BY <3>1, <3>2 DEF Knows, Unmade
    <3> QED
      BY <3>3 DEF z
  <2> QED
    BY <1>1, <2>1, <2>2, <2>3, GoesOnce
<1> QED
  BY <1>3, <1>4, <1>5

LEMMA QuarantineOnce ==
  ASSUME Basic, Once, NEW p \in Procs, Quarantine(p)
  PROVE  Once'
<1>1. /\ Collecting(p) /\ Busy(p) /\ call[p].at = "quarantine"
      /\ disturbed' = disturbed
      /\ UNCHANGED <<reports, messages, queue, archive, taskState, answers>>
  BY AtCollects DEF Quarantine, CreatePlaces, SendPlaces, mailbox, transport, packets, ghosts
<1>2. ASSUME NEW t, t = call[p].task, t \notin disturbed
      PROVE  Unnamed(t) /\ Unmade(t)
  BY <1>1, <1>2, UndisturbedFacts DEF Knows, Refusals
<1>3. Go(p, "quarantine_state") \/ End(p)
  BY DEF Quarantine
<1>4. CASE End(p)
  <2>1. PICK t : t = call[p].task
    OBVIOUS
  <2>2. call' = [call EXCEPT ![p] = Idle] /\ Idle.op = "idle" /\ \A u : Same(u)
    BY <1>1, <1>4, IdleFits, SameAll DEF End
  <2> QED
    BY <1>1, <1>2, <2>1, <2>2, QuietOnce
<1>5. CASE Go(p, "quarantine_state")
  <2> DEFINE z == Going(call[p], "quarantine_state")
  <2>1. "quarantine_state" \in Everywhere
    BY DEF Everywhere, CollectPlaces, Refusals
  <2>2. z.op = "collect" /\ z.at = "quarantine_state"
    BY <1>1, <2>1, Facts, GoingCall DEF Collecting
  <2> HIDE DEF z
  <2>3. ASSUME NEW t, t = call[p].task, t \notin disturbed
        PROVE  Knows(z, t)
    BY <1>2, <2>2, <2>3 DEF Knows
  <2> QED
    BY <1>1, <1>5, <2>1, <2>3, GoesOnce DEF z
<1> QED
  BY <1>3, <1>4, <1>5

LEMMA ReadSequenceOnce ==
  ASSUME Basic, Once, NEW p \in Procs, ReadSequence(p)
  PROVE  Once'
<1> DEFINE z == [call[p] EXCEPT !.at = "insert", !.sequence = NextSequence(SessionOf(p)),
                                !.after = Len(messages)]
<1>1. /\ Busy(p) /\ call[p].at = "send" /\ disturbed' = disturbed
      /\ UNCHANGED <<reports, messages, queue, archive, taskState, answers>>
      /\ call' = [call EXCEPT ![p] = z]
  BY DEF ReadSequence, At, mailbox, transport, packets, callbackFiles, ghosts
<1>2. PICK t : t = call[p].task
  OBVIOUS
<1>3. z.at = "insert" /\ z.op = call[p].op /\ z.task = t
  BY <1>2, Facts DEF Calls
<1>4. PICK y : y = z
  OBVIOUS
<1> HIDE DEF z
<1>5. ASSUME t \notin disturbed
      PROVE  Knows(y, t)
  <2>1. Knows(call[p], t)
    BY <1>1, <1>2, <1>5, UndisturbedFacts
  <2> QED
    BY <1>1, <1>3, <1>4, <2>1 DEF Knows, Refusals, Lookups
<1>6. \A u : Same(u)
  BY <1>1, SameAll
<1>7. y.op # "idle"
  BY <1>1, <1>3, <1>4 DEF Busy
<1> QED
  BY <1>1, <1>2, <1>3, <1>4, <1>5, <1>6, <1>7, QuietOnce

\* The one message of a task's answers; a message about its intent is none of them.
LEMMA SendInsertOnce ==
  ASSUME Basic, Once, NEW p \in Procs, SendInsert(p)
  PROVE  Once'
<1>1. /\ Busy(p) /\ call[p].at = "insert" /\ disturbed' = disturbed
      /\ UNCHANGED <<reports, queue, archive, taskState, answers>>
  BY InsertFacts
<1>2. PICK m \in MessageRows : messages' = Append(messages, m) /\ m.about = About(p)
  BY InsertFacts
<1>3. PICK y \in Calls :
        /\ call' = [call EXCEPT ![p] = y]
        /\ y.at = "envelope" /\ y.op = call[p].op /\ y.task = call[p].task
  BY InsertFacts
<1>4. PICK n : n = Len(messages) + 1
  OBVIOUS
<1>5. /\ DOMAIN messages' = DOMAIN messages \cup {n}
      /\ \A i \in DOMAIN messages : messages'[i] = messages[i]
      /\ messages'[n] = m
  <2>1. Len(messages) \in Nat
    BY Facts DEF Types
  <2> QED
    BY <1>2, <1>4, <2>1, Appended
<1>6. PICK t : t = call[p].task
  OBVIOUS
<1>7. \A u : MessagesOf(u)' = MessagesOf(u) \cup
                 {i \in {n} : \E c \in Callbacks : Answered(u, c) /\ m.about = ReportOf(c)}
  BY <1>1, <1>5 DEF MessagesOf, Answered
<1>8. \A u : u # t => MessagesOf(u)' = MessagesOf(u)
  <2> SUFFICES ASSUME NEW u, NEW c \in Callbacks, Answered(u, c), m.about = ReportOf(c)
               PROVE  u = t
    BY <1>7
  <2>1. call[p].op = "collect" /\ call[p].callback = c
    BY <1>1, <1>2, BusyFacts DEF About, Creating, IntentOf, ReportOf
  <2> QED
    BY <1>1, <1>6, <2>1, BusyFacts DEF Answered
<1>9. ASSUME call[p].op = "create"
      PROVE  MessagesOf(t)' = MessagesOf(t)
  <2>1. \A c \in Callbacks : m.about # ReportOf(c)
    BY <1>2, <1>9 DEF About, Creating, IntentOf, ReportOf
  <2> QED
    BY <1>7, <2>1
<1>10. \A u : ReportsOf(u)' = ReportsOf(u)
  BY <1>1 DEF ReportsOf, Reported
<1>11. \A u \in Tasks \ {t} : Same(u)
  BY <1>1, <1>8, <1>10 DEF Same
<1>12. ASSUME t \notin disturbed'
       PROVE  Owed(y, t)'
  <2>1. /\ Knows(call[p], t) /\ AtMostOne(MessagesOf(t)) /\ AtMostOne(ReportsOf(t))
    BY <1>1, <1>6, <1>12, UndisturbedFacts
  <2>2. call[p].op \in {"create", "collect"}
    BY <1>1, BusyFacts
  <2>3. AtMostOne(ReportsOf(t))'
    BY <1>10, <2>1 DEF AtMostOne
  <2>4. CASE call[p].op = "create"
    <3>1. Unnamed(t) /\ Unmade(t)
      BY <2>1, <2>4 DEF Knows
    <3>2. Unnamed(t)' /\ Unmade(t)'
      BY <1>1, <1>9, <1>10, <2>4, <3>1 DEF Unnamed, Unmade
    <3>3. Knows(y, t)'
      BY <1>3, <2>4, <3>2 DEF Knows
    <3> QED
      BY <1>3, <2>3, <2>4, <3>2, <3>3 DEF Owed, Unmade, AtMostOne
  <2>5. CASE call[p].op = "collect"
    <3>1. MessagesOf(t) = {}
      BY <1>1, <2>1, <2>5 DEF Knows
    <3>2. AtMostOne(MessagesOf(t))'
      BY <1>7, <3>1 DEF AtMostOne
    <3>3. Knows(y, t)'
      BY <1>3, <2>5 DEF Knows, Refusals, Lookups
    <3> QED
      BY <1>3, <2>3, <2>5, <3>2, <3>3 DEF Owed
  <2> QED
    BY <2>2, <2>4, <2>5
<1>13. y.op # "idle" => y.task = t
  BY <1>3, <1>6
<1> QED
  BY <1>1, <1>3, <1>6, <1>11, <1>12, <1>13, StepOnce

LEMMA SendEnvelopeOnce ==
  ASSUME Basic, Once, NEW p \in Procs, SendEnvelope(p)
  PROVE  Once'
<1>1. /\ Busy(p) /\ call[p].at = "envelope" /\ disturbed' = disturbed
      /\ UNCHANGED <<reports, messages, queue, archive, taskState, answers>>
  BY DEF SendEnvelope, WriteEnvelope, At, mailbox, packets, callbackFiles, ghosts
<1>2. PICK place \in {"write_task", "archive"} :
        Go(p, place) /\ (call[p].op = "create" <=> place = "write_task")
  BY DEF SendEnvelope, Creating
<1>3. place \in Everywhere
  BY DEF Everywhere, CollectPlaces, CreatePlaces, AfterSend
<1>4. ASSUME NEW t, t = call[p].task, t \notin disturbed
      PROVE  Knows(Going(call[p], place), t)
  <2> DEFINE z == Going(call[p], place)
  <2>1. z.op = call[p].op /\ z.at = place
    BY <1>3, Facts, GoingCall
  <2> HIDE DEF z
  <2>2. Knows(call[p], t) /\ call[p].op \in {"create", "collect"}
    BY <1>1, <1>4, BusyFacts, UndisturbedFacts
  <2>3. Knows(z, t)
    BY <1>2, <2>1, <2>2 DEF Knows, Refusals, Lookups
  <2> QED
    BY <2>3 DEF z
<1> QED
  BY <1>1, <1>2, <1>3, <1>4, GoesOnce

\* On the way to the task state.
LEMMA SettlingOnce ==
  ASSUME Basic, Once, NEW p \in Procs, Busy(p), Collecting(p), disturbed' = disturbed,
         UNCHANGED <<reports, messages, queue, archive, taskState, answers>>,
         NEW place \in AfterSend, Go(p, place)
  PROVE  Once'
<1>1. place \in Everywhere
  BY DEF Everywhere, CollectPlaces
<1>2. ASSUME NEW t, t = call[p].task, t \notin disturbed
      PROVE  Knows(Going(call[p], place), t)
  <2>1. Going(call[p], place).op = "collect" /\ Going(call[p], place).at = place
    BY <1>1, Facts, GoingCall DEF Collecting
  <2> QED
    BY <2>1, NothingKnown
<1> QED
  BY <1>1, <1>2, GoesOnce

LEMMA FindTaskFileOnce ==
  ASSUME Basic, Once, NEW p \in Procs, FindTaskFile(p)
  PROVE  Once'
<1>1. /\ Collecting(p) /\ Busy(p) /\ disturbed' = disturbed
      /\ UNCHANGED <<reports, messages, queue, archive, taskState, answers>>
  BY AtCollects DEF FindTaskFile, CreatePlaces, SendPlaces, mailbox, transport, packets,
                    callbackFiles, ghosts
<1>2. PICK place \in AfterSend : Go(p, place)
  BY DEF FindTaskFile, AfterSend, Archived
<1> QED
  BY <1>1, <1>2, SettlingOnce

LEMMA FindCallbackOnce ==
  ASSUME Basic, Once, NEW p \in Procs, FindCallback(p)
  PROVE  Once'
<1>1. /\ Collecting(p) /\ Busy(p) /\ disturbed' = disturbed
      /\ UNCHANGED <<reports, messages, queue, archive, taskState, answers>>
  BY AtCollects DEF FindCallback, CreatePlaces, SendPlaces, mailbox, transport, packets,
                    callbackFiles, ghosts
<1>2. PICK place \in AfterSend : Go(p, place)
  BY DEF FindCallback, AfterSend, Archived
<1> QED
  BY <1>1, <1>2, SettlingOnce

LEMMA MoveCallbackOnce ==
  ASSUME Basic, Once, NEW p \in Procs, MoveCallback(p)
  PROVE  Once'
<1>1. /\ Collecting(p) /\ Busy(p) /\ disturbed' = disturbed
      /\ UNCHANGED <<reports, messages, queue, archive, taskState, answers>>
  BY AtCollects DEF MoveCallback, CreatePlaces, SendPlaces, mailbox, transport, packets, ghosts
<1>2. PICK place \in AfterSend : Go(p, place)
  BY DEF MoveCallback, AfterSend, Archived
<1> QED
  BY <1>1, <1>2, SettlingOnce

\* The task's file moves; of the other tasks nothing changes.
LEMMA MoveTaskOnce ==
  ASSUME Basic, Once, NEW p \in Procs, MoveTask(p)
  PROVE  Once'
<1> DEFINE z == Going(call[p], "archive_callback")
<1>1. Collecting(p) /\ Busy(p)
  BY AtCollects DEF MoveTask, CreatePlaces, SendPlaces
<1>2. PICK t : t = call[p].task
  OBVIOUS
<1>3. /\ UNCHANGED <<reports, messages, taskState, answers, disturbed>>
      /\ call' = [call EXCEPT ![p] = z]
      /\ queue' = queue \ {t} /\ archive' = archive \cup {t}
  BY <1>2, GoGoing DEF MoveTask, mailbox, transport, callbackFiles, ghosts
<1>4. "archive_callback" \in Everywhere /\ "archive_callback" \in AfterSend
  BY DEF Everywhere, CollectPlaces, AfterSend, Archived
<1>5. PICK y : y = z /\ y.op = "collect" /\ y.at = "archive_callback" /\ y.task = t
  BY <1>1, <1>2, <1>4, Facts, GoingCall DEF Collecting
<1> HIDE DEF z
<1>6. \A u : MessagesOf(u)' = MessagesOf(u) /\ ReportsOf(u)' = ReportsOf(u)
  BY <1>3 DEF MessagesOf, ReportsOf, Answered, Reported
<1>7. \A u \in Tasks \ {t} : Same(u)
  BY <1>3, <1>6 DEF Same
<1>8. ASSUME t \notin disturbed'
      PROVE  Owed(y, t)'
  <2>1. AtMostOne(MessagesOf(t)) /\ AtMostOne(ReportsOf(t))
    BY <1>1, <1>2, <1>3, <1>8, UndisturbedFacts
  <2>2. Knows(y, t)'
    BY <1>4, <1>5 DEF Knows, Refusals, Lookups
  <2> QED
    BY <1>5, <1>6, <2>1, <2>2 DEF Owed, AtMostOne
<1> QED
  BY <1>1, <1>2, <1>3, <1>5, <1>7, <1>8, StepOnce

LEMMA WriteTaskOnce ==
  ASSUME Basic, Once, NEW p \in Procs, WriteTask(p)
  PROVE  Once'
<1> DEFINE z == Going(call[p], "write_state")
<1>1. PICK t : t = call[p].task
  OBVIOUS
<1>2. /\ Busy(p) /\ call[p].at = "write_task"
      /\ UNCHANGED <<reports, messages, archive, taskState, answers, disturbed>>
      /\ call' = [call EXCEPT ![p] = z] /\ queue' = queue \cup {t}
  BY <1>1, GoGoing DEF WriteTask, At, mailbox, transport, callbackFiles, ghosts
<1>3. call[p].op = "create"
  BY <1>2, BusyFacts
     DEF CollectPlaces, Lookups, Refusals, ReportPlaces, SendPlaces, AfterSend, Archived
<1>4. PICK y : y = z /\ y.op = "create" /\ y.at = "write_state" /\ y.task = t
  BY <1>1, <1>3, Facts, GoingCall DEF Everywhere, CreatePlaces
<1> HIDE DEF z
<1>5. \A u : MessagesOf(u)' = MessagesOf(u) /\ ReportsOf(u)' = ReportsOf(u)
  BY <1>2 DEF MessagesOf, ReportsOf, Answered, Reported
<1>6. \A u \in Tasks \ {t} : Same(u)
  BY <1>2, <1>5 DEF Same
<1>7. ASSUME t \notin disturbed'
      PROVE  Owed(y, t)'
  <2>1. /\ AtMostOne(MessagesOf(t)) /\ AtMostOne(ReportsOf(t))
        /\ Unnamed(t) /\ Unmade(t)
    BY <1>1, <1>2, <1>3, <1>7, UndisturbedFacts DEF Knows
  <2>2. Unnamed(t)' /\ Unmade(t)'
    BY <1>2, <1>5, <2>1 DEF Unnamed, Unmade
  <2>3. Knows(y, t)'
    BY <1>4, <2>2 DEF Knows
  <2> QED
    BY <1>4, <1>5, <2>1, <2>3 DEF Owed, AtMostOne
<1> QED
  BY <1>1, <1>2, <1>4, <1>6, <1>7, StepOnce

\* A task state is written last: the command ends.
LEMMA EndsOnce ==
  ASSUME Basic, Once, NEW p \in Procs, Busy(p), End(p), NEW t, t = call[p].task, NEW st,
         taskState' = [taskState EXCEPT ![t] = st],
         UNCHANGED <<reports, messages, queue, archive, answers, disturbed>>,
         t \notin disturbed => st.callback # None \/ Unmade(t)
  PROVE  Once'
<1>1. call' = [call EXCEPT ![p] = Idle]
  BY DEF End
<1>2. \A u : MessagesOf(u)' = MessagesOf(u) /\ ReportsOf(u)' = ReportsOf(u)
  BY DEF MessagesOf, ReportsOf, Answered, Reported
<1>3. t \in Tasks /\ \A u \in Tasks : taskState'[u] = IF u = t THEN st ELSE taskState[u]
  BY BusyFacts, Facts DEF Types
<1>4. \A u \in Tasks \ {t} : Same(u)
  BY <1>2, <1>3 DEF Same
<1>5. ASSUME t \notin disturbed'
      PROVE  Owed(Idle, t)'
  <2>1. AtMostOne(MessagesOf(t)) /\ AtMostOne(ReportsOf(t))
    BY <1>5, UndisturbedFacts
  <2>2. Unnamed(t)' => Unmade(t)'
    BY <1>2, <1>3, <1>5 DEF Unnamed, Unmade
  <2>3. AtMostOne(MessagesOf(t))' /\ AtMostOne(ReportsOf(t))'
    BY <1>2, <2>1 DEF AtMostOne
  <2> QED
    BY <2>2, <2>3, IdleFits DEF Owed
<1>6. PICK y : y = Idle
  OBVIOUS
<1>7. t \notin disturbed' => Owed(y, t)'
  BY <1>5, <1>6 DEF Owed, Idle
<1>8. y.op = "idle"
  BY <1>6, IdleFits
<1> QED
  BY <1>1, <1>4, <1>6, <1>7, <1>8, StepOnce

LEMMA WriteQueuedOnce ==
  ASSUME Basic, Once, NEW p \in Procs, WriteQueued(p)
  PROVE  Once'
<1>1. PICK t : t = call[p].task
  OBVIOUS
<1>2. PICK st : st = [status |-> "queued", callback |-> None]
  OBVIOUS
<1>3. /\ Busy(p) /\ call[p].op = "create" /\ End(p)
      /\ taskState' = [taskState EXCEPT ![t] = st]
      /\ UNCHANGED <<reports, messages, queue, archive, answers, disturbed>>
  BY <1>1, <1>2 DEF WriteQueued, At, Creating, mailbox, transport, callbackFiles, ghosts
<1>4. t \notin disturbed => Unmade(t)
  BY <1>1, <1>3, UndisturbedFacts DEF Knows
<1> QED
  BY <1>1, <1>3, <1>4, EndsOnce

LEMMA WriteQuarantinedOnce ==
  ASSUME Basic, Once, NEW p \in Procs, WriteQuarantined(p)
  PROVE  Once'
<1>1. PICK t : t = call[p].task
  OBVIOUS
<1>2. PICK st : st = [status |-> "quarantined", callback |-> None]
  OBVIOUS
<1>3. /\ Busy(p) /\ call[p].at = "quarantine_state" /\ End(p)
      /\ taskState' = [taskState EXCEPT ![t] = st]
      /\ UNCHANGED <<reports, messages, queue, archive, answers, disturbed>>
  BY <1>1, <1>2 DEF WriteQuarantined, At, mailbox, transport, callbackFiles, ghosts
<1>4. t \notin disturbed => Unmade(t)
  BY <1>1, <1>3, UndisturbedFacts DEF Knows, Refusals
<1> QED
  BY <1>1, <1>3, <1>4, EndsOnce

LEMMA WriteCollectedOnce ==
  ASSUME Basic, Once, NEW p \in Procs, WriteCollected(p)
  PROVE  Once'
<1>1. PICK t, c : t = call[p].task /\ c = call[p].callback
  OBVIOUS
<1>2. PICK st : st = [status |-> "collected", callback |-> c]
  OBVIOUS
<1>3. /\ Busy(p) /\ Collecting(p) /\ End(p)
      /\ taskState' = [taskState EXCEPT ![t] = st]
      /\ UNCHANGED <<reports, messages, queue, archive, answers, disturbed>>
  BY <1>1, <1>2, AtCollects DEF WriteCollected, CreatePlaces, SendPlaces, mailbox, transport,
                                callbackFiles, ghosts
<1>4. st.callback # None
  BY <1>1, <1>2, <1>3, BusyFacts, NoneAssumption DEF Collecting
<1> QED
  BY <1>1, <1>3, <1>4, EndsOnce

\* The report of an answer that passed the replay check is the task's first.
LEMMA ReportRowOnce ==
  ASSUME Basic, Once, NEW p \in Procs, NEW r \in ReportIds, ReportRow(p, r)
  PROVE  Once'
<1> DEFINE row == [status |-> "inbox", artifact |-> "none"]
           z == [call[p] EXCEPT !.at = "render", !.made = r]
<1>1. Collecting(p) /\ Busy(p) /\ call[p].at = "report"
  BY AtCollects DEF ReportRow, CreatePlaces, SendPlaces
<1>2. PICK t : t = call[p].task
  OBVIOUS
<1>3. /\ reports' = [reports EXCEPT ![r] = row] /\ r[1] = t
      /\ call' = [call EXCEPT ![p] = z]
      /\ UNCHANGED <<messages, queue, archive, taskState, answers, disturbed>>
  BY <1>2 DEF ReportRow, InsertReport, transport, packets, callbackFiles, ghosts
<1>4. row # NoReport
  BY NoReportAssumption DEF ReportRows, MailboxStates
<1>5. PICK y : y = z /\ y.at = "render" /\ y.op = "collect" /\ y.task = t /\ y.made = r
  <2>1. call[p] \in Calls /\ call[p].op = "collect"
    BY <1>1, Facts DEF Collecting
  <2>2. z.at = "render" /\ z.op = "collect" /\ z.task = t /\ z.made = r
    BY <1>2, <2>1 DEF Calls
  <2> QED
    BY <2>2
<1> HIDE DEF row, z
<1>6. \A q \in ReportIds : reports'[q] = IF q = r THEN row ELSE reports[q]
  BY <1>3, Facts DEF Types
<1>7. \A u : MessagesOf(u)' = MessagesOf(u)
  BY <1>3 DEF MessagesOf, Answered
<1>8. \A u : u # t => ReportsOf(u)' = ReportsOf(u)
  BY <1>3, <1>6 DEF ReportsOf, Reported
<1>9. ReportsOf(t)' \subseteq ReportsOf(t) \cup {r}
  BY <1>6 DEF ReportsOf, Reported
<1>10. \A u \in Tasks \ {t} : Same(u)
  BY <1>3, <1>7, <1>8 DEF Same
<1>11. ASSUME t \notin disturbed'
       PROVE  Owed(y, t)'
  <2>1. Unnamed(t) /\ Unmade(t)
    BY <1>1, <1>2, <1>3, <1>11, UndisturbedFacts DEF Knows
  <2>2. MessagesOf(t)' = {} /\ ReportsOf(t)' \subseteq {r}
    BY <1>7, <1>9, <2>1 DEF Unmade
  <2>3. Knows(y, t)'
    BY <1>5, <2>2 DEF Knows, Refusals, Lookups
  <2> QED
    BY <1>5, <2>2, <2>3 DEF Owed, AtMostOne
<1> QED
  BY <1>1, <1>2, <1>3, <1>5, <1>10, <1>11, StepOnce

LEMMA ReportFileOnce ==
  ASSUME Basic, Once, NEW p \in Procs, ReportFile(p)
  PROVE  Once'
<1>1. /\ Collecting(p) /\ Busy(p) /\ call[p].at = "render" /\ disturbed' = disturbed
      /\ UNCHANGED <<reports, messages, queue, archive, taskState, answers>>
      /\ Go(p, "name_file")
  BY AtCollects DEF ReportFile, RenderReport, CreatePlaces, SendPlaces, transport, packets,
                    callbackFiles, ghosts
<1>2. "name_file" \in Everywhere
  BY DEF Everywhere, CollectPlaces, ReportPlaces
<1>3. ASSUME NEW t, t = call[p].task, t \notin disturbed
      PROVE  Knows(Going(call[p], "name_file"), t)
  <2> DEFINE z == Going(call[p], "name_file")
  <2>1. z.op = "collect" /\ z.at = "name_file" /\ z.made = call[p].made
    BY <1>1, <1>2, Facts, GoingCall DEF Collecting
  <2> HIDE DEF z
  <2>2. Knows(call[p], t)
    BY <1>1, <1>3, UndisturbedFacts
  <2>3. Knows(z, t)
    BY <1>1, <2>1, <2>2 DEF Knows, Refusals, Lookups
  <2> QED
    BY <2>3 DEF z
<1> QED
  BY <1>1, <1>2, <1>3, GoesOnce

LEMMA ReportNamedOnce ==
  ASSUME Basic, Once, NEW p \in Procs, ReportNamed(p)
  PROVE  Once'
<1> DEFINE row == [status |-> "inbox", artifact |-> "inbox"]
           z == Going(call[p], "send")
<1>1. Collecting(p) /\ Busy(p) /\ call[p].at = "name_file"
  BY AtCollects DEF ReportNamed, CreatePlaces, SendPlaces
<1>2. PICK r \in ReportIds : r = call[p].made /\ Reported(r)
  BY <1>1, ReportFacts
<1>3. /\ reports' = [reports EXCEPT ![r] = row] /\ call' = [call EXCEPT ![p] = z]
      /\ UNCHANGED <<messages, queue, archive, taskState, answers, disturbed>>
  BY <1>2, GoGoing DEF ReportNamed, UpdateReport, transport, packets, callbackFiles, ghosts
<1>4. row # NoReport
  BY NoReportAssumption DEF ReportRows, MailboxStates
<1>5. PICK t : t = call[p].task
  OBVIOUS
<1>6. PICK y : y = z /\ y.at = "send" /\ y.op = "collect" /\ y.task = t
  BY <1>1, <1>5, Facts, GoingCall DEF Collecting, Everywhere, CollectPlaces, SendPlaces
<1> HIDE DEF row, z
<1>7. \A q \in ReportIds : Reported(q)' <=> Reported(q)
  BY <1>2, <1>3, <1>4, Facts DEF Types, Reported
<1>8. \A u : ReportsOf(u)' = ReportsOf(u) /\ MessagesOf(u)' = MessagesOf(u)
  BY <1>3, <1>7 DEF ReportsOf, MessagesOf, Answered
<1>9. \A u : Same(u)
  BY <1>3, <1>8 DEF Same
<1>10. ASSUME t \notin disturbed'
       PROVE  Knows(y, t)
  <2>1. Knows(call[p], t)
    BY <1>1, <1>3, <1>5, <1>10, UndisturbedFacts
  <2> QED
    BY <1>1, <1>6, <2>1 DEF Knows, Refusals, Lookups
<1> QED
  BY <1>1, <1>3, <1>5, <1>6, <1>9, <1>10, QuietOnce

\* A command that begins finds nobody at its task, or disturbs it.
LEMMA BeginOnce ==
  ASSUME Basic, Once, NEW p \in Procs, NEW t \in Tasks, NEW c \in Callbacks \cup {None},
         NEW op \in {"create", "collect"}, NEW place \in Everywhere,
         Begin(p, op, t, c, place), \A u : Same(u),
         \A y : /\ y.op = op /\ y.at = place /\ t \notin disturbed
                /\ Unnamed(t) => Unmade(t)
                => Knows(y, t)
  PROVE  Once'
<1>1. PICK y \in Calls :
        call' = [call EXCEPT ![p] = y] /\ y.op = op /\ y.task = t /\ y.at = place
  BY BeginCall
<1>2. ~Busy(p) /\ disturbed \subseteq disturbed' /\ (t \notin disturbed' => ~Shared(p, t))
  BY DEF Begin, Disturb
<1>3. \A q \in Procs : call'[q] = IF q = p THEN y ELSE call[q]
  BY <1>1, Facts
<1> SUFFICES ASSUME NEW u \in Tasks, u \notin disturbed'
             PROVE  Undisturbed(u)'
  BY DEF Once
<1>4. Undisturbed(u)
  BY <1>2 DEF Once
<1>5. CASE u = t
  <2>1. \A q \in Procs : ~Works(q, u)
    BY <1>2, <1>5 DEF Works, Shared
  <2>2. Unnamed(u) => Unmade(u)
    BY <1>4, <2>1 DEF Undisturbed
  <2>3. Knows(y, u)
    BY <1>1, <1>2, <1>5, <2>2
  <2>4. Knows(y, u)'
    BY <2>3, SameKnows
  <2>5. AtMostOne(MessagesOf(u))' /\ AtMostOne(ReportsOf(u))'
    BY <1>4 DEF Undisturbed, AtMostOne, Same
  <2>6. \A q \in Procs \ {p} : ~Works(q, u)'
    BY <1>3, <2>1 DEF Works, Busy
  <2>7. Owed(y, u)'
    BY <1>1, <2>4, <2>5 DEF Owed
  <2> QED
    BY <1>1, <1>3, <1>5, <2>6, <2>7, AloneOnce
<1>6. CASE u # t
  <2>1. SameCommands(u)
    BY <1>1, <1>2, <1>3, <1>6 DEF SameCommands, Busy
  <2> QED
    BY <1>4, <2>1, OthersOnce
<1> QED
  BY <1>5, <1>6

LEMMA CollectOnce ==
  ASSUME Basic, Once, NEW p \in Procs, NEW c \in Callbacks, Collect(p, c)
  PROVE  Once'
<1>1. PICK t : t = answers[c].task
  OBVIOUS
<1>2. /\ c \in inbox /\ Begin(p, "collect", t, c, "find")
      /\ UNCHANGED <<reports, messages, queue, archive, taskState, answers>>
  BY <1>1 DEF Collect, mailbox, transport, packets, callbackFiles
<1>3. t \in Tasks
  BY <1>1, <1>2, Facts DEF FilesSound, Types
<1>4. \A y : /\ y.op = "collect" /\ y.at = "find" /\ t \notin disturbed
             /\ Unnamed(t) => Unmade(t)
             => Knows(y, t)
  BY DEF Knows, Refusals
<1>5. "find" \in Everywhere /\ \A u : Same(u)
  BY <1>2, SameAll DEF Everywhere, CollectPlaces, Lookups
<1> QED
  BY <1>2, <1>3, <1>4, <1>5, BeginOnce

LEMMA CreateTaskOnce ==
  ASSUME Basic, Once, NEW p \in Procs, NEW t \in Tasks, NEW s \in Sessions, NEW bound \in BOOLEAN,
         CreateTask(p, t, s, bound)
  PROVE  Once'
<1>1. /\ tasks[t] = None /\ Begin(p, "create", t, None, "send")
      /\ UNCHANGED <<reports, messages, queue, archive, taskState, answers>>
  BY DEF CreateTask, StartSession, mailbox, transport, callbackFiles
<1>2. Unnamed(t)
  BY <1>1, Facts DEF StatesSound, FilesSound, Whole, Unnamed
<1>3. \A y : /\ y.op = "create" /\ y.at = "send" /\ t \notin disturbed
             /\ Unnamed(t) => Unmade(t)
             => Knows(y, t)
  BY <1>2 DEF Knows
<1>4. "send" \in Everywhere /\ \A u : Same(u)
  BY <1>1, SameAll DEF Everywhere, CollectPlaces, SendPlaces
<1> QED
  BY <1>1, <1>3, <1>4, BeginOnce

\* A step of none of the commands.
LEMMA NobodyOnce ==
  ASSUME Basic, Once, \A u : Same(u), call' = call, disturbed' = disturbed
  PROVE  Once'
BY OthersOnce DEF Once, SameCommands

\* An answer that is new has no message yet.
LEMMA RuntimeAnswersOnce ==
  ASSUME Basic, Once, NEW c \in Callbacks, NEW answer \in Answers, RuntimeAnswers(c, answer)
  PROVE  Once'
<1>1. /\ answers[c] = None /\ answers' = [answers EXCEPT ![c] = answer]
      /\ UNCHANGED <<reports, messages, queue, archive, taskState, call, disturbed>>
  BY DEF RuntimeAnswers, mailbox, transport, packets, ghosts
<1>2. \A i \in DOMAIN messages : messages[i].about # ReportOf(c)
  BY <1>1, Facts DEF FilesSound
<1>3. \A d \in Callbacks \ {c} : answers'[d] = answers[d]
  BY <1>1, Facts DEF Types
<1>4. \A u : MessagesOf(u)' = MessagesOf(u)
  BY <1>1, <1>2, <1>3 DEF MessagesOf, Answered
<1>5. \A u : Same(u)
  BY <1>1, <1>4 DEF Same, ReportsOf, Reported
<1> QED
  BY <1>1, <1>5, NobodyOnce

LEMMA InitOnce ==
  ASSUME HermesInit
  PROVE  Once /\ Ordered
<1>1. /\ reports = [r \in ReportIds |-> NoReport] /\ messages = <<>>
      /\ call = [p \in Procs |-> Idle]
  BY DEF HermesInit, MailboxInit, NoHermes, TransportInit
<1>2. \A t : MessagesOf(t) = {} /\ ReportsOf(t) = {}
  BY <1>1 DEF MessagesOf, ReportsOf, Reported
<1>3. \A p \in Procs : ~Busy(p)
  BY <1>1 DEF Busy, Idle
<1>4. Once
  BY <1>2, <1>3 DEF Once, Undisturbed, AtMostOne, Works, Unmade
<1>5. Ordered
  BY <1>1, <1>3 DEF Ordered, Follows, SequencesFollow, Busy
<1> QED
  BY <1>4, <1>5

LEMMA NextOnce ==
  ASSUME Basic, Once, HermesNext
  PROVE  Once'
<1>1. CASE \E p \in Procs : \E t \in Tasks, s \in Sessions, bound \in BOOLEAN :
             CreateTask(p, t, s, bound)
  BY <1>1, CreateTaskOnce
<1>2. CASE \E p \in Procs : \E c \in Callbacks : Collect(p, c)
  BY <1>2, CollectOnce
<1>3. CASE \E c \in Callbacks, answer \in Answers : RuntimeAnswers(c, answer)
  BY <1>3, RuntimeAnswersOnce
<1>4. CASE \/ \E p \in Procs : \E s \in Sessions : CreateRefused(p, s)
           \/ \E c \in Callbacks : ResidueArchived(c)
  <2>1. UNCHANGED <<reports, messages, queue, archive, taskState, answers, call, disturbed>>
    BY <1>4 DEF CreateRefused, StartSession, ResidueArchived, mailbox, transport, packets,
                callbackFiles, ghosts
  <2> QED
    BY <2>1, SameAll, NobodyOnce
<1>5. CASE \E p \in Procs : HermesContinue(p) \/ HermesCrash(p)
  <2>1. PICK p \in Procs : HermesContinue(p) \/ HermesCrash(p)
    BY <1>5
  <2>2. CASE Creation(p)
    BY <2>2, WriteTaskOnce, WriteQueuedOnce DEF Creation
  <2>3. CASE Stops(p)
    BY <2>3, StopsOnce
  <2>4. CASE ReadSequence(p) \/ SendInsert(p) \/ SendEnvelope(p)
    BY <2>4, ReadSequenceOnce, SendInsertOnce, SendEnvelopeOnce
  <2>5. CASE FindTask(p) \/ LoadTask(p) \/ Validate(p) \/ Quarantine(p) \/ WriteQuarantined(p)
    BY <2>5, FindTaskOnce, LoadTaskOnce, ValidateOnce, QuarantineOnce, WriteQuarantinedOnce
  <2>6. CASE Reporting(p)
    BY <2>6, ReportRowOnce, ReportFileOnce, ReportNamedOnce DEF Reporting
  <2>7. CASE \/ FindTaskFile(p) \/ MoveTask(p) \/ FindCallback(p) \/ MoveCallback(p)
             \/ WriteCollected(p)
    BY <2>7, FindTaskFileOnce, MoveTaskOnce, FindCallbackOnce, MoveCallbackOnce,
       WriteCollectedOnce
  <2> QED
    BY <2>1, <2>2, <2>3, <2>4, <2>5, <2>6, <2>7
       DEF HermesContinue, Sending, Checking, Settling, Stops
<1> QED
  BY <1>1, <1>2, <1>3, <1>4, <1>5 DEF HermesNext

LEMMA QuietLayers ==
  ASSUME Basic, Ordered, Once, UNCHANGED hermesVars
  PROVE  Ordered' /\ Once'
<1>1. UNCHANGED <<reports, messages, tasks, queue, archive, taskState, answers, call, disturbed>>
  BY DEF hermesVars, mailbox, transport, packets, callbackFiles, ghosts
<1>2. NoInsert
  BY <1>1 DEF NoInsert
<1> QED
  BY <1>1, <1>2, NoInsertOrdered, SameAll, NobodyOnce

------------------------------------------------------------------------------
(* The theorems *)

\* The three layers hold always: where a command of the adapter is, it has done what
\* comes before it in create_task or collect_callback; the INSERT of a message follows
\* what its SELECT saw; and a task that no overlap, crash or failure disturbed has at
\* most one report and one message of its answers.
THEOREM Layers == HermesSpec => [](Basic /\ Ordered /\ Once)
<1>1. HermesInit => Basic /\ Ordered /\ Once
  BY InitBasic, InitOnce
<1>2. Basic /\ Ordered /\ Once /\ [HermesNext]_hermesVars => (Basic /\ Ordered /\ Once)'
  BY NextBasic, NextOrdered, NextOnce, QuietBasic, QuietLayers
<1> QED
  BY <1>1, <1>2, PTL DEF HermesSpec

\* Messages of a session are numbered in an order that their senders saw, though the
\* number is read before the INSERT's transaction begins (add_runtime_message).
THEOREM MessagesFollow == HermesSpec => []SequencesFollow
<1>1. Ordered => SequencesFollow
  BY DEF Ordered
<1> QED
  BY <1>1, Layers, PTL

\* A callback that a task state names was collected to the end: its message and its
\* envelope, its report and the report's file, the task's file in the archive.  And an
\* undisturbed task's answers made one message and one report, however many there
\* are (collect_callback and its replay check).
THEOREM CollectedRight == HermesSpec => []CollectedWholeAndOnce
<1>1. ASSUME Basic
      PROVE  CollectedIsComplete
  <2> SUFFICES ASSUME NEW t \in Tasks, taskState[t].callback # None
               PROVE  LET c == taskState[t].callback
                      IN  /\ \E i \in SentAbout(ReportOf(c)) : i \in envelopes
                          /\ answers[c].report =>
                               \E r \in ReportIds : r[1] = t /\ Reported(r) /\ ArtifactExists(r)
                          /\ t \in archive \ queue
    BY DEF CollectedIsComplete
  <2>1. Whole(t, taskState[t].callback)
    BY <1>1, Facts DEF StatesSound
  <2> QED
    BY <2>1 DEF Whole, Sent, Made
<1>2. ASSUME Basic, Once
      PROVE  CollectedOnce
  <2> SUFFICES ASSUME NEW t \in Tasks \ disturbed
               PROVE  /\ \A i, j \in DOMAIN messages :
                           (\E c, d \in Callbacks :
                              /\ answers[c] # None /\ answers[c].task = t
                              /\ answers[d] # None /\ answers[d].task = t
                              /\ messages[i].about = ReportOf(c)
                              /\ messages[j].about = ReportOf(d)) => i = j
                      /\ \A r, q \in ReportIds :
                           r[1] = t /\ q[1] = t /\ Reported(r) /\ Reported(q) => r = q
    BY DEF CollectedOnce
  <2>1. AtMostOne(MessagesOf(t)) /\ AtMostOne(ReportsOf(t))
    BY <1>2 DEF Once, Undisturbed
  <2> QED
    BY <2>1 DEF AtMostOne, MessagesOf, ReportsOf, Answered
<1>3. Basic /\ Once => CollectedWholeAndOnce
  BY <1>1, <1>2 DEF CollectedWholeAndOnce
<1> QED
  BY <1>3, Layers, PTL
==============================================================================
