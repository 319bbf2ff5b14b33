------------------------------ MODULE Messages -------------------------------
(****************************************************************************)
(* Runtime sessions and their messages: a row of the control database, with *)
(* a sequence number per session, then an envelope file.  The number is     *)
(* read by a SELECT before the INSERT begins a transaction, and no index    *)
(* keeps two rows from having the same one.                                 *)
(****************************************************************************)
EXTENDS Naturals, Sequences, FiniteSetsExt, Functions

CONSTANT Sessions

VARIABLES
  sessions,             \* runtime_sessions: the sessions that were started
  messages,             \* runtime_messages, in the order of their insertion
  envelopes             \* the messages (by place) whose envelope file is written

transport == <<sessions, messages, envelopes>>

\* COALESCE(MAX(sequence), 0) of a session.
LastSequence(s) ==
  Max({0} \cup {m.sequence : m \in {n \in Range(messages) : n.session = s}})

\* start_session
StartSession(s) ==
  /\ s \notin sessions
  /\ sessions' = sessions \cup {s}
  /\ UNCHANGED <<messages, envelopes>>

\* A faulty numbering, for the checks to reject.
SequenceReused(s) == LastSequence(s)

\* add_runtime_message, the SELECT: what the INSERT will take as its sequence.
NextSequence(s) == LastSequence(s) + 1

\* add_runtime_message, the INSERT.  "after", which no column holds, is how many
\* rows there were at the SELECT.
InsertMessage(s, about, sequence, after) ==
  /\ messages' = Append(messages, [session |-> s, about |-> about,
                                   sequence |-> sequence, after |-> after])
  /\ UNCHANGED <<sessions, envelopes>>

\* _write_envelope: the name has both the sequence and the message id, so that
\* equal sequences do not share a file.
WriteEnvelope(i) ==
  /\ envelopes' = envelopes \cup {i}
  /\ UNCHANGED <<sessions, messages>>

SentAbout(about) == {i \in DOMAIN messages : messages[i].about = about}

TransportInit ==
  /\ sessions = {}
  /\ messages = <<>>
  /\ envelopes = {}
==============================================================================
