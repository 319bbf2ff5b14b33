---------------------------- MODULE TicketsProofs -----------------------------
(****************************************************************************)
(* What Tickets guarantees, for any sets of tickets, changes, keys and      *)
(* review commands; what CanonRecords guarantees of the rows that changes   *)
(* write, whatever the changes; and what WorldForks guarantees of exports   *)
(* and imports, whatever the exported world.                                *)
(****************************************************************************)
EXTENDS Tickets, WorldForks, LoopLemmas

\* A review command is about a ticket that exists; no ticket is ever deleted.
TargetsUsed == \A p \in Procs : pc[p] # "idle" => target[p] \in Ids /\ Used(target[p])

TInv == TypeOK /\ TargetsUsed

------------------------------------------------------------------------------
(* Lemmas about the operators *)

\* A used ticket has a row.
LEMMA UsedRow ==
  ASSUME TypeOK, NEW t \in Ids, Used(t)
  PROVE  tickets[t] \in TicketRows
BY DEF TypeOK, Used

\* A new packet is a row.
LEMMA NewPacketRow ==
  ASSUME NEW changes \in SUBSET Changes,
         NEW operation \in {"none", "amend", "split", "merge"},
         NEW parents \in SUBSET Ids, NEW root \in Ids \cup {NoTicket},
         NEW roots \in SUBSET Ids
  PROVE  /\ NewPacket(changes, operation, parents, root, roots) \in TicketRows
         /\ NewPacket(changes, operation, parents, root, roots) # NoTicket
BY NoTicketAssumption DEF NewPacket, TicketRows, Statuses

\* A row may take any status.
LEMMA RowStatus ==
  ASSUME NEW row \in TicketRows, NEW status \in Statuses
  PROVE  /\ [row EXCEPT !.status = status] \in TicketRows
         /\ [row EXCEPT !.status = status] # NoTicket
         /\ [row EXCEPT !.status = status].changes = row.changes
         /\ [row EXCEPT !.status = status].kind = row.kind
         /\ [row EXCEPT !.status = status].parents = row.parents
         /\ [row EXCEPT !.status = status].status = status
BY NoTicketAssumption DEF TicketRows, Statuses

\* Changing the status of a ticket leaves the table one of tickets.
LEMMA WithStatusTable ==
  ASSUME TypeOK, NEW t \in Ids, Used(t), NEW status \in Statuses
  PROVE  /\ WithStatus(t, status) \in [Ids -> TicketRows \cup {NoTicket}]
         /\ WithStatus(t, status)[t] = [tickets[t] EXCEPT !.status = status]
         /\ \A u \in Ids \ {t} : WithStatus(t, status)[u] = tickets[u]
BY DEF TypeOK, Used, WithStatus, TicketRows, Statuses

\* The roots of a ticket are tickets, and there is one at least.
LEMMA RootsAreIds ==
  ASSUME TypeOK, NEW t \in Ids, Used(t)
  PROVE  Roots(t) \in SUBSET Ids /\ Roots(t) # {}
<1>1. tickets[t].roots \in SUBSET Ids /\ tickets[t].root \in Ids \cup {NoTicket}
  BY UsedRow DEF TicketRows
<1>2. QED BY <1>1 DEF Roots

\* The log grows.
LEMMA LogType ==
  ASSUME TypeOK, NEW t \in Ids, NEW action \in Actions, Log(action, t)
  PROVE  log' \in [Ids -> SUBSET Actions] /\ sequence' \in Nat
BY DEF TypeOK, Log

LEMMA LogNewType ==
  ASSUME TypeOK, NEW news \in SUBSET Ids, NEW t \in Ids, NEW action \in Actions,
         LogNew(news, action, t)
  PROVE  log' \in [Ids -> SUBSET Actions] /\ sequence' \in Nat
<1>1. Cardinality(news) \in Nat
  BY IdsAssumption, FS_Subset, FS_CardinalityType
<1>2. log' \in [Ids -> SUBSET Actions]
  BY DEF TypeOK, LogNew, Actions
<1>3. QED BY <1>1, <1>2 DEF TypeOK, LogNew

------------------------------------------------------------------------------
(* What a step does to the table *)

\* Tickets stay, and so do their changes, kinds and parents.
Kept ==
  \A u \in Ids : Used(u) =>
    /\ tickets'[u] # NoTicket
    /\ tickets'[u].changes = tickets[u].changes
    /\ tickets'[u].kind = tickets[u].kind
    /\ tickets'[u].parents = tickets[u].parents

NoneReopened == \A u \in Ids : Used(u) /\ Open(u)' => Open(u)

\* What a new packet holds is fresh, or comes from a packet that is closed for it.
Provenance ==
  \A n \in Unused : Open(n)' =>
    \A c \in tickets'[n].changes :
      \/ c \in Fresh
      \/ \E s \in Ids : Open(s) /\ ~Open(s)' /\ c \in tickets[s].changes

Apart ==
  \A m, n \in Unused : m # n /\ Open(m)' /\ Open(n)'
    => tickets'[m].changes \cap tickets'[n].changes = {}

\* A ticket becomes approved by its review, and applied by its application.
Earned ==
  \A u \in Ids : tickets'[u] # NoTicket =>
    /\ tickets'[u].status = "approved" => Status(u) = "approved" \/ Review(u)
    /\ tickets'[u].status = "applied"
         => Status(u) = "applied"
              \/ \E k \in Keys, compat \in BOOLEAN : Apply(u, k, compat)

\* A ticket that becomes superseded has an heir.
Inherited ==
  \A u \in Ids : tickets'[u] # NoTicket /\ tickets'[u].status = "superseded"
    => \/ Status(u) = "superseded"
       \/ \E n \in Unused : tickets'[n] # NoTicket /\ u \in tickets'[n].parents

Amended == \E n \in Unused : tickets'[n] # NoTicket /\ tickets'[n].operation = "amend"

\* The changes of a packet in review stay in review, unless it is applied,
\* rejected or amended.
Retained ==
  \A u \in Ids : Open(u) =>
    \/ tickets'[u].status \in {"applied", "rejected"}
    \/ Amended
    \/ \A c \in tickets[u].changes : \E v \in Ids : Open(v)' /\ c \in tickets'[v].changes

LegalTable ==
  /\ tickets' \in [Ids -> TicketRows \cup {NoTicket}]
  /\ Kept
  /\ NoneReopened
  /\ Provenance
  /\ Apart
  /\ Earned
  /\ Inherited
  /\ Retained

\* There are new tickets, and what they were made of, or is decided, is out of review.
Replaces(sources, news) ==
  /\ \A u \in Ids \ news : /\ tickets'[u] # NoTicket <=> Used(u)
                           /\ Open(u)' <=> Open(u) /\ u \notin sources
  /\ \A n \in news : tickets'[n] # NoTicket

\* There is one new packet, with these changes.
OpensWith(packet, changes) == Open(packet)' /\ tickets'[packet].changes = changes

\* A step that leaves the tickets alone is legal.
LEMMA SameTable ==
  ASSUME TypeOK, UNCHANGED tickets
  PROVE  LegalTable
BY DEF TypeOK, LegalTable, Kept, NoneReopened, Provenance, Apart, Earned, Inherited,
       Retained, Open, Packet, Status, Used, Unused

\* A change of status is legal, unless it reopens the ticket.
LEMMA StatusChange ==
  ASSUME TypeOK, NEW t \in Ids, Used(t), NEW status \in {"approved", "applied", "rejected"},
         status = "approved" => Open(t) /\ Review(t),
         status = "applied" => \E k \in Keys, compat \in BOOLEAN : Apply(t, k, compat),
         tickets' = WithStatus(t, status)
  PROVE  LegalTable /\ Replaces(IF status = "approved" THEN {} ELSE {t}, {})
<1>1. tickets[t] \in TicketRows /\ status \in Statuses
  BY UsedRow DEF Statuses
<1>2. /\ tickets' \in [Ids -> TicketRows \cup {NoTicket}]
      /\ tickets'[t] = [tickets[t] EXCEPT !.status = status]
      /\ \A u \in Ids \ {t} : tickets'[u] = tickets[u]
  BY <1>1, WithStatusTable
<1>3. /\ tickets'[t] # NoTicket
      /\ tickets'[t].changes = tickets[t].changes
      /\ tickets'[t].kind = tickets[t].kind
      /\ tickets'[t].parents = tickets[t].parents
      /\ tickets'[t].status = status
  BY <1>1, <1>2, RowStatus
<1>4. Kept
  BY <1>2, <1>3 DEF Kept, Used
<1>5. NoneReopened
  BY <1>2, <1>3 DEF NoneReopened, Open, Packet, Used
<1>6. Provenance /\ Apart
  BY <1>2 DEF Provenance, Apart, Unused, Open, Packet, Used
<1>7. Earned
  BY <1>2, <1>3 DEF Earned, Status, Used
<1>8. Inherited
  BY <1>2, <1>3 DEF Inherited, Status, Used
<1>9. Retained
  <2> SUFFICES ASSUME NEW u \in Ids, Open(u), tickets'[u].status \notin {"applied", "rejected"}
               PROVE  \A c \in tickets[u].changes :
                        \E v \in Ids : Open(v)' /\ c \in tickets'[v].changes
    BY DEF Retained
  <2>1. tickets'[u].changes = tickets[u].changes
    BY <1>2, <1>3
  <2>2. Open(u)'
    BY <1>2, <1>3 DEF Open, Packet, Used
  <2>3. QED BY <2>1, <2>2
<1>10. Replaces(IF status = "approved" THEN {} ELSE {t}, {})
  BY <1>2, <1>3 DEF Replaces, Open, Packet, Used
<1>11. QED BY <1>2, <1>4, <1>5, <1>6, <1>7, <1>8, <1>9, <1>10 DEF LegalTable

\* The table with new rows, and with the status of some tickets changed.
Table(news, rows, sources, status) ==
  [u \in Ids |-> IF u \in news THEN rows[u]
                 ELSE IF u \in sources THEN [tickets[u] EXCEPT !.status = status]
                 ELSE tickets[u]]

\* The new rows are proposals.
Proposals(news, rows) ==
  /\ rows \in [news -> TicketRows]
  /\ \A n \in news : rows[n].status = "proposed"

\* New packets take their changes from nowhere, or from sources in review.
Sourced(news, rows, sources) ==
  \A n \in news : rows[n].kind = "packet" => \A c \in rows[n].changes :
    c \in Fresh \/ \E s \in sources : Open(s) /\ c \in tickets[s].changes

Disjoint(news, rows) ==
  \A m, n \in news : m # n => rows[m].changes \cap rows[n].changes = {}

\* Superseded sources are parents.
Heirs(news, rows, sources) == \A s \in sources : \E n \in news : s \in rows[n].parents

\* Sources in review are amended, or new packets have all their changes.
Covered(news, rows, sources) ==
  \A s \in sources : Open(s) =>
    \/ \E n \in news : rows[n].operation = "amend"
    \/ \A c \in tickets[s].changes :
         \E n \in news : rows[n].kind = "packet" /\ c \in rows[n].changes

\* Adding rows is legal if it closes the packets that they take changes from.
LEMMA NewRows ==
  ASSUME TypeOK, NEW news \in SUBSET Unused, NEW rows, Proposals(news, rows),
         NEW sources \in SUBSET Ids, \A s \in sources : Used(s),
         NEW status \in {"superseded", "converted"},
         Sourced(news, rows, sources), Disjoint(news, rows),
         status = "superseded" => Heirs(news, rows, sources),
         Covered(news, rows, sources),
         tickets' = Table(news, rows, sources, status)
  PROVE  /\ LegalTable /\ Replaces(sources, news)
         /\ \A n \in news : tickets'[n] = rows[n]
<1>1. /\ \A n \in news : tickets'[n] = rows[n] /\ rows[n] \in TicketRows
      /\ \A s \in sources : tickets'[s] = [tickets[s] EXCEPT !.status = status]
      /\ \A u \in Ids \ (news \cup sources) : tickets'[u] = tickets[u]
  BY DEF Table, Unused, Proposals
<1>2. \A s \in sources : /\ tickets'[s] \in TicketRows
                        /\ tickets'[s] # NoTicket
                        /\ tickets'[s].changes = tickets[s].changes
                        /\ tickets'[s].kind = tickets[s].kind
                        /\ tickets'[s].parents = tickets[s].parents
                        /\ tickets'[s].status = status
  <2> SUFFICES ASSUME NEW s \in sources
               PROVE  /\ tickets'[s] \in TicketRows
                      /\ tickets'[s] # NoTicket
                      /\ tickets'[s].changes = tickets[s].changes
                      /\ tickets'[s].kind = tickets[s].kind
                      /\ tickets'[s].parents = tickets[s].parents
                      /\ tickets'[s].status = status
    OBVIOUS
  <2>1. tickets[s] \in TicketRows
    BY UsedRow
  <2>2. tickets'[s] = [tickets[s] EXCEPT !.status = status]
    BY <1>1
  <2>3. status \in Statuses
    BY DEF Statuses
  <2>4. QED BY <2>1, <2>2, <2>3, RowStatus
<1>3. tickets' \in [Ids -> TicketRows \cup {NoTicket}]
  <2>1. \A u \in Ids : tickets'[u] \in TicketRows \cup {NoTicket}
    BY <1>1, <1>2 DEF TypeOK
  <2>2. QED BY <2>1 DEF Table
<1>4. Kept
  BY <1>1, <1>2 DEF Kept, Used, Unused
<1>5. \A s \in sources : ~Open(s)'
  BY <1>2 DEF Open
<1>6. NoneReopened
  BY <1>1, <1>5 DEF NoneReopened, Open, Packet, Used, Unused
<1>7. \A n \in Unused : Open(n)' => n \in news /\ rows[n].kind = "packet"
  BY <1>1 DEF Open, Packet, Used, Unused
<1>8. Provenance
  BY <1>1, <1>5, <1>7 DEF Provenance, Sourced
<1>9. Apart
  BY <1>1, <1>7 DEF Apart, Disjoint
<1>10. Earned
  BY <1>1, <1>2 DEF Earned, Status, Used, Proposals
<1>11. \A n \in news : tickets'[n] # NoTicket /\ n \in Unused
  BY <1>1, NoTicketAssumption
<1>12. Inherited
  <2> SUFFICES ASSUME NEW u \in Ids, tickets'[u] # NoTicket,
                      tickets'[u].status = "superseded", Status(u) # "superseded"
               PROVE  \E n \in Unused : tickets'[n] # NoTicket /\ u \in tickets'[n].parents
    BY DEF Inherited
  <2>1. u \in sources /\ status = "superseded"
    BY <1>1, <1>2 DEF Status, Used, Proposals
  <2>2. PICK n \in news : u \in rows[n].parents
    BY <2>1 DEF Heirs
  <2>3. QED BY <1>1, <1>11, <2>2
<1>13. Retained
  <2> SUFFICES ASSUME NEW u \in Ids, Open(u), ~Amended
               PROVE  \A c \in tickets[u].changes :
                        \E v \in Ids : Open(v)' /\ c \in tickets'[v].changes
    BY DEF Retained
  <2>1. Used(u) /\ u \notin news
    BY DEF Open, Packet, Used, Unused
  <2>2. CASE u \in sources
    <3>1. \A n \in news : rows[n].operation # "amend"
      BY <1>1, <1>11 DEF Amended
    <3>2. \A n \in news : rows[n].kind = "packet" => Open(n)'
      BY <1>1, <1>11 DEF Open, Packet, Used, Proposals
    <3>3. \A n \in news : n \in Ids /\ tickets'[n].changes = rows[n].changes
      BY <1>1 DEF Unused
    <3>4. QED BY <2>2, <3>1, <3>2, <3>3 DEF Covered
  <2>3. CASE u \notin sources
    <3>1. tickets'[u] = tickets[u]
      BY <1>1, <2>1, <2>3
    <3>2. Open(u)'
      BY <3>1 DEF Open, Packet, Used
    <3>3. QED BY <3>1, <3>2
  <2>4. QED BY <2>2, <2>3
<1>14. Replaces(sources, news)
  <2>1. \A u \in Ids \ news : tickets'[u] # NoTicket <=> Used(u)
    BY <1>1, <1>2 DEF Used
  <2>2. \A u \in Ids \ news : Open(u)' <=> Open(u) /\ u \notin sources
    BY <1>1, <1>5 DEF Open, Packet, Used
  <2>3. QED BY <2>1, <2>2, <1>11 DEF Replaces
<1>15. QED BY <1>1, <1>3, <1>4, <1>6, <1>8, <1>9, <1>10, <1>12, <1>13, <1>14 DEF LegalTable

LEMMA CreatePacketLegal ==
  ASSUME TypeOK, NEW n \in Ids, NEW changes \in SUBSET Changes, CreatePacket(n, changes)
  PROVE  LegalTable /\ Replaces({}, {n}) /\ OpensWith(n, changes)
<1> DEFINE packet == NewPacket(changes, "none", {}, NoTicket, {})
           rows == [u \in {n} |-> packet]
<1>1. packet \in TicketRows
  BY NewPacketRow
<1>2. n \in Unused /\ changes \subseteq Fresh
  BY DEF CreatePacket
<1>3. tickets' = [tickets EXCEPT ![n] = packet]
  BY DEF CreatePacket
<1>4. packet.changes = changes /\ packet.status = "proposed" /\ packet.kind = "packet"
  BY DEF NewPacket
<1> HIDE DEF packet
<1>5. tickets' = Table({n}, rows, {}, "superseded")
  BY <1>3 DEF TypeOK, Table
<1>6. /\ rows \in [{n} -> TicketRows]
      /\ rows[n].changes = changes /\ rows[n].status = "proposed" /\ rows[n].kind = "packet"
  BY <1>1, <1>2, <1>4
<1> HIDE DEF rows
<1>7. Proposals({n}, rows)
  BY <1>6 DEF Proposals
<1>8. Sourced({n}, rows, {})
  BY <1>2, <1>6 DEF Sourced
<1>9. Disjoint({n}, rows)
  BY DEF Disjoint
<1>10. Heirs({n}, rows, {})
  BY DEF Heirs
<1>11. Covered({n}, rows, {})
  BY DEF Covered
<1>12. LegalTable /\ Replaces({}, {n}) /\ tickets'[n] = rows[n]
  BY <1>2, <1>5, <1>7, <1>8, <1>9, <1>10, <1>11, NewRows
<1>13. QED BY <1>6, <1>12 DEF OpensWith, Replaces, Open, Packet, Used

LEMMA CreateCandidateLegal ==
  ASSUME TypeOK, NEW n \in Ids, CreateCandidate(n)
  PROVE  LegalTable /\ Replaces({}, {n}) /\ tickets'[n] = NewCandidate
<1> DEFINE rows == [u \in {n} |-> NewCandidate]
<1>1. /\ NewCandidate \in TicketRows
      /\ NewCandidate.kind = "candidate" /\ NewCandidate.status = "proposed"
  BY DEF NewCandidate, NewPacket, TicketRows, Statuses
<1>2. n \in Unused /\ tickets' = [tickets EXCEPT ![n] = NewCandidate]
  BY DEF CreateCandidate
<1>3. tickets' = Table({n}, rows, {}, "superseded")
  BY <1>2 DEF TypeOK, Table
<1>4. /\ rows \in [{n} -> TicketRows]
      /\ rows[n].kind = "candidate" /\ rows[n].status = "proposed"
  BY <1>1
<1> HIDE DEF rows
<1>5. Proposals({n}, rows)
  BY <1>4 DEF Proposals
<1>6. Sourced({n}, rows, {})
  BY <1>4 DEF Sourced
<1>7. Disjoint({n}, rows)
  BY DEF Disjoint
<1>8. Heirs({n}, rows, {})
  BY DEF Heirs
<1>9. Covered({n}, rows, {})
  BY DEF Covered
<1>10. LegalTable /\ Replaces({}, {n}) /\ tickets'[n] = rows[n]
  BY <1>2, <1>3, <1>5, <1>6, <1>7, <1>8, <1>9, NewRows
<1>11. QED BY <1>10 DEF rows

LEMMA MaterializeLegal ==
  ASSUME TypeOK, NEW t \in Ids, NEW n \in Ids, NEW changes \in SUBSET Changes,
         Materialize(t, n, changes)
  PROVE  LegalTable /\ Replaces({t}, {n}) /\ OpensWith(n, changes)
<1> DEFINE packet == NewPacket(changes, "none", {}, NoTicket, {})
           rows == [u \in {n} |-> packet]
<1>1. packet \in TicketRows
  BY NewPacketRow
<1>2. Used(t) /\ ~Open(t) /\ n \in Unused /\ changes \subseteq Fresh
  BY DEF Materialize, Candidate, Open, Packet
<1>3. tickets' = [WithStatus(t, "converted") EXCEPT ![n] = packet]
  BY DEF Materialize
<1>4. packet.changes = changes /\ packet.status = "proposed" /\ packet.kind = "packet"
  BY DEF NewPacket
<1> HIDE DEF packet
<1>5. tickets' = Table({n}, rows, {t}, "converted")
  BY <1>2, <1>3 DEF TypeOK, Table, WithStatus, Used, Unused
<1>6. /\ rows \in [{n} -> TicketRows]
      /\ rows[n].changes = changes /\ rows[n].status = "proposed" /\ rows[n].kind = "packet"
  BY <1>1, <1>2, <1>4
<1> HIDE DEF rows
<1>7. Proposals({n}, rows)
  BY <1>6 DEF Proposals
<1>8. Sourced({n}, rows, {t})
  BY <1>2, <1>6 DEF Sourced
<1>9. Disjoint({n}, rows)
  BY DEF Disjoint
<1>10. Covered({n}, rows, {t})
  BY <1>2 DEF Covered
<1>11. LegalTable /\ Replaces({t}, {n}) /\ tickets'[n] = rows[n]
  BY <1>2, <1>5, <1>7, <1>8, <1>9, <1>10, NewRows
<1>12. QED BY <1>6, <1>11 DEF OpensWith, Replaces, Open, Packet, Used

LEMMA AmendLegal ==
  ASSUME TypeOK, NEW t \in Ids, NEW n \in Ids, NEW changes \in SUBSET Changes,
         Amend(t, n, changes)
  PROVE  LegalTable /\ Replaces({t}, {n}) /\ OpensWith(n, changes)
<1> DEFINE root == IF tickets[t].root # NoTicket THEN tickets[t].root ELSE t
           packet == NewPacket(changes, "amend", {t}, root, {})
           rows == [u \in {n} |-> packet]
<1>1. Open(t) /\ Used(t) /\ n \in Unused /\ changes \subseteq tickets[t].changes \cup Fresh
  BY DEF Amend, Open, Packet
<1>2. tickets' = [WithStatus(t, "superseded") EXCEPT ![n] = packet]
  BY DEF Amend
<1>3. root \in Ids \cup {NoTicket}
  BY <1>1, UsedRow DEF TicketRows
<1> HIDE DEF root
<1>4. packet \in TicketRows
  BY <1>3, NewPacketRow
<1>5. /\ packet.changes = changes /\ packet.status = "proposed" /\ packet.kind = "packet"
      /\ packet.parents = {t} /\ packet.operation = "amend"
  BY DEF NewPacket
<1> HIDE DEF packet
<1>6. tickets' = Table({n}, rows, {t}, "superseded")
  BY <1>1, <1>2 DEF TypeOK, Table, WithStatus, Used, Unused
<1>7. /\ rows \in [{n} -> TicketRows]
      /\ rows[n].changes = changes /\ rows[n].kind = "packet"
      /\ rows[n].status = "proposed" /\ rows[n].parents = {t} /\ rows[n].operation = "amend"
  BY <1>1, <1>4, <1>5
<1> HIDE DEF rows
<1>8. Proposals({n}, rows)
  BY <1>7 DEF Proposals
<1>9. Sourced({n}, rows, {t})
  BY <1>1, <1>7 DEF Sourced
<1>10. Disjoint({n}, rows)
  BY DEF Disjoint
<1>11. Heirs({n}, rows, {t})
  BY <1>7 DEF Heirs
<1>12. Covered({n}, rows, {t})
  BY <1>7 DEF Covered
<1>13. LegalTable /\ Replaces({t}, {n}) /\ tickets'[n] = rows[n]
  BY <1>1, <1>6, <1>8, <1>9, <1>10, <1>11, <1>12, NewRows
<1>14. QED BY <1>7, <1>13 DEF OpensWith, Replaces, Open, Packet, Used

LEMMA MergeLegal ==
  ASSUME TypeOK, NEW sources \in SUBSET Ids, NEW n \in Ids, Merge(sources, n)
  PROVE  LegalTable /\ Replaces(sources, {n})
         /\ OpensWith(n, UNION {tickets[t].changes : t \in sources})
<1> DEFINE changes == UNION {tickets[t].changes : t \in sources}
           packet == Merged(sources, changes)
           rows == [u \in {n} |-> packet]
<1>1. n \in Unused /\ \A s \in sources : Open(s) /\ Used(s)
  BY DEF Merge, Open, Packet
<1>2. tickets' = [Superseded(sources) EXCEPT ![n] = packet]
  BY DEF Merge
<1>3. changes \in SUBSET Changes
  <2>1. \A s \in sources : tickets[s].changes \in SUBSET Changes
    BY <1>1, UsedRow DEF TicketRows
  <2>2. QED BY <2>1
<1>4. UNION {Roots(t) : t \in sources} \in SUBSET Ids
  <2>1. \A s \in sources : Roots(s) \in SUBSET Ids
    BY <1>1, RootsAreIds
  <2>2. QED BY <2>1
<1>5. /\ packet \in TicketRows /\ packet.changes = changes /\ packet.kind = "packet"
      /\ packet.status = "proposed" /\ packet.parents = sources
  <2> DEFINE roots == UNION {Roots(t) : t \in sources}
             root == IF Cardinality(roots) = 1 THEN CHOOSE t \in roots : TRUE ELSE NoTicket
  <2>1. root \in Ids \cup {NoTicket}
    <3>1. CASE roots = {}
      BY <3>1, FS_EmptySet
    <3>2. CASE roots # {}
      BY <3>2, <1>4
    <3>3. QED BY <3>1, <3>2
  <2>2. packet = NewPacket(changes, "merge", sources, root, roots)
    BY DEF Merged
  <2> HIDE DEF root, roots, packet, changes
  <2>3. QED BY <2>1, <2>2, <1>3, <1>4, NewPacketRow DEF NewPacket, roots
<1>6. tickets' = Table({n}, rows, sources, "superseded")
  <2> HIDE DEF packet
  <2>1. QED BY <1>1, <1>2 DEF TypeOK, Table, Superseded, Used, Unused
<1>7. /\ rows \in [{n} -> TicketRows] /\ rows[n].changes = changes
      /\ rows[n].kind = "packet" /\ rows[n].status = "proposed" /\ rows[n].parents = sources
  <2> HIDE DEF packet, changes
  <2>1. QED BY <1>5
<1>8. /\ \A c \in changes : \E s \in sources : Open(s) /\ c \in tickets[s].changes
      /\ \A s \in sources : tickets[s].changes \subseteq changes
  BY <1>1
<1> HIDE DEF rows, packet, changes
<1>9. Proposals({n}, rows)
  BY <1>7 DEF Proposals
<1>10. Sourced({n}, rows, sources)
  BY <1>7, <1>8 DEF Sourced
<1>11. Disjoint({n}, rows)
  BY DEF Disjoint
<1>12. Heirs({n}, rows, sources)
  BY <1>7 DEF Heirs
<1>13. Covered({n}, rows, sources)
  BY <1>7, <1>8 DEF Covered
<1>14. LegalTable /\ Replaces(sources, {n}) /\ tickets'[n] = rows[n]
  BY <1>1, <1>6, <1>9, <1>10, <1>11, <1>12, <1>13, NewRows
<1>15. OpensWith(n, changes)
  BY <1>7, <1>14 DEF OpensWith, Replaces, Open, Packet, Used
<1>16. QED BY <1>14, <1>15 DEF changes

LEMMA SplitLegal ==
  ASSUME TypeOK, NEW t \in Ids, Used(t), NEW news \in SUBSET Unused,
         NEW group \in [tickets[t].changes -> Unused], Split(t, news, group)
  PROVE  LegalTable /\ Replaces({t}, news)
         /\ \A n \in news : OpensWith(n, {c \in tickets[t].changes : group[c] = n})
<1> DEFINE share(n) == {c \in tickets[t].changes : group[c] = n}
<1>1. PICK root \in Roots(t) :
        tickets' = [Children(t, group, root) EXCEPT ![t].status = "superseded"]
  BY DEF Split
<1> DEFINE rows == [n \in news |-> NewPacket(share(n), "split", {t}, root, Roots(t))]
<1>2. Open(t) /\ t \notin news /\ news = {group[c] : c \in tickets[t].changes}
  BY DEF Split, Unused
<1>3. tickets[t].changes \in SUBSET Changes
  BY UsedRow DEF TicketRows
<1>4. Roots(t) \in SUBSET Ids
  BY RootsAreIds
<1>5. \A n \in news : /\ rows[n] \in TicketRows
                     /\ rows[n].changes = share(n)
                     /\ rows[n].kind = "packet" /\ rows[n].status = "proposed"
                     /\ rows[n].parents = {t}
  <2> SUFFICES ASSUME NEW n \in news
               PROVE  /\ rows[n] \in TicketRows /\ rows[n].changes = share(n)
                      /\ rows[n].kind = "packet" /\ rows[n].status = "proposed"
                      /\ rows[n].parents = {t}
    OBVIOUS
  <2>1. share(n) \in SUBSET Changes
    BY <1>3
  <2>2. rows[n] = NewPacket(share(n), "split", {t}, root, Roots(t))
    OBVIOUS
  <2> HIDE DEF share, rows
  <2>3. QED BY <2>1, <2>2, <1>4, NewPacketRow DEF NewPacket
<1>6. tickets' = Table(news, rows, {t}, "superseded")
  <2>1. \A n \in Ids : n \in news <=> \E c \in tickets[t].changes : group[c] = n
    BY <1>2
  <2>2. \A n \in Ids : Children(t, group, root)[n] = IF n \in news THEN rows[n] ELSE tickets[n]
    BY <2>1 DEF Children
  <2>3. DOMAIN Children(t, group, root) = Ids
    BY DEF Children
  <2>4. tickets' = [n \in Ids |-> IF n = t
                      THEN [Children(t, group, root)[t] EXCEPT !.status = "superseded"]
                      ELSE Children(t, group, root)[n]]
    BY <1>1, <2>3
  <2> HIDE DEF rows
  <2>5. QED BY <2>2, <2>4, <1>2 DEF Table
<1>7. rows \in [news -> TicketRows]
  BY <1>5
<1>8. /\ \A n \in news : rows[n].changes \subseteq tickets[t].changes
      /\ \A c \in tickets[t].changes : \E n \in news : c \in rows[n].changes
  <2>1. \A n \in news : rows[n].changes = share(n)
    BY <1>5
  <2> HIDE DEF rows
  <2>2. QED BY <1>2, <2>1
<1>9. \A m, n \in news : m # n => rows[m].changes \cap rows[n].changes = {}
  <2>1. \A n \in news : rows[n].changes = share(n)
    BY <1>5
  <2> HIDE DEF rows
  <2>2. QED BY <2>1
<1>10. news # {}
  <2>1. Cardinality(news) >= 2
    BY DEF Split
  <2>2. Cardinality({}) = 0
    BY FS_EmptySet
  <2>3. QED BY <2>1, <2>2
<1>11. \A n \in news : /\ rows[n].kind = "packet" /\ rows[n].status = "proposed"
                      /\ rows[n].parents = {t} /\ rows[n].changes = share(n)
  BY <1>5
<1> HIDE DEF rows, share
<1>12. Proposals(news, rows)
  BY <1>7, <1>11 DEF Proposals
<1>13. Sourced(news, rows, {t})
  BY <1>2, <1>8 DEF Sourced
<1>14. Disjoint(news, rows)
  BY <1>9 DEF Disjoint
<1>15. Heirs(news, rows, {t})
  BY <1>10, <1>11 DEF Heirs
<1>16. Covered(news, rows, {t})
  BY <1>8, <1>11 DEF Covered
<1>17. LegalTable /\ Replaces({t}, news) /\ \A n \in news : tickets'[n] = rows[n]
  <2>1. {t} \in SUBSET Ids /\ (\A s \in {t} : Used(s))
    OBVIOUS
  <2>2. QED BY <2>1, <1>6, <1>12, <1>13, <1>14, <1>15, <1>16, NewRows
<1>18. \A n \in news : OpensWith(n, share(n))
  BY <1>2, <1>11, <1>17 DEF OpensWith, Replaces, Open, Packet, Used
<1>19. QED BY <1>17, <1>18 DEF share

LEMMA ReviewLegal ==
  ASSUME TypeOK, NEW t \in Ids, Review(t)
  PROVE  LegalTable /\ Replaces({}, {})
<1>1. Used(t) /\ Open(t) /\ tickets' = WithStatus(t, "approved")
  BY DEF Review, Packet, Open, Status, Used
<1>2. QED BY <1>1, StatusChange

LEMMA ApplyLegal ==
  ASSUME TypeOK, NEW t \in Ids, NEW k \in Keys, NEW compat \in BOOLEAN,
         Apply(t, k, compat)
  PROVE  LegalTable /\ Replaces({t}, {})
<1>1. Used(t) /\ tickets' = WithStatus(t, "applied")
  BY DEF Apply, Packet, Open
<1>2. QED BY <1>1, StatusChange

LEMMA InboxLegal ==
  ASSUME TInv, NEW p \in Procs, Inbox(p)
  PROVE  LegalTable /\ (RejectUpdate(p) => Replaces({target[p]}, {}))
<1>1. CASE RejectUpdate(p)
  <2>1. /\ target[p] \in Ids /\ Used(target[p])
        /\ tickets' = WithStatus(target[p], "rejected")
    BY <1>1 DEF RejectUpdate, TInv, TargetsUsed
  <2>2. QED BY <2>1, StatusChange DEF TInv
<1>2. CASE ~RejectUpdate(p)
  <2>1. UNCHANGED tickets
    BY <1>2 DEF Inbox, Reject, Hold, Begin, ReadSequence, AppendCommit, AppendFails,
                Crash, canon
  <2>2. QED BY <1>2, <2>1, SameTable DEF TInv
<1>3. QED BY <1>1, <1>2

\* Every step is legal.
LEMMA NextLegal ==
  ASSUME TInv, [Next]_vars
  PROVE  LegalTable
<1>1. CASE Draft
  BY <1>1, CreatePacketLegal, CreateCandidateLegal, MaterializeLegal DEF Draft, TInv
<1>2. CASE Reshape
  BY <1>2, AmendLegal, SplitLegal, MergeLegal DEF Reshape, TInv
<1>3. CASE Decide
  BY <1>3, ReviewLegal, ApplyLegal DEF Decide, TInv
<1>4. CASE \E p \in Procs : Inbox(p)
  BY <1>4, InboxLegal
<1>5. CASE UNCHANGED vars
  BY <1>5, SameTable DEF vars, canon, TInv
<1>6. QED BY <1>1, <1>2, <1>3, <1>4, <1>5 DEF Next

------------------------------------------------------------------------------
(* The shape of the state *)

LEMMA InitTyped == Init => TInv
BY MaxReviewsAssumption DEF Init, TInv, TypeOK, TargetsUsed, Statuses, Actions

\* The log takes one more action of each kind of step.
LEMMA NextLogs ==
  ASSUME TInv, [Next]_vars
  PROVE  log' \in [Ids -> SUBSET Actions] /\ sequence' \in Nat
<1> USE DEF TInv
<1>1. CASE Draft
  <2>1. ASSUME NEW n \in Ids, NEW cs \in SUBSET Changes, CreatePacket(n, cs)
        PROVE  log' \in [Ids -> SUBSET Actions] /\ sequence' \in Nat
    BY <2>1, LogType DEF CreatePacket, Actions
  <2>2. ASSUME NEW n \in Ids, CreateCandidate(n)
        PROVE  log' \in [Ids -> SUBSET Actions] /\ sequence' \in Nat
    BY <2>2 DEF CreateCandidate, history, TypeOK
  <2>3. ASSUME NEW t \in Ids, NEW n \in Ids, NEW cs \in SUBSET Changes,
               Materialize(t, n, cs)
        PROVE  log' \in [Ids -> SUBSET Actions] /\ sequence' \in Nat
    BY <2>3, LogNewType DEF Materialize, Actions
  <2>4. QED BY <1>1, <2>1, <2>2, <2>3 DEF Draft
<1>2. CASE Reshape
  <2>1. ASSUME NEW t \in Ids, NEW n \in Ids, NEW cs \in SUBSET Changes, Amend(t, n, cs)
        PROVE  log' \in [Ids -> SUBSET Actions] /\ sequence' \in Nat
    BY <2>1, LogNewType DEF Amend, Actions
  <2>2. ASSUME NEW t \in Ids, NEW news \in SUBSET Unused,
               NEW group \in [tickets[t].changes -> Unused], Split(t, news, group)
        PROVE  log' \in [Ids -> SUBSET Actions] /\ sequence' \in Nat
    BY <2>2, LogNewType DEF Split, Actions, Unused
  <2>3. ASSUME NEW sources \in SUBSET Ids, NEW n \in Ids, Merge(sources, n)
        PROVE  log' \in [Ids -> SUBSET Actions] /\ sequence' \in Nat
    BY <2>3, LogNewType DEF Merge, Actions
  <2>4. QED BY <1>2, <2>1, <2>2, <2>3 DEF Reshape
<1>3. CASE Decide
  BY <1>3, LogType DEF Decide, Review, Apply, Actions
<1>4. CASE \E p \in Procs : Inbox(p)
  <2>1. PICK p \in Procs : Inbox(p)
    BY <1>4
  <2>2. CASE AppendCommit(p)
    <3>1. target[p] \in Ids
      BY <2>2 DEF AppendCommit, TargetsUsed
    <3>2. QED BY <2>2, <3>1, LogType DEF AppendCommit, Actions
  <2>3. CASE ~AppendCommit(p)
    BY <2>1, <2>3 DEF Inbox, Reject, Hold, Begin, RejectUpdate, ReadSequence,
                      AppendFails, Crash, history, TypeOK
  <2>4. QED BY <2>2, <2>3
<1>5. CASE UNCHANGED vars
  BY <1>5 DEF vars, history, TypeOK
<1>6. QED BY <1>1, <1>2, <1>3, <1>4, <1>5 DEF Next

\* Only the inbox changes the review commands, and each is about a ticket.
LEMMA NextCommands ==
  ASSUME TInv, [Next]_vars
  PROVE  /\ pc' \in [Procs -> {"idle", "update", "reject", "hold",
                              "log_reject", "log_hold"}]
         /\ target' \in [Procs -> Ids \cup {NoTicket}]
         /\ seen' \in [Procs -> Nat]
         /\ reviews' \in 0..MaxReviews
         /\ \A p \in Procs : pc'[p] # "idle" => target'[p] \in Ids /\ Used(target'[p])
<1> USE DEF TInv
<1>1. CASE \E p \in Procs : Inbox(p)
  <2>1. PICK p \in Procs : Inbox(p)
    BY <1>1
  <2>2. CASE \E t \in Ids : Reject(p, t) \/ Hold(p, t)
    BY <2>2, MaxReviewsAssumption DEF Reject, Hold, Begin, TypeOK, TargetsUsed
  <2>3. CASE RejectUpdate(p)
    BY <2>3 DEF RejectUpdate, TypeOK, TargetsUsed
  <2>4. CASE ReadSequence(p)
    BY <2>4 DEF ReadSequence, TypeOK, TargetsUsed
  <2>5. CASE AppendCommit(p) \/ AppendFails(p) \/ Crash(p)
    BY <2>5 DEF AppendCommit, AppendFails, Crash, Return, TypeOK, TargetsUsed
  <2>6. QED BY <2>1, <2>2, <2>3, <2>4, <2>5 DEF Inbox
<1>2. CASE ~(\E p \in Procs : Inbox(p))
  <2>1. UNCHANGED commands
    BY <1>2 DEF Next, Draft, CreatePacket, CreateCandidate, Materialize, Reshape, Amend,
                Split, Merge, Decide, Review, Apply, vars
  <2>2. QED BY <2>1 DEF commands, TypeOK, TargetsUsed
<1>3. QED BY <1>1, <1>2

\* Only Apply changes the world and the receipts.
LEMMA NextWorld ==
  ASSUME TInv, [Next]_vars
  PROVE  \/ UNCHANGED <<world, receipts>>
         \/ \E t \in Ids, k \in Keys, compat \in BOOLEAN : Apply(t, k, compat)
BY DEF Next, Draft, CreatePacket, CreateCandidate, Materialize, Reshape, Amend, Split,
       Merge, Decide, Review, Inbox, Reject, Hold, Begin, RejectUpdate, ReadSequence,
       AppendCommit, AppendFails, Crash, vars, canon

LEMMA NextTyped ==
  ASSUME TInv, [Next]_vars
  PROVE  TInv'
<1>1. /\ world' \in [Changes -> Nat]
      /\ receipts' \in [Keys -> Ids \cup {NoTicket}]
  BY NextWorld DEF Apply, TInv, TypeOK
<1>2. TypeOK'
  BY <1>1, NextLegal, NextLogs, NextCommands DEF LegalTable, TypeOK
<1>3. TargetsUsed'
  BY NextLegal, NextCommands DEF LegalTable, Kept, TargetsUsed, Used
<1>4. QED BY <1>2, <1>3 DEF TInv

\* The state keeps its shape, and a review command in progress is about a ticket
\* that exists.
THEOREM TypeCorrect == Spec => []TypeOK
<1>1. TInv /\ [Next]_vars => TInv'
  BY NextTyped
<1>2. TInv => TypeOK
  BY DEF TInv
<1>3. QED BY InitTyped, <1>1, <1>2, PTL DEF Spec

------------------------------------------------------------------------------
(* Changes reach the world once *)

ReceiptsUsed == \A k \in Keys : receipts[k] # NoTicket => Used(receipts[k])

\* Two packets in review share no change, and the world has none of theirs.
OpenApart ==
  \A t, u \in Ids : t # u /\ Open(t) /\ Open(u)
    => tickets[t].changes \cap tickets[u].changes = {}

OpenUnapplied == \A t \in Ids : Open(t) => \A c \in tickets[t].changes : world[c] = 0

CInv ==
  /\ TInv
  /\ ReceiptsUsed
  /\ ReceiptsExplainWorld
  /\ OpenApart
  /\ OpenUnapplied

LEMMA InitCanon == Init => CInv
<1> SUFFICES ASSUME Init PROVE CInv
  OBVIOUS
<1>1. TInv
  BY InitTyped
<1>2. \A t \in Ids : ~Open(t)
  BY DEF Init, Open, Packet, Used
<1>3. ReceiptsUsed /\ ReceiptsExplainWorld
  BY DEF Init, ReceiptsUsed, ReceiptsExplainWorld
<1>4. QED BY <1>1, <1>2, <1>3 DEF CInv, OpenApart, OpenUnapplied

\* What is fresh is not in the world: what is there has been drafted.
LEMMA FreshIsUnapplied ==
  ASSUME CInv, NEW c \in Fresh
  PROVE  world[c] = 0
<1>1. c \in Changes /\ world[c] \in Nat
  BY DEF Fresh, CInv, TInv, TypeOK
<1>2. SUFFICES ASSUME world[c] > 0 PROVE FALSE
  BY <1>1
<1>3. PICK k \in Keys : receipts[k] # NoTicket /\ c \in tickets[receipts[k]].changes
  BY <1>1, <1>2 DEF CInv, ReceiptsExplainWorld
<1>4. receipts[k] \in Ids /\ Used(receipts[k])
  BY <1>3 DEF CInv, TInv, TypeOK, ReceiptsUsed
<1>5. QED BY <1>3, <1>4 DEF Fresh, Drafted

\* A legal table leaves the packets in review apart.
LEMMA LegalApart ==
  ASSUME CInv, LegalTable
  PROVE  OpenApart'
<1> SUFFICES ASSUME NEW t \in Ids, NEW u \in Ids, t # u, Open(t)', Open(u)',
                    NEW c \in tickets'[t].changes, c \in tickets'[u].changes
             PROVE  FALSE
  BY DEF OpenApart
<1> USE DEF LegalTable, CInv, Unused
\* A packet already in review keeps its changes; none of them is in a new packet.
<1>1. ASSUME NEW v \in Ids, NEW n \in Ids, Used(v), Open(v)', n \in Unused, Open(n)',
             c \in tickets'[v].changes, c \in tickets'[n].changes
      PROVE  FALSE
  <2>1. Open(v) /\ c \in tickets[v].changes
    BY <1>1 DEF NoneReopened, Kept
  <2>2. c \notin Fresh
    BY <1>1, <2>1 DEF Fresh, Drafted
  <2>3. PICK s \in Ids : Open(s) /\ ~Open(s)' /\ c \in tickets[s].changes
    BY <1>1, <2>2 DEF Provenance
  <2>4. QED BY <1>1, <2>1, <2>3 DEF OpenApart
<1>2. CASE Used(t) /\ Used(u)
  BY <1>2 DEF NoneReopened, Kept, OpenApart
<1>3. CASE Used(t) /\ ~Used(u)
  BY <1>1, <1>3
<1>4. CASE ~Used(t) /\ Used(u)
  BY <1>1, <1>4
<1>5. CASE ~Used(t) /\ ~Used(u)
  BY <1>5 DEF Apart
<1>6. QED BY <1>2, <1>3, <1>4, <1>5

\* A legal step that leaves the world alone.
LEMMA LegalUnapplied ==
  ASSUME CInv, LegalTable, UNCHANGED world
  PROVE  OpenUnapplied'
<1> SUFFICES ASSUME NEW t \in Ids, Open(t)', NEW c \in tickets'[t].changes
             PROVE  world[c] = 0
  BY DEF OpenUnapplied
<1>1. CASE Used(t)
  BY <1>1 DEF LegalTable, NoneReopened, Kept, CInv, OpenUnapplied
<1>2. CASE ~Used(t)
  <2>1. \/ c \in Fresh
        \/ \E s \in Ids : Open(s) /\ c \in tickets[s].changes
    BY <1>2 DEF LegalTable, Provenance, Unused
  <2>2. QED BY <2>1, FreshIsUnapplied DEF CInv, OpenUnapplied
<1>3. QED BY <1>1, <1>2

LEMMA LegalReceipts ==
  ASSUME CInv, LegalTable, UNCHANGED <<world, receipts>>
  PROVE  ReceiptsUsed' /\ ReceiptsExplainWorld'
<1>1. \A k \in Keys : receipts[k] # NoTicket =>
        /\ receipts[k] \in Ids /\ Used(receipts[k])
        /\ tickets'[receipts[k]] # NoTicket
        /\ tickets'[receipts[k]].changes = tickets[receipts[k]].changes
  BY DEF CInv, TInv, TypeOK, ReceiptsUsed, LegalTable, Kept
<1>2. ReceiptsUsed'
  BY <1>1 DEF ReceiptsUsed, Used
<1>3. ReceiptsExplainWorld'
  BY <1>1 DEF CInv, ReceiptsExplainWorld
<1>4. QED BY <1>2, <1>3

LEMMA ApplyCanon ==
  ASSUME CInv, NEW t \in Ids, NEW k \in Keys, NEW compat \in BOOLEAN,
         Apply(t, k, compat)
  PROVE  CInv'
<1>1. TInv' /\ LegalTable
  <2>1. [Next]_vars
    BY DEF Next, Decide
  <2>2. QED BY <2>1, NextTyped, NextLegal DEF CInv
<1>2. /\ Open(t) /\ Used(t) /\ receipts[k] = NoTicket
      /\ world' = [c \in Changes |-> IF c \in tickets[t].changes THEN world[c] + 1
                                                                 ELSE world[c]]
      /\ receipts' = [receipts EXCEPT ![k] = t]
  BY DEF Apply, Open, Packet
<1>3. tickets[t].changes \in SUBSET Changes
  BY <1>2, UsedRow DEF CInv, TInv, TicketRows
<1>4. ~Open(t)'
  <2>1. tickets'[t].status = "applied"
    <3>1. tickets' = WithStatus(t, "applied") /\ tickets[t] \in TicketRows
      BY <1>2, UsedRow DEF Apply, CInv, TInv
    <3>2. tickets'[t] = [tickets[t] EXCEPT !.status = "applied"]
      BY <1>2, <3>1, WithStatusTable DEF CInv, TInv, Statuses
    <3>3. QED BY <3>1, <3>2 DEF TicketRows
  <2>2. QED BY <2>1 DEF Open
<1>5. \A c \in tickets[t].changes : world'[c] = 1
  BY <1>2, <1>3 DEF CInv, OpenUnapplied
<1>6. \A c \in Changes \ tickets[t].changes : world'[c] = world[c]
  BY <1>2
<1>7. \A j \in Keys : /\ receipts'[j] = IF j = k THEN t ELSE receipts[j]
                      /\ receipts'[j] # NoTicket => /\ receipts'[j] \in Ids
                                                    /\ Used(receipts'[j])
  BY <1>2, NoTicketAssumption DEF CInv, TInv, TypeOK, ReceiptsUsed
<1>8. \A j \in Keys : receipts'[j] # NoTicket =>
        /\ tickets'[receipts'[j]] # NoTicket
        /\ tickets'[receipts'[j]].changes = tickets[receipts'[j]].changes
  BY <1>1, <1>7 DEF LegalTable, Kept
<1>9. ReceiptsUsed'
  BY <1>8 DEF ReceiptsUsed, Used
<1>10. ReceiptsExplainWorld'
  <2>1. ASSUME NEW j \in Keys, receipts'[j] # NoTicket,
               NEW c \in tickets'[receipts'[j]].changes
        PROVE  world'[c] = 1
    <3>1. CASE c \in tickets[t].changes
      BY <1>5, <3>1
    <3>2. CASE c \notin tickets[t].changes
      <4>1. j # k /\ receipts[j] # NoTicket /\ c \in tickets[receipts[j]].changes
        BY <1>7, <1>8, <2>1, <3>2
      <4>2. world[c] = 1 /\ c \in Changes
        BY <4>1, UsedRow DEF CInv, TInv, TypeOK, ReceiptsUsed, ReceiptsExplainWorld,
                             TicketRows
      <4>3. QED BY <1>6, <3>2, <4>2
    <3>3. QED BY <3>1, <3>2
  <2>2. ASSUME NEW c \in Changes, world'[c] > 0
        PROVE  \E j \in Keys : /\ receipts'[j] # NoTicket
                               /\ c \in tickets'[receipts'[j]].changes
    <3>1. CASE c \in tickets[t].changes
      <4>1. receipts'[k] # NoTicket /\ c \in tickets'[receipts'[k]].changes
        BY <1>7, <1>8, <3>1, NoTicketAssumption
      <4>2. QED BY <4>1
    <3>2. CASE c \notin tickets[t].changes
      <4>1. PICK j \in Keys : receipts[j] # NoTicket /\ c \in tickets[receipts[j]].changes
        BY <1>6, <2>2, <3>2 DEF CInv, ReceiptsExplainWorld
      <4>2. j # k
        BY <1>2, <4>1
      <4>3. QED BY <1>7, <1>8, <4>1, <4>2
    <3>3. QED BY <3>1, <3>2
  <2>3. QED BY <2>1, <2>2 DEF ReceiptsExplainWorld
<1>11. OpenApart'
  BY <1>1, LegalApart
<1>12. OpenUnapplied'
  <2> SUFFICES ASSUME NEW u \in Ids, Open(u)', NEW c \in tickets'[u].changes
               PROVE  world'[c] = 0
    BY DEF OpenUnapplied
  <2>1. u # t
    BY <1>4
  <2>2. tickets'[u] = tickets[u]
    <3>1. tickets' = WithStatus(t, "applied") /\ TypeOK /\ "applied" \in Statuses
      BY DEF Apply, CInv, TInv, Statuses
    <3>2. \A v \in Ids \ {t} : WithStatus(t, "applied")[v] = tickets[v]
      BY <1>2, <3>1, WithStatusTable
    <3>3. QED BY <2>1, <3>1, <3>2
  <2>3. Open(u) /\ c \in tickets[u].changes /\ c \in Changes
    BY <2>2, UsedRow DEF Open, Packet, Used, CInv, TInv, TicketRows
  <2>4. c \notin tickets[t].changes
    BY <1>2, <2>1, <2>3 DEF CInv, OpenApart
  <2>5. QED BY <1>6, <2>3, <2>4 DEF CInv, OpenUnapplied
<1>13. QED BY <1>1, <1>9, <1>10, <1>11, <1>12 DEF CInv

LEMMA NextCanon ==
  ASSUME CInv, [Next]_vars
  PROVE  CInv'
<1>1. TInv' /\ LegalTable
  BY NextTyped, NextLegal DEF CInv
<1>2. CASE UNCHANGED <<world, receipts>>
  BY <1>1, <1>2, LegalApart, LegalUnapplied, LegalReceipts DEF CInv
<1>3. CASE \E t \in Ids, k \in Keys, compat \in BOOLEAN : Apply(t, k, compat)
  BY <1>3, ApplyCanon
<1>4. QED BY <1>2, <1>3, NextWorld DEF CInv

LEMMA CanonInvariant == Spec => []CInv
BY InitCanon, NextCanon, PTL DEF Spec

\* Every change that the world has came with the receipt of a ticket that holds
\* it, and a ticket with a receipt has all its changes there, once each.
THEOREM WorldExplained == Spec => []ReceiptsExplainWorld
<1>1. CInv => ReceiptsExplainWorld
  BY DEF CInv
<1>2. QED BY CanonInvariant, <1>1, PTL

\* No sequence of amendments, splits, merges, reviews, applications under any
\* keys and rejections in any order puts a change into the world twice.
THEOREM AppliedOnce == Spec => []AppliedAtMostOnce
<1>1. CInv => AppliedAtMostOnce
  BY DEF CInv, TInv, TypeOK, ReceiptsExplainWorld, AppliedAtMostOnce
<1>2. QED BY CanonInvariant, <1>1, PTL

------------------------------------------------------------------------------
(* Approvals, successors, and changes in review *)

\* The log only grows.
LEMMA LogGrows ==
  ASSUME TInv, [Next]_vars, NEW t \in Ids
  PROVE  log[t] \subseteq log'[t]
<1> USE DEF TInv, TypeOK
<1>1. \A u \in Ids, action \in Actions : Log(action, u) => log[t] \subseteq log'[t]
  BY DEF Log
<1>2. \A news \in SUBSET Ids, u \in Ids, action \in Actions :
        LogNew(news, action, u) => log[t] \subseteq log'[t]
  BY DEF LogNew
<1>3. CASE UNCHANGED log
  BY <1>3
<1>4. CASE Draft
  BY <1>1, <1>2, <1>3, <1>4
     DEF Draft, CreatePacket, CreateCandidate, Materialize, history, Actions
<1>5. CASE Reshape
  BY <1>2, <1>5 DEF Reshape, Amend, Split, Merge, Unused, Actions
<1>6. CASE Decide
  BY <1>1, <1>6 DEF Decide, Review, Apply, Actions
<1>7. CASE \E p \in Procs : Inbox(p)
  <2>1. PICK p \in Procs : Inbox(p)
    BY <1>7
  <2>2. CASE AppendCommit(p)
    BY <1>1, <2>2 DEF AppendCommit, Actions, TargetsUsed
  <2>3. CASE ~AppendCommit(p)
    BY <1>3, <2>1, <2>3 DEF Inbox, Reject, Hold, Begin, RejectUpdate, ReadSequence,
                            AppendFails, Crash, history
  <2>4. QED BY <2>2, <2>3
<1>8. CASE UNCHANGED vars
  BY <1>3, <1>8 DEF vars, history
<1>9. QED BY <1>4, <1>5, <1>6, <1>7, <1>8 DEF Next

\* An approval is logged under the ticket that has it, and a superseded ticket
\* has an heir.
LInv ==
  /\ TInv
  /\ \A t \in Ids : Status(t) = "approved" => "ticket_reviewed" \in log[t]
  /\ SupersededHasHeir

LEMMA NextLineage ==
  ASSUME LInv, [Next]_vars
  PROVE  LInv'
<1>1. TInv' /\ LegalTable
  BY NextTyped, NextLegal DEF LInv
<1>2. ASSUME NEW t \in Ids, Status(t)' = "approved"
      PROVE  "ticket_reviewed" \in log'[t]
  <2>1. tickets'[t] # NoTicket /\ tickets'[t].status = "approved"
    BY <1>2 DEF Status, Used
  <2>2. CASE Status(t) = "approved"
    BY <2>2, LogGrows DEF LInv
  <2>3. CASE Review(t)
    BY <2>3 DEF Review, Log, LInv, TInv, TypeOK
  <2>4. QED BY <1>1, <2>1, <2>2, <2>3 DEF LegalTable, Earned
<1>3. ASSUME NEW t \in Ids, Status(t)' = "superseded"
      PROVE  \E n \in Ids : tickets'[n] # NoTicket /\ t \in tickets'[n].parents
  <2>1. tickets'[t] # NoTicket /\ tickets'[t].status = "superseded"
    BY <1>3 DEF Status, Used
  <2>2. CASE Status(t) = "superseded"
    <3>1. PICK n \in Ids : Used(n) /\ t \in tickets[n].parents
      BY <2>2 DEF LInv, SupersededHasHeir
    <3>2. QED BY <1>1, <3>1 DEF LegalTable, Kept
  <2>3. CASE \E n \in Unused : tickets'[n] # NoTicket /\ t \in tickets'[n].parents
    BY <2>3 DEF Unused
  <2>4. QED BY <1>1, <2>1, <2>2, <2>3 DEF LegalTable, Inherited
<1>4. SupersededHasHeir'
  BY <1>3 DEF SupersededHasHeir, Used
<1>5. QED BY <1>1, <1>2, <1>4 DEF LInv

LEMMA LineageInvariant == Spec => []LInv
<1>1. Init => LInv
  BY InitTyped DEF Init, LInv, SupersededHasHeir, Status, Used
<1>2. QED BY <1>1, NextLineage, PTL DEF Spec

\* What is applied as approved was reviewed under its own id: a packet made by
\* amending, splitting or merging never inherits an approval.
THEOREM ReviewedFirst == Spec => ReviewedBeforeApplied
<1>1. LInv /\ [Next]_vars =>
        [\A t \in Ids : Status(t) = "approved" /\ tickets'[t].status = "applied"
           => "ticket_reviewed" \in log[t]]_vars
  BY DEF LInv
<1>2. QED BY LineageInvariant, <1>1, PTL DEF Spec, ReviewedBeforeApplied

\* Amending, splitting and merging name the tickets that they supersede, and no
\* later step forgets it.
THEOREM HeirsKnown == Spec => []SupersededHasHeir
<1>1. LInv => SupersededHasHeir
  BY DEF LInv
<1>2. QED BY LineageInvariant, <1>1, PTL

\* A change leaves review by an application that puts it into the world, by a
\* rejection, or by an amendment: never by a split or a merge.
THEOREM NothingLost == Spec => NoChangeIsLost
<1>1. ASSUME TInv, [Next]_vars, NEW c \in InReview \ InReview'
      PROVE  \/ world'[c] > 0
             \/ \E t \in Ids : Open(t) /\ c \in tickets[t].changes
                                /\ tickets'[t].status = "rejected"
             \/ Amended
  <2>1. LegalTable
    BY <1>1, NextLegal
  <2>2. PICK t \in Ids : Open(t) /\ c \in tickets[t].changes
    BY <1>1 DEF InReview
  <2>3. \A u \in Ids : Open(u)' => c \notin tickets'[u].changes
    BY <1>1 DEF InReview
  <2>4. CASE tickets'[t].status = "applied"
    <3>1. Used(t) /\ Status(t) # "applied"
      BY <2>2 DEF Open, Packet, Status
    <3>2. tickets'[t] # NoTicket
      BY <2>1, <3>1 DEF LegalTable, Kept
    <3>3. PICK k \in Keys, compat \in BOOLEAN : Apply(t, k, compat)
      BY <2>1, <2>4, <3>1, <3>2 DEF LegalTable, Earned
    <3>4. c \in Changes
      BY <1>1, <2>2, <3>1, UsedRow DEF TInv, TicketRows
    <3>5. world'[c] = world[c] + 1 /\ world[c] \in Nat
      BY <1>1, <2>2, <3>3, <3>4 DEF Apply, TInv, TypeOK
    <3>6. QED BY <3>5
  <2>5. QED BY <2>1, <2>2, <2>3, <2>4 DEF LegalTable, Retained
<1>2. TInv /\ [Next]_vars =>
        [\A c \in InReview \ InReview' :
           \/ world'[c] > 0
           \/ \E t \in Ids : Open(t) /\ c \in tickets[t].changes
                              /\ tickets'[t].status = "rejected"
           \/ \E n \in Unused : tickets'[n] # NoTicket /\ tickets'[n].operation = "amend"]_vars
  BY <1>1 DEF Amended
<1>3. LInv => TInv
  BY DEF LInv
<1>4. QED BY LineageInvariant, <1>2, <1>3, PTL DEF Spec, NoChangeIsLost
------------------------------------------------------------------------------
(* The ledger of changes *)

NoneEmpty == \A t \in Ids : Open(t) => tickets[t].changes # {}

GInv == CInv /\ NoneEmpty

\* What new tickets do to the packets in review and to what is left to draft.
LEMMA Replacement ==
  ASSUME GInv, NEW sources \in SUBSET Ids, NEW news \in SUBSET Unused,
         Kept, Replaces(sources, news)
  PROVE  /\ PacketsInReview' =
              (PacketsInReview \ {tickets[t].changes : t \in {s \in sources : Open(s)}})
                \cup {tickets'[n].changes : n \in {m \in news : Open(m)'}}
         /\ Fresh' = Fresh \ UNION {tickets'[n].changes : n \in news}
<1> DEFINE gone == {s \in sources : Open(s)}
           open == {u \in Ids : Open(u)}
           added == {n \in news : Open(n)'}
<1>1. /\ \A n \in news : n \in Ids /\ ~Used(n) /\ ~Open(n) /\ tickets'[n] # NoTicket
      /\ \A u \in Ids \ news : tickets'[u] # NoTicket <=> Used(u)
      /\ \A u \in Ids \ news : Open(u)' <=> Open(u) /\ u \notin sources
  BY DEF Replaces, Unused, Open, Packet
<1>2. \A u \in Ids : Used(u) => tickets'[u].changes = tickets[u].changes
  BY DEF Kept
<1>3. \A u \in open : Used(u) /\ u \in Ids \ news
  BY <1>1 DEF Open, Packet
<1>4. {u \in Ids : Open(u)'} = (open \ gone) \cup added
  BY <1>1, <1>3
<1>5. PacketsInReview' = {tickets'[u].changes : u \in (open \ gone) \cup added}
  BY <1>4 DEF PacketsInReview
<1>6. {tickets'[u].changes : u \in open \ gone} = {tickets[u].changes : u \in open \ gone}
  BY <1>2, <1>3
<1>7. \A t, u \in open : tickets[t].changes = tickets[u].changes => t = u
  BY DEF GInv, NoneEmpty, CInv, OpenApart
<1>8. {tickets[u].changes : u \in open \ gone}
        = PacketsInReview \ {tickets[u].changes : u \in gone}
  <2> HIDE DEF open
  <2>1. gone \subseteq open
    BY DEF open
  <2>2. PacketsInReview = {tickets[u].changes : u \in open}
    BY DEF PacketsInReview, open
  <2> QED
    BY <1>7, <2>1, <2>2
<1>9. {u \in Ids : tickets'[u] # NoTicket} = {u \in Ids : Used(u)} \cup news
  BY <1>1
<1>10. Drafted' = Drafted \cup UNION {tickets'[n].changes : n \in news}
  <2>1. Drafted' = UNION {tickets'[u].changes : u \in {v \in Ids : Used(v)} \cup news}
    BY <1>9 DEF Drafted, Used
  <2>2. {tickets'[u].changes : u \in {v \in Ids : Used(v)}}
          = {tickets[u].changes : u \in {v \in Ids : Used(v)}}
    BY <1>2
  <2> QED
    BY <2>1, <2>2 DEF Drafted
<1> QED
  BY <1>5, <1>6, <1>8, <1>10 DEF Fresh

\* The ledger as these tickets show it.
Ledger == <<Fresh, PacketsInReview, {c \in Changes : world[c] = 1}>>

\* A packet in review is a set of changes.
LEMMA OpenChanges ==
  ASSUME GInv, NEW t \in Ids, Open(t)
  PROVE  /\ tickets[t].changes \in SUBSET Changes /\ tickets[t].changes # {}
         /\ tickets[t].changes \in PacketsInReview /\ Used(t)
<1>1. Used(t)
  BY DEF Open, Packet
<1>2. tickets[t] \in TicketRows
  BY <1>1, UsedRow DEF GInv, CInv, TInv
<1> QED
  BY <1>1, <1>2 DEF TicketRows, GInv, NoneEmpty, PacketsInReview

\* A new packet of fresh changes.
LEMMA ProposalRefines ==
  ASSUME GInv, LegalTable, UNCHANGED world, NEW sources \in SUBSET Ids,
         \A s \in sources : ~Open(s), NEW n \in Unused, NEW changes \in SUBSET Fresh,
         changes # {}, Replaces(sources, {n}), OpensWith(n, changes)
  PROVE  LedgerOf!Next /\ NoneEmpty'
<1>1. /\ {tickets'[m].changes : m \in {k \in {n} : Open(k)'}} = {changes}
      /\ UNION {tickets'[m].changes : m \in {n}} = changes
      /\ {tickets[t].changes : t \in {s \in sources : Open(s)}} = {}
  BY DEF OpensWith
<1>2. /\ PacketsInReview' = PacketsInReview \cup {changes}
      /\ Fresh' = Fresh \ changes
  <2>1. {n} \in SUBSET Unused /\ Kept
    BY DEF LegalTable
  <2> QED
    BY <1>1, <2>1, Replacement
<1>3. LedgerOf!Propose(changes)
  BY <1>2 DEF LedgerOf!Propose
<1>4. changes \in SUBSET Changes
  BY DEF Fresh
<1>5. NoneEmpty'
  BY DEF NoneEmpty, GInv, OpensWith, Replaces, LegalTable, Kept, Open, Packet, Used
<1> QED
  BY <1>3, <1>4, <1>5 DEF LedgerOf!Next

LEMMA AmendRefines ==
  ASSUME GInv, NEW t \in Ids, NEW n \in Ids, NEW changes \in SUBSET Changes,
         Amend(t, n, changes)
  PROVE  LedgerOf!Next /\ NoneEmpty'
<1>1. LegalTable /\ Replaces({t}, {n}) /\ OpensWith(n, changes)
  BY AmendLegal DEF GInv, CInv, TInv
<1>2. /\ Open(t) /\ n \in Unused /\ changes # {} /\ UNCHANGED world
      /\ changes \subseteq tickets[t].changes \cup Fresh
  BY DEF Amend
<1>3. /\ {tickets'[m].changes : m \in {k \in {n} : Open(k)'}} = {changes}
      /\ UNION {tickets'[m].changes : m \in {n}} = changes
      /\ {tickets[s].changes : s \in {u \in {t} : Open(u)}} = {tickets[t].changes}
  BY <1>1, <1>2 DEF OpensWith
<1>4. /\ PacketsInReview' = (PacketsInReview \ {tickets[t].changes}) \cup {changes}
      /\ Fresh' = Fresh \ changes
  <2>1. {n} \in SUBSET Unused /\ {t} \in SUBSET Ids /\ Kept
    BY <1>1, <1>2 DEF LegalTable
  <2> QED
    BY <1>1, <1>3, <2>1, Replacement
<1>5. tickets[t].changes \in PacketsInReview
  BY <1>2, OpenChanges
<1>6. LedgerOf!Revise(tickets[t].changes, changes)
  BY <1>2, <1>4, <1>5 DEF LedgerOf!Revise
<1>7. NoneEmpty'
  BY <1>1, <1>2 DEF NoneEmpty, GInv, OpensWith, Replaces, LegalTable, Kept, Open, Packet, Used
<1> QED
  BY <1>5, <1>6, <1>7 DEF LedgerOf!Next

LEMMA MergeRefines ==
  ASSUME GInv, NEW sources \in SUBSET Ids, NEW n \in Ids, Merge(sources, n)
  PROVE  LedgerOf!Next /\ NoneEmpty'
<1> DEFINE packets == {tickets[s].changes : s \in sources}
           changes == UNION packets
<1>1. LegalTable /\ Replaces(sources, {n}) /\ OpensWith(n, changes)
  BY MergeLegal DEF GInv, CInv, TInv
<1>2. n \in Unused /\ UNCHANGED world /\ \A s \in sources : Open(s)
  BY DEF Merge
<1>3. sources # {}
  <2>1. Cardinality(sources) >= 2 /\ Cardinality({}) = 0
    BY FS_EmptySet DEF Merge
  <2> QED
    BY <2>1
<1>4. packets \in SUBSET PacketsInReview /\ changes \in SUBSET Changes /\ changes # {}
  <2>1. \A s \in sources :
          /\ tickets[s].changes \in SUBSET Changes /\ tickets[s].changes # {}
          /\ tickets[s].changes \in PacketsInReview
    BY <1>2, OpenChanges
  <2> QED
    BY <1>3, <2>1
<1>5. {tickets[s].changes : s \in {u \in sources : Open(u)}} = packets
  BY <1>2
<1> HIDE DEF packets
<1>6. /\ {tickets'[m].changes : m \in {k \in {n} : Open(k)'}} = {changes}
      /\ UNION {tickets'[m].changes : m \in {n}} = changes
  BY <1>1 DEF OpensWith
<1>7. PacketsInReview' = (PacketsInReview \ packets) \cup {changes} /\ Fresh' = Fresh \ changes
  <2>1. {n} \in SUBSET Unused /\ Kept
    BY <1>1, <1>2 DEF LegalTable
  <2> QED
    BY <1>1, <1>5, <1>6, <2>1, Replacement
<1>8. Fresh' = Fresh
  <2>1. \A p \in PacketsInReview : p \cap Fresh = {}
    BY DEF PacketsInReview, Open, Packet, Fresh, Drafted
  <2> QED
    BY <1>4, <1>7, <2>1
<1>9. LedgerOf!Regroup(packets, {changes})
  BY <1>2, <1>4, <1>7, <1>8 DEF LedgerOf!Regroup, LedgerOf!Partition
<1>10. NoneEmpty'
  BY <1>1, <1>4 DEF NoneEmpty, GInv, OpensWith, Replaces, LegalTable, Kept, Open, Packet, Used
<1>11. {changes} \in SUBSET SUBSET Changes
  BY <1>4
<1> QED
  BY <1>4, <1>9, <1>10, <1>11 DEF LedgerOf!Next

LEMMA SplitRefines ==
  ASSUME GInv, NEW t \in Ids, Used(t), NEW news \in SUBSET Unused,
         NEW group \in [tickets[t].changes -> Unused], Split(t, news, group)
  PROVE  LedgerOf!Next /\ NoneEmpty'
<1> DEFINE share(n) == {c \in tickets[t].changes : group[c] = n}
           groups == {share(n) : n \in news}
           packet == tickets[t].changes
<1>1. LegalTable /\ Replaces({t}, news) /\ \A n \in news : OpensWith(n, share(n))
  BY SplitLegal DEF GInv, CInv, TInv
<1>2. Open(t) /\ UNCHANGED world /\ news = {group[c] : c \in packet}
  BY DEF Split
<1>3. packet \in SUBSET Changes /\ packet \in PacketsInReview
  BY <1>2, OpenChanges
<1>4. /\ \A n \in news : share(n) # {} /\ share(n) \subseteq packet
      /\ \A c \in packet : group[c] \in news /\ c \in share(group[c])
      /\ \A m, n \in news : m # n => share(m) \cap share(n) = {}
  BY <1>2
<1>5. /\ {tickets'[n].changes : n \in {m \in news : Open(m)'}} = groups
      /\ {tickets'[n].changes : n \in news} = groups
  <2>1. \A n \in news : Open(n)' /\ tickets'[n].changes = share(n)
    BY <1>1 DEF OpensWith
  <2> HIDE DEF share
  <2>2. {m \in news : Open(m)'} = news
    BY <2>1
  <2> QED
    BY <2>1, <2>2
<1>6. {tickets[s].changes : s \in {u \in {t} : Open(u)}} = {packet}
  BY <1>2
<1> HIDE DEF share, packet
<1>7. LedgerOf!Partition(groups, packet)
  BY <1>4 DEF LedgerOf!Partition
<1> HIDE DEF groups
<1>8. PacketsInReview' = (PacketsInReview \ {packet}) \cup groups /\ Fresh' = Fresh \ packet
  <2>1. {t} \in SUBSET Ids /\ Kept
    BY <1>1 DEF LegalTable
  <2>2. UNION groups = packet
    BY <1>7 DEF LedgerOf!Partition
  <2> QED
    BY <1>1, <1>5, <1>6, <2>1, <2>2, Replacement
<1>9. Fresh' = Fresh
  <2>1. packet \cap Fresh = {}
    BY <1>3 DEF PacketsInReview, Open, Packet, Fresh, Drafted
  <2> QED
    BY <1>8, <2>1
<1>10. LedgerOf!Regroup({packet}, groups)
  <2>1. UNION {packet} = packet
    OBVIOUS
  <2> QED
    BY <1>2, <1>3, <1>7, <1>8, <1>9, <2>1 DEF LedgerOf!Regroup
<1>11. groups \in SUBSET SUBSET Changes
  BY <1>3, <1>7 DEF LedgerOf!Partition
<1>12. NoneEmpty'
  BY <1>1, <1>4 DEF NoneEmpty, GInv, OpensWith, Replaces, LegalTable, Kept, Open, Packet, Used
<1> QED
  BY <1>3, <1>10, <1>11, <1>12 DEF LedgerOf!Next

\* Nothing but a decision: no ticket is new, and this one leaves review, if it was there.
LEMMA DecisionShown ==
  ASSUME GInv, LegalTable, NEW sources \in SUBSET Ids, Replaces(sources, {})
  PROVE  /\ PacketsInReview' =
              PacketsInReview \ {tickets[t].changes : t \in {s \in sources : Open(s)}}
         /\ Fresh' = Fresh /\ NoneEmpty'
<1> DEFINE gone == {tickets[t].changes : t \in {s \in sources : Open(s)}}
           new == {tickets'[n].changes : n \in {m \in {} : Open(m)'}}
           drafted == {tickets'[n].changes : n \in {}}
<1>1. new = {} /\ UNION drafted = {}
  OBVIOUS
<1>2. {} \in SUBSET Unused /\ Kept
  BY DEF LegalTable
<1>3. PacketsInReview' = (PacketsInReview \ gone) \cup new /\ Fresh' = Fresh \ UNION drafted
  BY <1>2, Replacement
<1> HIDE DEF new, drafted
<1>4. NoneEmpty'
  BY DEF NoneEmpty, GInv, Replaces, LegalTable, Kept, Open, Packet, Used
<1> QED
  BY <1>1, <1>3, <1>4

LEMMA ApplyRefines ==
  ASSUME GInv, NEW t \in Ids, NEW k \in Keys, NEW compat \in BOOLEAN,
         Apply(t, k, compat)
  PROVE  LedgerOf!Next /\ NoneEmpty'
<1> DEFINE packet == tickets[t].changes
<1>1. LegalTable /\ Replaces({t}, {})
  BY ApplyLegal DEF GInv, CInv, TInv
<1>2. /\ Open(t)
      /\ world' = [c \in Changes |-> IF c \in packet THEN world[c] + 1 ELSE world[c]]
  BY DEF Apply
<1>3. packet \in SUBSET Changes /\ packet \in PacketsInReview
  BY <1>2, OpenChanges
<1>4. \A c \in packet : world[c] = 0
  BY <1>2 DEF GInv, CInv, OpenUnapplied
<1> HIDE DEF packet
<1>5. {c \in Changes : world'[c] = 1} = {c \in Changes : world[c] = 1} \cup packet
  BY <1>2, <1>3, <1>4
<1>6. {tickets[s].changes : s \in {u \in {t} : Open(u)}} = {packet}
  BY <1>2 DEF packet
<1>7. PacketsInReview' = PacketsInReview \ {packet} /\ Fresh' = Fresh /\ NoneEmpty'
  BY <1>1, <1>6, DecisionShown
<1>8. PICK q \in PacketsInReview : q = packet
  BY <1>3
<1>9. LedgerOf!Accept(q)
  BY <1>5, <1>7, <1>8 DEF LedgerOf!Accept
<1>10. LedgerOf!Next
  BY <1>9 DEF LedgerOf!Next
<1> QED
  BY <1>7, <1>10

LEMMA RejectRefines ==
  ASSUME GInv, NEW p \in Procs, RejectUpdate(p)
  PROVE  (LedgerOf!Next \/ UNCHANGED Ledger) /\ NoneEmpty'
<1> DEFINE t == target[p]
           packet == tickets[t].changes
<1>1. /\ t \in Ids /\ UNCHANGED world
  BY DEF RejectUpdate, GInv, CInv, TInv, TargetsUsed
<1>2. LegalTable /\ Replaces({t}, {})
  BY InboxLegal DEF Inbox, GInv, CInv
<1> HIDE DEF t
<1>3. /\ PacketsInReview' =
           PacketsInReview \ {tickets[s].changes : s \in {u \in {t} : Open(u)}}
      /\ Fresh' = Fresh /\ NoneEmpty'
  BY <1>1, <1>2, DecisionShown
<1>4. CASE Open(t)
  <2>1. packet \in PacketsInReview
    BY <1>1, <1>4, OpenChanges
  <2>2. {tickets[s].changes : s \in {u \in {t} : Open(u)}} = {packet}
    BY <1>4
  <2> HIDE DEF packet
  <2>3. LedgerOf!Withdraw(packet)
    BY <1>1, <1>3, <2>1, <2>2 DEF LedgerOf!Withdraw
  <2> QED
    BY <1>3, <2>1, <2>3 DEF LedgerOf!Next
<1>5. CASE ~Open(t)
  <2>1. PacketsInReview' = PacketsInReview
    BY <1>3, <1>5
  <2> QED
    BY <1>1, <1>3, <2>1 DEF Ledger
<1> QED
  BY <1>4, <1>5

\* A step that leaves tickets and world alone is none of the ledger's.
LEMMA OthersStutter ==
  ASSUME GInv, UNCHANGED <<tickets, world>>
  PROVE  UNCHANGED Ledger /\ NoneEmpty'
<1>1. UNCHANGED Ledger
  BY DEF Ledger, Fresh, Drafted, PacketsInReview, Open, Packet, Used
<1>2. NoneEmpty'
  BY DEF GInv, NoneEmpty, Open, Packet, Used
<1> QED
  BY <1>1, <1>2

LEMMA NextRefines ==
  ASSUME GInv, [Next]_vars
  PROVE  (LedgerOf!Next \/ UNCHANGED Ledger) /\ GInv'
<1> SUFFICES (LedgerOf!Next \/ UNCHANGED Ledger) /\ NoneEmpty'
  BY NextCanon DEF GInv
<1> USE DEF GInv, CInv, TInv
<1>1. CASE Draft
  <2>1. ASSUME NEW n \in Ids, NEW cs \in SUBSET Changes, CreatePacket(n, cs)
        PROVE  LedgerOf!Next /\ NoneEmpty'
    <3>1. LegalTable /\ Replaces({}, {n}) /\ OpensWith(n, cs)
      BY <2>1, CreatePacketLegal
    <3>2. n \in Unused /\ cs \in SUBSET Fresh /\ cs # {} /\ UNCHANGED world
      BY <2>1 DEF CreatePacket
    <3>3. {} \in SUBSET Ids /\ \A s \in {} : ~Open(s)
      OBVIOUS
    <3> HIDE DEF GInv
    <3> QED
      BY <3>1, <3>2, <3>3, ProposalRefines
  <2>2. ASSUME NEW t \in Ids, NEW n \in Ids, NEW cs \in SUBSET Changes, Materialize(t, n, cs)
        PROVE  LedgerOf!Next /\ NoneEmpty'
    <3>1. LegalTable /\ Replaces({t}, {n}) /\ OpensWith(n, cs)
      BY <2>2, MaterializeLegal
    <3>2. n \in Unused /\ cs \in SUBSET Fresh /\ cs # {} /\ UNCHANGED world
      BY <2>2 DEF Materialize
    <3>3. {t} \in SUBSET Ids /\ \A s \in {t} : ~Open(s)
      BY <2>2 DEF Materialize, Candidate, Open, Packet
    <3> HIDE DEF GInv
    <3> QED
      BY <3>1, <3>2, <3>3, ProposalRefines
  <2>3. ASSUME NEW n \in Ids, CreateCandidate(n)
        PROVE  UNCHANGED Ledger /\ NoneEmpty'
    <3>1. LegalTable /\ Replaces({}, {n}) /\ tickets'[n] = NewCandidate
      BY <2>3, CreateCandidateLegal
    <3>2. n \in Unused /\ UNCHANGED world
      BY <2>3 DEF CreateCandidate
    <3>3. ~Open(n)' /\ tickets'[n].changes = {}
      BY <3>1 DEF Open, Packet, NewCandidate, NewPacket
    <3>5. {n} \in SUBSET Unused /\ {} \in SUBSET Ids /\ Kept
      BY <3>1, <3>2 DEF LegalTable
    <3> DEFINE gone == {tickets[t].changes : t \in {s \in {} : Open(s)}}
               new == {tickets'[m].changes : m \in {k \in {n} : Open(k)'}}
               drafted == {tickets'[m].changes : m \in {n}}
    <3>4. gone = {} /\ new = {} /\ UNION drafted = {}
      BY <3>3
    <3> HIDE DEF GInv
    <3>6. PacketsInReview' = (PacketsInReview \ gone) \cup new /\ Fresh' = Fresh \ UNION drafted
      BY <3>1, <3>5, Replacement
    <3>7. NoneEmpty'
      BY <3>1, <3>3 DEF NoneEmpty, GInv, Replaces, LegalTable, Kept, Open, Packet, Used
    <3> HIDE DEF gone, new, drafted
    <3> QED
      BY <3>2, <3>4, <3>6, <3>7 DEF Ledger
  <2> QED
    BY <1>1, <2>1, <2>2, <2>3 DEF Draft
<1> HIDE DEF GInv, CInv, TInv
<1>2. CASE Reshape
  BY <1>2, AmendRefines, SplitRefines, MergeRefines DEF Reshape
<1>3. CASE Decide
  <2>1. ASSUME NEW t \in Ids, Review(t)
        PROVE  UNCHANGED Ledger /\ NoneEmpty'
    <3>1. LegalTable /\ Replaces({}, {}) /\ UNCHANGED world
      BY <2>1, ReviewLegal DEF Review, GInv, CInv, TInv
    <3>2. {tickets[s].changes : s \in {u \in {} : Open(u)}} = {}
      OBVIOUS
    <3>3. PacketsInReview' = PacketsInReview /\ Fresh' = Fresh /\ NoneEmpty'
      BY <3>1, <3>2, DecisionShown
    <3> QED
      BY <3>1, <3>3 DEF Ledger
  <2> QED
    BY <1>3, <2>1, ApplyRefines DEF Decide
<1>4. ASSUME NEW p \in Procs, Inbox(p)
      PROVE  (LedgerOf!Next \/ UNCHANGED Ledger) /\ NoneEmpty'
  <2>1. CASE RejectUpdate(p)
    BY <2>1, RejectRefines
  <2>2. CASE ~RejectUpdate(p)
    <3>1. UNCHANGED <<tickets, world>>
      BY <1>4, <2>2 DEF Inbox, Reject, Hold, Begin, ReadSequence, AppendCommit,
                        AppendFails, Crash, canon
    <3> QED
      BY <3>1, OthersStutter
  <2> QED
    BY <2>1, <2>2
<1>5. CASE UNCHANGED vars
  BY <1>5, OthersStutter DEF vars, canon
<1> QED
  BY <1>1, <1>2, <1>3, <1>4, <1>5 DEF Next

\* However tickets are amended, split, merged, rejected and applied, their changes are
\* those of a ledger: each is drafted once, is in one packet in review at a time, and
\* goes with the whole packet into the world, once, or out of review for ever
\* (tickets.py, ticket_revision_store.py).
THEOREM ImplementsLedger == Spec => ChangesLiveOnce
<1>1. Init => GInv /\ LedgerOf!Init
  <2> SUFFICES ASSUME Init
               PROVE  GInv /\ LedgerOf!Init
    OBVIOUS
  <2>1. \A t \in Ids : ~Used(t) /\ ~Open(t)
    BY DEF Init, Open, Packet, Used
  <2>2. GInv
    BY <2>1, InitCanon DEF GInv, NoneEmpty
  <2>3. Drafted = {} /\ PacketsInReview = {}
    BY <2>1 DEF Drafted, PacketsInReview
  <2>4. {c \in Changes : world[c] = 1} = {}
    BY DEF Init
  <2> QED
    BY <2>2, <2>3, <2>4 DEF LedgerOf!Init, Fresh
<1>2. GInv /\ [Next]_vars => GInv' /\ [LedgerOf!Next]_Ledger
  BY NextRefines
<1> QED
  BY <1>1, <1>2, PTL DEF Spec, ChangesLiveOnce, LedgerOf!Spec, LedgerOf!ledger, Ledger

------------------------------------------------------------------------------
(* The rows that changes write: types of rows, and of the loop that writes them *)

CanonTables == {TableOf[t] : t \in DOMAIN TableOf}
CanonRows ==
  [table : CanonTables, subject : Int, object : Int, learned : Nat,
   status : FactStatuses \cup LifecycleStatuses \cup {"unset"}, from : Int, until : Int,
   dimension : STRING, valueType : STRING, updated : Nat]
\* Functions from some of K to V.
Maps(K, V) == UNION {[D -> V] : D \in SUBSET K}
Worlds == [rows : Maps(Int, CanonRows), dimensions : Maps(STRING, STRING)]
Stages == [db : Worlds, refs : Maps(Nat, Int), ok : BOOLEAN]

LEMMA MapsAre ==
  ASSUME NEW K, NEW V, NEW f
  PROVE  f \in Maps(K, V) <=>
           f = [x \in DOMAIN f |-> f[x]] /\ DOMAIN f \subseteq K /\ \A x \in DOMAIN f : f[x] \in V
<1>1. ASSUME f \in Maps(K, V)
      PROVE  f = [x \in DOMAIN f |-> f[x]] /\ DOMAIN f \subseteq K /\ \A x \in DOMAIN f : f[x] \in V
  <2>1. PICK D \in SUBSET K : f \in [D -> V]
    BY <1>1 DEF Maps
  <2> QED
    BY <2>1
<1>2. ASSUME f = [x \in DOMAIN f |-> f[x]], DOMAIN f \subseteq K, \A x \in DOMAIN f : f[x] \in V
      PROVE  f \in Maps(K, V)
  <2>1. f \in [DOMAIN f -> V]
    BY <1>2
  <2> QED
    BY <1>2, <2>1 DEF Maps
<1> QED
  BY <1>1, <1>2

LEMMA WithIn ==
  ASSUME NEW K, NEW V, NEW f \in Maps(K, V), NEW k \in K, NEW v \in V
  PROVE  With(f, k, v) \in Maps(K, V)
<1> DEFINE g == [x \in DOMAIN f \cup {k} |-> IF x = k THEN v ELSE f[x]]
<1>1. DOMAIN f \subseteq K /\ \A x \in DOMAIN f : f[x] \in V
  BY MapsAre
<1>2. g \in [DOMAIN f \cup {k} -> V] /\ DOMAIN f \cup {k} \subseteq K
  BY <1>1
<1>3. g \in Maps(K, V)
  BY <1>2 DEF Maps
<1> QED
  BY <1>3 DEF With

\* Which changes write to which table.
LEMMA TypesOfChanges ==
  ASSUME NEW c \in ChangeRecords
  PROVE  /\ TableOf[c.type] \in CanonTables
         /\ ~Adds(c) /\ c.type # "update_fact_status" => Deep(c)
         /\ AddsDeep(c) /\ TableOf[c.type] = "actor_memory_packets"
              => c.type = "add_actor_memory_packet"
         /\ AddsDeep(c) => (TableOf[c.type] = "entity_attribute_spans"
                             <=> c.type = "add_entity_attribute_span")
         /\ AddsDeep(c) => (TableOf[c.type] = "knowledge_attributions"
                             <=> c.type = "add_knowledge_attribution")
         /\ c.type = "add_entity_attribute_span" => Adds(c) /\ AddsDeep(c)
         /\ Adds(c) /\ ~AddsDeep(c) => TableOf[c.type] \notin DeepTables
<1>1. c.type \in DOMAIN TableOf
  BY DEF ChangeRecords
<1>2. TableOf[c.type] \in CanonTables
  BY <1>1 DEF CanonTables
<1> QED
  BY <1>1, <1>2 DEF TableOf, Adds, AddsDeep, Deep, DeepTables

\* An INSERT takes its fields from the change.
LEMMA NewRowIs ==
  ASSUME NEW c \in ChangeRecords, NEW subject \in Int, NEW object \in Int
  PROVE  LET row == NewRow(c, subject, object) IN
         /\ row \in CanonRows
         /\ row.table = TableOf[c.type] /\ row.subject = subject /\ row.object = object
         /\ row.learned = c.learned
         /\ row.dimension = c.dimension /\ row.valueType = c.valueType
         /\ Ordered(c.from, c.until) => Ordered(row.from, row.until)
<1>1. TableOf[c.type] \in CanonTables
  BY TypesOfChanges
<1>2. /\ c.status \in FactStatuses \cup LifecycleStatuses \cup {"unset"}
      /\ c.from \in Nat \cup {Unset} /\ c.until \in Nat \cup {Unset}
      /\ c.dimension \in STRING /\ c.valueType \in STRING /\ c.learned \in Nat
  BY DEF ChangeRecords
<1>3. /\ Dated(c.from) \in Int /\ Dated(c.until) \in Int
      /\ Ordered(c.from, c.until) => Ordered(Dated(c.from), Dated(c.until))
  BY <1>2 DEF Dated, Unset, Null, Ordered
<1> QED
  BY <1>1, <1>2, <1>3 DEF NewRow, CanonRows

\* A revision leaves alone what a record is about.
LEMMA RevisedRowIs ==
  ASSUME NEW row \in CanonRows, NEW c \in ChangeRecords
  PROVE  /\ RevisedRow(row, c) \in CanonRows
         /\ \A f \in {"table", "subject", "object", "learned", "dimension", "valueType"} :
              RevisedRow(row, c)[f] = row[f]
<1>1. /\ c.status \in FactStatuses \cup LifecycleStatuses \cup {"unset"}
      /\ c.from \in Int /\ c.until \in Int
  BY DEF ChangeRecords, Unset
<1>2. /\ Either(c.from, row.from) \in Int /\ Either(c.until, row.until) \in Int
      /\ row.updated + 1 \in Nat
  BY <1>1 DEF Either, CanonRows
<1> QED
  BY <1>1, <1>2 DEF RevisedRow, CanonRows

LEMMA FreshIdIs ==
  ASSUME NEW d
  PROVE  FreshId(d) \in Nat
<1> DEFINE free == (1..FreshIds) \ DOMAIN d.rows
<1>1. CASE free = {}
  BY <1>1 DEF FreshId, Null
<1>2. CASE free # {}
  <2>1. free \in SUBSET Nat
    OBVIOUS
  <2> HIDE DEF free
  <2>2. \E n \in free : \A m \in free : n <= m
    BY <1>2, <2>1, LeastExists
  <2>3. FreshId(d) = CHOOSE n \in free : \A m \in free : n <= m
    BY <1>2 DEF FreshId, free
  <2> QED
    BY <2>1, <2>2, <2>3
<1> QED
  BY <1>1, <1>2

LEMMA ResolvedIs ==
  ASSUME NEW s \in Stages, NEW ref, NEW direct \in Int
  PROVE  Resolved(s, ref, direct) \in Int
<1>1. \A x \in DOMAIN s.refs : s.refs[x] \in Int
  BY MapsAre DEF Stages
<1> QED
  BY <1>1 DEF Resolved, Unset

LEMMA NamedIs ==
  ASSUME NEW s \in Stages, NEW c \in ChangeRecords, NEW id \in Int
  PROVE  Named(s, c, id) \in Maps(Nat, Int)
<1>1. s.refs \in Maps(Nat, Int) /\ c.ref \in Nat /\ Elsewhere \in Int
  BY DEF Stages, ChangeRecords, Elsewhere
<1> DEFINE v == IF Deep(c) /\ ~Portable(c) THEN Elsewhere ELSE id
<1>2. v \in Int
  BY <1>1
<1> HIDE DEF v
<1>3. With(s.refs, c.ref, v) \in Maps(Nat, Int)
  BY <1>1, <1>2, WithIn
<1> QED
  BY <1>1, <1>3 DEF Named, v

\* An addition that does not fail gives a new row, and all other rows stay.
LEMMA AddRowIs ==
  ASSUME NEW s \in Stages, NEW c \in ChangeRecords, Adds(c)
  PROVE  /\ AddRow(s, c) \in Stages
         /\ AddRow(s, c).ok =>
              /\ s.ok
              /\ \E id \in Int, subject, object \in Int :
                   /\ id \notin DOMAIN s.db.rows
                   /\ AddRow(s, c).db.rows = With(s.db.rows, id, NewRow(c, subject, object))
                   /\ Portable(c) => id = c.portable
                   /\ Deep(c) => subject = c.subject /\ object = c.object
         /\ AddRow(s, c).db.dimensions =
              IF c.type = "add_entity_attribute_span" /\ c.dimension \notin DOMAIN s.db.dimensions
                THEN With(s.db.dimensions, c.dimension, c.valueType)
                ELSE s.db.dimensions
<1> DEFINE id == IF Portable(c) THEN c.portable ELSE FreshId(s.db)
           subject == IF Deep(c) THEN c.subject ELSE Resolved(s, c.subjectRef, c.subject)
           object == IF Deep(c) THEN c.object ELSE Resolved(s, c.objectRef, c.object)
           defines == /\ c.type = "add_entity_attribute_span"
                      /\ c.dimension \notin DOMAIN s.db.dimensions
           dims == IF defines THEN With(s.db.dimensions, c.dimension, c.valueType)
                   ELSE s.db.dimensions
           rows == With(s.db.rows, id, NewRow(c, subject, object))
           refs == Named(s, c, id)
           ok == /\ s.ok /\ subject # Unset /\ object # Unset
                 /\ id # Null /\ id \notin DOMAIN s.db.rows
<1>1. /\ c.portable \in Int /\ c.subject \in Int /\ c.object \in Int
      /\ c.dimension \in STRING /\ c.valueType \in STRING
  BY DEF ChangeRecords
<1>2. id \in Int /\ subject \in Int /\ object \in Int
  BY <1>1, FreshIdIs, ResolvedIs
<1>3. /\ s.db.rows \in Maps(Int, CanonRows) /\ s.db.dimensions \in Maps(STRING, STRING)
      /\ s.ok \in BOOLEAN
  BY DEF Stages, Worlds
<1>4. AddRow(s, c) = [db |-> [rows |-> rows, dimensions |-> dims], refs |-> refs, ok |-> ok]
  BY DEF AddRow
<1>5. /\ Portable(c) => id = c.portable
      /\ Deep(c) => subject = c.subject /\ object = c.object
  OBVIOUS
<1>6. ok => s.ok /\ id \notin DOMAIN s.db.rows
  OBVIOUS
<1>7. ok \in BOOLEAN
  OBVIOUS
<1> HIDE DEF id, subject, object, ok
<1>8. rows \in Maps(Int, CanonRows)
  <2>1. NewRow(c, subject, object) \in CanonRows
    BY <1>2, NewRowIs
  <2> QED
    BY <1>2, <1>3, <2>1, WithIn
<1>9. dims \in Maps(STRING, STRING)
  <2>1. With(s.db.dimensions, c.dimension, c.valueType) \in Maps(STRING, STRING)
    BY <1>1, <1>3, WithIn
  <2> QED
    BY <1>3, <2>1
<1>10. refs \in Maps(Nat, Int)
  BY <1>2, NamedIs
<1>11. AddRow(s, c).ok = ok /\ AddRow(s, c).db.rows = rows /\ AddRow(s, c).db.dimensions = dims
  BY <1>4
<1>12. AddRow(s, c) \in Stages
  <2> HIDE DEF rows, dims, refs
  <2> QED
    BY <1>4, <1>7, <1>8, <1>9, <1>10 DEF Stages, Worlds
<1> QED
  BY <1>2, <1>5, <1>6, <1>11, <1>12

\* An update that does not fail changes one row, and leaves it an interval.
LEMMA UpdateRowIs ==
  ASSUME NEW s \in Stages, NEW c \in ChangeRecords, ~Adds(c)
  PROVE  /\ UpdateRow(s, c) \in Stages
         /\ UpdateRow(s, c).db.dimensions = s.db.dimensions
         /\ UpdateRow(s, c).ok =>
              /\ s.ok
              /\ Has(s.db, TableOf[c.type], c.target)
              /\ \E new \in CanonRows :
                   /\ UpdateRow(s, c).db.rows = With(s.db.rows, c.target, new)
                   /\ \A f \in {"table", "subject", "object", "learned", "dimension", "valueType"} :
                        new[f] = s.db.rows[c.target][f]
                   /\ \/ TableOf[c.type] \notin DeepTables
                      \/ Ordered(new.from, new.until)
<1> DEFINE row == s.db.rows[c.target]
           new == IF Deep(c) THEN RevisedRow(row, c) ELSE [row EXCEPT !.status = c.status]
           rows == IF c.target \in DOMAIN s.db.rows THEN With(s.db.rows, c.target, new)
                   ELSE s.db.rows
           refs == IF Deep(c) THEN Named(s, c, Elsewhere) ELSE s.refs
           ok == /\ s.ok /\ Has(s.db, TableOf[c.type], c.target)
                 /\ Deep(c) => AsExpected(s.db, c) /\ MakesSense(row, c)
<1>1. /\ c.target \in Int /\ Elsewhere \in Int
      /\ c.status \in FactStatuses \cup LifecycleStatuses \cup {"unset"}
  BY DEF ChangeRecords, Elsewhere
<1>2. /\ s.db.rows \in Maps(Int, CanonRows) /\ s.db.dimensions \in Maps(STRING, STRING)
      /\ s.ok \in BOOLEAN
      /\ s.refs \in Maps(Nat, Int) /\ s.db = [rows |-> s.db.rows, dimensions |-> s.db.dimensions]
      /\ s = [db |-> s.db, refs |-> s.refs, ok |-> s.ok]
  BY DEF Stages, Worlds
<1>3. UpdateRow(s, c) = [db |-> [rows |-> rows, dimensions |-> s.db.dimensions],
                         refs |-> refs, ok |-> ok]
  <2>1. UpdateRow(s, c) = [db |-> [s.db EXCEPT !.rows = rows], refs |-> refs, ok |-> ok]
    BY Zenon DEF UpdateRow
  <2> HIDE DEF rows, refs, ok
  <2>2. [s.db EXCEPT !.rows = rows] = [rows |-> rows, dimensions |-> s.db.dimensions]
    BY <1>2
  <2> QED
    BY <2>1, <2>2
<1>4. ok \in BOOLEAN
  OBVIOUS
<1>5. ok => /\ s.ok /\ Has(s.db, TableOf[c.type], c.target)
            /\ Deep(c) => MakesSense(row, c)
  OBVIOUS
<1>6. ASSUME c.target \in DOMAIN s.db.rows
      PROVE  /\ new \in CanonRows
             /\ \A f \in {"table", "subject", "object", "learned", "dimension", "valueType"} :
                  new[f] = row[f]
  <2>1. row \in CanonRows
    BY <1>2, <1>6, MapsAre
  <2>2. CASE Deep(c)
    BY <2>1, <2>2, RevisedRowIs
  <2>3. CASE ~Deep(c)
    BY <1>1, <2>1, <2>3 DEF CanonRows
  <2> QED
    BY <2>2, <2>3
<1>7. Deep(c) /\ MakesSense(row, c) => Ordered(new.from, new.until)
  BY DEF MakesSense
<1>8. Deep(c) \/ TableOf[c.type] \notin DeepTables
  BY DEF Deep
<1> HIDE DEF row, new, ok
<1>9. rows \in Maps(Int, CanonRows)
  <2>1. CASE c.target \in DOMAIN s.db.rows
    <3>1. With(s.db.rows, c.target, new) \in Maps(Int, CanonRows)
      BY <1>1, <1>2, <1>6, <2>1, WithIn
    <3> QED
      BY <2>1, <3>1
  <2>2. CASE c.target \notin DOMAIN s.db.rows
    BY <1>2, <2>2
  <2> QED
    BY <2>1, <2>2
<1>10. refs \in Maps(Nat, Int)
  BY <1>1, <1>2, NamedIs
<1>11. UpdateRow(s, c) \in Stages
  <2> HIDE DEF rows, refs
  <2> QED
    BY <1>2, <1>3, <1>4, <1>9, <1>10 DEF Stages, Worlds
<1>12. /\ UpdateRow(s, c).db.rows = rows /\ UpdateRow(s, c).db.dimensions = s.db.dimensions
       /\ UpdateRow(s, c).ok = ok
  BY <1>3
<1>13. ASSUME ok
       PROVE  /\ c.target \in DOMAIN s.db.rows /\ new \in CanonRows
              /\ rows = With(s.db.rows, c.target, new)
              /\ \A f \in {"table", "subject", "object", "learned", "dimension", "valueType"} :
                   new[f] = s.db.rows[c.target][f]
              /\ TableOf[c.type] \notin DeepTables \/ Ordered(new.from, new.until)
  <2>1. c.target \in DOMAIN s.db.rows
    BY <1>5, <1>13 DEF Has
  <2> QED
    BY <1>5, <1>6, <1>7, <1>8, <1>13, <2>1 DEF row
<1> QED
  BY <1>5, <1>11, <1>12, <1>13

------------------------------------------------------------------------------
(* What each change of a valid ticket keeps *)

\* The three parts of CanonIsConsistent, of any rows.
Intervals(d) ==
  \A x \in DOMAIN d.rows : d.rows[x].table \in DeepTables \ {"actor_memory_packets"} =>
    Ordered(d.rows[x].from, d.rows[x].until)
Fitting(d) ==
  \A x \in DOMAIN d.rows : d.rows[x].table = "entity_attribute_spans" =>
    /\ d.rows[x].dimension \in DOMAIN d.dimensions
    /\ d.dimensions[d.rows[x].dimension] = d.rows[x].valueType
Resolving(d) ==
  \A x \in DOMAIN d.rows : d.rows[x].table \in DeepTables =>
    /\ Has(d, "entities", d.rows[x].subject)
    /\ d.rows[x].table = "knowledge_attributions" =>
         /\ Has(d, "facts", d.rows[x].object)
         /\ d.rows[x].learned # 0 => Has(d, "entities", d.rows[x].learned)
    /\ d.rows[x].table = "entity_attribute_spans" /\ d.rows[x].object # 0 =>
         Has(d, "entities", d.rows[x].object)
Coherent(d) == Intervals(d) /\ Fitting(d) /\ Resolving(d)

\* What a change names is in the world, or one of the changes C brings it.
Supported(d, C, table, id) ==
  \/ Has(d, table, id)
  \/ \E c \in C : Adds(c) /\ Portable(c) /\ TableOf[c.type] = table /\ c.portable = id
\* What the checks say of the changes C of a ticket, when it is applied to d.
Sound(d, C) ==
  \A c \in C : AddsDeep(c) =>
    /\ c.type = "add_actor_memory_packet" \/ Ordered(c.from, c.until)
    /\ Supported(d, C, "entities", c.subject)
    /\ c.type = "add_knowledge_attribution" =>
         /\ Supported(d, C, "facts", c.object)
         /\ c.learned # 0 => Supported(d, C, "entities", c.learned)
    /\ c.type = "add_entity_attribute_span" =>
         /\ c.object # 0 => Supported(d, C, "entities", c.object)
         /\ c.dimension \in DOMAIN d.dimensions => d.dimensions[c.dimension] = c.valueType
         /\ \A e \in C : e.type = "add_entity_attribute_span" /\ e.dimension = c.dimension =>
              e.valueType = c.valueType

\* After some of the changes, d has become e: its rows are there, and those that were
\* brought; dimensions are old, or those of a change; and each deep row is about what an
\* old one or a change was about.
RowsKept(d, e) == \A x \in DOMAIN d.rows : Has(e, d.rows[x].table, x)
Brought(done, e) ==
  \A c \in done : Adds(c) /\ Portable(c) => Has(e, TableOf[c.type], c.portable)
Defined(d, C, e) ==
  /\ \A k \in DOMAIN d.dimensions : k \in DOMAIN e.dimensions /\ e.dimensions[k] = d.dimensions[k]
  /\ \A k \in DOMAIN e.dimensions : k \in DOMAIN d.dimensions \/
       \E c \in C : /\ c.type = "add_entity_attribute_span"
                    /\ c.dimension = k /\ c.valueType = e.dimensions[k]
Origin(d, C, row) ==
  \/ \E y \in DOMAIN d.rows : /\ d.rows[y].table = row.table
                              /\ d.rows[y].subject = row.subject /\ d.rows[y].object = row.object
                              /\ d.rows[y].learned = row.learned
  \/ \E c \in C : /\ AddsDeep(c) /\ TableOf[c.type] = row.table
                  /\ c.subject = row.subject /\ c.object = row.object /\ c.learned = row.learned
Traced(d, C, e) ==
  \A x \in DOMAIN e.rows : e.rows[x].table \in DeepTables => Origin(d, C, e.rows[x])

Reached(d, C, done, s) ==
  /\ s \in Stages
  /\ s.ok => /\ RowsKept(d, s.db) /\ Brought(done, s.db) /\ Defined(d, C, s.db)
             /\ Traced(d, C, s.db) /\ Intervals(s.db) /\ Fitting(s.db)

LEMMA WorldFacts ==
  ASSUME NEW e \in Worlds
  PROVE  /\ e.rows \in Maps(Int, CanonRows) /\ e.dimensions \in Maps(STRING, STRING)
         /\ \A x \in DOMAIN e.rows : x \in Int /\ e.rows[x] \in CanonRows
<1>1. e.rows \in Maps(Int, CanonRows) /\ e.dimensions \in Maps(STRING, STRING)
  BY DEF Worlds
<1> QED
  BY <1>1, MapsAre

\* Before the first change all this holds, and each change keeps it.
LEMMA NothingApplied ==
  ASSUME NEW d \in Worlds, NEW C, Intervals(d), Fitting(d)
  PROVE  Reached(d, C, {}, Unchanged(d))
<1>1. Unchanged(d) \in Stages
  <2> DEFINE none == [r \in {} |-> 0]
  <2>1. none \in [{} -> Int] /\ {} \in SUBSET Nat
    OBVIOUS
  <2>2. none \in Maps(Nat, Int)
    BY <2>1 DEF Maps
  <2> QED
    BY <2>2 DEF Unchanged, Stages
<1>2. Unchanged(d).db = d
  BY DEF Unchanged
<1> QED
  BY <1>1, <1>2 DEF Reached, RowsKept, Has, Brought, Defined, Traced, Origin

LEMMA AddReaches ==
  ASSUME NEW d \in Worlds, NEW C \in SUBSET ChangeRecords, Sound(d, C), NEW done \in SUBSET C,
         NEW s, Reached(d, C, done, s), NEW c \in C, Adds(c)
  PROVE  Reached(d, C, done \cup {c}, AddRow(s, c))
<1> DEFINE n == AddRow(s, c)
<1>0. s \in Stages /\ s.db \in Worlds
  BY DEF Reached, Stages
<1>1. n \in Stages
  BY <1>0, AddRowIs
<1> SUFFICES ASSUME n.ok
             PROVE  /\ RowsKept(d, n.db) /\ Brought(done \cup {c}, n.db) /\ Defined(d, C, n.db)
                    /\ Traced(d, C, n.db) /\ Intervals(n.db) /\ Fitting(n.db)
  BY <1>1 DEF Reached
<1>2. /\ RowsKept(d, s.db) /\ Brought(done, s.db) /\ Defined(d, C, s.db)
      /\ Traced(d, C, s.db) /\ Intervals(s.db) /\ Fitting(s.db)
  BY <1>0, AddRowIs DEF Reached
<1>3. PICK id \in Int, subject \in Int, object \in Int :
        /\ id \notin DOMAIN s.db.rows
        /\ n.db.rows = With(s.db.rows, id, NewRow(c, subject, object))
        /\ Portable(c) => id = c.portable
        /\ Deep(c) => subject = c.subject /\ object = c.object
  BY <1>0, AddRowIs
<1> DEFINE new == NewRow(c, subject, object)
<1>4. n.db.dimensions =
        IF c.type = "add_entity_attribute_span" /\ c.dimension \notin DOMAIN s.db.dimensions
          THEN With(s.db.dimensions, c.dimension, c.valueType)
          ELSE s.db.dimensions
  BY <1>0, AddRowIs
<1> HIDE DEF n
<1>5. /\ new \in CanonRows /\ new.table = TableOf[c.type]
      /\ new.subject = subject /\ new.object = object /\ new.learned = c.learned
      /\ new.dimension = c.dimension /\ new.valueType = c.valueType
      /\ Ordered(c.from, c.until) => Ordered(new.from, new.until)
  BY NewRowIs
<1> HIDE DEF new
<1>6. /\ DOMAIN n.db.rows = DOMAIN s.db.rows \cup {id} /\ n.db.rows[id] = new
      /\ \A x \in DOMAIN s.db.rows : n.db.rows[x] = s.db.rows[x]
  <2>1. s.db.rows \in Maps(Int, CanonRows)
    BY <1>0, WorldFacts
  <2>2. n.db.rows = With(s.db.rows, id, new)
    BY <1>3 DEF new
  <2> QED
    BY <1>3, <2>2 DEF With
<1>7. /\ \A k \in DOMAIN s.db.dimensions :
            k \in DOMAIN n.db.dimensions /\ n.db.dimensions[k] = s.db.dimensions[k]
      /\ c.type = "add_entity_attribute_span" => c.dimension \in DOMAIN n.db.dimensions
      /\ \A k \in DOMAIN n.db.dimensions \ DOMAIN s.db.dimensions :
           /\ c.type = "add_entity_attribute_span" /\ k = c.dimension
           /\ n.db.dimensions[k] = c.valueType
  <2>1. s.db.dimensions \in Maps(STRING, STRING) /\ c.dimension \in STRING /\ c.valueType \in STRING
    BY <1>0, WorldFacts DEF ChangeRecords
  <2> DEFINE f == With(s.db.dimensions, c.dimension, c.valueType)
  <2>2. /\ DOMAIN f = DOMAIN s.db.dimensions \cup {c.dimension} /\ f[c.dimension] = c.valueType
        /\ \A x \in DOMAIN s.db.dimensions \ {c.dimension} : f[x] = s.db.dimensions[x]
    BY DEF With
  <2> HIDE DEF f
  <2>3. CASE c.type = "add_entity_attribute_span" /\ c.dimension \notin DOMAIN s.db.dimensions
    <3>1. n.db.dimensions = f
      BY <1>4, <2>3 DEF f
    <3> QED
      BY <2>2, <2>3, <3>1
  <2>4. CASE ~(c.type = "add_entity_attribute_span" /\ c.dimension \notin DOMAIN s.db.dimensions)
    <3>1. n.db.dimensions = s.db.dimensions
      BY <1>4, <2>4
    <3> QED
      BY <2>4, <3>1
  <2> QED
    BY <2>3, <2>4
<1>8. RowsKept(d, n.db)
  BY <1>2, <1>6 DEF RowsKept, Has
<1>9. Brought(done \cup {c}, n.db)
  <2>1. ASSUME NEW e \in done, Adds(e), Portable(e)
        PROVE  Has(n.db, TableOf[e.type], e.portable)
    BY <1>2, <1>6, <2>1 DEF Brought, Has
  <2>2. Portable(c) => Has(n.db, TableOf[c.type], c.portable)
    BY <1>3, <1>5, <1>6 DEF Has
  <2> QED
    BY <2>1, <2>2 DEF Brought
<1>10. Defined(d, C, n.db)
  <2>1. \A k \in DOMAIN d.dimensions :
          k \in DOMAIN n.db.dimensions /\ n.db.dimensions[k] = d.dimensions[k]
    BY <1>2, <1>7 DEF Defined
  <2>2. ASSUME NEW k \in DOMAIN n.db.dimensions, k \notin DOMAIN d.dimensions
        PROVE  \E e \in C : /\ e.type = "add_entity_attribute_span"
                            /\ e.dimension = k /\ e.valueType = n.db.dimensions[k]
    <3>1. CASE k \in DOMAIN s.db.dimensions
      BY <1>2, <1>7, <2>2, <3>1 DEF Defined
    <3>2. CASE k \notin DOMAIN s.db.dimensions
      BY <1>7, <3>2
    <3> QED
      BY <3>1, <3>2
  <2> QED
    BY <2>1, <2>2 DEF Defined
<1>11. Traced(d, C, n.db)
  <2> SUFFICES ASSUME NEW x \in DOMAIN n.db.rows, n.db.rows[x].table \in DeepTables
               PROVE  Origin(d, C, n.db.rows[x])
    BY DEF Traced
  <2>1. CASE x = id
    <3>1. AddsDeep(c)
      BY <1>5, <1>6, <2>1 DEF AddsDeep, Deep
    <3>2. subject = c.subject /\ object = c.object
      BY <1>3, <3>1 DEF AddsDeep
    <3> QED
      BY <1>5, <1>6, <2>1, <3>1, <3>2 DEF Origin
  <2>2. CASE x # id
    <3>1. x \in DOMAIN s.db.rows /\ n.db.rows[x] = s.db.rows[x]
      BY <1>6, <2>2
    <3>2. Origin(d, C, s.db.rows[x])
      BY <1>2, <3>1 DEF Traced
    <3> QED
      BY <3>1, <3>2
  <2> QED
    BY <2>1, <2>2
<1>12. AddsDeep(c) =>
         /\ c.type = "add_actor_memory_packet" \/ Ordered(c.from, c.until)
         /\ c.type = "add_entity_attribute_span" =>
              /\ c.dimension \in DOMAIN d.dimensions => d.dimensions[c.dimension] = c.valueType
              /\ \A e \in C : e.type = "add_entity_attribute_span" /\ e.dimension = c.dimension =>
                   e.valueType = c.valueType
  BY DEF Sound
<1>13. Intervals(n.db)
  <2> SUFFICES ASSUME NEW x \in DOMAIN n.db.rows,
                      n.db.rows[x].table \in DeepTables \ {"actor_memory_packets"}
               PROVE  Ordered(n.db.rows[x].from, n.db.rows[x].until)
    BY DEF Intervals
  <2>1. CASE x = id
    <3>1. AddsDeep(c) /\ TableOf[c.type] # "actor_memory_packets"
      BY <1>5, <1>6, <2>1 DEF AddsDeep, Deep
    <3>2. c.type # "add_actor_memory_packet"
      BY <3>1 DEF TableOf
    <3> QED
      BY <1>5, <1>6, <1>12, <2>1, <3>1, <3>2
  <2>2. CASE x # id
    BY <1>2, <1>6, <2>2 DEF Intervals
  <2> QED
    BY <2>1, <2>2
<1>14. Fitting(n.db)
  <2> SUFFICES ASSUME NEW x \in DOMAIN n.db.rows,
                      n.db.rows[x].table = "entity_attribute_spans"
               PROVE  /\ n.db.rows[x].dimension \in DOMAIN n.db.dimensions
                      /\ n.db.dimensions[n.db.rows[x].dimension] = n.db.rows[x].valueType
    BY DEF Fitting
  <2>1. CASE x = id
    <3>1. TableOf[c.type] = "entity_attribute_spans" /\ AddsDeep(c)
      BY <1>5, <1>6, <2>1 DEF AddsDeep, Deep, DeepTables
    <3>2. c.type = "add_entity_attribute_span"
      BY <3>1, TypesOfChanges
    <3>3. c.dimension \in DOMAIN n.db.dimensions
      BY <1>7, <3>2
    <3>4. n.db.dimensions[c.dimension] = c.valueType
      <4>1. CASE c.dimension \notin DOMAIN d.dimensions
        BY <1>10, <1>12, <3>1, <3>2, <3>3, <4>1 DEF Defined
      <4>2. CASE c.dimension \in DOMAIN d.dimensions
        BY <1>10, <1>12, <3>1, <3>2, <4>2 DEF Defined
      <4> QED
        BY <4>1, <4>2
    <3> QED
      BY <1>5, <1>6, <2>1, <3>3, <3>4
  <2>2. CASE x # id
    <3>1. x \in DOMAIN s.db.rows /\ n.db.rows[x] = s.db.rows[x]
      BY <1>6, <2>2
    <3> QED
      BY <1>2, <1>7, <3>1 DEF Fitting
  <2> QED
    BY <2>1, <2>2
<1> QED
  BY <1>8, <1>9, <1>10, <1>11, <1>13, <1>14

LEMMA UpdateReaches ==
  ASSUME NEW d \in Worlds, NEW C \in SUBSET ChangeRecords, NEW done \in SUBSET C,
         NEW s, Reached(d, C, done, s), NEW c \in C, ~Adds(c)
  PROVE  Reached(d, C, done \cup {c}, UpdateRow(s, c))
<1> DEFINE n == UpdateRow(s, c)
<1>0. s \in Stages /\ s.db \in Worlds
  BY DEF Reached, Stages
<1>1. n \in Stages /\ n.db.dimensions = s.db.dimensions
  BY <1>0, UpdateRowIs
<1> SUFFICES ASSUME n.ok
             PROVE  /\ RowsKept(d, n.db) /\ Brought(done \cup {c}, n.db) /\ Defined(d, C, n.db)
                    /\ Traced(d, C, n.db) /\ Intervals(n.db) /\ Fitting(n.db)
  BY <1>1 DEF Reached
<1>2. /\ RowsKept(d, s.db) /\ Brought(done, s.db) /\ Defined(d, C, s.db)
      /\ Traced(d, C, s.db) /\ Intervals(s.db) /\ Fitting(s.db)
  BY <1>0, UpdateRowIs DEF Reached
<1>3. /\ Has(s.db, TableOf[c.type], c.target)
      /\ \E new \in CanonRows :
           /\ n.db.rows = With(s.db.rows, c.target, new)
           /\ \A f \in {"table", "subject", "object", "learned", "dimension", "valueType"} :
                new[f] = s.db.rows[c.target][f]
           /\ TableOf[c.type] \notin DeepTables \/ Ordered(new.from, new.until)
  BY <1>0, UpdateRowIs
<1>4. PICK new \in CanonRows :
        /\ n.db.rows = With(s.db.rows, c.target, new)
        /\ \A f \in {"table", "subject", "object", "learned", "dimension", "valueType"} :
             new[f] = s.db.rows[c.target][f]
        /\ TableOf[c.type] \notin DeepTables \/ Ordered(new.from, new.until)
  BY <1>3
<1> HIDE DEF n
<1>5. /\ DOMAIN n.db.rows = DOMAIN s.db.rows /\ n.db.rows[c.target] = new
      /\ \A x \in DOMAIN s.db.rows \ {c.target} : n.db.rows[x] = s.db.rows[x]
      /\ c.target \in DOMAIN s.db.rows /\ s.db.rows[c.target].table = TableOf[c.type]
  <2>1. s.db.rows \in Maps(Int, CanonRows) /\ c.target \in Int
    BY <1>0, WorldFacts DEF ChangeRecords
  <2> QED
    BY <1>3, <1>4 DEF Has, With
<1>6. \A x \in DOMAIN s.db.rows :
        /\ n.db.rows[x].table = s.db.rows[x].table
        /\ n.db.rows[x].subject = s.db.rows[x].subject
        /\ n.db.rows[x].object = s.db.rows[x].object
        /\ n.db.rows[x].learned = s.db.rows[x].learned
        /\ n.db.rows[x].dimension = s.db.rows[x].dimension
        /\ n.db.rows[x].valueType = s.db.rows[x].valueType
  <2>1. /\ new.table = s.db.rows[c.target].table
        /\ new.subject = s.db.rows[c.target].subject
        /\ new.object = s.db.rows[c.target].object
        /\ new.learned = s.db.rows[c.target].learned
        /\ new.dimension = s.db.rows[c.target].dimension
        /\ new.valueType = s.db.rows[c.target].valueType
    BY <1>4
  <2> QED
    BY <1>5, <2>1
<1>7. RowsKept(d, n.db) /\ Defined(d, C, n.db) /\ Fitting(n.db)
  <2>1. RowsKept(d, n.db)
    BY <1>2, <1>5, <1>6 DEF RowsKept, Has
  <2>2. Defined(d, C, n.db)
    BY <1>1, <1>2 DEF Defined
  <2>3. Fitting(n.db)
    BY <1>1, <1>2, <1>5, <1>6 DEF Fitting
  <2> QED
    BY <2>1, <2>2, <2>3
<1>8. Brought(done \cup {c}, n.db)
  BY <1>2, <1>5, <1>6 DEF Brought, Has
<1>9. Traced(d, C, n.db)
  BY <1>2, <1>5, <1>6 DEF Traced, Origin
<1>10. Intervals(n.db)
  <2> SUFFICES ASSUME NEW x \in DOMAIN n.db.rows,
                      n.db.rows[x].table \in DeepTables \ {"actor_memory_packets"}
               PROVE  Ordered(n.db.rows[x].from, n.db.rows[x].until)
    BY DEF Intervals
  <2>1. CASE x = c.target
    BY <1>4, <1>5, <1>6, <2>1
  <2>2. CASE x # c.target
    BY <1>2, <1>5, <2>2 DEF Intervals
  <2> QED
    BY <2>1, <2>2
<1> QED
  BY <1>7, <1>8, <1>9, <1>10

LEMMA AppliedReaches ==
  ASSUME NEW d \in Worlds, NEW C \in SUBSET ChangeRecords, Sound(d, C), NEW done \in SUBSET C,
         NEW s, Reached(d, C, done, s), NEW c \in C
  PROVE  Reached(d, C, done \cup {c}, Applied(s, c))
<1>1. CASE Adds(c)
  BY <1>1, AddReaches DEF Applied
<1>2. CASE ~Adds(c)
  BY <1>2, UpdateReaches DEF Applied
<1> QED
  BY <1>1, <1>2

\* What all changes together bring is what the deep records among them are about.
LEMMA ReachedIsCoherent ==
  ASSUME NEW d \in Worlds, Coherent(d), NEW C \in SUBSET ChangeRecords, Sound(d, C),
         NEW s, Reached(d, C, C, s), s.ok
  PROVE  s.db \in Worlds /\ Coherent(s.db)
<1>0. /\ RowsKept(d, s.db) /\ Brought(C, s.db) /\ Defined(d, C, s.db)
      /\ Traced(d, C, s.db) /\ Intervals(s.db) /\ Fitting(s.db) /\ s.db \in Worlds
  BY DEF Reached, Stages
<1>1. ASSUME NEW table, NEW id, Supported(d, C, table, id)
      PROVE  Has(s.db, table, id)
  <2>1. CASE Has(d, table, id)
    BY <1>0, <2>1 DEF RowsKept, Has
  <2>2. CASE \E c \in C : Adds(c) /\ Portable(c) /\ TableOf[c.type] = table /\ c.portable = id
    BY <1>0, <2>2 DEF Brought
  <2> QED
    BY <1>1, <2>1, <2>2 DEF Supported
<1>2. ASSUME NEW x \in DOMAIN s.db.rows, s.db.rows[x].table \in DeepTables
      PROVE  /\ Has(s.db, "entities", s.db.rows[x].subject)
             /\ s.db.rows[x].table = "knowledge_attributions" =>
                  /\ Has(s.db, "facts", s.db.rows[x].object)
                  /\ s.db.rows[x].learned # 0 => Has(s.db, "entities", s.db.rows[x].learned)
             /\ s.db.rows[x].table = "entity_attribute_spans" /\ s.db.rows[x].object # 0 =>
                  Has(s.db, "entities", s.db.rows[x].object)
  <2> DEFINE row == s.db.rows[x]
  <2>1. Origin(d, C, row)
    BY <1>0, <1>2 DEF Traced
  <2> HIDE DEF row
  <2>2. ASSUME NEW y \in DOMAIN d.rows, d.rows[y].table = row.table,
               d.rows[y].subject = row.subject, d.rows[y].object = row.object,
               d.rows[y].learned = row.learned, row.table \in DeepTables
        PROVE  /\ Has(s.db, "entities", row.subject)
               /\ row.table = "knowledge_attributions" =>
                    /\ Has(s.db, "facts", row.object)
                    /\ row.learned # 0 => Has(s.db, "entities", row.learned)
               /\ row.table = "entity_attribute_spans" /\ row.object # 0 =>
                    Has(s.db, "entities", row.object)
    <3>1. /\ Has(d, "entities", row.subject)
          /\ row.table = "knowledge_attributions" =>
               /\ Has(d, "facts", row.object)
               /\ row.learned # 0 => Has(d, "entities", row.learned)
          /\ row.table = "entity_attribute_spans" /\ row.object # 0 =>
               Has(d, "entities", row.object)
      BY <2>2 DEF Coherent, Resolving
    <3> QED
      BY <1>1, <3>1 DEF Supported
  <2>3. ASSUME NEW c \in C, AddsDeep(c), TableOf[c.type] = row.table,
               c.subject = row.subject, c.object = row.object, c.learned = row.learned
        PROVE  /\ Has(s.db, "entities", row.subject)
               /\ row.table = "knowledge_attributions" =>
                    /\ Has(s.db, "facts", row.object)
                    /\ row.learned # 0 => Has(s.db, "entities", row.learned)
               /\ row.table = "entity_attribute_spans" /\ row.object # 0 =>
                    Has(s.db, "entities", row.object)
    <3>1. /\ Supported(d, C, "entities", c.subject)
          /\ c.type = "add_knowledge_attribution" =>
               /\ Supported(d, C, "facts", c.object)
               /\ c.learned # 0 => Supported(d, C, "entities", c.learned)
          /\ c.type = "add_entity_attribute_span" /\ c.object # 0 =>
               Supported(d, C, "entities", c.object)
      BY <2>3 DEF Sound
    <3>2. /\ TableOf[c.type] = "entity_attribute_spans" => c.type = "add_entity_attribute_span"
          /\ TableOf[c.type] = "knowledge_attributions" => c.type = "add_knowledge_attribution"
      BY <2>3, TypesOfChanges
    <3> QED
      BY <1>1, <2>3, <3>1, <3>2
  <2>4. row.table \in DeepTables
    BY <1>2 DEF row
  <2>5. /\ Has(s.db, "entities", row.subject)
        /\ row.table = "knowledge_attributions" =>
             /\ Has(s.db, "facts", row.object)
             /\ row.learned # 0 => Has(s.db, "entities", row.learned)
        /\ row.table = "entity_attribute_spans" /\ row.object # 0 =>
             Has(s.db, "entities", row.object)
    BY <2>1, <2>2, <2>3, <2>4 DEF Origin
  <2> QED
    BY <2>5 DEF row
<1>3. Resolving(s.db)
  BY <1>2 DEF Resolving
<1> QED
  BY <1>0, <1>3 DEF Coherent

------------------------------------------------------------------------------
(* All changes of a ticket: the sort and the loop *)

ChangesOf(list) == {list[i] : i \in DOMAIN list}

\* The order in which an import is applied is one of all its changes.
LEMMA AheadIsOrder ==
  ASSUME NEW changes \in Seq(ChangeRecords)
  PROVE  LET D == DOMAIN changes IN
         /\ \A a, b, c \in D : Ahead(changes, a, b) /\ Ahead(changes, b, c) => Ahead(changes, a, c)
         /\ \A a \in D : ~Ahead(changes, a, a)
         /\ \A a, b \in D : a # b => Ahead(changes, a, b) \/ Ahead(changes, b, a)
<1> DEFINE order(k) == ApplyOrder[changes[k].type]
<1>1. \A t \in DOMAIN TableOf : ApplyOrder[t] \in Int
  BY DEF ApplyOrder
<1>2. ASSUME NEW k \in DOMAIN changes
      PROVE  k \in Int /\ order(k) \in Int
  <2>1. changes[k] \in ChangeRecords /\ k \in Int
    OBVIOUS
  <2>2. changes[k].type \in DOMAIN TableOf
    BY <2>1 DEF ChangeRecords
  <2> QED
    BY <1>1, <2>1, <2>2
<1>3. \A a, b : Ahead(changes, a, b) <=> order(a) < order(b) \/ (order(a) = order(b) /\ a < b)
  BY DEF Ahead
<1> HIDE DEF order
<1>4. ASSUME NEW a \in DOMAIN changes, NEW b \in DOMAIN changes, NEW c \in DOMAIN changes,
             Ahead(changes, a, b), Ahead(changes, b, c)
      PROVE  Ahead(changes, a, c)
  <2>1. /\ a \in Int /\ b \in Int /\ c \in Int
        /\ order(a) \in Int /\ order(b) \in Int /\ order(c) \in Int
    BY <1>2
  <2>2. /\ order(a) < order(b) \/ (order(a) = order(b) /\ a < b)
        /\ order(b) < order(c) \/ (order(b) = order(c) /\ b < c)
    BY <1>3, <1>4
  <2>3. order(a) < order(c) \/ (order(a) = order(c) /\ a < c)
    BY <2>1, <2>2
  <2> QED
    BY <1>3, <2>3
<1>5. ASSUME NEW a \in DOMAIN changes
      PROVE  ~Ahead(changes, a, a)
  BY <1>2, <1>3
<1>6. ASSUME NEW a \in DOMAIN changes, NEW b \in DOMAIN changes, a # b
      PROVE  Ahead(changes, a, b) \/ Ahead(changes, b, a)
  <2>1. a \in Int /\ b \in Int /\ order(a) \in Int /\ order(b) \in Int
    BY <1>2
  <2>2. \/ order(a) < order(b) \/ (order(a) = order(b) /\ a < b)
        \/ order(b) < order(a) \/ (order(b) = order(a) /\ b < a)
    BY <1>6, <2>1
  <2> QED
    BY <1>3, <2>2
<1> QED
  BY <1>4, <1>5, <1>6

\* An import is sorted: each change once, and none that comes later was ahead.
LEMMA SortedList ==
  ASSUME NEW changes \in Seq(ChangeRecords), Of(changes, Portable) # {}
  PROVE  \E at \in [DOMAIN changes -> DOMAIN changes] :
           /\ Sorted(changes) = [n \in DOMAIN changes |-> changes[at[n]]]
           /\ \A i \in DOMAIN changes : \E n \in DOMAIN changes : at[n] = i
           /\ \A n, m \in DOMAIN changes : n < m => Ahead(changes, at[n], at[m])
<1> DEFINE D == DOMAIN changes
           R == {p \in D \X D : Ahead(changes, p[1], p[2])}
           rank(i) == Cardinality({j \in D : <<j, i>> \in R})
           at == [n \in D |-> CHOOSE i \in D : rank(i) + 1 = n]
<1>1. IsFiniteSet(D) /\ D = 1..Cardinality(D)
  <2> DEFINE N == Len(changes)
  <2>1. D = 1..N /\ N \in Nat
    OBVIOUS
  <2>2. IsFiniteSet(1..N) /\ Cardinality(1..N) = IF 1 > N THEN 0 ELSE N - 1 + 1
    BY <2>1, FS_Interval
  <2> HIDE DEF N
  <2> QED
    BY <2>1, <2>2
<1>2. \A a, b \in D : <<a, b>> \in R <=> Ahead(changes, a, b)
  OBVIOUS
<1>3. \A i \in D : {j \in D : <<j, i>> \in R} = {j \in D : Ahead(changes, j, i)}
  OBVIOUS
<1> HIDE DEF R
<1>4. \A a, b, c \in D : <<a, b>> \in R /\ <<b, c>> \in R => <<a, c>> \in R
  BY <1>2, AheadIsOrder
<1>5. \A a \in D : <<a, a>> \notin R
  BY <1>2, AheadIsOrder
<1>6. \A a, b \in D : a # b => <<a, b>> \in R \/ <<b, a>> \in R
  BY <1>2, AheadIsOrder
<1>7. Sorted(changes) = [n \in D |-> changes[at[n]]]
  <2> DEFINE place == [i \in D |-> Cardinality({j \in D : Ahead(changes, j, i)}) + 1]
  <2>1. \A i \in D : place[i] = rank(i) + 1
    BY <1>3
  <2>2. Sorted(changes) = [n \in D |-> changes[CHOOSE i \in D : place[i] = n]]
    BY DEF Sorted
  <2> HIDE DEF place, rank, D
  <2>3. \A n \in D : (CHOOSE i \in D : place[i] = n) = CHOOSE i \in D : rank(i) + 1 = n
    BY <2>1
  <2> QED
    BY <2>2, <2>3
<1> HIDE DEF D
<1>8. at = [n \in 1..Cardinality(D) |-> CHOOSE i \in D : rank(i) + 1 = n]
  BY <1>1
<1>9. /\ \A n \in 1..Cardinality(D) : at[n] \in D
      /\ \A i \in D : \E n \in 1..Cardinality(D) : at[n] = i
      /\ \A n, m \in 1..Cardinality(D) : n < m => <<at[n], at[m]>> \in R
  <2>1. IsFiniteSet(D)
    BY <1>1
  <2>2. at = Ranked(D, R)
    BY <1>8 DEF Ranked
  <2> HIDE DEF at
  <2> QED
    BY <1>4, <1>5, <1>6, <2>1, <2>2, RankedList
<1>10. at \in [D -> D]
  BY <1>1, <1>9
<1> HIDE DEF at
<1> QED
  BY <1>1, <1>2, <1>7, <1>9, <1>10 DEF D

\* Sorting drops no change and adds none.
LEMMA SortedIs ==
  ASSUME NEW changes \in Seq(ChangeRecords)
  PROVE  Sorted(changes) \in Seq(ChangeRecords) /\ ChangesOf(Sorted(changes)) = ChangesOf(changes)
<1>1. CASE Of(changes, Portable) = {}
  BY <1>1 DEF Sorted
<1>2. CASE Of(changes, Portable) # {}
  <2> DEFINE D == DOMAIN changes
             list == Sorted(changes)
  <2>1. PICK at \in [D -> D] :
          list = [n \in D |-> changes[at[n]]] /\ \A i \in D : \E n \in D : at[n] = i
    BY <1>2, SortedList
  <2>2. D = 1..Len(changes) /\ Len(changes) \in Nat /\ \A n \in D : changes[n] \in ChangeRecords
    OBVIOUS
  <2> HIDE DEF D, list
  <2>3. list \in Seq(ChangeRecords)
    BY <2>1, <2>2
  <2>4. DOMAIN list = D /\ DOMAIN changes = D
    BY <2>1 DEF D
  <2>5. ChangesOf(list) = ChangesOf(changes)
    BY <2>1, <2>4 DEF ChangesOf
  <2> QED
    BY <2>3, <2>5 DEF list
<1> QED
  BY <1>1, <1>2

LEMMA AppliedInStages ==
  ASSUME NEW s \in Stages, NEW c \in ChangeRecords
  PROVE  Applied(s, c) \in Stages
BY AddRowIs, UpdateRowIs DEF Applied

\* The loop of apply_ticket.
LEMMA ApplicationUnfolds ==
  ASSUME NEW d \in Worlds, Unchanged(d) \in Stages, NEW list \in Seq(ChangeRecords)
  PROVE  \E after :
           /\ after[0] = Unchanged(d)
           /\ \A i \in 1..Len(list) : after[i] = Applied(after[i - 1], list[i])
           /\ Application(d, list) = after[Len(list)]
<1> DEFINE N == Len(list)
           after == CHOOSE f : f = [i \in 0..N |-> IF i = 0 THEN Unchanged(d)
                                                   ELSE Applied(f[i - 1], list[i])]
<1>1. N \in Nat /\ DOMAIN list = 1..N /\ \A i \in 1..N : list[i] \in ChangeRecords
  OBVIOUS
<1>2. Application(d, list) = after[N]
  BY DEF Application
<1> HIDE DEF N
<1>4. \E f : f = [i \in 0..N |-> IF i = 0 THEN Unchanged(d) ELSE Applied(f[i - 1], list[i])]
  <2> DEFINE step == [x \in Stages \X (1..N) |-> Applied(x[1], list[x[2]])]
  <2>1. step \in [Stages \X (1..N) -> Stages]
    BY <1>1, AppliedInStages
  <2>2. \A s \in Stages, i \in 1..N : step[<<s, i>>] = Applied(s, list[i])
    OBVIOUS
  <2> HIDE DEF step
  <2>3. N \in Nat /\ step \in Turning(Stages, N)
    BY <1>1, <2>1 DEF Turning
  <2>4. Unfoldings(Stages, N, Unchanged(d), step) # {}
    BY <2>3, LoopExists
  <2>5. PICK f \in [0..N -> Stages] :
          f[0] = Unchanged(d) /\ \A i \in 1..N : f[i] = step[<<f[i - 1], i>>]
    BY <2>4 DEF Unfoldings
  <2>6. ASSUME NEW n \in 0..N
        PROVE  f[n] = IF n = 0 THEN Unchanged(d) ELSE Applied(f[n - 1], list[n])
    <3>1. CASE n = 0
      BY <2>5, <3>1
    <3>2. CASE n # 0
      <4>1. n \in 1..N /\ n - 1 \in 0..N
        BY <1>1, <3>2
      <4>2. f[n - 1] \in Stages /\ f[n] = step[<<f[n - 1], n>>]
        BY <2>5, <4>1
      <4> QED
        BY <2>2, <3>2, <4>1, <4>2
    <3> QED
      BY <3>1, <3>2
  <2>7. f = [n \in 0..N |-> f[n]]
    OBVIOUS
  <2> QED
    BY <2>6, <2>7
<1>5. after = [i \in 0..N |-> IF i = 0 THEN Unchanged(d) ELSE Applied(after[i - 1], list[i])]
  BY <1>4
<1> HIDE DEF after
<1>6. after[0] = Unchanged(d) /\ \A i \in 1..N : after[i] = Applied(after[i - 1], list[i])
  BY <1>1, <1>5
<1> QED
  BY <1>2, <1>6 DEF N

LEMMA ApplicationReaches ==
  ASSUME NEW d \in Worlds, NEW C \in SUBSET ChangeRecords, Sound(d, C), Intervals(d), Fitting(d),
         NEW list \in Seq(C)
  PROVE  Reached(d, C, ChangesOf(list), Application(d, list))
<1> DEFINE N == Len(list)
           first(n) == {list[i] : i \in 1..n}
<1>1. N \in Nat /\ DOMAIN list = 1..N /\ \A i \in 1..N : list[i] \in C
  OBVIOUS
<1>3. Unchanged(d) \in Stages /\ Reached(d, C, {}, Unchanged(d))
  BY NothingApplied DEF Reached
<1>4. list \in Seq(ChangeRecords)
  OBVIOUS
<1>5. PICK after :
        /\ after[0] = Unchanged(d)
        /\ \A i \in 1..N : after[i] = Applied(after[i - 1], list[i])
        /\ Application(d, list) = after[N]
  BY <1>3, <1>4, ApplicationUnfolds
<1>2. Application(d, list) = after[N]
  BY <1>5
<1>6. after[0] = Unchanged(d) /\ \A i \in 1..N : after[i] = Applied(after[i - 1], list[i])
  BY <1>5
<1> HIDE DEF N
<1> DEFINE good == {n \in 0..N : Reached(d, C, first(n), after[n])}
<1>7. 0 \in good
  <2>1. first(0) = {}
    OBVIOUS
  <2>2. 0 \in 0..N
    BY <1>1
  <2> HIDE DEF first
  <2>3. Reached(d, C, first(0), after[0])
    BY <1>3, <1>6, <2>1, Zenon
  <2> QED
    BY <2>2, <2>3, Zenon
<1>8. ASSUME NEW i \in 1..N, i - 1 \in good
      PROVE  i \in good
  <2>1. Reached(d, C, first(i - 1), after[i - 1])
    BY <1>8
  <2>2. first(i - 1) \in SUBSET C /\ list[i] \in C
    BY <1>1
  <2>3. first(i) = first(i - 1) \cup {list[i]}
    BY <1>1
  <2> HIDE DEF first
  <2>4. Reached(d, C, first(i - 1) \cup {list[i]}, Applied(after[i - 1], list[i]))
    BY <2>1, <2>2, AppliedReaches
  <2>5. Reached(d, C, first(i), after[i])
    BY <1>6, <2>3, <2>4, Zenon
  <2>6. i \in 0..N
    BY <1>1
  <2> QED
    BY <2>5, <2>6, Zenon
<1>9. N \in good
  <2> HIDE DEF good
  <2>1. good \in SUBSET (0..N)
    BY DEF good
  <2>2. \A i \in 1..N : i - 1 \in good => i \in good
    BY <1>8
  <2>3. good = 0..N
    BY <1>1, <1>7, <2>1, <2>2, LoopInduction
  <2> QED
    BY <1>1, <2>3
<1>10. first(N) = ChangesOf(list)
  BY <1>1 DEF ChangesOf
<1> QED
  BY <1>2, <1>9, <1>10

------------------------------------------------------------------------------
(* The checks *)

LEMMA RowOf ==
  ASSUME NEW d \in Worlds, NEW table, NEW id, Has(d, table, id)
  PROVE  d.rows[id] \in CanonRows /\ LifecycleState(d.rows[id]) \in States
<1>1. d.rows[id] \in CanonRows
  BY WorldFacts DEF Has
<1> QED
  BY <1>1 DEF CanonRows, LifecycleState, States

\* What is captured is kept in the revision, and everything else is as it was.
LEMMA CapturedIs ==
  ASSUME NEW d \in Worlds, NEW changes \in Seq(ChangeRecords), ReferencesOk(d, changes)
  PROVE  /\ Captured(d, changes) \in Seq(ChangeRecords)
         /\ DOMAIN Captured(d, changes) = DOMAIN changes
         /\ \A i \in DOMAIN changes :
              /\ ~Revises(changes[i]) => Captured(d, changes)[i] = changes[i]
              /\ Revises(changes[i]) =>
                   /\ Revises(Captured(d, changes)[i])
                   /\ Captured(d, changes)[i].target = changes[i].target
                   /\ Captured(d, changes)[i].expected = LifecycleState(d.rows[changes[i].target])
<1> DEFINE new == Captured(d, changes)
<1>1. DOMAIN changes = 1..Len(changes) /\ Len(changes) \in Nat
      /\ \A i \in DOMAIN changes : changes[i] \in ChangeRecords
  OBVIOUS
<1>2. ASSUME NEW i \in DOMAIN changes, Revises(changes[i])
      PROVE  /\ Has(d, TableOf[changes[i].type], changes[i].target)
             /\ AsExpected(d, changes[i])
  BY <1>2 DEF ReferencesOk, Of
<1>3. new = [i \in DOMAIN changes |->
               IF Revises(changes[i]) /\ changes[i].expected = Unseen
                 THEN [changes[i] EXCEPT !.expected = LifecycleState(d.rows[changes[i].target])]
                 ELSE changes[i]]
  BY DEF Captured
<1> HIDE DEF new
<1>4. ASSUME NEW i \in DOMAIN changes, Revises(changes[i])
      PROVE  /\ new[i] \in ChangeRecords
             /\ new[i].type = changes[i].type /\ new[i].target = changes[i].target
             /\ new[i].expected = LifecycleState(d.rows[changes[i].target])
  <2>1. LifecycleState(d.rows[changes[i].target]) \in States
    BY <1>2, <1>4, RowOf
  <2>2. changes[i] \in ChangeRecords
    BY <1>1
  <2>3. CASE changes[i].expected = Unseen
    <3> DEFINE state == LifecycleState(d.rows[changes[i].target])
    <3>1. new[i] = [changes[i] EXCEPT !.expected = state]
      BY <1>3, <1>4, <2>3
    <3>2. state \in States
      BY <2>1
    <3> HIDE DEF state
    <3>3. /\ new[i] \in ChangeRecords
          /\ new[i].type = changes[i].type /\ new[i].target = changes[i].target
          /\ new[i].expected = state
      BY <2>2, <3>1, <3>2 DEF ChangeRecords
    <3> QED
      BY <3>3 DEF state
  <2>4. CASE changes[i].expected # Unseen
    BY <1>2, <1>3, <1>4, <2>2, <2>4 DEF AsExpected
  <2> QED
    BY <2>3, <2>4
<1>5. ASSUME NEW i \in DOMAIN changes, ~Revises(changes[i])
      PROVE  new[i] = changes[i]
  BY <1>3, <1>5
<1>6. ASSUME NEW i \in DOMAIN changes, Revises(changes[i])
      PROVE  Revises(new[i])
  BY <1>4, <1>6 DEF Revises, Deep, Adds
<1>7. \A i \in DOMAIN changes : new[i] \in ChangeRecords
  BY <1>1, <1>4, <1>5
<1>8. new \in Seq(ChangeRecords) /\ DOMAIN new = DOMAIN changes
  BY <1>1, <1>3, <1>7
<1> QED
  BY <1>4, <1>5, <1>6, <1>8 DEF new

\* A reference that is found is supported, by a row or by another change.
LEMMA RefersIsSupported ==
  ASSUME NEW d, NEW changes \in Seq(ChangeRecords), NEW C, NEW c, NEW table, NEW id,
         \A i \in DOMAIN changes : WellFormed(changes[i]),
         \A i \in DOMAIN changes : Adds(changes[i]) => changes[i] \in C,
         Refers(d, changes, c, table, id)
  PROVE  Supported(d, C, table, id)
<1>1. CASE Portable(c)
  <2>1. PICK i \in DOMAIN changes :
          /\ Portable(changes[i]) /\ TableOf[changes[i].type] = table
          /\ changes[i].portable = id
    BY <1>1 DEF Refers, PendingIds, Of
  <2>2. Adds(changes[i]) /\ changes[i] \in C
    BY <2>1 DEF WellFormed
  <2> QED
    BY <2>1, <2>2 DEF Supported
<1>2. CASE ~Portable(c)
  BY <1>2 DEF Refers, Supported
<1> QED
  BY <1>1, <1>2

\* What is checked before a ticket is applied is all that its changes need.
LEMMA ValidIsSound ==
  ASSUME NEW d \in Worlds, NEW changes \in Seq(ChangeRecords), Valid(d, changes)
  PROVE  Sound(d, ChangesOf(Captured(d, changes)))
<1> DEFINE new == Captured(d, changes)
           C == ChangesOf(new)
<1>1. ReferencesOk(d, changes) /\ \A i \in DOMAIN changes : WellFormed(changes[i])
  BY DEF Valid
<1>2. /\ DOMAIN new = DOMAIN changes
      /\ \A i \in DOMAIN changes : ~Revises(changes[i]) => new[i] = changes[i]
      /\ \A i \in DOMAIN changes : Revises(changes[i]) => Revises(new[i])
  BY <1>1, CapturedIs
<1>3. C = {new[i] : i \in DOMAIN changes}
  BY <1>2 DEF ChangesOf
<1> HIDE DEF new, C
<1>4. \A i \in DOMAIN changes : Adds(changes[i]) => changes[i] \in C
  BY <1>2, <1>3 DEF Revises
<1>5. \A e \in C : Adds(e) => \E i \in DOMAIN changes : e = changes[i]
  <2>1. \A i \in DOMAIN changes : Adds(new[i]) => new[i] = changes[i]
    BY <1>2 DEF Revises
  <2> QED
    BY <1>3, <2>1
<1>6. ASSUME NEW i \in DOMAIN changes, AddsDeep(changes[i])
      PROVE  LET c == changes[i] IN
             /\ c.type = "add_actor_memory_packet" \/ Ordered(c.from, c.until)
             /\ Refers(d, changes, c, "entities", c.subject)
             /\ c.type = "add_entity_attribute_span" =>
                  /\ DimensionOk(d, changes, i)
                  /\ c.object # 0 => Refers(d, changes, c, "entities", c.object)
             /\ c.type = "add_knowledge_attribution" =>
                  /\ Refers(d, changes, c, "facts", c.object)
                  /\ c.learned # 0 => Refers(d, changes, c, "entities", c.learned)
  <2>1. WellFormedRecord(changes[i])
    BY <1>1, <1>6 DEF WellFormed
  <2>2. /\ Refers(d, changes, changes[i], "entities", changes[i].subject)
        /\ changes[i].type = "add_entity_attribute_span" =>
             /\ DimensionOk(d, changes, i)
             /\ changes[i].object # 0 =>
                  Refers(d, changes, changes[i], "entities", changes[i].object)
        /\ changes[i].type = "add_knowledge_attribution" =>
             /\ Refers(d, changes, changes[i], "facts", changes[i].object)
             /\ changes[i].learned # 0 =>
                  Refers(d, changes, changes[i], "entities", changes[i].learned)
    BY <1>1, <1>6 DEF ReferencesOk, Of
  <2> QED
    BY <2>1, <2>2 DEF WellFormedRecord
<1>7. ASSUME NEW c \in C, AddsDeep(c)
      PROVE  /\ c.type = "add_actor_memory_packet" \/ Ordered(c.from, c.until)
             /\ Supported(d, C, "entities", c.subject)
             /\ c.type = "add_knowledge_attribution" =>
                  /\ Supported(d, C, "facts", c.object)
                  /\ c.learned # 0 => Supported(d, C, "entities", c.learned)
             /\ c.type = "add_entity_attribute_span" =>
                  /\ c.object # 0 => Supported(d, C, "entities", c.object)
                  /\ c.dimension \in DOMAIN d.dimensions => d.dimensions[c.dimension] = c.valueType
                  /\ \A e \in C :
                       e.type = "add_entity_attribute_span" /\ e.dimension = c.dimension =>
                         e.valueType = c.valueType
  <2>1. PICK i \in DOMAIN changes : c = changes[i]
    BY <1>5, <1>7 DEF AddsDeep
  <2>2. /\ c.type = "add_actor_memory_packet" \/ Ordered(c.from, c.until)
        /\ Refers(d, changes, c, "entities", c.subject)
        /\ c.type = "add_entity_attribute_span" =>
             /\ DimensionOk(d, changes, i)
             /\ c.object # 0 => Refers(d, changes, c, "entities", c.object)
        /\ c.type = "add_knowledge_attribution" =>
             /\ Refers(d, changes, c, "facts", c.object)
             /\ c.learned # 0 => Refers(d, changes, c, "entities", c.learned)
    BY <1>6, <1>7, <2>1
  <2>3. \A table, id : Refers(d, changes, c, table, id) => Supported(d, C, table, id)
    BY <1>1, <1>4, RefersIsSupported
  <2>4. ASSUME c.type = "add_entity_attribute_span"
        PROVE  /\ c.dimension \in DOMAIN d.dimensions => d.dimensions[c.dimension] = c.valueType
               /\ \A e \in C :
                    e.type = "add_entity_attribute_span" /\ e.dimension = c.dimension =>
                      e.valueType = c.valueType
    <3>1. DimensionOk(d, changes, i)
      BY <2>2, <2>4
    <3>2. \A e \in C : e.type = "add_entity_attribute_span" =>
            \E j \in DOMAIN changes : e = changes[j]
      BY <1>5 DEF Adds
    <3> QED
      BY <2>1, <3>1, <3>2 DEF DimensionOk, DimensionKnown
  <2> QED
    BY <2>2, <2>3, <2>4
<1>8. Sound(d, C)
  BY <1>7 DEF Sound
<1> QED
  BY <1>8 DEF C, new

------------------------------------------------------------------------------
(* The inductive invariant, and its steps *)

AuthoredStates == {"none", "proposed", "previewed", "approved", "applied"}
AuthoredType ==
  authored \in [AuthoredTickets -> [status : AuthoredStates, changes : Seq(ChangeRecords)]]

\* What a person saw of a record is what the ticket expects of it.
Remembered(t) ==
  /\ authored[t].status = "none" => DOMAIN looked[t] = {}
  /\ \A x \in DOMAIN looked[t] :
       \E i \in DOMAIN authored[t].changes :
         LET c == authored[t].changes[i] IN
         Revises(c) /\ c.target = x /\ c.expected = looked[t][x] /\ c.expected # Unseen

\* The inductive invariant.
CanonInv ==
  /\ db \in Worlds /\ Coherent(db) /\ AuthoredType
  /\ DOMAIN looked = AuthoredTickets
  /\ \A t \in AuthoredTickets : Remembered(t)

LEMMA CanonStart == CanonInit => CanonInv
<1> SUFFICES ASSUME CanonInit PROVE CanonInv
  OBVIOUS
<1>1. db \in Worlds /\ DOMAIN db.rows = {}
  <2> DEFINE rows == [i \in {} |-> Change]
             dims == [k \in {} |-> "none"]
  <2>1. rows \in [{} -> CanonRows] /\ dims \in [{} -> STRING]
    OBVIOUS
  <2>2. rows \in Maps(Int, CanonRows) /\ dims \in Maps(STRING, STRING)
    BY <2>1 DEF Maps
  <2>3. db = [rows |-> rows, dimensions |-> dims] /\ DOMAIN rows = {}
    BY DEF CanonInit
  <2> HIDE DEF rows, dims
  <2> QED
    BY <2>2, <2>3 DEF Worlds
<1>2. Coherent(db)
  BY <1>1 DEF Coherent, Intervals, Fitting, Resolving
<1>3. AuthoredType
  BY DEF CanonInit, AuthoredType, NoAuthored, AuthoredStates
<1>4. DOMAIN looked = AuthoredTickets /\ \A t \in AuthoredTickets : Remembered(t)
  BY DEF CanonInit, Remembered
<1> QED
  BY <1>1, <1>2, <1>3, <1>4 DEF CanonInv

\* A ticket gets other changes and a state: the others are as they were.
LEMMA MovedIs ==
  ASSUME CanonInv, NEW t \in AuthoredTickets, NEW status \in AuthoredStates,
         NEW changes \in Seq(ChangeRecords), Moved(t, status, changes)
  PROVE  /\ AuthoredType'
         /\ authored'[t] = [status |-> status, changes |-> changes]
         /\ \A u \in AuthoredTickets \ {t} : authored'[u] = authored[u]
BY DEF CanonInv, AuthoredType, Moved

\* What is looked at is captured by the ticket.
LEMMA LookIs ==
  ASSUME CanonInv, NEW changes \in Seq(ChangeRecords), ReferencesOk(db, changes)
  PROVE  \A x \in DOMAIN Look(changes) :
           \E i \in DOMAIN Captured(db, changes) :
             LET c == Captured(db, changes)[i] IN
             Revises(c) /\ c.target = x /\ c.expected = Look(changes)[x] /\ c.expected # Unseen
<1> SUFFICES ASSUME NEW x \in DOMAIN Look(changes)
             PROVE  \E i \in DOMAIN Captured(db, changes) :
                      LET c == Captured(db, changes)[i] IN
                      /\ Revises(c) /\ c.target = x
                      /\ c.expected = Look(changes)[x] /\ c.expected # Unseen
  OBVIOUS
<1>1. Look(changes)[x] = LifecycleState(db.rows[x])
  BY DEF Look, Row
<1>2. PICK i \in DOMAIN changes : Revises(changes[i]) /\ changes[i].target = x
  BY DEF Look, Of
<1>3. Has(db, TableOf[changes[i].type], x)
  BY <1>2 DEF ReferencesOk, Of
<1>4. LifecycleState(db.rows[x]) # Unseen
  BY <1>3, RowOf, DraftsAssumption DEF CanonInv
<1>5. /\ DOMAIN Captured(db, changes) = DOMAIN changes
      /\ Revises(Captured(db, changes)[i]) /\ Captured(db, changes)[i].target = x
      /\ Captured(db, changes)[i].expected = LifecycleState(db.rows[x])
  BY <1>2, CapturedIs DEF CanonInv
<1> QED
  BY <1>1, <1>4, <1>5

\* A preview or a review.
LEMMA LookedAt ==
  ASSUME CanonInv, NEW t \in AuthoredTickets, NEW changes \in Seq(ChangeRecords),
         ReferencesOk(db, changes), NEW status \in AuthoredStates, status # "none",
         Moved(t, status, Captured(db, changes)),
         looked' = [looked EXCEPT ![t] = Look(changes)], UNCHANGED db
  PROVE  CanonInv'
<1>1. Captured(db, changes) \in Seq(ChangeRecords)
  BY CapturedIs DEF CanonInv
<1>2. /\ AuthoredType'
      /\ authored'[t] = [status |-> status, changes |-> Captured(db, changes)]
      /\ \A u \in AuthoredTickets \ {t} : authored'[u] = authored[u]
  BY <1>1, MovedIs
<1>3. /\ DOMAIN looked' = AuthoredTickets /\ looked'[t] = Look(changes)
      /\ \A u \in AuthoredTickets \ {t} : looked'[u] = looked[u]
  BY DEF CanonInv
<1>4. Remembered(t)'
  <2>1. \A x \in DOMAIN Look(changes) :
          \E i \in DOMAIN Captured(db, changes) :
            LET c == Captured(db, changes)[i] IN
            Revises(c) /\ c.target = x /\ c.expected = Look(changes)[x] /\ c.expected # Unseen
    BY LookIs
  <2>2. /\ authored'[t].status # "none" /\ authored'[t].changes = Captured(db, changes)
        /\ looked'[t] = Look(changes)
    BY <1>2, <1>3
  <2> QED
    BY <2>1, <2>2 DEF Remembered, Revises, Deep, Adds
<1>5. \A u \in AuthoredTickets \ {t} : Remembered(u)'
  BY <1>2, <1>3 DEF CanonInv, Remembered
<1>6. (db \in Worlds /\ Coherent(db))'
  BY DEF CanonInv
<1> QED
  BY <1>2, <1>3, <1>4, <1>5, <1>6 DEF CanonInv

\* What was looked at before stays what the ticket expects, as its changes stay.
LEMMA ChangesKept ==
  ASSUME CanonInv, NEW t \in AuthoredTickets, NEW status \in AuthoredStates,
         status # "none", Moved(t, status, authored[t].changes), UNCHANGED looked
  PROVE  /\ AuthoredType' /\ DOMAIN looked' = AuthoredTickets
         /\ \A u \in AuthoredTickets : Remembered(u)'
<1>1. authored[t].changes \in Seq(ChangeRecords)
  BY DEF CanonInv, AuthoredType
<1>2. /\ AuthoredType'
      /\ authored'[t] = [status |-> status, changes |-> authored[t].changes]
      /\ \A u \in AuthoredTickets \ {t} : authored'[u] = authored[u]
  BY <1>1, MovedIs
<1>3. authored'[t].status # "none" /\ authored'[t].changes = authored[t].changes
  BY <1>2
<1>4. \A u \in AuthoredTickets : Remembered(u)'
  BY <1>2, <1>3 DEF CanonInv, Remembered
<1> QED
  BY <1>2, <1>4 DEF CanonInv

LEMMA CreateKeeps ==
  ASSUME CanonInv, NEW t \in AuthoredTickets, NEW changes \in Seq(ChangeRecords),
         CreateTicket(t, changes)
  PROVE  CanonInv'
<1>1. changes \in Seq(ChangeRecords) /\ "proposed" \in AuthoredStates
  BY DEF AuthoredStates
<1>2. Moved(t, "proposed", changes) /\ db' = db /\ looked' = looked
  BY DEF CreateTicket
<1>3. /\ AuthoredType'
      /\ authored'[t] = [status |-> "proposed", changes |-> changes]
      /\ \A u \in AuthoredTickets \ {t} : authored'[u] = authored[u]
  BY <1>1, <1>2, MovedIs
<1>4. DOMAIN looked[t] = {}
  BY DEF CreateTicket, InState, CanonInv, Remembered
<1>5. Remembered(t)'
  BY <1>2, <1>3, <1>4 DEF Remembered
<1>6. \A u \in AuthoredTickets \ {t} : Remembered(u)'
  BY <1>2, <1>3 DEF CanonInv, Remembered
<1>7. (db \in Worlds /\ Coherent(db))' /\ DOMAIN looked' = AuthoredTickets
  BY <1>2 DEF CanonInv
<1> QED
  BY <1>3, <1>5, <1>6, <1>7 DEF CanonInv

LEMMA PreviewKeeps ==
  ASSUME CanonInv, NEW t \in AuthoredTickets, NEW changes \in Drafts, Preview(t, changes)
  PROVE  CanonInv'
<1>1. changes \in Seq(ChangeRecords) /\ "previewed" \in AuthoredStates
  BY DraftsAssumption DEF AuthoredStates
<1> QED
  BY <1>1, LookedAt DEF Preview

LEMMA WriteKeeps ==
  ASSUME CanonInv, NEW t \in AuthoredTickets, WriteAuthored(t)
  PROVE  CanonInv'
<1>1. Moved(t, "proposed", authored[t].changes) /\ db' = db /\ UNCHANGED looked
  BY DEF WriteAuthored
<1>2. "proposed" \in AuthoredStates
  BY DEF AuthoredStates
<1>3. AuthoredType' /\ DOMAIN looked' = AuthoredTickets /\ \A u \in AuthoredTickets : Remembered(u)'
  BY <1>1, <1>2, ChangesKept
<1>4. (db \in Worlds /\ Coherent(db))'
  BY <1>1 DEF CanonInv
<1> QED
  BY <1>3, <1>4 DEF CanonInv

LEMMA ReviewKeeps ==
  ASSUME CanonInv, NEW t \in AuthoredTickets, ReviewAuthored(t)
  PROVE  CanonInv'
<1>1. authored[t].changes \in Seq(ChangeRecords) /\ "approved" \in AuthoredStates
  BY DEF CanonInv, AuthoredType, AuthoredStates
<1>2. ReferencesOk(db, authored[t].changes)
  BY DEF ReviewAuthored, Valid
<1>3. /\ Moved(t, "approved", Captured(db, authored[t].changes))
      /\ looked' = [looked EXCEPT ![t] = Look(authored[t].changes)] /\ UNCHANGED db
  BY DEF ReviewAuthored
<1> QED
  BY <1>1, <1>2, <1>3, LookedAt

\* An application also brings every record that an import brings.
LEMMA ApplyKeeps ==
  ASSUME CanonInv, NEW t \in AuthoredTickets, ApplyAuthored(t)
  PROVE  CanonInv' /\ Brought(ChangesOf(Captured(db, authored[t].changes)), db')
<1> DEFINE changes == authored[t].changes
           new == Captured(db, changes)
           C == ChangesOf(new)
           list == Sorted(new)
           done == Application(db, list)
<1>1. db \in Worlds /\ Coherent(db) /\ changes \in Seq(ChangeRecords)
  BY DEF CanonInv, AuthoredType
<1>2. Valid(db, changes) /\ done.ok /\ db' = done.db
  BY DEF ApplyAuthored
<1>3. /\ Moved(t, "applied", authored[t].changes) /\ UNCHANGED looked
  BY DEF ApplyAuthored
<1>4. new \in Seq(ChangeRecords)
  BY <1>1, <1>2, CapturedIs DEF Valid
<1>5. Sound(db, C)
  BY <1>1, <1>2, ValidIsSound
<1> HIDE DEF new, changes
<1>6. C \in SUBSET ChangeRecords
  BY <1>4 DEF ChangesOf
<1>7. list \in Seq(ChangeRecords) /\ ChangesOf(list) = C
  BY <1>4, SortedIs
<1> HIDE DEF list, C
<1>8. list \in Seq(C)
  BY <1>7 DEF ChangesOf
<1>9. Intervals(db) /\ Fitting(db)
  BY <1>1 DEF Coherent
<1>10. Reached(db, C, ChangesOf(list), done)
  BY <1>1, <1>5, <1>6, <1>8, <1>9, ApplicationReaches
<1> HIDE DEF done
<1>11. Reached(db, C, C, done)
  BY <1>7, <1>10
<1>12. done.db \in Worlds /\ Coherent(done.db)
  BY <1>1, <1>2, <1>5, <1>6, <1>11, ReachedIsCoherent
<1>13. db' \in Worlds /\ Coherent(db')
  BY <1>2, <1>12
<1>14. "applied" \in AuthoredStates
  BY DEF AuthoredStates
<1>15. /\ AuthoredType' /\ DOMAIN looked' = AuthoredTickets
       /\ \A u \in AuthoredTickets : Remembered(u)'
  BY <1>3, <1>14, ChangesKept
<1>16. Brought(C, db')
  BY <1>2, <1>11 DEF Reached
<1> QED
  BY <1>13, <1>15, <1>16 DEF CanonInv, C, new, changes

LEMMA CanonSteps == CanonInv /\ [CanonNext]_canonVars => CanonInv'
<1> SUFFICES ASSUME CanonInv, [CanonNext]_canonVars PROVE CanonInv'
  OBVIOUS
<1>1. CASE CanonNext
  BY <1>1, DraftsAssumption, CreateKeeps, PreviewKeeps, WriteKeeps, ReviewKeeps, ApplyKeeps
  DEF CanonNext
<1>2. CASE UNCHANGED canonVars
  <2>1. db' = db /\ authored' = authored /\ looked' = looked
    BY <1>2 DEF canonVars
  <2> QED
    BY <2>1 DEF CanonInv, AuthoredType, Remembered
<1> QED
  BY <1>1, <1>2

LEMMA CoherentIsConsistent == CanonInv => CanonIsConsistent
<1> SUFFICES ASSUME CanonInv PROVE CanonIsConsistent
  OBVIOUS
<1>1. Intervals(db) /\ Fitting(db) /\ Resolving(db)
  BY DEF CanonInv, Coherent
<1>2. IntervalsHold
  BY <1>1 DEF Intervals, IntervalsHold, Rows, Row
<1>3. SpansFitDimensions
  BY <1>1 DEF Fitting, SpansFitDimensions, Rows, Row
<1>4. DeepRecordsResolve
  BY <1>1 DEF Resolving, DeepRecordsResolve, Rows, Row
<1> QED
  BY <1>2, <1>3, <1>4 DEF CanonIsConsistent

\* Whatever tickets are created, previewed, reviewed and applied, and in whatever order:
\* intervals are none that end before they begin, attributes have the type of their
\* dimension, and deep records are about entities and facts that exist (ticket_application.py
\* and the checks of ticket_validation.py, made of one ticket alone).
THEOREM CanonStaysConsistent == CanonSpec => []CanonIsConsistent
BY CanonStart, CanonSteps, CoherentIsConsistent, PTL DEF CanonSpec

\* Only an application makes a ticket applied, and it compares what is there with what
\* was seen.
LEMMA AppliedAsSeen ==
  ASSUME CanonInv, [CanonNext]_canonVars, NEW t \in AuthoredTickets,
         authored[t].status # "applied", authored'[t].status = "applied",
         NEW x \in DOMAIN looked[t]
  PROVE  looked[t][x] = LifecycleState(Row(x))
<1>1. \A u \in AuthoredTickets : authored[u].changes \in Seq(ChangeRecords)
  BY DEF CanonInv, AuthoredType
<1>2. ASSUME NEW u \in AuthoredTickets, NEW status \in AuthoredStates, status # "applied",
             NEW changes \in Seq(ChangeRecords), Moved(u, status, changes)
      PROVE  FALSE
  <2>1. /\ authored'[u] = [status |-> status, changes |-> changes]
        /\ \A w \in AuthoredTickets \ {u} : authored'[w] = authored[w]
    BY <1>2, MovedIs
  <2> QED
    BY <1>2, <2>1
<1>3. PICK u \in AuthoredTickets :
        \/ \E changes \in Drafts : CreateTicket(u, changes) \/ Preview(u, changes)
        \/ WriteAuthored(u) \/ ReviewAuthored(u) \/ ApplyAuthored(u)
  BY DEF CanonNext, canonVars
<1>4. {"proposed", "previewed", "approved", "applied"} \subseteq AuthoredStates
  BY DEF AuthoredStates
<1>5. ASSUME NEW changes \in Drafts, CreateTicket(u, changes)
      PROVE  FALSE
  BY <1>2, <1>4, <1>5, DraftsAssumption DEF CreateTicket
<1>6. ASSUME NEW changes \in Drafts, Preview(u, changes)
      PROVE  FALSE
  <2>1. changes \in Seq(ChangeRecords) /\ ReferencesOk(db, changes)
    BY <1>6, DraftsAssumption DEF Preview
  <2>2. Captured(db, changes) \in Seq(ChangeRecords)
    BY <2>1, CapturedIs DEF CanonInv
  <2> QED
    BY <1>2, <1>4, <1>6, <2>2 DEF Preview
<1>7. ASSUME WriteAuthored(u)
      PROVE  FALSE
  BY <1>1, <1>2, <1>4, <1>7 DEF WriteAuthored
<1>8. ASSUME ReviewAuthored(u)
      PROVE  FALSE
  <2>1. authored[u].changes \in Seq(ChangeRecords) /\ ReferencesOk(db, authored[u].changes)
    BY <1>1, <1>8 DEF ReviewAuthored, Valid
  <2>2. Captured(db, authored[u].changes) \in Seq(ChangeRecords)
    BY <2>1, CapturedIs DEF CanonInv
  <2> QED
    BY <1>2, <1>4, <1>8, <2>2 DEF ReviewAuthored
<1>9. ApplyAuthored(u)
  BY <1>3, <1>5, <1>6, <1>7, <1>8
<1>10. u = t
  <2>1. /\ \A w \in AuthoredTickets \ {u} : authored'[w] = authored[w]
    BY <1>1, <1>4, <1>9, MovedIs DEF ApplyAuthored
  <2> QED
    BY <2>1
<1>11. ReferencesOk(db, authored[t].changes)
  BY <1>9, <1>10 DEF ApplyAuthored, Valid
<1>12. PICK i \in DOMAIN authored[t].changes :
         LET c == authored[t].changes[i] IN
         Revises(c) /\ c.target = x /\ c.expected = looked[t][x] /\ c.expected # Unseen
  BY DEF CanonInv, Remembered
<1>13. AsExpected(db, authored[t].changes[i])
  BY <1>11, <1>12 DEF ReferencesOk, Of
<1> QED
  BY <1>12, <1>13 DEF AsExpected, Row

LEMMA AppliesAsSeen ==
  ASSUME CanonInv, [CanonNext]_canonVars
  PROVE  \A t \in AuthoredTickets :
           authored[t].status # "applied" /\ authored'[t].status = "applied" =>
             \A x \in DOMAIN looked[t] : looked[t][x] = LifecycleState(Row(x))
BY AppliedAsSeen

\* Whatever was applied between a look at a ticket and its application: each record that it
\* revises is as it was when it was looked at (expected_revision, in
\* _validate_deep_authoring_references_in_connection and _apply_deep_lifecycle_change).
THEOREM TicketsReviseAsSeen == CanonSpec => RevisedAsSeen
<1>1. CanonInv /\ [CanonNext]_canonVars =>
        [\A t \in AuthoredTickets :
           authored[t].status # "applied" /\ authored'[t].status = "applied" =>
             \A x \in DOMAIN looked[t] : looked[t][x] = LifecycleState(Row(x))]_canonVars
  BY AppliesAsSeen
<1> QED
  BY <1>1, CanonStart, CanonSteps, PTL DEF CanonSpec, RevisedAsSeen

------------------------------------------------------------------------------
(* Forks: records of the exported world, and parts of it *)

Part(d) == DOMAIN d \subseteq DOMAIN Everything /\ d = Only(Everything, DOMAIN d)

\* What every record of the exported world is.
LEMMA RecordIs ==
  ASSUME NEW x \in DOMAIN Everything
  PROVE  /\ x \in Nat /\ x # 0 /\ x # SourceWorld /\ x # ThisWorld
         /\ Everything[x] \in SourceRecords
         /\ Everything[x].table # "actor_memory_packets" =>
              Ordered(Everything[x].from, Everything[x].until)
         /\ Everything[x].table \in {"entities", "timeline_points"} => Everything[x].subject = 0
         /\ Everything[x].table \in DeepTables => Everything[x].subject # SourceWorld
         /\ Everything[x].table = "knowledge_attributions"
              /\ Everything[x].object \in DOMAIN Everything =>
                   Everything[Everything[x].object].table = "facts"
         /\ \A y \in DOMAIN Everything :
              /\ Everything[x].table = "entity_attribute_spans"
              /\ Everything[y].table = "entity_attribute_spans"
              /\ Everything[x].dimension = Everything[y].dimension
              => Everything[x].valueType = Everything[y].valueType
BY SourceAssumption DEF IsSource, InTable

LEMMA PartIs ==
  ASSUME NEW d, Part(d)
  PROVE  /\ IsFiniteSet(DOMAIN d)
         /\ \A x \in DOMAIN d : x \in DOMAIN Everything /\ d[x] = Everything[x]
<1>1. IsFiniteSet(DOMAIN Everything)
  BY SourceAssumption DEF IsSource
<1>2. IsFiniteSet(DOMAIN d)
  BY <1>1, FS_Subset DEF Part
<1>3. d = [x \in DOMAIN d |-> Everything[x]]
  BY DEF Part, Only
<1> QED
  BY <1>2, <1>3 DEF Part

LEMMA OnlyIsPart ==
  ASSUME NEW d, Part(d), NEW S \in SUBSET DOMAIN d
  PROVE  Part(Only(d, S)) /\ DOMAIN Only(d, S) = S
<1>1. \A x \in S : x \in DOMAIN Everything /\ d[x] = Everything[x]
  BY PartIs
<1>2. Only(d, S) = [x \in S |-> Everything[x]]
  BY <1>1 DEF Only
<1> QED
  BY <1>1, <1>2 DEF Part, Only

LEMMA GrownIsPart ==
  ASSUME NEW d, Part(d), NEW more, Part(more)
  PROVE  Part(Grown(d, more)) /\ DOMAIN Grown(d, more) = DOMAIN d \cup DOMAIN more
<1>1. \A x \in DOMAIN d \cup DOMAIN more :
        /\ x \in DOMAIN Everything
        /\ (IF x \in DOMAIN d THEN d[x] ELSE more[x]) = Everything[x]
  BY PartIs
<1>2. Grown(d, more) = [x \in DOMAIN d \cup DOMAIN more |-> Everything[x]]
  BY <1>1 DEF Grown
<1> QED
  BY <1>1, <1>2 DEF Part, Only

------------------------------------------------------------------------------
(* Dependencies *)

\* Whatever a selected entity points to is selected too: each round adds an entity, or
\* there is no more to add.
LEMMA DependenciesClose ==
  ASSUME NEW d, Part(d), NEW S \in SUBSET InTable(d, "entities")
  PROVE  /\ S \subseteq Dependencies(d, S)
         /\ Dependencies(d, S) \subseteq InTable(d, "entities")
         /\ PointedFrom(d, Dependencies(d, S)) \subseteq Dependencies(d, S)
<1> DEFINE E == InTable(d, "entities")
           N == Cardinality(E)
           P == SUBSET E
           next(X) == X \cup PointedFrom(d, X)
           reach == CHOOSE f : f = [n \in 0..N |-> IF n = 0 THEN S ELSE next(f[n - 1])]
<1>1. IsFiniteSet(E) /\ N \in Nat
  <2>1. E \subseteq DOMAIN d
    BY DEF InTable
  <2> HIDE DEF E
  <2> QED
    BY <2>1, PartIs, FS_Subset, FS_CardinalityType
<1>2. \A X \in P : next(X) \in P
  BY DEF PointedFrom
<1>3. Dependencies(d, S) = reach[N]
  BY DEF Dependencies
<1>4. PointedFrom(d, E) \subseteq E
  BY DEF PointedFrom
<1>5. S \in P
  OBVIOUS
<1> HIDE DEF N, E
<1>6. \E f : f = [n \in 0..N |-> IF n = 0 THEN S ELSE next(f[n - 1])]
  <2> DEFINE step == [x \in P \X (1..N) |-> next(x[1])]
  <2> HIDE DEF next, P
  <2>1. step \in [P \X (1..N) -> P]
    BY <1>2
  <2>2. \A X \in P, i \in 1..N : step[<<X, i>>] = next(X)
    OBVIOUS
  <2> HIDE DEF step
  <2>3. step \in Turning(P, N)
    BY <2>1 DEF Turning
  <2>4. Unfoldings(P, N, S, step) # {}
    BY <1>1, <1>5, <2>3, LoopExists
  <2>5. PICK f \in [0..N -> P] : f[0] = S /\ \A i \in 1..N : f[i] = step[<<f[i - 1], i>>]
    BY <2>4 DEF Unfoldings
  <2>6. ASSUME NEW n \in 0..N
        PROVE  f[n] = IF n = 0 THEN S ELSE next(f[n - 1])
    <3>1. CASE n = 0
      BY <2>5, <3>1
    <3>2. CASE n # 0
      <4>1. n \in 1..N /\ n - 1 \in 0..N
        BY <1>1, <3>2
      <4>2. f[n - 1] \in P /\ f[n] = step[<<f[n - 1], n>>]
        BY <2>5, <4>1
      <4> QED
        BY <2>2, <3>2, <4>1, <4>2
    <3> QED
      BY <3>1, <3>2
  <2>7. f = [n \in 0..N |-> f[n]]
    OBVIOUS
  <2> QED
    BY <2>6, <2>7
<1>7. reach = [n \in 0..N |-> IF n = 0 THEN S ELSE next(reach[n - 1])]
  BY <1>6
<1> HIDE DEF reach, next
<1>8. reach[0] = S /\ \A n \in 1..N : reach[n] = next(reach[n - 1])
  BY <1>1, <1>7
<1> DEFINE good == {n \in 0..N : /\ S \subseteq reach[n] /\ reach[n] \in P
                                 /\ next(reach[n]) = reach[n] \/ Cardinality(reach[n]) >= n}
<1>9. 0 \in good
  <2>1. Cardinality(S) \in Nat
    BY <1>1, <1>5, FS_Subset, FS_CardinalityType
  <2> QED
    BY <1>1, <1>5, <1>8, <2>1
<1>10. ASSUME NEW n \in 1..N, n - 1 \in good
       PROVE  n \in good
  <2> DEFINE X == reach[n - 1]
  <2>1. /\ S \subseteq X /\ X \in P
        /\ next(X) = X \/ Cardinality(X) >= n - 1
        /\ reach[n] = next(X) /\ n \in 0..N
    BY <1>1, <1>8, <1>10
  <2> HIDE DEF X
  <2>2. X \subseteq next(X) /\ next(X) \in P
    <3>1. next(X) \in P
      BY <1>2, <2>1
    <3> QED
      BY <3>1 DEF next
  <2>3. CASE next(X) = X
    BY <2>1, <2>2, <2>3
  <2>4. CASE next(X) # X
    <3>1. IsFiniteSet(next(X))
      BY <1>1, <2>2, FS_Subset
    <3>2. IsFiniteSet(X) /\ Cardinality(X) <= Cardinality(next(X))
          /\ Cardinality(X) # Cardinality(next(X))
      BY <2>2, <2>4, <3>1, FS_Subset
    <3>3. Cardinality(X) \in Nat /\ Cardinality(next(X)) \in Nat
      BY <3>1, <3>2, FS_CardinalityType
    <3>4. Cardinality(next(X)) >= n
      BY <2>1, <2>4, <3>2, <3>3
    <3> QED
      BY <2>1, <2>2, <3>4
  <2> QED
    BY <2>3, <2>4
<1>11. N \in good
  <2> HIDE DEF good
  <2>1. good \in SUBSET (0..N)
    BY DEF good
  <2>2. \A n \in 1..N : n - 1 \in good => n \in good
    BY <1>10
  <2>3. good = 0..N
    BY <1>1, <1>9, <2>1, <2>2, LoopInduction
  <2> QED
    BY <1>1, <2>3
<1>12. CASE next(reach[N]) = reach[N]
  BY <1>3, <1>11, <1>12 DEF next, E
<1>13. CASE Cardinality(reach[N]) >= N
  <2>1. reach[N] \subseteq E
    BY <1>11
  <2>2. Cardinality(reach[N]) \in Nat /\ Cardinality(reach[N]) <= Cardinality(E)
    BY <1>1, <2>1, FS_Subset, FS_CardinalityType
  <2>3. Cardinality(reach[N]) = Cardinality(E)
    BY <1>1, <1>13, <2>2 DEF N
  <2>4. reach[N] = E
    BY <1>1, <2>1, <2>3, FS_Subset
  <2> QED
    BY <1>3, <1>4, <1>11, <2>4 DEF E
<1> QED
  BY <1>11, <1>12, <1>13

------------------------------------------------------------------------------
(* What is selected *)

\* What an export refers to, it has.
Chosen(d) ==
  LET entities == InTable(d, "entities") IN
  \A x \in DOMAIN d : LET row == d[x] IN
    /\ row.table \in {"facts", "world_edges"} =>
         row.subject \in entities \cup {SourceWorld} /\ row.object \in entities \cup {0}
    /\ row.table \in DeepTables => row.subject \in entities
    /\ row.table = "entity_attribute_spans" => row.object \in entities \cup {0}
    /\ row.table = "knowledge_attributions" =>
         row.object \in InTable(d, "facts") /\ row.learned \in entities \cup {0}

LEMMA SelectedIs ==
  ASSUME NEW d, Part(d), selection.entities \subseteq InTable(d, "entities")
  PROVE  /\ Part(Selected(d)) /\ DOMAIN Selected(d) \subseteq DOMAIN d
         /\ selection.entities \subseteq InTable(Selected(d), "entities")
         /\ Chosen(Selected(d))
         /\ \A x \in DOMAIN d :
              /\ d[x].subject \in InTable(Selected(d), "entities")
              /\ IF d[x].table = "knowledge_attributions"
                 THEN /\ d[x].object \in DOMAIN Selected(d)
                      /\ d[x].learned \in InTable(Selected(d), "entities") \cup {0}
                 ELSE d[x].object \in InTable(d, "entities") \cup {0}
              => x \in DOMAIN Selected(d)
<1> DEFINE S == Dependencies(d, selection.entities)
           others == {x \in DOMAIN d : Accompanies(d, x, S)}
           known == {x \in InTable(d, "knowledge_attributions") :
                       /\ d[x].subject \in S /\ d[x].object \in others
                       /\ d[x].learned \in S \cup {0}}
           e == Selected(d)
<1>1. /\ selection.entities \subseteq S /\ S \subseteq InTable(d, "entities")
      /\ PointedFrom(d, S) \subseteq S
  BY DependenciesClose
<1>2. e = Only(d, others \cup known)
  BY DEF Selected
<1> HIDE DEF S, e
<1>3. others \cup known \in SUBSET DOMAIN d
  BY DEF InTable
<1>4. /\ Part(e) /\ DOMAIN e = others \cup known
      /\ \A x \in DOMAIN e : e[x] = d[x] /\ x \in DOMAIN d
  <2> HIDE DEF others, known
  <2> QED
    BY <1>2, <1>3, OnlyIsPart DEF Only
<1>5. \A x \in DOMAIN d : /\ x \in DOMAIN Everything /\ d[x] = Everything[x]
                          /\ d[x].table \in CanonTables
  <2>1. \A x \in DOMAIN Everything : Everything[x].table \in CanonTables
    BY RecordIs DEF SourceRecords, CanonTables
  <2> QED
    BY <2>1, PartIs
<1>6. InTable(e, "entities") = S
  BY <1>1, <1>4 DEF InTable, Accompanies
<1>7. \A x \in known : d[x].object \in others /\ d[d[x].object].table = "facts"
  <2> SUFFICES ASSUME NEW x \in known
               PROVE  d[x].object \in others /\ d[d[x].object].table = "facts"
    OBVIOUS
  <2>1. x \in DOMAIN d /\ d[x].table = "knowledge_attributions" /\ d[x].object \in others
    BY DEF InTable
  <2>2. d[x] = Everything[x] /\ x \in DOMAIN Everything
    BY <1>5, <2>1
  <2>3. d[x].object \in DOMAIN d /\ d[d[x].object] = Everything[d[x].object]
        /\ d[x].object \in DOMAIN Everything
    BY <1>5, <2>1
  <2> QED
    BY <2>1, <2>2, <2>3, RecordIs
<1>8. Chosen(e)
  <2> SUFFICES ASSUME NEW x \in DOMAIN e
               PROVE  LET row == d[x] IN
                 /\ row.table \in {"facts", "world_edges"} =>
                      row.subject \in S \cup {SourceWorld} /\ row.object \in S \cup {0}
                 /\ row.table \in DeepTables => row.subject \in S
                 /\ row.table = "entity_attribute_spans" => row.object \in S \cup {0}
                 /\ row.table = "knowledge_attributions" =>
                      row.object \in InTable(e, "facts") /\ row.learned \in S \cup {0}
    BY <1>4, <1>6 DEF Chosen
  <2>1. CASE x \in others
    BY <2>1 DEF Accompanies, DeepTables
  <2>2. CASE x \in known
    <3>1. /\ d[x].table = "knowledge_attributions" /\ d[x].subject \in S
          /\ d[x].learned \in S \cup {0}
      BY <2>2 DEF InTable
    <3>2. d[x].object \in InTable(e, "facts")
      BY <1>4, <1>7, <2>2 DEF InTable
    <3> QED
      BY <3>1, <3>2
  <2> QED
    BY <1>4, <2>1, <2>2
<1>9. ASSUME NEW x \in DOMAIN d, d[x].subject \in S,
             IF d[x].table = "knowledge_attributions"
             THEN d[x].object \in DOMAIN e /\ d[x].learned \in S \cup {0}
             ELSE d[x].object \in InTable(d, "entities") \cup {0}
      PROVE  x \in DOMAIN e
  <2>1. x \in DOMAIN Everything /\ d[x] = Everything[x]
    BY <1>5
  <2>2. CASE d[x].table = "knowledge_attributions"
    <3>1. d[x].object \in DOMAIN e /\ d[x].learned \in S \cup {0}
      BY <1>9, <2>2
    <3>2. d[d[x].object].table = "facts"
      BY <1>4, <1>5, <2>1, <2>2, <3>1, RecordIs
    <3>3. d[x].object \in others
      BY <1>4, <3>1, <3>2 DEF InTable
    <3> QED
      BY <1>4, <1>9, <2>2, <3>1, <3>3 DEF InTable
  <2>3. CASE d[x].table \in Pointing
    <3>1. d[x].object \in InTable(d, "entities") => d[x].object \in S
      BY <1>1, <1>9, <2>3 DEF PointedFrom
    <3>2. d[x].object \in S \cup {0}
      BY <1>9, <2>3, <3>1 DEF Pointing
    <3> QED
      BY <1>4, <1>9, <2>3, <3>2 DEF Pointing, Accompanies
  <2>4. CASE d[x].table \in {"actor_profiles", "actor_memory_packets"}
    BY <1>4, <1>9, <2>4 DEF Accompanies
  <2>5. d[x].table \notin {"entities", "timeline_points"}
    <3> SUFFICES ASSUME d[x].table \in {"entities", "timeline_points"} PROVE FALSE
      OBVIOUS
    <3>1. d[x].subject = 0
      BY <2>1, RecordIs
    <3>2. 0 \in DOMAIN d
      BY <1>1, <1>9, <3>1 DEF InTable
    <3> QED
      BY <1>5, <3>2, RecordIs
  <2>6. CanonTables = Pointing \cup {"actor_profiles", "actor_memory_packets", "entities",
                                     "timeline_points", "knowledge_attributions"}
    BY DEF CanonTables, TableOf, Pointing
  <2> QED
    BY <1>5, <2>2, <2>3, <2>4, <2>5, <2>6
<1> QED
  BY <1>1, <1>4, <1>6, <1>8, <1>9 DEF e

------------------------------------------------------------------------------
(* What is imported, and how it arrives *)

\* Each table has one change that adds to it.
LEMMA AddToIs ==
  ASSUME NEW table \in CanonTables
  PROVE  /\ AddTo(table) \in DOMAIN TableOf /\ TableOf[AddTo(table)] = table
         /\ Adds([Change EXCEPT !.type = AddTo(table)])
<1>1. \E t \in DOMAIN TableOf : TableOf[t] = table /\ Adds([Change EXCEPT !.type = t])
  <2>1. \A t \in STRING : [Change EXCEPT !.type = t].type = t
    BY DEF Change
  <2>2. \E t \in {"add_entity", "add_fact", "add_world_edge", "add_timeline_point",
                  "add_actor_profile", "add_entity_attribute_span", "add_knowledge_attribution",
                  "add_actor_memory_packet"} : t \in DOMAIN TableOf /\ TableOf[t] = table
    BY DEF CanonTables, TableOf
  <2> QED
    BY <2>1, <2>2 DEF Adds, Change
<1> QED
  BY <1>1 DEF AddTo

\* The change that brings a record: what it names, and what of the record it carries.
LEMMA ImportedChangeIs ==
  ASSUME NEW d, Part(d), NEW x \in DOMAIN d
  PROVE  LET c == ImportedChange(d, x)
             entities == InTable(d, "entities")
             named == d[x].table \in {"facts", "world_edges"}
         IN  /\ c \in ChangeRecords /\ Adds(c) /\ Portable(c) /\ c.portable = x /\ c.ref = x
             /\ TableOf[c.type] = d[x].table
             /\ named /\ d[x].subject \in entities => c.subjectRef = d[x].subject /\ c.subject = 0
             /\ ~named \/ d[x].subject \notin entities =>
                  /\ c.subjectRef = 0
                  /\ c.subject = IF named /\ d[x].subject = SourceWorld THEN ThisWorld
                                 ELSE d[x].subject
             /\ named /\ d[x].object \in entities => c.objectRef = d[x].object /\ c.object = 0
             /\ ~named \/ d[x].object \notin entities => c.objectRef = 0 /\ c.object = d[x].object
             /\ c.learned = d[x].learned
             /\ c.dimension = d[x].dimension /\ c.valueType = d[x].valueType
             /\ c.status = d[x].status /\ c.from = d[x].from /\ c.until = d[x].until
<1> DEFINE row == d[x]
           c == ImportedChange(d, x)
           type == AddTo(row.table)
           named == row.table \in {"facts", "world_edges"}
           entities == InTable(d, "entities")
           subjectRef == IF named /\ row.subject \in entities THEN row.subject ELSE 0
           subject == IF named /\ row.subject \in entities THEN 0
                      ELSE IF named /\ row.subject = SourceWorld THEN ThisWorld ELSE row.subject
           objectRef == IF named /\ row.object \in entities THEN row.object ELSE 0
           object == IF named /\ row.object \in entities THEN 0 ELSE row.object
<1>1. /\ x \in Nat /\ x # 0 /\ row \in SourceRecords /\ row.table \in CanonTables
      /\ x \in DOMAIN Everything
  BY PartIs, RecordIs DEF SourceRecords, CanonTables
<1>2. type \in DOMAIN TableOf /\ TableOf[type] = row.table /\ Adds([Change EXCEPT !.type = type])
  BY <1>1, AddToIs
<1>3. c = [type |-> type, portable |-> x, ref |-> x, subject |-> subject, subjectRef |-> subjectRef,
           object |-> object, objectRef |-> objectRef, learned |-> row.learned, target |-> 0,
           dimension |-> row.dimension, valueType |-> row.valueType, status |-> row.status,
           from |-> row.from, until |-> row.until, expected |-> Unseen]
  <2>1. c = [Change EXCEPT
               !.type = type, !.portable = x, !.ref = x, !.subjectRef = subjectRef,
               !.subject = subject, !.objectRef = objectRef, !.object = object,
               !.learned = row.learned,
               !.dimension = row.dimension, !.valueType = row.valueType,
               !.status = row.status, !.from = row.from, !.until = row.until]
    BY DEF ImportedChange
  <2> HIDE DEF c, type, subject, subjectRef, object, objectRef, row
  <2> QED
    BY <2>1 DEF Change
<1>4. /\ row.subject \in Nat /\ row.object \in Nat /\ row.learned \in Nat
      /\ row.from \in Nat /\ row.until \in Nat
      /\ row.dimension \in STRING /\ row.valueType \in STRING
      /\ row.status \in FactStatuses \cup LifecycleStatuses \cup {"unset"}
  BY <1>1 DEF SourceRecords
<1>5. ThisWorld \in Nat
  BY SourceAssumption
<1> HIDE DEF row, type, c
<1>6. /\ subject \in Nat /\ subjectRef \in Nat /\ object \in Nat /\ objectRef \in Nat
  BY <1>4, <1>5
<1>7. c \in ChangeRecords
  BY <1>1, <1>2, <1>3, <1>4, <1>6 DEF ChangeRecords
<1>8. Adds(c)
  <2>1. [Change EXCEPT !.type = type].type = type
    BY DEF Change
  <2> QED
    BY <1>2, <1>3, <2>1 DEF Adds
<1> QED
  BY <1>1, <1>2, <1>3, <1>7, <1>8 DEF row, c, Portable

LEMMA BeforeIsOrder ==
  ASSUME NEW d, Part(d)
  PROVE  LET D == DOMAIN d IN
         /\ \A a, b, c \in D : Before(d, a, b) /\ Before(d, b, c) => Before(d, a, c)
         /\ \A a \in D : ~Before(d, a, a)
         /\ \A a, b \in D : a # b => Before(d, a, b) \/ Before(d, b, a)
<1> DEFINE order(z) == ImportOrder[d[z].table]
<1>1. ASSUME NEW z \in DOMAIN d
      PROVE  z \in Int /\ order(z) \in Int
  <2>1. z \in Nat /\ d[z].table \in CanonTables
    BY PartIs, RecordIs DEF SourceRecords, CanonTables
  <2>2. \A table \in CanonTables : ImportOrder[table] \in Int
    BY DEF CanonTables, TableOf, ImportOrder
  <2> QED
    BY <2>1, <2>2
<1>2. \A a, b : Before(d, a, b) <=> order(a) < order(b) \/ (order(a) = order(b) /\ a < b)
  BY DEF Before
<1> HIDE DEF order
<1>3. ASSUME NEW a \in DOMAIN d, NEW b \in DOMAIN d, NEW c \in DOMAIN d,
             Before(d, a, b), Before(d, b, c)
      PROVE  Before(d, a, c)
  <2>1. /\ a \in Int /\ b \in Int /\ c \in Int
        /\ order(a) \in Int /\ order(b) \in Int /\ order(c) \in Int
    BY <1>1
  <2>2. /\ order(a) < order(b) \/ (order(a) = order(b) /\ a < b)
        /\ order(b) < order(c) \/ (order(b) = order(c) /\ b < c)
    BY <1>2, <1>3
  <2>3. order(a) < order(c) \/ (order(a) = order(c) /\ a < c)
    BY <2>1, <2>2
  <2> QED
    BY <1>2, <2>3
<1>4. ASSUME NEW a \in DOMAIN d
      PROVE  ~Before(d, a, a)
  BY <1>1, <1>2
<1>5. ASSUME NEW a \in DOMAIN d, NEW b \in DOMAIN d, a # b
      PROVE  Before(d, a, b) \/ Before(d, b, a)
  <2>1. a \in Int /\ b \in Int /\ order(a) \in Int /\ order(b) \in Int
    BY <1>1
  <2>2. \/ order(a) < order(b) \/ (order(a) = order(b) /\ a < b)
        \/ order(b) < order(a) \/ (order(b) = order(a) /\ b < a)
    BY <1>5, <2>1
  <2> QED
    BY <1>2, <2>2
<1> QED
  BY <1>3, <1>4, <1>5

\* An import has one change for each record.
LEMMA ImportedIs ==
  ASSUME NEW d, Part(d)
  PROVE  LET N == Cardinality(DOMAIN d) IN
         /\ N \in Nat /\ Imported(d) \in Seq(ChangeRecords) /\ Len(Imported(d)) = N
         /\ \E at \in [1..N -> DOMAIN d] :
              /\ Imported(d) = [n \in 1..N |-> ImportedChange(d, at[n])]
              /\ \A x \in DOMAIN d : \E n \in 1..N : at[n] = x
              /\ \A n, m \in 1..N : n # m => at[n] # at[m]
<1> DEFINE D == DOMAIN d
           N == Cardinality(D)
           R == {p \in D \X D : Before(d, p[1], p[2])}
           at == Ranked(D, R)
<1>1. IsFiniteSet(D) /\ N \in Nat
  BY PartIs, FS_CardinalityType
<1>2. \A a, b \in D : <<a, b>> \in R <=> Before(d, a, b)
  OBVIOUS
<1>3. \A x \in D : {y \in D : <<y, x>> \in R} = {y \in D : Before(d, y, x)}
  OBVIOUS
<1> HIDE DEF R
<1>4. \A a, b, c \in D : <<a, b>> \in R /\ <<b, c>> \in R => <<a, c>> \in R
  BY <1>2, BeforeIsOrder
<1>5. \A a \in D : <<a, a>> \notin R
  BY <1>2, BeforeIsOrder
<1>6. \A a, b \in D : a # b => <<a, b>> \in R \/ <<b, a>> \in R
  BY <1>2, BeforeIsOrder
<1>7. Imported(d) = [n \in 1..N |-> ImportedChange(d, at[n])]
  <2> DEFINE place == [x \in D |-> Cardinality({y \in D : Before(d, y, x)}) + 1]
             rank(x) == Cardinality({y \in D : <<y, x>> \in R})
  <2>1. \A x \in D : place[x] = rank(x) + 1
    BY <1>3
  <2>2. Imported(d) = [n \in 1..N |-> ImportedChange(d, CHOOSE x \in D : place[x] = n)]
    BY DEF Imported
  <2>3. \A n \in 1..N : at[n] = CHOOSE x \in D : rank(x) + 1 = n
    BY DEF Ranked
  <2> HIDE DEF place, rank, D, at, N
  <2>4. \A n \in 1..N : (CHOOSE x \in D : place[x] = n) = at[n]
    BY <2>1, <2>3
  <2> QED
    BY <2>2, <2>4
<1> HIDE DEF D
<1>8. /\ \A n \in 1..N : at[n] \in D
      /\ \A x \in D : \E n \in 1..N : at[n] = x
      /\ \A n, m \in 1..N : n < m => <<at[n], at[m]>> \in R
  BY <1>1, <1>4, <1>5, <1>6, RankedList
<1>9. at \in [1..N -> D]
  BY <1>8 DEF Ranked
<1> HIDE DEF at, N
<1>10. ASSUME NEW n \in 1..N, NEW m \in 1..N, n # m
       PROVE  at[n] # at[m]
  <2>1. n < m \/ m < n
    BY <1>1, <1>10
  <2> QED
    BY <1>5, <1>8, <2>1
<1>11. \A n \in 1..N : ImportedChange(d, at[n]) \in ChangeRecords
  BY <1>8, ImportedChangeIs DEF D
<1>12. Imported(d) \in Seq(ChangeRecords) /\ Len(Imported(d)) = N
  BY <1>1, <1>7, <1>11
<1> QED
  BY <1>1, <1>7, <1>8, <1>9, <1>10, <1>12 DEF D, N

\* The types of additions, by their table.
LEMMA AdditionsAre ==
  ASSUME NEW c \in ChangeRecords, Adds(c)
  PROVE  /\ c.type = "add_entity" <=> TableOf[c.type] = "entities"
         /\ c.type \in {"add_fact", "add_world_edge"}
              <=> TableOf[c.type] \in {"facts", "world_edges"}
         /\ c.type = "add_fact" <=> TableOf[c.type] = "facts"
         /\ c.type = "add_actor_memory_packet" <=> TableOf[c.type] = "actor_memory_packets"
         /\ c.type = "add_entity_attribute_span" <=> TableOf[c.type] = "entity_attribute_spans"
         /\ c.type = "add_knowledge_attribution" <=> TableOf[c.type] = "knowledge_attributions"
         /\ c.type # "update_fact_status" /\ ~Revises(c)
         /\ AddsDeep(c) <=> TableOf[c.type] \in DeepTables
BY DEF Adds, TableOf, Revises, AddsDeep, Deep, DeepTables

\* A world without rows takes all that was chosen: what an import checks, it has.
LEMMA ChosenIsValid ==
  ASSUME NEW e, Part(e), Chosen(e), DOMAIN e # {},
         NEW d, DOMAIN d.rows = {}, DOMAIN d.dimensions = {}
  PROVE  Valid(d, Imported(e))
<1> DEFINE changes == Imported(e)
           N == Cardinality(DOMAIN e)
           E == InTable(e, "entities")
<1>1. PICK at \in [1..N -> DOMAIN e] :
        /\ changes = [n \in 1..N |-> ImportedChange(e, at[n])]
        /\ \A x \in DOMAIN e : \E n \in 1..N : at[n] = x
        /\ \A n, m \in 1..N : n # m => at[n] # at[m]
  BY ImportedIs
<1>2. changes \in Seq(ChangeRecords) /\ Len(changes) = N /\ N \in Nat
  BY ImportedIs
<1>3. DOMAIN changes = 1..N
  BY <1>1
<1> HIDE DEF changes, N
<1>4. ASSUME NEW i \in 1..N
      PROVE  LET c == changes[i]
                 x == at[i]
                 row == Everything[x]
                 named == row.table \in {"facts", "world_edges"}
             IN  /\ x \in DOMAIN e /\ x \in DOMAIN Everything /\ x # 0 /\ e[x] = row
                 /\ c \in ChangeRecords /\ Adds(c) /\ Portable(c) /\ c.portable = x /\ c.ref = x
                 /\ TableOf[c.type] = row.table
                 /\ named /\ row.subject \in E => c.subjectRef = row.subject /\ row.subject # 0
                 /\ named /\ row.subject \notin E =>
                      c.subjectRef = 0 /\ c.subject = ThisWorld
                 /\ named /\ row.object \in E => c.objectRef = row.object /\ row.object # 0
                 /\ named /\ row.object \notin E => c.objectRef = 0 /\ c.object = 0
                 /\ ~named => c.subject = row.subject /\ c.object = row.object
                 /\ c.learned = row.learned
                 /\ c.dimension = row.dimension /\ c.valueType = row.valueType
                 /\ c.from = row.from /\ c.until = row.until
  <2> DEFINE x == at[i]
             c == changes[i]
  <2>1. /\ x \in DOMAIN e /\ x \in DOMAIN Everything /\ e[x] = Everything[x] /\ x # 0
    BY PartIs, RecordIs
  <2>2. c = ImportedChange(e, x)
    BY <1>1
  <2>3. \A y \in E : y # 0
    BY PartIs, RecordIs DEF InTable
  <2>4. Everything[x].table \in {"facts", "world_edges"} =>
          /\ Everything[x].subject \in E \cup {SourceWorld}
          /\ Everything[x].object \in E \cup {0}
    BY <2>1 DEF Chosen
  <2> HIDE DEF x, c, E
  <2>5. SourceWorld # 0
    BY SourceAssumption
  <2> QED
    BY <2>1, <2>2, <2>3, <2>4, ImportedChangeIs DEF x, c, E
<1>5. \A table : PendingIds(changes, table) = {x \in DOMAIN e : e[x].table = table}
  <2> SUFFICES ASSUME NEW table
               PROVE  PendingIds(changes, table) = {x \in DOMAIN e : e[x].table = table}
    OBVIOUS
  <2>1. PendingIds(changes, table) =
          {changes[i].portable : i \in {j \in 1..N : TableOf[changes[j].type] = table}}
    BY <1>3, <1>4 DEF PendingIds, Of
  <2> QED
    BY <1>1, <1>4, <2>1
<1>6. Of(changes, Portable) = 1..N /\ Of(changes, Revises) = {}
  BY <1>3, <1>4, AdditionsAre DEF Of
<1>7. changes # <<>>
  <2>1. N # 0
    BY <1>1
  <2> QED
    BY <1>2, <2>1
<1>8. ASSUME NEW i \in 1..N
      PROVE  WellFormed(changes[i])
  <2> DEFINE c == changes[i]
  <2>1. c \in ChangeRecords /\ Adds(c) /\ Portable(c)
    BY <1>4
  <2>2. c.type \in {"add_fact", "add_world_edge"} => c.subject # 0 \/ c.subjectRef # 0
    <3>1. ThisWorld # 0
      BY SourceAssumption
    <3> QED
      BY <1>4, <2>1, <3>1, AdditionsAre
  <2>3. c.type = "add_actor_memory_packet" \/ Ordered(c.from, c.until)
    BY <1>4, <2>1, AdditionsAre, RecordIs
  <2> HIDE DEF c
  <2>4. WellFormedRecord(c)
    BY <2>1, <2>3 DEF WellFormedRecord
  <2>5. WellFormed(c)
    BY <2>1, <2>2, <2>4, AdditionsAre DEF WellFormed
  <2> QED
    BY <2>5 DEF c
<1>9. \A i, j \in 1..N :
        /\ changes[i].type = "add_entity_attribute_span"
        /\ changes[j].type = "add_entity_attribute_span"
        /\ changes[i].dimension = changes[j].dimension
        => changes[i].valueType = changes[j].valueType
  <2> SUFFICES ASSUME NEW i \in 1..N, NEW j \in 1..N,
                      changes[i].type = "add_entity_attribute_span",
                      changes[j].type = "add_entity_attribute_span",
                      changes[i].dimension = changes[j].dimension
               PROVE  changes[i].valueType = changes[j].valueType
    OBVIOUS
  <2>1. /\ at[i] \in DOMAIN Everything /\ at[j] \in DOMAIN Everything
        /\ Everything[at[i]].table = "entity_attribute_spans"
        /\ Everything[at[j]].table = "entity_attribute_spans"
        /\ Everything[at[i]].dimension = Everything[at[j]].dimension
    BY <1>4, AdditionsAre
  <2>2. Everything[at[i]].valueType = Everything[at[j]].valueType
    BY <2>1, RecordIs
  <2> QED
    BY <1>4, <2>2
<1>10. PortableOk(d, changes)
  <2> DEFINE Refs == {i \in 1..N : changes[i].ref # 0}
             Entities == {changes[i].ref : i \in {j \in Refs : changes[j].type = "add_entity"}}
  <2>1. E \subseteq Entities
    <3> SUFFICES ASSUME NEW x \in E
                 PROVE  x \in Entities
      OBVIOUS
    <3>1. x \in DOMAIN e /\ e[x].table = "entities"
      BY DEF InTable
    <3>2. PICK i \in 1..N : at[i] = x
      BY <1>1, <3>1
    <3>3. changes[i].ref = x /\ x # 0 /\ changes[i].type = "add_entity"
      BY <1>4, <3>1, <3>2, AdditionsAre
    <3> QED
      BY <3>3
  <2>2. \A i \in 1..N : ~Has(d, TableOf[changes[i].type], changes[i].portable)
    BY DEF Has
  <2>3. \A i, j \in 1..N : i # j => changes[i].portable # changes[j].portable
                                     /\ changes[i].ref # changes[j].ref
    BY <1>1, <1>4
  <2>4. ASSUME NEW i \in 1..N, changes[i].type \in {"add_fact", "add_world_edge"}
        PROVE  /\ IF changes[i].subjectRef # 0 THEN changes[i].subjectRef \in Entities
                  ELSE changes[i].subject = ThisWorld
               /\ IF changes[i].objectRef # 0 THEN changes[i].objectRef \in Entities
                  ELSE changes[i].object = 0
    <3>1. Everything[at[i]].table \in {"facts", "world_edges"}
      BY <1>4, <2>4, AdditionsAre
    <3> HIDE DEF Entities, E
    <3> QED
      BY <1>4, <2>1, <3>1
  <2> HIDE DEF E
  <2>5. \A i \in 1..N : changes[i].dimension \notin DOMAIN d.dimensions
    OBVIOUS
  <2>6. \A i, j \in 1..N : i # j =>
          <<TableOf[changes[i].type], changes[i].portable>>
            # <<TableOf[changes[j].type], changes[j].portable>>
    BY <2>3
  <2> QED
    BY <1>6, <1>9, <2>2, <2>3, <2>4, <2>5, <2>6 DEF PortableOk, DistinctIn
<1>11. ReferencesOk(d, changes)
  <2>1. DistinctIn(Of(changes, Revises), LAMBDA i : <<changes[i].type, changes[i].target>>)
    BY <1>6 DEF DistinctIn
  <2>2. ASSUME NEW i \in Of(changes, AddsDeep)
        PROVE  LET c == changes[i] IN
               /\ Refers(d, changes, c, "entities", c.subject)
               /\ c.type = "add_entity_attribute_span" =>
                    /\ DimensionOk(d, changes, i)
                    /\ c.object # 0 => Refers(d, changes, c, "entities", c.object)
               /\ c.type = "add_knowledge_attribution" =>
                    /\ Refers(d, changes, c, "facts", c.object)
                    /\ c.learned # 0 => Refers(d, changes, c, "entities", c.learned)
    <3> DEFINE c == changes[i]
               row == Everything[at[i]]
    <3>1. i \in 1..N /\ AddsDeep(c)
      BY <1>3, <2>2 DEF Of
    <3>2. c \in ChangeRecords /\ Adds(c) /\ Portable(c) /\ TableOf[c.type] = row.table
      BY <1>4, <3>1
    <3>3. row.table \in DeepTables
      BY <3>1, <3>2, AdditionsAre
    <3>4. row.table \notin {"facts", "world_edges"}
      BY <3>3 DEF DeepTables
    <3>5. /\ c.subject = row.subject /\ c.object = row.object /\ c.learned = row.learned
          /\ e[at[i]] = row /\ at[i] \in DOMAIN e
      BY <1>4, <3>1, <3>4
    <3> HIDE DEF c, row
    <3>6. /\ row.subject \in E
          /\ row.table = "entity_attribute_spans" => row.object \in E \cup {0}
          /\ row.table = "knowledge_attributions" =>
               row.object \in InTable(e, "facts") /\ row.learned \in E \cup {0}
      BY <3>3, <3>5 DEF Chosen
    <3>7. /\ Refers(d, changes, c, "entities", c.subject)
          /\ c.type = "add_entity_attribute_span" /\ c.object # 0 =>
               Refers(d, changes, c, "entities", c.object)
          /\ c.type = "add_knowledge_attribution" =>
               /\ Refers(d, changes, c, "facts", c.object)
               /\ c.learned # 0 => Refers(d, changes, c, "entities", c.learned)
      BY <1>5, <3>2, <3>5, <3>6, AdditionsAre DEF Refers, InTable
    <3>8. c.type = "add_entity_attribute_span" => DimensionOk(d, changes, i)
      BY <1>3, <1>9, <3>1 DEF DimensionOk, DimensionKnown, c
    <3> QED
      BY <3>7, <3>8 DEF c
  <2> QED
    BY <1>6, <2>1, <2>2 DEF ReferencesOk
<1> QED
  BY <1>3, <1>7, <1>8, <1>10, <1>11 DEF Valid, changes

\* The order in which an import is applied: each record once, and entities before the
\* facts and edges that name them.
LEMMA ImportSorted ==
  ASSUME NEW e, Part(e), DOMAIN e # {}
  PROVE  LET N == Cardinality(DOMAIN e)
             list == Sorted(Imported(e))
         IN  /\ N \in Nat /\ list \in Seq(ChangeRecords) /\ Len(list) = N
             /\ \E q \in [1..N -> DOMAIN e] :
                  /\ \A n \in 1..N : list[n] = ImportedChange(e, q[n])
                  /\ \A x \in DOMAIN e : \E n \in 1..N : q[n] = x
                  /\ \A n, m \in 1..N : n # m => q[n] # q[m]
                  /\ \A n, m \in 1..N :
                       e[q[n]].table = "entities" /\ e[q[m]].table \in {"facts", "world_edges"}
                         => n < m
<1> DEFINE N == Cardinality(DOMAIN e)
           changes == Imported(e)
           list == Sorted(changes)
<1>1. PICK at \in [1..N -> DOMAIN e] :
        /\ changes = [n \in 1..N |-> ImportedChange(e, at[n])]
        /\ \A x \in DOMAIN e : \E n \in 1..N : at[n] = x
        /\ \A n, m \in 1..N : n # m => at[n] # at[m]
  BY ImportedIs
<1>2. N \in Nat /\ changes \in Seq(ChangeRecords) /\ Len(changes) = N
  BY ImportedIs
<1>3. DOMAIN changes = 1..N /\ \A n \in 1..N : changes[n] = ImportedChange(e, at[n])
  BY <1>1
<1> HIDE DEF changes, N
<1>4. Of(changes, Portable) # {}
  <2>1. PICK n \in 1..N : TRUE
    BY <1>1
  <2>2. Portable(changes[n])
    BY <1>3, ImportedChangeIs
  <2> QED
    BY <1>3, <2>2 DEF Of
<1>5. PICK p \in [1..N -> 1..N] :
        /\ list = [n \in 1..N |-> changes[p[n]]]
        /\ \A i \in 1..N : \E n \in 1..N : p[n] = i
        /\ \A n, m \in 1..N : n < m => Ahead(changes, p[n], p[m])
  <2>1. \E p \in [DOMAIN changes -> DOMAIN changes] :
          /\ Sorted(changes) = [n \in DOMAIN changes |-> changes[p[n]]]
          /\ \A i \in DOMAIN changes : \E n \in DOMAIN changes : p[n] = i
          /\ \A n, m \in DOMAIN changes : n < m => Ahead(changes, p[n], p[m])
    BY <1>2, <1>4, SortedList
  <2>2. DOMAIN changes = 1..N
    BY <1>3
  <2> QED
    BY <2>1, <2>2, Zenon
<1>6. list \in Seq(ChangeRecords)
  BY <1>2, SortedIs
<1>7. Len(list) = N
  BY <1>2, <1>5, <1>6
<1> HIDE DEF list
<1> DEFINE q == [n \in 1..N |-> at[p[n]]]
<1>8. q \in [1..N -> DOMAIN e] /\ \A n \in 1..N : q[n] = at[p[n]]
  OBVIOUS
<1>9. \A n \in 1..N : list[n] = ImportedChange(e, q[n])
  BY <1>3, <1>5
<1> HIDE DEF q
<1>10. ASSUME NEW x \in DOMAIN e
       PROVE  \E n \in 1..N : q[n] = x
  <2>1. PICK i \in 1..N : at[i] = x
    BY <1>1
  <2>2. PICK n \in 1..N : p[n] = i
    BY <1>5
  <2> QED
    BY <1>8, <2>1, <2>2
<1>11. \A a \in 1..N : ~Ahead(changes, a, a)
  BY <1>2, <1>3, AheadIsOrder
<1>12. ASSUME NEW n \in 1..N, NEW m \in 1..N, n # m
       PROVE  q[n] # q[m]
  <2>1. n < m \/ m < n
    BY <1>2, <1>12
  <2>2. p[n] # p[m]
    BY <1>5, <1>11, <2>1
  <2> QED
    BY <1>1, <1>8, <2>2
<1>13. ASSUME NEW n \in 1..N, NEW m \in 1..N,
              e[q[n]].table = "entities", e[q[m]].table \in {"facts", "world_edges"}
       PROVE  n < m
  <2>1. n # m
    BY <1>13
  <2> SUFFICES ASSUME m < n PROVE FALSE
    BY <1>2, <2>1
  <2>2. Ahead(changes, p[m], p[n])
    BY <1>5
  <2>3. /\ changes[p[n]] = ImportedChange(e, q[n]) /\ changes[p[m]] = ImportedChange(e, q[m])
        /\ q[n] \in DOMAIN e /\ q[m] \in DOMAIN e
    BY <1>3, <1>8
  <2>4. changes[p[n]].type = "add_entity" /\ changes[p[m]].type \in {"add_fact", "add_world_edge"}
    BY <1>13, <2>3, ImportedChangeIs, AdditionsAre
  <2>5. ApplyOrder["add_entity"] = 1 /\ ApplyOrder["add_fact"] = 2
        /\ ApplyOrder["add_world_edge"] = 2
    BY DEF ApplyOrder, TableOf
  <2> QED
    BY <2>2, <2>4, <2>5 DEF Ahead
<1>14. \E w \in [1..N -> DOMAIN e] :
         /\ \A n \in 1..N : list[n] = ImportedChange(e, w[n])
         /\ \A x \in DOMAIN e : \E n \in 1..N : w[n] = x
         /\ \A n, m \in 1..N : n # m => w[n] # w[m]
         /\ \A n, m \in 1..N :
              e[w[n]].table = "entities" /\ e[w[m]].table \in {"facts", "world_edges"} => n < m
  BY <1>8, <1>9, <1>10, <1>12, <1>13
<1> QED
  BY <1>2, <1>6, <1>7, <1>14 DEF N, list, changes

\* A record of the exported world, as it is to be in the other one.
Settled(row) ==
  [row EXCEPT !.subject = IF @ = SourceWorld THEN ThisWorld ELSE @, !.updated = 0]

LEMMA SettledIs ==
  ASSUME NEW row \in SourceRecords, NEW subject
  PROVE  subject = (IF row.subject = SourceWorld THEN ThisWorld ELSE row.subject) =>
           Settled(row) =
             [table |-> row.table, subject |-> subject, object |-> row.object,
              learned |-> row.learned, status |-> row.status, from |-> row.from,
              until |-> row.until, dimension |-> row.dimension, valueType |-> row.valueType,
              updated |-> 0]
<1> SUFFICES ASSUME subject = (IF row.subject = SourceWorld THEN ThisWorld ELSE row.subject)
             PROVE  Settled(row) =
               [table |-> row.table, subject |-> subject, object |-> row.object,
                learned |-> row.learned, status |-> row.status, from |-> row.from,
                until |-> row.until, dimension |-> row.dimension, valueType |-> row.valueType,
                updated |-> 0]
  OBVIOUS
<1>1. Settled(row) = [row EXCEPT !.subject = subject, !.updated = 0]
  BY DEF Settled
<1> QED
  BY <1>1 DEF SourceRecords

\* The records S have arrived, as they are to be, and stand for themselves.
Landed(e, S, s) ==
  /\ s \in Stages /\ s.ok
  /\ s.db.rows = [x \in S |-> Settled(e[x])]
  /\ s.refs = [x \in S |-> x]

\* A record arrives, when the entities that it names have.
LEMMA RecordLands ==
  ASSUME NEW e, Part(e), Chosen(e), NEW S \in SUBSET DOMAIN e, NEW s, Landed(e, S, s),
         NEW x \in DOMAIN e, x \notin S,
         e[x].table \in {"facts", "world_edges"} => InTable(e, "entities") \subseteq S
  PROVE  Landed(e, S \cup {x}, Applied(s, ImportedChange(e, x)))
<1> DEFINE c == ImportedChange(e, x)
           row == e[x]
           named == row.table \in {"facts", "world_edges"}
           E == InTable(e, "entities")
           here == IF row.subject = SourceWorld THEN ThisWorld ELSE row.subject
           subject == IF Deep(c) THEN c.subject ELSE Resolved(s, c.subjectRef, c.subject)
           object == IF Deep(c) THEN c.object ELSE Resolved(s, c.objectRef, c.object)
<1>1. /\ x \in DOMAIN Everything /\ row = Everything[x] /\ row \in SourceRecords
      /\ x \in Nat /\ x # 0
  BY PartIs, RecordIs
<1>2. /\ c \in ChangeRecords /\ Adds(c) /\ Portable(c) /\ c.portable = x /\ c.ref = x
      /\ TableOf[c.type] = row.table
      /\ named /\ row.subject \in E => c.subjectRef = row.subject /\ c.subject = 0
      /\ ~named \/ row.subject \notin E =>
           /\ c.subjectRef = 0
           /\ c.subject = IF named /\ row.subject = SourceWorld THEN ThisWorld ELSE row.subject
      /\ named /\ row.object \in E => c.objectRef = row.object /\ c.object = 0
      /\ ~named \/ row.object \notin E => c.objectRef = 0 /\ c.object = row.object
      /\ c.learned = row.learned
      /\ c.dimension = row.dimension /\ c.valueType = row.valueType
      /\ c.status = row.status /\ c.from = row.from /\ c.until = row.until
  BY ImportedChangeIs
<1>3. \A y \in E : y # 0 /\ y # SourceWorld
  BY PartIs, RecordIs DEF InTable
<1>4. /\ named => row.subject \in E \cup {SourceWorld} /\ row.object \in E \cup {0}
      /\ row.table \in DeepTables \cup {"entities", "timeline_points"} =>
           row.subject # SourceWorld
      /\ SourceWorld # 0 /\ ThisWorld \in Nat
  <2>1. named => row.subject \in E \cup {SourceWorld} /\ row.object \in E \cup {0}
    BY DEF Chosen
  <2>2. SourceWorld # 0 /\ ThisWorld \in Nat
    BY SourceAssumption
  <2> QED
    BY <1>1, <2>1, <2>2, RecordIs
<1>5. /\ Deep(c) <=> row.table \in DeepTables
      /\ Deep(c) => ~named
      /\ row.table \in DeepTables \cup {"entities", "timeline_points", "facts", "world_edges"}
  <2>1. row.table \in CanonTables
    BY <1>1 DEF SourceRecords, CanonTables
  <2> HIDE DEF c, row
  <2> QED
    BY <1>2, <2>1 DEF Deep, DeepTables, CanonTables, TableOf
<1>6. /\ row.subject \in Nat /\ row.object \in Nat /\ row.from \in Nat /\ row.until \in Nat
  BY <1>1 DEF SourceRecords
<1>7. /\ s \in Stages /\ s.ok /\ DOMAIN s.db.rows = S /\ DOMAIN s.refs = S
      /\ \A y \in S : s.refs[y] = y
      /\ s.db.rows = [y \in S |-> Settled(e[y])] /\ s.refs = [y \in S |-> y]
  BY DEF Landed
<1> HIDE DEF c, row, E
<1>8. subject = here
  <2>1. CASE named /\ row.subject \in E
    BY <1>2, <1>3, <1>5, <1>7, <2>1 DEF Resolved, row, E
  <2>2. CASE named /\ row.subject \notin E
    BY <1>2, <1>4, <1>5, <2>2 DEF Resolved
  <2>3. CASE ~named
    BY <1>2, <1>4, <1>5, <2>3 DEF Resolved
  <2> QED
    BY <2>1, <2>2, <2>3
<1>9. object = row.object
  <2>1. CASE named /\ row.object \in E
    BY <1>2, <1>3, <1>5, <1>7, <2>1 DEF Resolved, row, E
  <2>2. CASE ~named \/ row.object \notin E
    BY <1>2, <1>5, <2>2 DEF Resolved
  <2> QED
    BY <2>1, <2>2
<1> HIDE DEF subject, object
<1>10. NewRow(c, subject, object) = Settled(row)
  <2>1. Dated(c.from) = row.from /\ Dated(c.until) = row.until
    BY <1>2, <1>6 DEF Dated, Unset
  <2>2. Settled(row) =
          [table |-> row.table, subject |-> here, object |-> row.object, learned |-> row.learned,
           status |-> row.status, from |-> row.from, until |-> row.until,
           dimension |-> row.dimension, valueType |-> row.valueType, updated |-> 0]
    BY <1>1, SettledIs
  <2> HIDE DEF here
  <2> QED
    BY <1>2, <1>8, <1>9, <2>1, <2>2 DEF NewRow
<1>11. subject # Unset /\ object # Unset
  BY <1>4, <1>6, <1>8, <1>9 DEF Unset
<1> DEFINE n == AddRow(s, c)
<1>12. /\ n.db.rows = With(s.db.rows, x, NewRow(c, subject, object))
       /\ n.refs = Named(s, c, x)
       /\ n.ok = (/\ s.ok /\ subject # Unset /\ object # Unset
                  /\ x # Null /\ x \notin DOMAIN s.db.rows)
  BY <1>2, Zenon DEF AddRow, subject, object
<1>13. n \in Stages
  BY <1>2, <1>7, AddRowIs
<1>14. Applied(s, c) = n
  BY <1>2 DEF Applied
<1> HIDE DEF n
<1>15. n.ok
  BY <1>1, <1>7, <1>11, <1>12 DEF Null
<1>16. n.db.rows = [y \in S \cup {x} |-> Settled(e[y])]
  <2> DEFINE old == [y \in S |-> Settled(e[y])]
  <2>1. s.db.rows = old
    BY <1>7
  <2> HIDE DEF old
  <2>2. n.db.rows = With(old, x, Settled(row))
    BY <1>10, <1>12, <2>1
  <2> QED
    BY <2>2 DEF With, old, row
<1>17. n.refs = [y \in S \cup {x} |-> y]
  <2>1. Named(s, c, x) = With(s.refs, x, x)
    BY <1>1, <1>2 DEF Named
  <2> DEFINE old == [y \in S |-> y]
  <2>2. s.refs = old
    BY <1>7
  <2> HIDE DEF old
  <2>3. n.refs = With(old, x, x)
    BY <1>12, <2>1, <2>2
  <2> QED
    BY <2>3 DEF With, old
<1> QED
  BY <1>13, <1>14, <1>15, <1>16, <1>17 DEF Landed, c

\* The whole import arrives, in a world without rows.
LEMMA ImportArrives ==
  ASSUME NEW e, Part(e), Chosen(e), DOMAIN e # {},
         NEW d \in Worlds, d.rows = [x \in {} |-> e[x]]
  PROVE  LET done == Application(d, Sorted(Imported(e)))
         IN  done.ok /\ done.db.rows = [x \in DOMAIN e |-> Settled(e[x])]
<1> DEFINE N == Cardinality(DOMAIN e)
           list == Sorted(Imported(e))
           done == Application(d, list)
<1>1. PICK q \in [1..N -> DOMAIN e] :
        /\ \A n \in 1..N : list[n] = ImportedChange(e, q[n])
        /\ \A x \in DOMAIN e : \E n \in 1..N : q[n] = x
        /\ \A n, m \in 1..N : n # m => q[n] # q[m]
        /\ \A n, m \in 1..N :
             e[q[n]].table = "entities" /\ e[q[m]].table \in {"facts", "world_edges"} => n < m
  BY ImportSorted
<1>2. N \in Nat /\ list \in Seq(ChangeRecords) /\ Len(list) = N
  BY ImportSorted
<1>3. Unchanged(d) \in Stages
  <2>1. Intervals(d) /\ Fitting(d)
    BY DEF Intervals, Fitting
  <2> QED
    BY <2>1, NothingApplied DEF Reached
<1> HIDE DEF list, N
<1>4. PICK after :
        /\ after[0] = Unchanged(d)
        /\ \A i \in 1..N : after[i] = Applied(after[i - 1], list[i])
        /\ Application(d, list) = after[N]
  BY <1>2, <1>3, ApplicationUnfolds
<1> DEFINE came(i) == {q[j] : j \in 1..i}
           good == {i \in 0..N : Landed(e, came(i), after[i])}
<1>5. 0 \in good
  <2>1. came(0) = {} /\ 0 \in 0..N
    BY <1>2
  <2>2. /\ Unchanged(d).ok = TRUE /\ Unchanged(d).db = d
        /\ Unchanged(d).refs = [r \in {} |-> 0]
    BY DEF Unchanged
  <2>3. Unchanged(d).db.rows = [x \in {} |-> Settled(e[x])]
    BY <2>2
  <2>4. Unchanged(d).refs = [x \in {} |-> x]
    BY <2>2
  <2>5. Landed(e, {}, Unchanged(d))
    BY <1>3, <2>2, <2>3, <2>4 DEF Landed
  <2> HIDE DEF came
  <2>6. Landed(e, came(0), after[0])
    BY <1>4, <2>1, <2>5, Zenon
  <2> QED
    BY <2>1, <2>6, Zenon
<1>6. ASSUME NEW i \in 1..N, i - 1 \in good
      PROVE  i \in good
  <2>1. Landed(e, came(i - 1), after[i - 1])
    BY <1>6
  <2>2. /\ came(i - 1) \in SUBSET DOMAIN e /\ q[i] \in DOMAIN e
        /\ came(i) = came(i - 1) \cup {q[i]} /\ i \in 0..N
    BY <1>2
  <2>3. q[i] \notin came(i - 1)
    <3>1. \A j \in 1..(i - 1) : j \in 1..N /\ j # i
      BY <1>2
    <3> QED
      BY <1>1, <3>1
  <2>4. ASSUME e[q[i]].table \in {"facts", "world_edges"}
        PROVE  InTable(e, "entities") \subseteq came(i - 1)
    <3> SUFFICES ASSUME NEW y \in InTable(e, "entities")
                 PROVE  y \in came(i - 1)
      OBVIOUS
    <3>1. y \in DOMAIN e /\ e[y].table = "entities"
      BY DEF InTable
    <3>2. PICK j \in 1..N : q[j] = y
      BY <1>1, <3>1
    <3>3. j < i
      BY <1>1, <2>4, <3>1, <3>2
    <3>4. j \in 1..(i - 1)
      BY <1>2, <3>3
    <3> QED
      BY <3>2, <3>4
  <2> HIDE DEF came
  <2>5. Landed(e, came(i - 1) \cup {q[i]}, Applied(after[i - 1], ImportedChange(e, q[i])))
    BY <2>1, <2>2, <2>3, <2>4, RecordLands
  <2>6. after[i] = Applied(after[i - 1], ImportedChange(e, q[i]))
    BY <1>1, <1>4
  <2>7. Landed(e, came(i), after[i])
    BY <2>2, <2>5, <2>6, Zenon
  <2> QED
    BY <2>2, <2>7, Zenon
<1>7. N \in good
  <2> HIDE DEF good
  <2>1. good \in SUBSET (0..N)
    BY DEF good
  <2>2. \A i \in 1..N : i - 1 \in good => i \in good
    BY <1>6
  <2>3. good = 0..N
    BY <1>2, <1>5, <2>1, <2>2, LoopInduction
  <2> QED
    BY <1>2, <2>3
<1>8. came(N) = DOMAIN e
  <2>1. \A x \in DOMAIN e : x \in came(N)
    BY <1>1
  <2>2. \A x \in came(N) : x \in DOMAIN e
    BY <1>1
  <2> HIDE DEF came
  <2> QED
    BY <2>1, <2>2, Zenon
<1>9. Landed(e, DOMAIN e, after[N])
  BY <1>7, <1>8
<1> QED
  BY <1>4, <1>9 DEF Landed, list

------------------------------------------------------------------------------
(* What is read of the exported world *)

LEMMA SourceIsPart ==
  /\ Part(SourceRows)
  /\ \A rows \in SourceTickets : Part(rows)
<1>1. ASSUME NEW d \in {SourceRows} \cup SourceTickets
      PROVE  Part(d)
  <2>1. DOMAIN d \subseteq DOMAIN Everything
    BY <1>1 DEF Everything
  <2> QED
    BY <1>1, <2>1, SourceAssumption DEF Part
<1> QED
  BY <1>1

\* What is left of the tables when k of them have been read.
Unread(k, list) ==
  /\ list \in Seq(CanonTables) /\ Len(list) = 8 - k
  /\ \A n \in 1..(8 - k) : list[n] = ReadOrder[n + k]

LEMMA ReadOrderIs ==
  /\ Unread(0, ReadOrder)
  /\ \A k \in 0..7 : ReadOrder[k + 1] = "entities" <=> k = 0
  /\ ReadOrder[8] = "actor_memory_packets"
  /\ \A table \in CanonTables : \E n \in 1..8 : ReadOrder[n] = table
<1>1. ReadOrder = [n \in 1..8 |-> ReadOrder[n]]
  BY DEF ReadOrder
<1>2. \A n \in 1..8 : ReadOrder[n] \in CanonTables
  BY DEF ReadOrder, CanonTables, TableOf
<1>3. ReadOrder \in Seq(CanonTables) /\ Len(ReadOrder) = 8
  <2>1. ReadOrder \in [1..8 -> CanonTables]
    BY <1>1, <1>2
  <2>2. \A n \in Nat : [1..n -> CanonTables] \subseteq Seq(CanonTables)
    OBVIOUS
  <2>3. Len(ReadOrder) = 8
    BY DEF ReadOrder
  <2> QED
    BY <2>1, <2>2, <2>3
<1>4. Unread(0, ReadOrder)
  <2>1. 8 - 0 = 8 /\ \A n \in 1..8 : n + 0 = n
    OBVIOUS
  <2> QED
    BY <1>3, <2>1 DEF Unread
<1>5. ASSUME NEW k \in 0..7
      PROVE  ReadOrder[k + 1] = "entities" <=> k = 0
  <2>1. \A n \in 1..8 : ReadOrder[n] = "entities" <=> n = 1
    BY DEF ReadOrder
  <2>2. k + 1 \in 1..8 /\ (k + 1 = 1 <=> k = 0)
    OBVIOUS
  <2> QED
    BY <2>1, <2>2
<1>6. \A table \in CanonTables : \E n \in 1..8 : ReadOrder[n] = table
  BY DEF ReadOrder, CanonTables, TableOf
<1>7. ReadOrder[8] = "actor_memory_packets"
  BY DEF ReadOrder
<1> QED
  BY <1>4, <1>5, <1>6, <1>7

LEMMA UnreadIs ==
  ASSUME NEW k \in 0..8, NEW list, Unread(k, list)
  PROVE  /\ Len(list) = 8 - k /\ (list = <<>> <=> k = 8)
         /\ k # 8 => Head(list) = ReadOrder[k + 1] /\ Unread(k + 1, Tail(list))
<1>1. list \in Seq(CanonTables) /\ Len(list) = 8 - k
  BY DEF Unread
<1>2. list = <<>> <=> k = 8
  BY <1>1
<1>3. ASSUME k # 8
      PROVE  Head(list) = ReadOrder[k + 1] /\ Unread(k + 1, Tail(list))
  <2>1. k \in 0..7 /\ 1 \in 1..(8 - k) /\ 1 + k = k + 1
    BY <1>3
  <2>2. Head(list) = list[1] /\ list[1] = ReadOrder[k + 1]
    BY <1>1, <2>1 DEF Unread
  <2>3. /\ Tail(list) \in Seq(CanonTables) /\ Len(Tail(list)) = 8 - (k + 1)
        /\ \A n \in 1..(8 - (k + 1)) : Tail(list)[n] = list[n + 1]
    BY <1>1, <2>1
  <2>4. \A n \in 1..(8 - (k + 1)) : n + 1 \in 1..(8 - k) /\ n + 1 + k = n + (k + 1)
    OBVIOUS
  <2>5. \A n \in 1..(8 - (k + 1)) : Tail(list)[n] = ReadOrder[n + (k + 1)]
    BY <2>3, <2>4 DEF Unread
  <2> QED
    BY <2>2, <2>3, <2>5 DEF Unread
<1> QED
  BY <1>1, <1>2, <1>3

PerEntity == {"actor_profiles", "actor_memory_packets"}
ReadFrom(d, e, table) ==
  {x \in InTable(d, table) : table \in PerEntity => d[x].subject \in InTable(e, "entities")}
\* What was there from the start, of the first k tables, has been read.
Complete(e, k) ==
  \A x \in DOMAIN SourceRows :
    /\ \E n \in 1..k : ReadOrder[n] = SourceRows[x].table
    /\ SourceRows[x].table \in PerEntity => SourceRows[x].subject \in InTable(e, "entities")
    => x \in DOMAIN e

\* Entities are read first, so that what is read later does not add to them.
LEMMA ReadOn ==
  ASSUME NEW d, Part(d), DOMAIN SourceRows \subseteq DOMAIN d, NEW e, Part(e),
         NEW k \in 0..7, Complete(e, k)
  PROVE  LET more == Grown(e, Only(d, ReadFrom(d, e, ReadOrder[k + 1])))
         IN  /\ Part(more) /\ Complete(more, k + 1)
             /\ InTable(e, "entities") \subseteq InTable(more, "entities")
<1> DEFINE table == ReadOrder[k + 1]
           rows == ReadFrom(d, e, table)
           more == Grown(e, Only(d, rows))
<1>1. rows \in SUBSET DOMAIN d
  BY DEF ReadFrom, InTable
<1>2. Part(Only(d, rows)) /\ DOMAIN Only(d, rows) = rows
  BY <1>1, OnlyIsPart
<1>3. Part(more) /\ DOMAIN more = DOMAIN e \cup rows
  BY <1>2, GrownIsPart
<1>4. /\ \A x \in DOMAIN more : more[x] = Everything[x]
      /\ \A x \in DOMAIN e : e[x] = Everything[x]
      /\ \A x \in DOMAIN d : d[x] = Everything[x]
      /\ \A x \in DOMAIN SourceRows : SourceRows[x] = Everything[x]
  BY <1>3, PartIs, SourceIsPart
<1>5. \A x \in rows : Everything[x].table = table
  BY <1>1, <1>4 DEF ReadFrom, InTable
<1>6. table = "entities" <=> k = 0
  BY ReadOrderIs
<1>7. InTable(e, "entities") \subseteq InTable(more, "entities")
  BY <1>3, <1>4 DEF InTable
<1>8. k # 0 => InTable(more, "entities") = InTable(e, "entities")
  BY <1>3, <1>4, <1>5, <1>6 DEF InTable
<1>9. Complete(more, k + 1)
  <2> SUFFICES ASSUME NEW x \in DOMAIN SourceRows,
                      NEW n \in 1..(k + 1), ReadOrder[n] = SourceRows[x].table,
                      SourceRows[x].table \in PerEntity =>
                        SourceRows[x].subject \in InTable(more, "entities")
               PROVE  x \in DOMAIN more
    BY DEF Complete
  <2>1. x \in DOMAIN d /\ d[x] = SourceRows[x]
    BY <1>4
  <2>2. CASE n = k + 1
    <3>1. x \in InTable(d, table)
      BY <2>1, <2>2 DEF InTable
    <3>2. table \in PerEntity => k # 0
      BY <1>6 DEF PerEntity
    <3>3. table \in PerEntity => d[x].subject \in InTable(e, "entities")
      BY <1>8, <2>1, <2>2, <3>2
    <3> QED
      BY <1>3, <3>1, <3>3 DEF ReadFrom
  <2>3. CASE n # k + 1
    <3>1. n \in 1..k /\ k # 0
      BY <2>3
    <3>2. x \in DOMAIN e
      BY <1>8, <3>1 DEF Complete
    <3> QED
      BY <1>3, <3>2
  <2> QED
    BY <2>2, <2>3
<1> QED
  BY <1>3, <1>7, <1>9

\* When all tables have been read, a selection loses nothing of what there was.
LEMMA SelectionIsFaithful ==
  ASSUME NEW all, Part(all), Complete(all, 8),
         selection.entities \subseteq InTable(all, "entities"),
         NEW e, e = IF selection.entities = {} THEN all ELSE Selected(all)
  PROVE  /\ Part(e) /\ selection.entities \subseteq InTable(e, "entities")
         /\ selection.entities # {} => Chosen(e)
         /\ \A x \in DOMAIN SourceRows : LET row == SourceRows[x] IN
              /\ row.subject \in InTable(e, "entities")
              /\ IF row.table = "knowledge_attributions"
                 THEN row.object \in DOMAIN e /\ row.learned \in InTable(e, "entities") \cup {0}
                 ELSE row.object \in InTable(SourceRows, "entities") \cup {0}
              => x \in DOMAIN e
<1>1. /\ Part(e) /\ DOMAIN e \subseteq DOMAIN all
      /\ selection.entities \subseteq InTable(e, "entities")
      /\ selection.entities # {} => Chosen(e)
  BY SelectedIs
<1>2. /\ \A x \in DOMAIN all : all[x] = Everything[x]
      /\ \A x \in DOMAIN e : e[x] = Everything[x] /\ x \in DOMAIN all
      /\ \A x \in DOMAIN SourceRows : /\ SourceRows[x] = Everything[x] /\ x \in DOMAIN Everything
                                      /\ Everything[x].table \in CanonTables
  <2>1. \A x \in DOMAIN Everything : Everything[x].table \in CanonTables
    BY RecordIs DEF SourceRecords, CanonTables
  <2> QED
    BY <1>1, <2>1, PartIs, SourceIsPart
<1>3. InTable(e, "entities") \subseteq InTable(all, "entities")
  BY <1>2 DEF InTable
<1>4. ASSUME NEW x \in DOMAIN SourceRows,
             SourceRows[x].table \in PerEntity =>
               SourceRows[x].subject \in InTable(all, "entities")
      PROVE  x \in DOMAIN all
  <2>1. \E n \in 1..8 : ReadOrder[n] = SourceRows[x].table
    BY <1>2, ReadOrderIs
  <2> QED
    BY <1>4, <2>1 DEF Complete
<1>5. InTable(SourceRows, "entities") \subseteq InTable(all, "entities")
  BY <1>2, <1>4 DEF InTable, PerEntity
<1>6. ASSUME NEW x \in DOMAIN SourceRows,
             SourceRows[x].subject \in InTable(e, "entities"),
             IF SourceRows[x].table = "knowledge_attributions"
               THEN /\ SourceRows[x].object \in DOMAIN e
                    /\ SourceRows[x].learned \in InTable(e, "entities") \cup {0}
               ELSE SourceRows[x].object \in InTable(SourceRows, "entities") \cup {0}
      PROVE  x \in DOMAIN e
  <2>1. x \in DOMAIN all /\ all[x] = SourceRows[x]
    BY <1>2, <1>3, <1>4, <1>6
  <2>2. CASE selection.entities = {}
    BY <2>1, <2>2
  <2>3. CASE selection.entities # {}
    <3>1. e = Selected(all)
      BY <2>3
    <3>2. /\ all[x].subject \in InTable(Selected(all), "entities")
          /\ IF all[x].table = "knowledge_attributions"
             THEN /\ all[x].object \in DOMAIN Selected(all)
                  /\ all[x].learned \in InTable(Selected(all), "entities") \cup {0}
             ELSE all[x].object \in InTable(all, "entities") \cup {0}
      BY <1>5, <1>6, <2>1, <3>1
    <3> QED
      BY <2>1, <3>1, <3>2, SelectedIs
  <2> QED
    BY <2>2, <2>3
<1> QED
  BY <1>1, <1>6

------------------------------------------------------------------------------
(* The invariant of forks, and its steps *)

\* The exported world only grows, and its tables are read one after the other.
ReadsInOrder ==
  /\ Part(source) /\ DOMAIN SourceRows \subseteq DOMAIN source /\ Part(export)
  /\ unapplied \subseteq SourceTickets
  /\ \E k \in 0..8 : Unread(k, tables) /\ (k # 8 => Complete(export, k))
\* What is selected does not depend on what is left behind.
SelectsWhole ==
  ~Reading /\ selection.entities # {} =>
    Chosen(export) /\ selection.entities \subseteq InTable(export, "entities")
\* Every ticket is an import of the export.
OnlyImports ==
  \A t \in AuthoredTickets :
    ~InState(t, "none") => ~Reading /\ authored[t].changes = Imported(export)
\* Until one is applied the world is empty, and then it has all that was exported.
AllOrNothing ==
  /\ (\A t \in AuthoredTickets : ~InState(t, "applied")) => DOMAIN db.rows = {}
  /\ \A t \in AuthoredTickets : InState(t, "applied") =>
       DOMAIN export # {} /\ \A x \in DOMAIN export : Has(db, export[x].table, x)
OnlyOnce ==
  \A t, u \in AuthoredTickets : InState(t, "applied") /\ InState(u, "applied") => t = u

\* The inductive invariant.
ForkInv ==
  /\ CanonInv
  /\ ReadsInOrder /\ SelectsWhole /\ ForksLoseNothing
  /\ OnlyImports /\ AllOrNothing /\ OnlyOnce

LEMMA ForkStart == CanonInit /\ ForkInit => ForkInv
<1> SUFFICES ASSUME CanonInit, ForkInit PROVE ForkInv
  OBVIOUS
<1>1. CanonInv
  BY CanonStart
<1>2. /\ source = SourceRows /\ unapplied = SourceTickets /\ tables = ReadOrder
      /\ export = Only(SourceRows, {})
  BY DEF ForkInit
<1>3. Part(source) /\ Part(export)
  BY <1>2, SourceIsPart, OnlyIsPart
<1>4. Unread(0, tables) /\ Reading
  BY <1>2, ReadOrderIs, UnreadIs DEF Reading
<1>5. Complete(export, 0)
  BY DEF Complete
<1>6. ReadsInOrder
  BY <1>2, <1>3, <1>4, <1>5 DEF ReadsInOrder
<1>7. \A t \in AuthoredTickets : InState(t, "none")
  BY DEF CanonInit, InState, NoAuthored
<1>8. \A t \in AuthoredTickets : ~InState(t, "applied")
  BY <1>7 DEF InState
<1>9. DOMAIN db.rows = {}
  BY DEF CanonInit
<1> QED
  BY <1>1, <1>4, <1>6, <1>7, <1>8, <1>9
  DEF ForkInv, SelectsWhole, ForksLoseNothing, OnlyImports, AllOrNothing, OnlyOnce

\* While the tables are read, there is no import.
LEMMA NotYetImported ==
  ASSUME ForkInv, Reading, UNCHANGED canonVars
  PROVE  CanonInv' /\ OnlyImports' /\ AllOrNothing' /\ OnlyOnce'
<1>1. CanonInv'
  BY CanonSteps DEF ForkInv
<1>2. \A t \in AuthoredTickets : InState(t, "none")
  BY DEF ForkInv, OnlyImports
<1>3. authored' = authored /\ db' = db
  BY DEF canonVars
<1>4. \A t \in AuthoredTickets : InState(t, "none")' /\ ~InState(t, "applied")'
                                 /\ ~InState(t, "applied")
  BY <1>2, <1>3 DEF InState
<1> QED
  BY <1>1, <1>3, <1>4 DEF ForkInv, OnlyImports, AllOrNothing, OnlyOnce

LEMMA SourceGrows ==
  ASSUME ForkInv, NEW rows \in SourceTickets, ApplyToSource(rows)
  PROVE  ForkInv'
<1>1. /\ rows \in unapplied /\ Reading /\ unapplied' = unapplied \ {rows}
      /\ source' = Grown(source, rows) /\ UNCHANGED canonVars
      /\ selection' = selection /\ tables' = tables /\ export' = export
  BY DEF ApplyToSource
<1>2. CanonInv' /\ OnlyImports' /\ AllOrNothing' /\ OnlyOnce'
  BY <1>1, NotYetImported
<1>3. Part(source) /\ Part(rows) /\ DOMAIN SourceRows \subseteq DOMAIN source
  BY SourceIsPart DEF ForkInv, ReadsInOrder
<1>4. Part(source') /\ DOMAIN SourceRows \subseteq DOMAIN source'
  BY <1>1, <1>3, GrownIsPart
<1>5. ReadsInOrder'
  BY <1>1, <1>4 DEF ForkInv, ReadsInOrder
<1>6. Reading'
  BY <1>1 DEF Reading
<1> QED
  BY <1>2, <1>5, <1>6 DEF ForkInv, SelectsWhole, ForksLoseNothing

LEMMA TableIsRead ==
  ASSUME ForkInv, ReadTable
  PROVE  ForkInv'
<1> DEFINE table == Head(tables)
           rows == ReadFrom(source, export, table)
<1>1. /\ Len(tables) > 1 /\ tables' = Tail(tables) /\ UNCHANGED canonVars
      /\ export' = Grown(export, Only(source, rows))
      /\ source' = source /\ unapplied' = unapplied /\ selection' = selection
  BY DEF ReadTable, ReadFrom, PerEntity, ExportedEntities
<1>2. PICK k \in 0..8 : Unread(k, tables) /\ (k # 8 => Complete(export, k))
  BY DEF ForkInv, ReadsInOrder
<1>3. /\ k \in 0..7 /\ k + 1 \in 0..7 /\ tables # <<>>
      /\ table = ReadOrder[k + 1] /\ Unread(k + 1, tables')
  BY <1>1, <1>2, UnreadIs
<1>4. /\ Part(source) /\ DOMAIN SourceRows \subseteq DOMAIN source /\ Part(export)
      /\ unapplied \subseteq SourceTickets
  BY DEF ForkInv, ReadsInOrder
<1> HIDE DEF table
<1>5. Part(export') /\ Complete(export', k + 1)
  BY <1>1, <1>2, <1>3, <1>4, ReadOn
<1>6. Reading'
  BY <1>3, UnreadIs DEF Reading
<1>7. Reading
  BY <1>3 DEF Reading
<1>8. CanonInv' /\ OnlyImports' /\ AllOrNothing' /\ OnlyOnce'
  BY <1>1, <1>7, NotYetImported
<1>9. ReadsInOrder'
  BY <1>1, <1>3, <1>4, <1>5 DEF ReadsInOrder
<1> QED
  BY <1>6, <1>8, <1>9 DEF ForkInv, SelectsWhole, ForksLoseNothing

LEMMA SelectionIsMade ==
  ASSUME ForkInv, SelectExport
  PROVE  ForkInv'
<1> DEFINE rows == ReadFrom(source, export, Head(tables))
           all == Grown(export, Only(source, rows))
<1>1. PICK k \in 0..8 : Unread(k, tables) /\ (k # 8 => Complete(export, k))
  BY DEF ForkInv, ReadsInOrder
<1>2. k = 7 /\ Head(tables) = ReadOrder[8] /\ tables # <<>>
  <2>1. 8 - k = 1
    BY <1>1, UnreadIs DEF SelectExport
  <2>2. k \in 0..8 => k = 7 /\ k + 1 = 8
    BY <2>1
  <2>3. /\ tables = <<>> <=> k = 8
        /\ k # 8 => Head(tables) = ReadOrder[k + 1]
    BY <1>1, UnreadIs
  <2> QED
    BY <2>2, <2>3
<1>3. rows = {x \in InTable(source, Head(tables)) :
                source[x].subject \in InTable(export, "entities")}
  BY <1>2, ReadOrderIs DEF ReadFrom, PerEntity
<1>4. /\ selection.entities \subseteq InTable(export, "entities")
      /\ export' = IF selection.entities = {} THEN all ELSE Selected(all)
      /\ tables' = <<>> /\ UNCHANGED canonVars
      /\ source' = source /\ unapplied' = unapplied /\ selection' = selection
  BY <1>3 DEF SelectExport
<1>5. /\ Part(source) /\ DOMAIN SourceRows \subseteq DOMAIN source /\ Part(export)
      /\ unapplied \subseteq SourceTickets
  BY DEF ForkInv, ReadsInOrder
<1>6. /\ Part(all) /\ Complete(all, 8)
      /\ InTable(export, "entities") \subseteq InTable(all, "entities")
  BY <1>1, <1>2, <1>5, ReadOn
<1> HIDE DEF all
<1>7. /\ Part(export') /\ selection.entities \subseteq InTable(export', "entities")
      /\ selection.entities # {} => Chosen(export')
      /\ \A x \in DOMAIN SourceRows : LET row == SourceRows[x] IN
           /\ row.subject \in InTable(export', "entities")
           /\ IF row.table = "knowledge_attributions"
              THEN /\ row.object \in DOMAIN export'
                   /\ row.learned \in InTable(export', "entities") \cup {0}
              ELSE row.object \in InTable(SourceRows, "entities") \cup {0}
           => x \in DOMAIN export'
  BY <1>4, <1>6, SelectionIsFaithful
<1>8. Reading
  BY <1>2 DEF Reading
<1>9. CanonInv' /\ OnlyImports' /\ AllOrNothing' /\ OnlyOnce'
  BY <1>4, <1>8, NotYetImported
<1>10. Unread(8, tables')
  <2>1. 7 \in 0..8 /\ 7 + 1 = 8
    OBVIOUS
  <2>2. Unread(8, Tail(tables))
    BY <1>1, <1>2, <2>1, UnreadIs
  <2>3. Tail(tables) = <<>>
    <3>1. \A k8 \in 0..8 : k8 = 8 /\ Unread(k8, Tail(tables)) => Tail(tables) = <<>>
      BY UnreadIs
    <3> QED
      BY <2>2, <3>1
  <2> QED
    BY <1>4, <2>2, <2>3
<1>11. ReadsInOrder'
  BY <1>4, <1>5, <1>7, <1>10 DEF ReadsInOrder
<1>12. SelectsWhole'
  BY <1>4, <1>7 DEF SelectsWhole
<1>13. ForksLoseNothing'
  BY <1>4, <1>7 DEF ForksLoseNothing, ExportedEntities, Exported, InTable
<1> QED
  BY <1>9, <1>11, <1>12, <1>13 DEF ForkInv

\* The changes of an import are additions, one for each record that it brings.
LEMMA ImportBrings ==
  ASSUME NEW e, Part(e)
  PROVE  /\ \A d : Captured(d, Imported(e)) = Imported(e)
         /\ Imported(e) \in Seq(ChangeRecords)
         /\ \A d : Brought(ChangesOf(Imported(e)), d) => \A x \in DOMAIN e : Has(d, e[x].table, x)
         /\ \A d : Valid(d, Imported(e)) =>
              DOMAIN e # {} /\ \A x \in DOMAIN e : ~Has(d, e[x].table, x)
<1> DEFINE N == Cardinality(DOMAIN e)
           changes == Imported(e)
<1>1. PICK at \in [1..N -> DOMAIN e] :
        /\ changes = [n \in 1..N |-> ImportedChange(e, at[n])]
        /\ \A x \in DOMAIN e : \E n \in 1..N : at[n] = x
  BY ImportedIs
<1>2. N \in Nat /\ changes \in Seq(ChangeRecords) /\ Len(changes) = N
  BY ImportedIs
<1>3. DOMAIN changes = 1..N /\ \A n \in 1..N : changes[n] = ImportedChange(e, at[n])
  BY <1>1
<1>4. \A n \in 1..N : LET c == changes[n] IN
        /\ c \in ChangeRecords /\ Adds(c) /\ Portable(c) /\ c.portable = at[n]
        /\ TableOf[c.type] = e[at[n]].table
  BY <1>3, ImportedChangeIs
<1> HIDE DEF changes, N
<1>5. ASSUME NEW d
      PROVE  Captured(d, changes) = changes
  <2>1. \A n \in 1..N : ~Revises(changes[n])
    BY <1>4 DEF Revises
  <2>2. changes = [n \in DOMAIN changes |-> changes[n]]
    BY <1>2
  <2> QED
    BY <1>3, <2>1, <2>2 DEF Captured
<1>6. ASSUME NEW d, Brought(ChangesOf(changes), d), NEW x \in DOMAIN e
      PROVE  Has(d, e[x].table, x)
  <2>1. PICK n \in 1..N : at[n] = x
    BY <1>1
  <2>2. changes[n] \in ChangesOf(changes)
    BY <1>3 DEF ChangesOf
  <2> QED
    BY <1>4, <1>6, <2>1, <2>2 DEF Brought
<1>7. ASSUME NEW d, Valid(d, changes)
      PROVE  DOMAIN e # {} /\ \A x \in DOMAIN e : ~Has(d, e[x].table, x)
  <2>1. changes # <<>> /\ PortableOk(d, changes)
    BY <1>7 DEF Valid
  <2>2. N # 0
    BY <1>2, <2>1
  <2>3. DOMAIN e # {}
    <3>1. 1 \in 1..N
      BY <1>2, <2>2
    <3> QED
      BY <3>1
  <2>4. \A n \in 1..N : ~Has(d, TableOf[changes[n].type], changes[n].portable)
    BY <1>3, <1>4, <2>1 DEF PortableOk, Of
  <2>5. ASSUME NEW x \in DOMAIN e
        PROVE  ~Has(d, e[x].table, x)
    <3>1. PICK n \in 1..N : at[n] = x
      BY <1>1
    <3> QED
      BY <1>4, <2>4, <3>1
  <2> QED
    BY <2>3, <2>5
<1> QED
  BY <1>2, <1>5, <1>6, <1>7 DEF changes

\* What a ticket does to the others, and to what the invariant says of the fork.
LEMMA ForkKept ==
  ASSUME ForkInv, UNCHANGED forkVars
  PROVE  ReadsInOrder' /\ SelectsWhole' /\ ForksLoseNothing'
BY DEF ForkInv, forkVars, ReadsInOrder, SelectsWhole, ForksLoseNothing, Reading,
       ExportedEntities, Exported, InTable

LEMMA ForkImported ==
  ASSUME ForkInv, NEW t \in AuthoredTickets, ImportFork(t)
  PROVE  ForkInv'
<1> DEFINE changes == Imported(export)
<1>1. /\ ~Reading /\ CreateTicket(t, changes) /\ UNCHANGED forkVars
      /\ InState(t, "none") /\ Moved(t, "proposed", changes) /\ db' = db
  BY DEF ImportFork, CreateTicket
<1>2. CanonInv /\ Part(export) /\ changes \in Seq(ChangeRecords)
  BY ImportBrings DEF ForkInv, ReadsInOrder
<1>3. ReadsInOrder' /\ SelectsWhole' /\ ForksLoseNothing'
  BY <1>1, ForkKept
<1>4. /\ authored'[t] = [status |-> "proposed", changes |-> changes]
      /\ \A u \in AuthoredTickets \ {t} : authored'[u] = authored[u]
  BY <1>1, <1>2, MovedIs DEF AuthoredStates
<1>5. export' = export /\ tables' = tables
  BY <1>1 DEF forkVars
<1> HIDE DEF changes
<1>6. CanonInv'
  BY <1>1, <1>2, CreateKeeps
<1>7. \A u \in AuthoredTickets : InState(u, "applied")' <=> InState(u, "applied")
  BY <1>1, <1>4 DEF InState
<1>8. ASSUME NEW u \in AuthoredTickets, ~InState(u, "none")'
      PROVE  (~Reading)' /\ authored'[u].changes = changes
  <2>1. (~Reading)'
    BY <1>1, <1>5 DEF Reading
  <2>2. u # t => authored'[u].changes = changes
    BY <1>4, <1>8 DEF ForkInv, OnlyImports, InState, changes
  <2> QED
    BY <1>4, <2>1, <2>2
<1>9. changes = Imported(export')
  BY <1>5 DEF changes
<1>10. OnlyImports'
  BY <1>8, <1>9 DEF OnlyImports
<1>11. AllOrNothing' /\ OnlyOnce'
  BY <1>1, <1>5, <1>7 DEF ForkInv, AllOrNothing, OnlyOnce
<1> QED
  BY <1>3, <1>6, <1>10, <1>11 DEF ForkInv

LEMMA ForkReviewed ==
  ASSUME ForkInv, NEW t \in AuthoredTickets, ReviewAuthored(t), UNCHANGED forkVars
  PROVE  ForkInv'
<1> DEFINE changes == Imported(export)
<1>1. CanonInv /\ Part(export) /\ changes \in Seq(ChangeRecords)
  BY ImportBrings DEF ForkInv, ReadsInOrder
<1>2. InState(t, "proposed") /\ ~InState(t, "none") /\ ~InState(t, "applied")
  BY DEF ReviewAuthored, InState
<1>3. ~Reading /\ authored[t].changes = changes
  BY <1>2 DEF ForkInv, OnlyImports
<1>4. Moved(t, "approved", changes) /\ db' = db
  BY <1>1, <1>3, ImportBrings DEF ReviewAuthored
<1>5. /\ authored'[t] = [status |-> "approved", changes |-> changes]
      /\ \A u \in AuthoredTickets \ {t} : authored'[u] = authored[u]
  BY <1>1, <1>4, MovedIs DEF AuthoredStates
<1>6. ReadsInOrder' /\ SelectsWhole' /\ ForksLoseNothing'
  BY ForkKept
<1>7. export' = export /\ tables' = tables
  BY DEF forkVars
<1>8. CanonInv'
  BY <1>1, ReviewKeeps
<1> HIDE DEF changes
<1>9. \A u \in AuthoredTickets : InState(u, "applied")' <=> InState(u, "applied")
  BY <1>2, <1>5 DEF InState
<1>10. OnlyImports'
  <2>1. changes = Imported(export') /\ (~Reading)'
    BY <1>3, <1>7 DEF changes, Reading
  <2>2. ASSUME NEW u \in AuthoredTickets, ~InState(u, "none")'
        PROVE  authored'[u].changes = changes
    BY <1>5, <2>2 DEF ForkInv, OnlyImports, InState, changes
  <2> QED
    BY <2>1, <2>2 DEF OnlyImports
<1>11. AllOrNothing' /\ OnlyOnce'
  BY <1>4, <1>7, <1>9 DEF ForkInv, AllOrNothing, OnlyOnce
<1> QED
  BY <1>6, <1>8, <1>10, <1>11 DEF ForkInv

\* A second import of what is there already is not valid.
LEMMA ForkApplied ==
  ASSUME ForkInv, NEW t \in AuthoredTickets, ApplyAuthored(t), UNCHANGED forkVars
  PROVE  ForkInv'
<1> DEFINE changes == Imported(export)
<1>1. CanonInv /\ Part(export) /\ changes \in Seq(ChangeRecords)
  BY ImportBrings DEF ForkInv, ReadsInOrder
<1>2. ~InState(t, "none") /\ ~InState(t, "applied")
  BY DEF ApplyAuthored, InState
<1>3. ~Reading /\ authored[t].changes = changes
  BY <1>2 DEF ForkInv, OnlyImports
<1>4. Moved(t, "applied", changes) /\ Valid(db, changes)
  BY <1>3 DEF ApplyAuthored
<1>5. CanonInv' /\ Brought(ChangesOf(changes), db')
  <2>1. CanonInv' /\ Brought(ChangesOf(Captured(db, authored[t].changes)), db')
    BY <1>1, ApplyKeeps
  <2>2. Captured(db, authored[t].changes) = changes
    BY <1>1, <1>3, ImportBrings
  <2> QED
    BY <2>1, <2>2
<1>6. /\ \A x \in DOMAIN export : Has(db', export[x].table, x)
      /\ DOMAIN export # {} /\ \A x \in DOMAIN export : ~Has(db, export[x].table, x)
  BY <1>1, <1>4, <1>5, ImportBrings
<1>7. /\ authored'[t] = [status |-> "applied", changes |-> changes]
      /\ \A u \in AuthoredTickets \ {t} : authored'[u] = authored[u]
  BY <1>1, <1>4, MovedIs DEF AuthoredStates
<1>8. ReadsInOrder' /\ SelectsWhole' /\ ForksLoseNothing'
  BY ForkKept
<1>9. export' = export /\ tables' = tables
  BY DEF forkVars
<1> HIDE DEF changes
<1>10. \A u \in AuthoredTickets : ~InState(u, "applied")
  BY <1>6 DEF ForkInv, AllOrNothing
<1>11. \A u \in AuthoredTickets : InState(u, "applied")' <=> u = t
  BY <1>7, <1>10 DEF InState
<1>12. OnlyImports'
  <2>1. changes = Imported(export') /\ (~Reading)'
    BY <1>3, <1>9 DEF changes, Reading
  <2>2. ASSUME NEW u \in AuthoredTickets, ~InState(u, "none")'
        PROVE  authored'[u].changes = changes
    BY <1>7, <2>2 DEF ForkInv, OnlyImports, InState, changes
  <2> QED
    BY <2>1, <2>2 DEF OnlyImports
<1>13. AllOrNothing' /\ OnlyOnce'
  BY <1>6, <1>9, <1>11 DEF AllOrNothing, OnlyOnce
<1> QED
  BY <1>5, <1>8, <1>12, <1>13 DEF ForkInv

LEMMA ForkSteps == ForkInv /\ [ForkNext]_<<canonVars, forkVars>> => ForkInv'
<1> SUFFICES ASSUME ForkInv, [ForkNext]_<<canonVars, forkVars>> PROVE ForkInv'
  OBVIOUS
<1>1. CASE ForkNext
  BY <1>1, SourceGrows, TableIsRead, SelectionIsMade, ForkImported, ForkReviewed, ForkApplied
  DEF ForkNext
<1>2. CASE UNCHANGED <<canonVars, forkVars>>
  <2>1. ReadsInOrder' /\ SelectsWhole' /\ ForksLoseNothing'
    BY <1>2, ForkKept
  <2>2. CanonInv'
    BY <1>2, CanonSteps DEF ForkInv
  <2>3. db' = db /\ authored' = authored /\ tables' = tables /\ export' = export
    BY <1>2 DEF canonVars, forkVars
  <2>4. OnlyImports' /\ AllOrNothing' /\ OnlyOnce'
    BY <2>3 DEF ForkInv, OnlyImports, AllOrNothing, OnlyOnce, InState, Reading
  <2> QED
    BY <2>1, <2>2, <2>4 DEF ForkInv
<1> QED
  BY <1>1, <1>2

LEMMA ForksDoArrive == ForkInv => ForksArrive
<1> SUFFICES ASSUME ForkInv, ~Reading, selection.entities # {}
             PROVE  LET empty == [rows |-> Only(export, {}), dimensions |-> [k \in {} |-> "none"]]
                        done == Application(empty, Sorted(Imported(export)))
                    IN  /\ Valid(empty, Imported(export)) /\ done.ok
                        /\ done.db.rows = [x \in DOMAIN export |-> Settled(export[x])]
  BY DEF ForksArrive, Settled
<1> DEFINE empty == [rows |-> Only(export, {}), dimensions |-> [k \in {} |-> "none"]]
<1>1. /\ Part(export) /\ Chosen(export)
      /\ selection.entities \subseteq InTable(export, "entities")
  BY DEF ForkInv, ReadsInOrder, SelectsWhole
<1>2. DOMAIN export # {}
  BY <1>1 DEF InTable
<1>3. /\ empty.rows = [x \in {} |-> export[x]] /\ DOMAIN empty.rows = {}
      /\ empty.dimensions = [k \in {} |-> "none"] /\ DOMAIN empty.dimensions = {}
      /\ empty = [rows |-> empty.rows, dimensions |-> empty.dimensions]
  BY DEF Only
<1> HIDE DEF empty
<1>4. empty \in Worlds
  <2>1. empty.rows \in Maps(Int, CanonRows)
    <3>1. empty.rows \in [{} -> CanonRows] /\ {} \in SUBSET Int
      BY <1>3
    <3> QED
      BY <3>1 DEF Maps
  <2>2. empty.dimensions \in Maps(STRING, STRING)
    <3>1. empty.dimensions \in [{} -> STRING] /\ {} \in SUBSET STRING
      BY <1>3
    <3> QED
      BY <3>1 DEF Maps
  <2> QED
    BY <1>3, <2>1, <2>2 DEF Worlds
<1>5. Valid(empty, Imported(export))
  BY <1>1, <1>2, <1>3, ChosenIsValid
<1>6. LET done == Application(empty, Sorted(Imported(export)))
      IN  done.ok /\ done.db.rows = [x \in DOMAIN export |-> Settled(export[x])]
  BY <1>1, <1>2, <1>3, <1>4, ImportArrives
<1> QED
  BY <1>5, <1>6 DEF empty

LEMMA ForksDoImportWhole == ForkInv => ImportsAreWhole
<1> SUFFICES ASSUME ForkInv, ~Reading PROVE
      /\ \A x \in DOMAIN export : x \in DOMAIN db.rows <=> DOMAIN export \subseteq DOMAIN db.rows
      /\ Cardinality({t \in AuthoredTickets : InState(t, "applied")}) <= 1
  BY DEF ImportsAreWhole
<1>1. CASE \A t \in AuthoredTickets : ~InState(t, "applied")
  <2>1. DOMAIN db.rows = {}
    BY <1>1 DEF ForkInv, AllOrNothing
  <2>2. {t \in AuthoredTickets : InState(t, "applied")} = {}
    BY <1>1
  <2>3. Cardinality({}) = 0
    BY FS_EmptySet
  <2> QED
    BY <2>1, <2>2, <2>3
<1>2. ASSUME NEW t \in AuthoredTickets, InState(t, "applied")
      PROVE  /\ DOMAIN export \subseteq DOMAIN db.rows
             /\ Cardinality({u \in AuthoredTickets : InState(u, "applied")}) = 1
  <2>1. {u \in AuthoredTickets : InState(u, "applied")} = {t}
    BY <1>2 DEF ForkInv, OnlyOnce
  <2>2. Cardinality({t}) = 1
    BY FS_Singleton
  <2>3. DOMAIN export \subseteq DOMAIN db.rows
    BY <1>2 DEF ForkInv, AllOrNothing, Has
  <2> QED
    BY <2>1, <2>2, <2>3
<1> QED
  BY <1>1, <1>2

\* Whatever is applied to the exported world while its tables are read, and however many
\* tickets import the export: a selection leaves out nothing that was there and that it
\* concerns (selective_export), an empty world takes what was selected, record by record
\* as it was (portable_import_preview and the checks of an import), and an import is
\* applied whole, and once.
THEOREM ForksStayFaithful == ForkSpec => []ForksAreFaithful
<1>1. ForkInv => ForksAreFaithful
  BY ForksDoArrive, ForksDoImportWhole DEF ForksAreFaithful, ForkInv
<1> QED
  BY <1>1, ForkStart, ForkSteps, PTL DEF ForkSpec
================================================================================
