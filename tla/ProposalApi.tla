----------------------------- MODULE ProposalApi -----------------------------
(***************************************************************************)
(* The writing endpoints of server/app.py: create a bot, submit an order   *)
(* proposal, decide on one.  FastAPI runs these handlers in a pool of      *)
(* threads, and every statement is a SQLite transaction of its own         *)
(* (Database.execute and fetchone open, commit and close a connection), so *)
(* handlers interleave between statements, a statement may fail (a locked  *)
(* database), and the server may stop between two of them.  The database   *)
(* survives, the handlers do not.                                          *)
(*                                                                         *)
(* Only requests of an administrator with a valid body are modelled; any   *)
(* other request is answered before the handler runs and changes nothing.  *)
(***************************************************************************)
EXTENDS Integers, Sequences, FiniteSets

CONSTANTS
  Workers,       \* threads of the pool
  BotIds, ProposalIds,
  Names,         \* bot names, unique in the table
  Values,        \* values of a proposal, quantity * price
  NoRow,
  MaxRequests,   \* bound: requests handled
  MaxCutOff      \* bound: requests cut off by a failed statement or a stop

ASSUME ValuesAssumption == Values \subseteq Nat \ {0}
ASSUME WorkersAssumption == IsFiniteSet(Workers)
ASSUME BoundsAssumption == MaxRequests \in Nat /\ MaxCutOff \in Nat

VARIABLES
  bots,        \* table bots
  proposals,   \* table order_proposals
  audit_logs,  \* table audit_logs, oldest first
  committed,   \* history: every change the handlers have committed to the two tables
  pc,          \* the next statement of each worker
  job,         \* what the handler of each worker has read and computed
  requests,    \* requests started
  cut_off      \* requests that did not run to their end

database == <<bots, proposals, audit_logs, committed>>
vars == <<bots, proposals, audit_logs, committed, pc, job, requests, cut_off>>

ApprovalModes == {"manual", "automatic_limited", "disabled"}
ProposalStatuses == {"pending_approval", "auto_approved", "approved", "rejected"}

Bot == [name : Names, approval_mode : ApprovalModes, status : {"active", "paused"},
        max_auto_order_value : Values]

\* reviewed stands for reviewed_at IS NOT NULL.
Proposal == [bot_id : BotIds, value : Values, status : ProposalStatuses, reviewed : BOOLEAN]

ASSUME RowAssumption == NoRow \notin BotIds \cup ProposalIds \cup Bot \cup Proposal

\* An audit row: what happened to which row, and the status that went with it.
AuditLog ==
  [event : {"bot.created", "proposal.created", "proposal.decided"},
   entity : BotIds \cup ProposalIds,
   status : ProposalStatuses \cup {"active"}]

Job == [event : {"none", "bot.created", "proposal.created", "proposal.decided"},
        entity : BotIds \cup ProposalIds \cup {NoRow},
        bot_id : BotIds \cup {NoRow},
        value : Values \cup {0},
        status : ProposalStatuses \cup {"active"}]

NoJob == [event |-> "none", entity |-> NoRow, bot_id |-> NoRow, value |-> 0,
          status |-> "active"]

TypeOK ==
  /\ bots \in [BotIds -> Bot \cup {NoRow}]
  /\ proposals \in [ProposalIds -> Proposal \cup {NoRow}]
  /\ audit_logs \in Seq(AuditLog)
  /\ committed \subseteq AuditLog
  /\ pc \in [Workers -> {"idle", "insert", "update", "audit"}]
  /\ job \in [Workers -> Job]
  /\ requests \in 0..MaxRequests
  /\ cut_off \in 0..MaxCutOff

Init ==
  /\ bots = [id \in BotIds |-> NoRow]
  /\ proposals = [id \in ProposalIds |-> NoRow]
  /\ audit_logs = <<>>
  /\ committed = {}
  /\ pc = [w \in Workers |-> "idle"]
  /\ job = [w \in Workers |-> NoJob]
  /\ requests = 0
  /\ cut_off = 0

-----------------------------------------------------------------------------

Go(w, next, done) ==
  /\ pc' = [pc EXCEPT ![w] = next]
  /\ job' = [job EXCEPT ![w] = done]

\* What happened to which row, and the status the row was given.
Change(event, entity, status) == [event |-> event, entity |-> entity, status |-> status]

\* A statement is committed; the history keeps what it made of the row.
Commits(event, entity, status) ==
  committed' = committed \cup {Change(event, entity, status)}

\* A request comes in and its handler runs its first statement.
Handle(w, next, done) ==
  /\ pc[w] = "idle"
  /\ requests < MaxRequests
  /\ requests' = requests + 1
  /\ Go(w, next, done)
  /\ UNCHANGED cut_off

-----------------------------------------------------------------------------
(* POST /api/v1/bots *)

\* The insert fails on a name that is taken, and the answer is 409.
create_bot(w, id, bot) ==
  /\ bots[id] = NoRow
  /\ IF \E other \in BotIds : bots[other] # NoRow /\ bots[other].name = bot.name
     THEN /\ Handle(w, "idle", NoJob)
          /\ UNCHANGED database
     ELSE /\ Handle(w, "audit", [NoJob EXCEPT !.event = "bot.created", !.entity = id])
          /\ bots' = [bots EXCEPT ![id] = bot]
          /\ Commits("bot.created", id, bots'[id].status)
          /\ UNCHANGED <<proposals, audit_logs>>

-----------------------------------------------------------------------------
(* POST /api/v1/order-proposals *)

\* Mutant for the checks: an order that needs no verdict keeps its bot's status.
proposal_status_OfBot(bot, value) ==
  IF bot.status # "active" \/ bot.approval_mode = "disabled" THEN "rejected"
  ELSE IF bot.approval_mode = "automatic_limited" /\ value <= bot.max_auto_order_value
       THEN bot.status
  ELSE "pending_approval"

proposal_status(bot, value) ==
  IF bot.status # "active" \/ bot.approval_mode = "disabled" THEN "rejected"
  ELSE IF bot.approval_mode = "automatic_limited" /\ value <= bot.max_auto_order_value
       THEN "auto_approved"
  ELSE "pending_approval"

\* The bot is read and the status computed; 404 when there is no such bot.
propose(w, bot_id, value) ==
  /\ IF bots[bot_id] = NoRow
     THEN Handle(w, "idle", NoJob)
     ELSE Handle(w, "insert",
            [event |-> "proposal.created", entity |-> NoRow, bot_id |-> bot_id,
             value |-> value, status |-> proposal_status(bots[bot_id], value)])
  /\ UNCHANGED database

InsertProposal(w, id) ==
  /\ pc[w] = "insert"
  /\ proposals[id] = NoRow
  /\ proposals' = [proposals EXCEPT ![id] =
       [bot_id |-> job[w].bot_id, value |-> job[w].value, status |-> job[w].status,
        reviewed |-> FALSE]]
  /\ Commits("proposal.created", id, proposals'[id].status)
  /\ Go(w, "audit", [job[w] EXCEPT !.entity = id])
  /\ UNCHANGED <<bots, audit_logs, requests, cut_off>>

-----------------------------------------------------------------------------
(* POST /api/v1/order-proposals/{proposal_id}/decision *)

\* Mutant for the checks: a rejected proposal may be decided on again.
Decidable_RejectedToo(row) == row.status \in {"pending_approval", "rejected"}

Decidable(row) == row.status = "pending_approval"

\* The row is read: 404 when there is none, 409 when it does not wait for a decision.
decide(w, id, decision) ==
  /\ IF proposals[id] # NoRow /\ Decidable(proposals[id])
     THEN Handle(w, "update", [NoJob EXCEPT !.event = "proposal.decided", !.entity = id,
                                            !.status = decision])
     ELSE Handle(w, "idle", NoJob)
  /\ UNCHANGED database

\* The update states only the id: it overwrites whatever the row is by now.
UpdateProposal(w) ==
  /\ pc[w] = "update"
  /\ proposals' = [proposals EXCEPT ![job[w].entity].status = job[w].status,
                                    ![job[w].entity].reviewed = TRUE]
  /\ Commits("proposal.decided", job[w].entity, proposals'[job[w].entity].status)
  /\ Go(w, "audit", job[w])
  /\ UNCHANGED <<bots, audit_logs, requests, cut_off>>

-----------------------------------------------------------------------------
(* Database.audit, the last write of every handler. *)

\* What a handler reports of its request, the names of the event and of its status
\* apart: the event of a decision is "proposal.approved" or "proposal.rejected".
Reported(j) == Change(j.event, j.entity, j.status)

\* Mutant for the checks: creations of bots are not logged.
Audited_NoBots(j) == IF j.event = "bot.created" THEN <<>> ELSE <<Reported(j)>>

\* Mutant for the checks: the names of the two decisions are swapped.
Audited_Swapped(j) ==
  IF j.event = "proposal.decided"
  THEN <<Change(j.event, j.entity, IF j.status = "approved" THEN "rejected" ELSE "approved")>>
  ELSE <<Reported(j)>>

Audited(j) == <<Reported(j)>>

WriteAudit(w) ==
  /\ pc[w] = "audit"
  /\ audit_logs' = audit_logs \o Audited(job[w])
  /\ Go(w, "idle", NoJob)
  /\ UNCHANGED <<bots, proposals, committed, requests, cut_off>>

-----------------------------------------------------------------------------
(* Failures. *)

\* A statement raises: the answer is 500, what was committed before stays.
StatementFails(w) ==
  /\ pc[w] # "idle"
  /\ cut_off < MaxCutOff
  /\ cut_off' = cut_off + 1
  /\ Go(w, "idle", NoJob)
  /\ UNCHANGED <<database, requests>>

\* The server stops and is started again on the same database.
Restart ==
  LET running == {w \in Workers : pc[w] # "idle"}
  IN  /\ running # {}
      /\ cut_off + Cardinality(running) <= MaxCutOff
      /\ cut_off' = cut_off + Cardinality(running)
      /\ pc' = [w \in Workers |-> "idle"]
      /\ job' = [w \in Workers |-> NoJob]
      /\ UNCHANGED <<database, requests>>

-----------------------------------------------------------------------------

NewBots == [name : Names, approval_mode : ApprovalModes, status : {"active"},
            max_auto_order_value : Values]

Request(w) ==
  \/ \E id \in BotIds, bot \in NewBots : create_bot(w, id, bot)
  \/ \E id \in BotIds, value \in Values : propose(w, id, value)
  \/ \E id \in ProposalIds, decision \in {"approved", "rejected"} : decide(w, id, decision)

Continue(w) ==
  \/ \E id \in ProposalIds : InsertProposal(w, id)
  \/ UpdateProposal(w)
  \/ WriteAudit(w)
  \/ StatementFails(w)

Next == (\E w \in Workers : Request(w) \/ Continue(w)) \/ Restart

Spec == Init /\ [][Next]_vars

-----------------------------------------------------------------------------
(* Properties. *)

Rows == {id \in ProposalIds : proposals[id] # NoRow}

WithinLimit(bot, value) ==
  bot.approval_mode = "automatic_limited" /\ value <= bot.max_auto_order_value

\* Every status has an explanation, however requests interleave, fail and restart.
\* A proposal nobody has reviewed has the status that its bot's mode gives it, and no
\* other: rejected when the bot is disabled, approved when the bot is automatic and the
\* value within its limit, else waiting.  One that was reviewed has the status of a
\* decision and belongs to a bot that asks for decisions (app.py propose, decide).
StatusExplained ==
  \A id \in Rows :
    LET row      == proposals[id]
        bot      == bots[row.bot_id]
        disabled == bot.approval_mode = "disabled"
    IN  /\ bot # NoRow
        /\ ~row.reviewed =>
             /\ row.status # "approved"
             /\ row.status = "rejected" <=> disabled
             /\ row.status = "auto_approved" <=> WithinLimit(bot, row.value)
        /\ row.reviewed =>
             /\ row.status \in {"approved", "rejected"}
             /\ ~disabled /\ ~WithinLimit(bot, row.value)

\* The audit log never runs ahead of the tables, and says what happened: each of its
\* rows reports a change that was committed, with the status the row was given then,
\* and that status is still in the table unless another decision has been committed
\* (app.py writes before it audits, under a name made from the status it wrote).
AuditTellsTheTruth ==
  \A i \in DOMAIN audit_logs :
    LET log == audit_logs[i]
        row == proposals[log.entity]
    IN  /\ log \in committed
        /\ CASE log.event = "bot.created" ->
                  bots[log.entity] # NoRow /\ bots[log.entity].status = log.status
             [] log.event = "proposal.created" ->
                  row # NoRow /\ (row.reviewed \/ row.status = log.status)
             [] log.event = "proposal.decided" ->
                  /\ row # NoRow /\ row.reviewed
                  /\ Change("proposal.decided", log.entity, row.status) \in committed

Logged(change) ==
  \/ \E i \in DOMAIN audit_logs : audit_logs[i] = change
  \/ \E w \in Workers : pc[w] = "audit" /\ Reported(job[w]) = change

Unlogged == {change \in committed : ~Logged(change)}

\* A change, of a decision as of a created row, is missing from the audit log only
\* if its request was cut off between the two commits: no other path loses a record.
UnloggedOnlyWhenCutOff == Cardinality(Unlogged) <= cut_off

\* A decided proposal stays decided: the API answers a second decision with
\* 409, "Voorstel wacht niet op goedkeuring." (app.py 214-215).
DecisionIsFinal ==
  [][\A id \in Rows : proposals[id].reviewed
       => proposals'[id].status = proposals[id].status]_vars
=============================================================================
