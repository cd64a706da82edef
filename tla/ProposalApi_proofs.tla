-------------------------- MODULE ProposalApi_proofs --------------------------
(***************************************************************************)
(* The statements of the writing handlers interleave, fail and are cut off *)
(* by a stop in any way.  What the tables and the audit log say is         *)
(* explained all the same, for any number of threads, bots, proposals and  *)
(* requests.                                                               *)
(*                                                                         *)
(* The properties speak of tables.  What makes them inductive is that what *)
(* a handler has read and not used yet is still true: bots never change,   *)
(* neither do the bot and the value of a proposal.                         *)
(***************************************************************************)
EXTENDS ProposalApi, FiniteSetTheorems, TLAPS

Bots == {id \in BotIds : bots[id] # NoRow}

\* A bot is created active, and no handler changes it.
BotsActive == \A id \in Bots : bots[id].status = "active"

\* A proposal about to be inserted has the status its bot gives it.
MayInsert(w) ==
  pc[w] = "insert" =>
    /\ job[w].event = "proposal.created"
    /\ job[w].bot_id \in Bots
    /\ job[w].value \in Values
    /\ job[w].status = proposal_status(bots[job[w].bot_id], job[w].value)

\* A proposal may be decided on when it has a bot that asks for decisions.
AsksForDecision(id) ==
  LET row == proposals[id]
  IN  /\ id \in Rows
      /\ bots[row.bot_id].approval_mode # "disabled"
      /\ ~WithinLimit(bots[row.bot_id], row.value)

\* A proposal waits for a decision only if its bot asks for one.
PendingAsks == \A id \in Rows : Decidable(proposals[id]) => AsksForDecision(id)

MayUpdate(w) ==
  pc[w] = "update" =>
    /\ job[w].event = "proposal.decided"
    /\ job[w].status \in {"approved", "rejected"}
    /\ AsksForDecision(job[w].entity)

\* What a committed change says of the tables ever after.
True(change) ==
  \/ /\ change.event = "bot.created"
     /\ change.entity \in Bots
     /\ change.status = bots[change.entity].status
  \/ /\ change.event = "proposal.created"
     /\ change.entity \in Rows
     /\ proposals[change.entity].reviewed \/ proposals[change.entity].status = change.status
  \/ /\ change.event = "proposal.decided"
     /\ change.entity \in Rows
     /\ proposals[change.entity].reviewed
     /\ Change("proposal.decided", change.entity, proposals[change.entity].status) \in committed

AuditExplained ==
  /\ \A change \in committed : True(change)
  /\ \A w \in Workers : pc[w] = "audit" => Reported(job[w]) \in committed
  /\ \A i \in DOMAIN audit_logs : audit_logs[i] \in committed

JobsExplained ==
  /\ BotsActive
  /\ \A w \in Workers : MayInsert(w) /\ MayUpdate(w)

TablesInv == TypeOK /\ JobsExplained /\ PendingAsks /\ StatusExplained

AuditInv == TablesInv /\ AuditExplained

UnloggedInv == AuditInv /\ IsFiniteSet(Unlogged) /\ UnloggedOnlyWhenCutOff

-----------------------------------------------------------------------------
(* Types. *)

LEMMA TypeInit == Init => TypeOK
<1>1. NoJob \in Job
  BY DEF NoJob, Job
<1>2. << >> \in Seq(AuditLog) /\ {} \subseteq AuditLog
  OBVIOUS
<1>3. 0 \in 0..MaxRequests /\ 0 \in 0..MaxCutOff
  BY BoundsAssumption
<1> QED
  BY <1>1, <1>2, <1>3 DEF Init, TypeOK

\* What a thread goes on with is typed when it is called with types.
LEMMA GoTypes ==
  ASSUME TypeOK, NEW w \in Workers, NEW next \in {"idle", "insert", "update", "audit"},
         NEW done \in Job, Go(w, next, done)
  PROVE  pc' \in [Workers -> {"idle", "insert", "update", "audit"}] /\ job' \in [Workers -> Job]
BY DEF Go, TypeOK

LEMMA HandleTypes ==
  ASSUME TypeOK, NEW w \in Workers, NEW next \in {"idle", "insert", "update", "audit"},
         NEW done \in Job, Handle(w, next, done)
  PROVE  /\ pc' \in [Workers -> {"idle", "insert", "update", "audit"}]
         /\ job' \in [Workers -> Job]
         /\ requests' \in 0..MaxRequests
         /\ cut_off' \in 0..MaxCutOff
<1>1. Go(w, next, done) /\ requests' = requests + 1 /\ requests < MaxRequests /\ cut_off' = cut_off
  BY DEF Handle
<1>2. requests' \in 0..MaxRequests /\ cut_off' \in 0..MaxCutOff
  BY <1>1, BoundsAssumption DEF TypeOK
<1> QED
  BY <1>1, <1>2, GoTypes

LEMMA ReadBotTyped ==
  ASSUME TypeOK, NEW id \in BotIds, bots[id] # NoRow
  PROVE  bots[id] \in Bot
BY DEF TypeOK

LEMMA ReadProposalTyped ==
  ASSUME TypeOK, NEW id \in Rows
  PROVE  id \in ProposalIds /\ proposals[id] \in Proposal /\ proposals[id].bot_id \in BotIds
BY DEF TypeOK, Rows, Proposal

LEMMA TypeStep ==
  ASSUME TypeOK, JobsExplained, AuditExplained, [Next]_vars
  PROVE  TypeOK'
<1> NoJob \in Job
  BY DEF NoJob, Job
<1>1. CASE UNCHANGED vars
  BY <1>1 DEF vars, TypeOK
<1>2. ASSUME NEW w \in Workers, NEW id \in BotIds, NEW bot \in NewBots, create_bot(w, id, bot)
      PROVE  TypeOK'
  <2>1. [NoJob EXCEPT !.event = "bot.created", !.entity = id] \in Job
    BY DEF NoJob, Job
  <2>2. bot \in Bot
    BY DEF NewBots, Bot
  <2> QED
    <3>1. CASE Handle(w, "idle", NoJob) /\ UNCHANGED database
      BY <3>1, HandleTypes DEF database, TypeOK
    <3>2. CASE /\ Handle(w, "audit", [NoJob EXCEPT !.event = "bot.created", !.entity = id])
               /\ bots' = [bots EXCEPT ![id] = bot]
               /\ Commits("bot.created", id, bots'[id].status)
               /\ UNCHANGED <<proposals, audit_logs>>
      <4>1. bots'[id].status = "active"
        BY <3>2 DEF NewBots, TypeOK
      <4>2. committed' \subseteq AuditLog
        BY <3>2, <4>1 DEF Commits, Change, AuditLog, TypeOK
      <4> QED
        BY <2>1, <2>2, <3>2, <4>2, HandleTypes DEF TypeOK
    <3> QED
      BY <1>2, <3>1, <3>2 DEF create_bot
<1>3. ASSUME NEW w \in Workers, NEW id \in BotIds, NEW value \in Values, propose(w, id, value)
      PROVE  TypeOK'
  <2>1. [event |-> "proposal.created", entity |-> NoRow, bot_id |-> id, value |-> value,
         status |-> proposal_status(bots[id], value)] \in Job
    BY DEF Job, proposal_status, ProposalStatuses
  <2> QED
    BY <1>3, <2>1, HandleTypes DEF propose, database, TypeOK
<1>4. ASSUME NEW w \in Workers, NEW id \in ProposalIds, NEW decision \in {"approved", "rejected"},
             decide(w, id, decision)
      PROVE  TypeOK'
  <2>1. [NoJob EXCEPT !.event = "proposal.decided", !.entity = id, !.status = decision] \in Job
    BY DEF NoJob, Job, ProposalStatuses
  <2> QED
    BY <1>4, <2>1, HandleTypes DEF decide, database, TypeOK
<1>5. ASSUME NEW w \in Workers, NEW id \in ProposalIds, InsertProposal(w, id) PROVE TypeOK'
  <2>1. /\ job[w].bot_id \in BotIds
        /\ job[w].value \in Values
        /\ job[w].status \in ProposalStatuses
    BY <1>5 DEF InsertProposal, JobsExplained, MayInsert, Bots, proposal_status, ProposalStatuses
  <2>2. proposals' \in [ProposalIds -> Proposal \cup {NoRow}]
    BY <1>5, <2>1 DEF InsertProposal, Proposal, TypeOK
  <2>3. [job[w] EXCEPT !.entity = id] \in Job
    BY DEF TypeOK, Job
  <2>4. proposals'[id].status = job[w].status
    BY <1>5 DEF InsertProposal, TypeOK
  <2>5. committed' \subseteq AuditLog
    BY <1>5, <2>1, <2>4 DEF InsertProposal, Commits, Change, AuditLog, TypeOK
  <2> QED
    BY <1>5, <2>2, <2>3, <2>5, GoTypes DEF InsertProposal, TypeOK
<1>6. ASSUME NEW w \in Workers, UpdateProposal(w) PROVE TypeOK'
  <2>1. job[w].entity \in Rows /\ job[w].status \in ProposalStatuses /\ job[w] \in Job
    BY <1>6 DEF UpdateProposal, JobsExplained, MayUpdate, AsksForDecision, ProposalStatuses, TypeOK
  <2>2. proposals' \in [ProposalIds -> Proposal \cup {NoRow}]
    BY SMTT(30), <1>6, <2>1, ReadProposalTyped DEF UpdateProposal, Proposal, TypeOK
  <2>3. proposals'[job[w].entity] \in Proposal
    <3>1. /\ proposals[job[w].entity] \in Proposal /\ job[w].entity \in ProposalIds
          /\ job[w].status \in ProposalStatuses
      BY <2>1, ReadProposalTyped
    <3> QED
      BY <1>6, <3>1 DEF UpdateProposal, Proposal, TypeOK
  <2>4. job[w].entity \in ProposalIds /\ proposals'[job[w].entity].status \in ProposalStatuses
    BY <2>1, <2>3, ReadProposalTyped DEF Proposal
  <2>5. committed' \subseteq AuditLog
    BY <1>6, <2>4 DEF UpdateProposal, Commits, Change, AuditLog, TypeOK
  <2> QED
    BY <1>6, <2>1, <2>2, <2>5, GoTypes DEF UpdateProposal, TypeOK
<1>7. ASSUME NEW w \in Workers, WriteAudit(w) PROVE TypeOK'
  <2>1. Reported(job[w]) \in AuditLog
    BY <1>7 DEF WriteAudit, AuditExplained, TypeOK
  <2>2. audit_logs' \in Seq(AuditLog)
    BY <1>7, <2>1 DEF WriteAudit, Audited, TypeOK
  <2> QED
    BY <1>7, <2>2, GoTypes DEF WriteAudit, TypeOK
<1>8. ASSUME NEW w \in Workers, StatementFails(w) PROVE TypeOK'
  <2>1. cut_off' \in 0..MaxCutOff
    BY <1>8, BoundsAssumption DEF StatementFails, TypeOK
  <2> QED
    BY <1>8, <2>1, GoTypes DEF StatementFails, database, TypeOK
<1>9. ASSUME Restart PROVE TypeOK'
  <2> DEFINE running == {w \in Workers : pc[w] # "idle"}
  <2>1. Cardinality(running) \in Nat
    BY WorkersAssumption, FS_Subset, FS_CardinalityType
  <2>2. cut_off' = cut_off + Cardinality(running) /\ cut_off + Cardinality(running) <= MaxCutOff
    BY <1>9 DEF Restart
  <2>3. cut_off' \in 0..MaxCutOff
    BY <2>1, <2>2, BoundsAssumption DEF TypeOK
  <2> QED
    BY <1>9, <2>3 DEF Restart, database, TypeOK
<1> QED
  BY <1>1, <1>2, <1>3, <1>4, <1>5, <1>6, <1>7, <1>8, <1>9 DEF Next, Request, Continue

-----------------------------------------------------------------------------
(* What a handler has read stays true. *)

\* A step that decides on a proposal commits the decision that it writes.
DecidedNow(id) ==
  /\ proposals'[id].reviewed
  /\ Change("proposal.decided", id, proposals'[id].status) \in committed'

\* Rows are only added, a bot never changes, a proposal keeps its bot and its
\* value, and only a decision that is committed with it changes its status.
LEMMA TablesGrow ==
  ASSUME TablesInv, [Next]_vars
  PROVE  /\ \A id \in Bots : id \in Bots' /\ bots'[id] = bots[id]
         /\ \A id \in Bots' \ Bots : bots'[id] \in NewBots
         /\ \A id \in Rows : /\ id \in Rows'
                             /\ proposals'[id].bot_id = proposals[id].bot_id
                             /\ proposals'[id].value = proposals[id].value
                             /\ proposals'[id] = proposals[id] \/ DecidedNow(id)
         /\ committed \subseteq committed'
<1>0. committed \subseteq committed'
  BY DEF Next, Request, Continue, create_bot, propose, decide, InsertProposal, UpdateProposal,
         WriteAudit, StatementFails, Restart, Commits, database, vars
<1>1. CASE UNCHANGED database
  BY <1>0, <1>1 DEF database, Bots, Rows
<1>2. ASSUME NEW w \in Workers, NEW id \in BotIds, NEW bot \in NewBots, create_bot(w, id, bot)
      PROVE  /\ \A b \in Bots : b \in Bots' /\ bots'[b] = bots[b]
             /\ \A b \in Bots' \ Bots : bots'[b] \in NewBots
             /\ proposals' = proposals
  BY <1>2 DEF create_bot, database, Bots, TablesInv, TypeOK
<1>3. ASSUME NEW w \in Workers, NEW id \in ProposalIds, InsertProposal(w, id)
      PROVE  /\ bots' = bots
             /\ \A p \in Rows : p \in Rows' /\ proposals'[p] = proposals[p]
  BY <1>3 DEF InsertProposal, Rows, TablesInv, TypeOK
<1>4. ASSUME NEW w \in Workers, UpdateProposal(w)
      PROVE  /\ bots' = bots
             /\ \A p \in Rows : /\ p \in Rows'
                                /\ proposals'[p].bot_id = proposals[p].bot_id
                                /\ proposals'[p].value = proposals[p].value
                                /\ proposals'[p] = proposals[p] \/ DecidedNow(p)
  <2>1. ASSUME NEW p \in Rows
        PROVE  /\ proposals'[p].bot_id = proposals[p].bot_id
               /\ proposals'[p].value = proposals[p].value
               /\ proposals'[p] = proposals[p] \/ DecidedNow(p)
               /\ proposals'[p] \in Proposal
    <3>1. proposals[p] \in Proposal /\ p \in ProposalIds
      BY <2>1, ReadProposalTyped DEF TablesInv
    <3>2. job[w].status \in ProposalStatuses
      BY <1>4 DEF UpdateProposal, TablesInv, JobsExplained, MayUpdate, ProposalStatuses
    <3>3. CASE p # job[w].entity
      BY <1>4, <3>1, <3>3 DEF UpdateProposal, TablesInv, TypeOK
    <3>4. CASE p = job[w].entity
      <4>1. /\ proposals'[p].bot_id = proposals[p].bot_id
            /\ proposals'[p].value = proposals[p].value
            /\ proposals'[p].reviewed = TRUE
            /\ proposals'[p] \in Proposal
        BY <1>4, <3>1, <3>2, <3>4 DEF UpdateProposal, Proposal, TablesInv, TypeOK
      <4>2. Change("proposal.decided", p, proposals'[p].status) \in committed'
        BY <1>4, <3>4 DEF UpdateProposal, Commits
      <4> QED
        BY <4>1, <4>2 DEF DecidedNow
    <3> QED
      BY <3>3, <3>4
  <2> QED
    BY <1>4, <2>1, RowAssumption DEF UpdateProposal, Rows
<1>5. ASSUME NEW w \in Workers,
             \/ \E id \in BotIds, value \in Values : propose(w, id, value)
             \/ \E id \in ProposalIds, decision \in {"approved", "rejected"} : decide(w, id, decision)
             \/ StatementFails(w)
      PROVE  UNCHANGED database
  BY <1>5 DEF propose, decide, StatementFails
<1>6. ASSUME NEW w \in Workers, WriteAudit(w) PROVE UNCHANGED <<bots, proposals>>
  BY <1>6 DEF WriteAudit
<1>7. CASE UNCHANGED <<bots, proposals>>
  BY <1>0, <1>7 DEF Bots, Rows
<1>8. CASE Restart
  BY <1>1, <1>8, <1>0 DEF Restart
<1>9. CASE UNCHANGED vars
  BY <1>1, <1>9, <1>0 DEF vars, database
<1>10. CASE \E w \in Workers : Request(w)
  <2>1. PICK w \in Workers : Request(w)
    BY <1>10
  <2>2. CASE \E id \in BotIds, bot \in NewBots : create_bot(w, id, bot)
    BY <1>2, <1>0, <2>2 DEF Rows
  <2> QED
    BY <1>1, <1>5, <2>1, <2>2 DEF Request
<1>11. CASE \E w \in Workers : Continue(w)
  <2>1. PICK w \in Workers : Continue(w)
    BY <1>11
  <2>2. CASE \E id \in ProposalIds : InsertProposal(w, id)
    BY <1>3, <1>0, <2>2 DEF Bots
  <2>3. CASE UpdateProposal(w)
    <3>1. bots' = bots /\ Bots' = Bots
      BY <1>4, <2>3 DEF Bots
    <3>2. \A id \in Bots : id \in Bots' /\ bots'[id] = bots[id]
      BY <3>1
    <3>3. \A id \in Bots' \ Bots : bots'[id] \in NewBots
      BY <3>1
    <3>4. \A id \in Rows : /\ id \in Rows'
                           /\ proposals'[id].bot_id = proposals[id].bot_id
                           /\ proposals'[id].value = proposals[id].value
                           /\ proposals'[id] = proposals[id] \/ DecidedNow(id)
      BY <1>4, <2>3
    <3> QED
      BY <1>0, <3>2, <3>3, <3>4
  <2> QED
    BY <1>1, <1>5, <1>6, <1>7, <1>0, <2>1, <2>2, <2>3 DEF Continue
<1> QED
  BY <1>8, <1>9, <1>10, <1>11 DEF Next

\* What may be decided on may be decided on later: it is no verdict that it waits for.
LEMMA DecidableLater ==
  ASSUME TablesInv, [Next]_vars, NEW id, AsksForDecision(id)
  PROVE  AsksForDecision(id)'
<1>1. id \in Rows /\ proposals[id].bot_id \in Bots
  BY ReadProposalTyped DEF AsksForDecision, TablesInv, StatusExplained, Bots
<1> QED
  BY <1>1, TablesGrow DEF AsksForDecision, WithinLimit

\* What has been committed stays true, and a decision gives way only to another one.
LEMMA StaysTrue ==
  ASSUME TablesInv, [Next]_vars, NEW change, True(change)
  PROVE  True(change)'
<1>1. CASE change.event = "bot.created"
  BY <1>1, TablesGrow DEF True
<1>2. ASSUME change.entity \in Rows
      PROVE  /\ change.entity \in Rows'
             /\ \/ proposals'[change.entity] = proposals[change.entity]
                \/ DecidedNow(change.entity)
             /\ committed \subseteq committed'
  BY <1>2, TablesGrow
<1>3. CASE change.event = "proposal.created"
  BY <1>2, <1>3 DEF True, DecidedNow
<1>4. CASE change.event = "proposal.decided"
  BY <1>2, <1>4 DEF True, DecidedNow
<1> QED
  BY <1>1, <1>3, <1>4 DEF True

\* What a thread may do it may do later, while the others act.
LEMMA MayStill ==
  ASSUME TablesInv, [Next]_vars, NEW w \in Workers, pc'[w] = pc[w], job'[w] = job[w]
  PROVE  MayInsert(w)' /\ MayUpdate(w)'
<1>1. MayInsert(w)'
  <2>1. SUFFICES ASSUME pc[w] = "insert"
                 PROVE  MayInsert(w)'
    BY DEF MayInsert
  <2>2. /\ job[w].event = "proposal.created"
        /\ job[w].bot_id \in Bots
        /\ job[w].value \in Values
        /\ job[w].status = proposal_status(bots[job[w].bot_id], job[w].value)
    BY <2>1 DEF TablesInv, JobsExplained, MayInsert
  <2>3. job[w].bot_id \in Bots' /\ bots'[job[w].bot_id] = bots[job[w].bot_id]
    BY <2>2, TablesGrow
  <2> QED
    BY <2>2, <2>3 DEF MayInsert, proposal_status
<1>2. MayUpdate(w)'
  <2>1. SUFFICES ASSUME pc[w] = "update"
                 PROVE  MayUpdate(w)'
    BY DEF MayUpdate
  <2>2. /\ job[w].event = "proposal.decided"
        /\ job[w].status \in {"approved", "rejected"}
        /\ AsksForDecision(job[w].entity)
    BY <2>1 DEF TablesInv, JobsExplained, MayUpdate
  <2>3. PICK id : id = job[w].entity
    OBVIOUS
  <2>4. AsksForDecision(id)'
    BY <2>2, <2>3, DecidableLater
  <2> QED
    BY <2>2, <2>3, <2>4 DEF MayUpdate
<1> QED
  BY <1>1, <1>2

\* A thread that goes idle or has written its row may do nothing more.
LEMMA OnlyActor ==
  ASSUME TablesInv, [Next]_vars, NEW w \in Workers, NEW next, NEW done, Go(w, next, done)
  PROVE  /\ \A v \in Workers \ {w} : pc'[v] = pc[v] /\ job'[v] = job[v] /\ MayInsert(v)' /\ MayUpdate(v)'
         /\ pc'[w] = next /\ job'[w] = done
         /\ next \notin {"insert", "update"} => \A v \in Workers : MayInsert(v)' /\ MayUpdate(v)'
<1>1. \A v \in Workers \ {w} : pc'[v] = pc[v] /\ job'[v] = job[v]
  BY DEF Go, TablesInv, TypeOK
<1>2. pc'[w] = next /\ job'[w] = done
  BY DEF Go, TablesInv, TypeOK
<1>3. \A v \in Workers \ {w} : MayInsert(v)' /\ MayUpdate(v)'
  BY <1>1, MayStill
<1>4. next \notin {"insert", "update"} => MayInsert(w)' /\ MayUpdate(w)'
  BY <1>2 DEF MayInsert, MayUpdate
<1> QED
  BY <1>1, <1>2, <1>3, <1>4

LEMMA JobsStep ==
  ASSUME TablesInv, [Next]_vars
  PROVE  JobsExplained'
<1>1. BotsActive'
  BY TablesGrow DEF BotsActive, TablesInv, JobsExplained, NewBots
<1>2. SUFFICES \A w \in Workers : MayInsert(w)' /\ MayUpdate(w)'
  BY <1>1 DEF JobsExplained
<1>3. CASE UNCHANGED vars
  BY <1>3, MayStill DEF vars
<1>4. CASE Restart
  BY <1>4 DEF Restart, MayInsert, MayUpdate
<1>5. ASSUME NEW w \in Workers, NEW id \in BotIds, NEW bot \in NewBots, create_bot(w, id, bot)
      PROVE  \A v \in Workers : MayInsert(v)' /\ MayUpdate(v)'
  BY <1>5, OnlyActor DEF create_bot, Handle
<1>6. ASSUME NEW w \in Workers, NEW id \in BotIds, NEW value \in Values, propose(w, id, value)
      PROVE  \A v \in Workers : MayInsert(v)' /\ MayUpdate(v)'
  <2>1. CASE bots[id] = NoRow
    BY <1>6, <2>1, OnlyActor DEF propose, Handle
  <2>2. CASE bots[id] # NoRow
    <3> DEFINE read == [event |-> "proposal.created", entity |-> NoRow, bot_id |-> id,
                        value |-> value, status |-> proposal_status(bots[id], value)]
    <3>1. Go(w, "insert", read) /\ bots' = bots
      BY <1>6, <2>2 DEF propose, Handle, database
    <3>2. pc'[w] = "insert" /\ job'[w] = read
      BY <3>1, OnlyActor
    <3>3. id \in Bots' /\ bots'[id] = bots[id]
      BY <2>2, <3>1 DEF Bots
    <3>4. MayInsert(w)' /\ MayUpdate(w)'
      BY <3>2, <3>3 DEF MayInsert, MayUpdate, proposal_status
    <3> HIDE DEF read
    <3> QED
      BY <3>1, <3>4, OnlyActor
  <2> QED
    BY <2>1, <2>2
<1>7. ASSUME NEW w \in Workers, NEW id \in ProposalIds, NEW decision \in {"approved", "rejected"},
             decide(w, id, decision)
      PROVE  \A v \in Workers : MayInsert(v)' /\ MayUpdate(v)'
  <2>1. CASE id \in Rows /\ Decidable(proposals[id])
    <3> DEFINE read == [NoJob EXCEPT !.event = "proposal.decided", !.entity = id,
                                     !.status = decision]
    <3>1. Go(w, "update", read)
      BY <1>7, <2>1 DEF decide, Handle, Rows
    <3>2. pc'[w] = "update" /\ job'[w] = read
      BY <3>1, OnlyActor
    <3>3. read.event = "proposal.decided" /\ read.entity = id /\ read.status = decision
      BY DEF NoJob
    <3>4. AsksForDecision(id)'
      BY <2>1, DecidableLater DEF TablesInv, PendingAsks
    <3> HIDE DEF read
    <3>5. MayInsert(w)' /\ MayUpdate(w)'
      BY <3>2, <3>3, <3>4 DEF MayInsert, MayUpdate
    <3> QED
      BY <3>1, <3>5, OnlyActor
  <2>2. CASE ~(id \in Rows /\ Decidable(proposals[id]))
    BY <1>7, <2>2, OnlyActor DEF decide, Handle, Rows
  <2> QED
    BY <2>1, <2>2
<1>8. ASSUME NEW w \in Workers, Continue(w)
      PROVE  \A v \in Workers : MayInsert(v)' /\ MayUpdate(v)'
  <2>1. \E next \in {"audit", "idle"} : \E done : Go(w, next, done)
    BY <1>8 DEF Continue, InsertProposal, UpdateProposal, WriteAudit, StatementFails
  <2> QED
    BY <2>1, OnlyActor
<1> QED
  BY <1>3, <1>4, <1>5, <1>6, <1>7, <1>8 DEF Next, Request

-----------------------------------------------------------------------------
(* Every status is explained. *)

\* StatusExplained and PendingAsks, of one proposal.
Explained(id) ==
  LET row      == proposals[id]
      bot      == bots[row.bot_id]
      disabled == bot.approval_mode = "disabled"
  IN  /\ bot # NoRow
      /\ ~row.reviewed =>
           /\ row.status # "approved"
           /\ row.status = "rejected" <=> disabled
           /\ row.status = "auto_approved" <=> WithinLimit(bot, row.value)
      /\ row.reviewed =>
           /\ row.status \in {"approved", "rejected"}
           /\ ~disabled /\ ~WithinLimit(bot, row.value)
      /\ Decidable(row) => AsksForDecision(id)

LEMMA ExplainedOne ==
  PendingAsks /\ StatusExplained <=> \A id \in Rows : Explained(id)
BY DEF PendingAsks, StatusExplained, Explained

\* A row nobody writes keeps its explanation.
LEMMA StaysExplained ==
  ASSUME TablesInv, [Next]_vars, NEW id \in Rows, proposals'[id] = proposals[id]
  PROVE  Explained(id)'
<1>1. Explained(id)
  BY ExplainedOne DEF TablesInv
<1>2. proposals[id].bot_id \in Bots
  BY <1>1, ReadProposalTyped DEF Explained, TablesInv, Bots
<1>3. bots'[proposals[id].bot_id] = bots[proposals[id].bot_id]
  BY <1>2, TablesGrow
<1>4. Decidable(proposals'[id]) => AsksForDecision(id)'
  BY <1>1, DecidableLater DEF Explained, Decidable
<1> QED
  BY <1>1, <1>3, <1>4 DEF Explained, WithinLimit

LEMMA StatusStep ==
  ASSUME TablesInv, [Next]_vars
  PROVE  PendingAsks' /\ StatusExplained'
<1>1. SUFFICES \A id \in Rows' : Explained(id)'
  BY DEF PendingAsks, StatusExplained, Explained
<1>2. CASE UNCHANGED proposals
  BY <1>2, StaysExplained DEF Rows
<1>3. ASSUME NEW w \in Workers, NEW id \in ProposalIds, InsertProposal(w, id)
      PROVE  \A p \in Rows' : Explained(p)'
  <2>1. \A p \in Rows' \ {id} : p \in Rows /\ proposals'[p] = proposals[p]
    BY <1>3 DEF InsertProposal, Rows, TablesInv, TypeOK
  <2>2. Explained(id)'
    <3> DEFINE bot == bots[job[w].bot_id]
    <3>1. /\ job[w].bot_id \in Bots
          /\ job[w].value \in Values
          /\ job[w].status = proposal_status(bot, job[w].value)
      BY <1>3 DEF InsertProposal, TablesInv, JobsExplained, MayInsert
    <3>2. bot \in Bot /\ bot # NoRow /\ bot.status = "active"
      BY <3>1, ReadBotTyped DEF Bots, TablesInv, JobsExplained, BotsActive
    <3>3. /\ bots' = bots
          /\ proposals'[id] = [bot_id |-> job[w].bot_id, value |-> job[w].value,
                               status |-> job[w].status, reviewed |-> FALSE]
      BY <1>3 DEF InsertProposal, TablesInv, TypeOK
    <3>4. bots'[proposals'[id].bot_id] = bot /\ proposals'[id].value = job[w].value
      BY <3>3
    <3>5. proposals'[id].status = proposal_status(bot, job[w].value) /\ proposals'[id].reviewed = FALSE
      BY <3>1, <3>3
    <3>6. id \in Rows'
      <4>1. job[w].status \in ProposalStatuses /\ job[w].bot_id \in BotIds
        BY <3>1 DEF ProposalStatuses, proposal_status, Bots
      <4>2. proposals'[id] \in Proposal
        BY <3>1, <3>3, <4>1 DEF Proposal
      <4> QED
        BY <4>2, RowAssumption DEF Rows
    <3> HIDE DEF bot
    <3> QED
      BY <3>2, <3>4, <3>5, <3>6
      DEF Explained, proposal_status, WithinLimit, AsksForDecision, Decidable
  <2> QED
    BY <2>1, <2>2, StaysExplained
<1>4. ASSUME NEW w \in Workers, UpdateProposal(w)
      PROVE  \A p \in Rows' : Explained(p)'
  <2>1. PICK id : id = job[w].entity
    OBVIOUS
  <2>2. AsksForDecision(id) /\ job[w].status \in {"approved", "rejected"} /\ id \in Rows
    BY <1>4, <2>1 DEF UpdateProposal, TablesInv, JobsExplained, MayUpdate, AsksForDecision
  <2>3. id \in ProposalIds /\ proposals[id] \in Proposal /\ proposals[id].bot_id \in BotIds
    BY <2>2, ReadProposalTyped DEF TablesInv
  <2>4. \A p \in Rows' \ {id} : p \in Rows /\ proposals'[p] = proposals[p]
    BY <1>4, <2>1, <2>3 DEF UpdateProposal, Rows, TablesInv, TypeOK
  <2>5. /\ bots' = bots
        /\ proposals'[id].bot_id = proposals[id].bot_id
        /\ proposals'[id].value = proposals[id].value
        /\ proposals'[id].status = job[w].status
        /\ proposals'[id].reviewed = TRUE
    BY <1>4, <2>1, <2>3 DEF UpdateProposal, Proposal, TablesInv, TypeOK
  <2>6. bots[proposals[id].bot_id] # NoRow
    BY <2>2 DEF TablesInv, StatusExplained
  <2>7. Explained(id)'
    BY <2>2, <2>5, <2>6 DEF Explained, AsksForDecision, WithinLimit, Decidable
  <2> QED
    BY <2>4, <2>7, StaysExplained
<1>5. CASE Restart
  BY <1>2, <1>5 DEF Restart, database
<1>6. ASSUME NEW w \in Workers, Request(w) \/ WriteAudit(w) \/ StatementFails(w)
      PROVE  UNCHANGED proposals
  BY <1>6 DEF Request, create_bot, propose, decide, WriteAudit, StatementFails, database
<1> QED
  BY <1>2, <1>3, <1>4, <1>5, <1>6 DEF Next, Continue, vars

-----------------------------------------------------------------------------
(* The audit log tells the truth. *)

\* What each statement adds to the history is true of the row it has written.
LEMMA CommitsTruth ==
  ASSUME AuditInv, [Next]_vars
  PROVE  \A change \in committed' : True(change)'
<1>1. ASSUME NEW change \in committed PROVE True(change)'
  BY <1>1, StaysTrue DEF AuditInv, AuditExplained
<1>2. CASE committed' = committed
  BY <1>1, <1>2
<1>3. ASSUME NEW w \in Workers, NEW id \in BotIds, NEW bot \in NewBots, create_bot(w, id, bot)
      PROVE  \A change \in committed' : True(change)'
  <2>1. CASE bots' = [bots EXCEPT ![id] = bot] /\ Commits("bot.created", id, bots'[id].status)
    <3>1. bots'[id] = bot /\ bot # NoRow
      BY <2>1, RowAssumption DEF AuditInv, TablesInv, TypeOK, NewBots, Bot
    <3>2. PICK change : change = Change("bot.created", id, bots'[id].status)
      OBVIOUS
    <3>3. True(change)'
      BY <3>1, <3>2 DEF True, Change, Bots
    <3> QED
      BY <1>1, <2>1, <3>2, <3>3 DEF Commits
  <2> QED
    BY <1>2, <1>3, <2>1 DEF create_bot, database
<1>4. ASSUME NEW w \in Workers, NEW id \in ProposalIds, InsertProposal(w, id)
      PROVE  \A change \in committed' : True(change)'
  <2>1. /\ job[w].bot_id \in BotIds
        /\ job[w].value \in Values
        /\ job[w].status \in ProposalStatuses
    BY <1>4 DEF InsertProposal, AuditInv, TablesInv, JobsExplained, MayInsert, Bots,
                proposal_status, ProposalStatuses
  <2>2. proposals'[id] \in Proposal
    BY <1>4, <2>1 DEF InsertProposal, Proposal, AuditInv, TablesInv, TypeOK
  <2>3. PICK change : change = Change("proposal.created", id, proposals'[id].status)
    OBVIOUS
  <2>4. True(change)'
    BY <2>2, <2>3, RowAssumption DEF True, Change, Rows
  <2> QED
    BY <1>1, <1>4, <2>3, <2>4 DEF InsertProposal, Commits
<1>5. ASSUME NEW w \in Workers, UpdateProposal(w)
      PROVE  \A change \in committed' : True(change)'
  <2>1. PICK id : id = job[w].entity
    OBVIOUS
  <2>2. id \in Rows
    BY <1>5, <2>1 DEF UpdateProposal, AuditInv, TablesInv, JobsExplained, MayUpdate, AsksForDecision
  <2>3. proposals[id] \in Proposal /\ id \in ProposalIds
    BY <2>2, ReadProposalTyped DEF AuditInv, TablesInv
  <2>4. proposals'[id].reviewed = TRUE
    BY <1>5, <2>1, <2>3 DEF UpdateProposal, Proposal, AuditInv, TablesInv, TypeOK
  <2>5. committed' = committed \cup {Change("proposal.decided", id, proposals'[id].status)}
    BY <1>5, <2>1 DEF UpdateProposal, Commits
  <2>6. id \in Rows'
    BY <2>2, TablesGrow DEF AuditInv
  <2>7. PICK change : change = Change("proposal.decided", id, proposals'[id].status)
    OBVIOUS
  <2>8. True(change)'
    BY <2>4, <2>5, <2>6, <2>7 DEF True, Change
  <2> QED
    BY <1>1, <2>5, <2>7, <2>8
<1>6. ASSUME NEW w \in Workers,
             \/ \E id \in BotIds, value \in Values : propose(w, id, value)
             \/ \E id \in ProposalIds, decision \in {"approved", "rejected"} : decide(w, id, decision)
             \/ WriteAudit(w)
             \/ StatementFails(w)
      PROVE  committed' = committed
  BY <1>6 DEF propose, decide, WriteAudit, StatementFails, database
<1>7. Restart \/ UNCHANGED vars => committed' = committed
  BY DEF Restart, database, vars
<1> QED
  BY <1>2, <1>3, <1>4, <1>5, <1>6, <1>7 DEF Next, Request, Continue

\* What a thread goes on to report, it has committed.
LEMMA AuditStep ==
  ASSUME AuditInv, [Next]_vars
  PROVE  AuditExplained'
<1> TablesInv
  BY DEF AuditInv
<1>1. committed \subseteq committed'
  BY TablesGrow
<1>2. ASSUME audit_logs' = audit_logs,
             \A w \in Workers : pc'[w] = "audit" => Reported(job'[w]) \in committed'
      PROVE  AuditExplained'
  <2>1. \A i \in DOMAIN audit_logs' : audit_logs'[i] \in committed'
    BY <1>1, <1>2 DEF AuditInv, AuditExplained
  <2>2. \A w \in Workers : pc'[w] = "audit" => Reported(job[w])' \in committed'
    BY <1>2 DEF Reported, Change
  <2> QED
    BY <2>1, <2>2, CommitsTruth DEF AuditExplained
<1>3. ASSUME NEW w \in Workers, NEW next, NEW done, Go(w, next, done), audit_logs' = audit_logs,
             next = "audit" => Reported(done) \in committed'
      PROVE  AuditExplained'
  <2>1. \A v \in Workers : pc'[v] = "audit" => Reported(job'[v]) \in committed'
    BY <1>1, <1>3, OnlyActor DEF AuditInv, AuditExplained
  <2> QED
    BY <1>2, <1>3, <2>1
<1>4. CASE UNCHANGED vars
  BY <1>1, <1>2, <1>4 DEF vars, AuditInv, AuditExplained
<1>5. CASE Restart
  BY <1>2, <1>5 DEF Restart, database
<1>6. ASSUME NEW w \in Workers, NEW id \in BotIds, NEW bot \in NewBots, create_bot(w, id, bot)
      PROVE  AuditExplained'
  <2>1. CASE Go(w, "idle", NoJob) /\ UNCHANGED database
    BY <1>3, <2>1 DEF database
  <2> DEFINE done == [NoJob EXCEPT !.event = "bot.created", !.entity = id]
  <2>2. CASE /\ Go(w, "audit", done) /\ bots' = [bots EXCEPT ![id] = bot]
             /\ Commits("bot.created", id, bots'[id].status) /\ audit_logs' = audit_logs
    <3>1. bots'[id].status = "active"
      BY <2>2 DEF TablesInv, TypeOK, NewBots
    <3>2. Reported(done) = Change("bot.created", id, "active")
      BY DEF Reported, NoJob
    <3>3. Reported(done) \in committed'
      BY <2>2, <3>1, <3>2 DEF Commits
    <3> QED
      BY <1>3, <2>2, <3>3
  <2> QED
    BY <1>6, <2>1, <2>2 DEF create_bot, Handle
<1>7. ASSUME NEW w \in Workers,
             \/ \E id \in BotIds, value \in Values : propose(w, id, value)
             \/ \E id \in ProposalIds, decision \in {"approved", "rejected"} : decide(w, id, decision)
             \/ StatementFails(w)
      PROVE  AuditExplained'
  <2>1. /\ audit_logs' = audit_logs
        /\ \E next \in {"idle", "insert", "update"} : \E done : Go(w, next, done)
    BY <1>7 DEF propose, decide, StatementFails, Handle, database
  <2> QED
    BY <1>3, <2>1
<1>8. ASSUME NEW w \in Workers, NEW id \in ProposalIds, InsertProposal(w, id)
      PROVE  AuditExplained'
  <2>0. PICK done : done = [job[w] EXCEPT !.entity = id]
    OBVIOUS
  <2>1. Go(w, "audit", done) /\ audit_logs' = audit_logs
    BY <1>8, <2>0 DEF InsertProposal
  <2>2. done.event = "proposal.created" /\ done.entity = id /\ done.status = job[w].status
    BY <1>8, <2>0 DEF InsertProposal, TablesInv, JobsExplained, MayInsert, TypeOK, Job
  <2>3. proposals'[id].status = job[w].status
    BY <1>8 DEF InsertProposal, TablesInv, TypeOK
  <2>4. Reported(done) \in committed'
    BY <1>8, <2>2, <2>3 DEF Reported, InsertProposal, Commits
  <2> QED
    BY <1>3, <2>1, <2>4
<1>9. ASSUME NEW w \in Workers, UpdateProposal(w)
      PROVE  AuditExplained'
  <2>1. PICK done : done = job[w]
    OBVIOUS
  <2>2. Go(w, "audit", done) /\ audit_logs' = audit_logs
    BY <1>9, <2>1 DEF UpdateProposal
  <2>3. done.event = "proposal.decided" /\ done.entity \in Rows
    BY <1>9, <2>1 DEF UpdateProposal, TablesInv, JobsExplained, MayUpdate, AsksForDecision
  <2>4. proposals[done.entity] \in Proposal /\ done.entity \in ProposalIds
    BY <2>3, ReadProposalTyped DEF TablesInv
  <2>5. proposals'[done.entity].status = done.status
    BY <1>9, <2>1, <2>4 DEF UpdateProposal, Proposal, TablesInv, TypeOK
  <2>6. Reported(done) \in committed'
    BY <1>9, <2>1, <2>3, <2>5 DEF Reported, UpdateProposal, Commits
  <2> QED
    BY <1>3, <2>2, <2>6
<1>10. ASSUME NEW w \in Workers, WriteAudit(w)
       PROVE  AuditExplained'
  <2>1. PICK row : row = Reported(job[w])
    OBVIOUS
  <2>2. row \in committed /\ committed' = committed
    BY <1>10, <2>1 DEF WriteAudit, AuditInv, AuditExplained
  <2>3. audit_logs \in Seq(AuditLog) /\ audit_logs' = audit_logs \o <<row>>
    BY <1>10, <2>1 DEF WriteAudit, Audited, TablesInv, TypeOK
  <2>4. \A i \in DOMAIN audit_logs' :
          \/ i \in DOMAIN audit_logs /\ audit_logs'[i] = audit_logs[i]
          \/ audit_logs'[i] = row
    BY <2>3
  <2>5. \A i \in DOMAIN audit_logs' : audit_logs'[i] \in committed'
    BY <2>2, <2>4 DEF AuditInv, AuditExplained
  <2>6. pc'[w] = "idle"
    BY <1>10, OnlyActor DEF WriteAudit
  <2>7. \A v \in Workers : pc'[v] = "audit" => Reported(job'[v]) \in committed'
    BY <1>1, <1>10, <2>6, OnlyActor DEF WriteAudit, AuditInv, AuditExplained
  <2>8. \A v \in Workers : pc'[v] = "audit" => Reported(job[v])' \in committed'
    BY <2>7 DEF Reported, Change
  <2> QED
    BY <2>5, <2>8, CommitsTruth DEF AuditExplained
<1> QED
  BY <1>4, <1>5, <1>6, <1>7, <1>8, <1>9, <1>10 DEF Next, Request, Continue

-----------------------------------------------------------------------------
(* What the audit log misses was cut off. *)

\* A thread that has no audit record to write takes none away.
LEMMA LoggedKept ==
  ASSUME TablesInv, NEW w \in Workers, NEW next, NEW done, Go(w, next, done),
         pc[w] # "audit", audit_logs' = audit_logs, NEW change, Logged(change)
  PROVE  Logged(change)'
<1>1. CASE \E i \in DOMAIN audit_logs : audit_logs[i] = change
  BY <1>1 DEF Logged
<1>2. CASE \E v \in Workers : pc[v] = "audit" /\ Reported(job[v]) = change
  <2>1. PICK v \in Workers : pc[v] = "audit" /\ Reported(job[v]) = change
    BY <1>2
  <2>2. pc'[v] = pc[v] /\ job'[v] = job[v]
    BY <2>1 DEF Go, TablesInv, TypeOK
  <2>3. pc'[v] = "audit" /\ Reported(job[v])' = change
    BY <2>1, <2>2 DEF Reported, Change
  <2> QED
    BY <2>3 DEF Logged
<1> QED
  BY <1>1, <1>2 DEF Logged

\* A change that goes unlogged was unlogged, or is in X: as many as are cut off now.
LEMMA UnloggedBound ==
  ASSUME UnloggedInv, NEW X, IsFiniteSet(X), Unlogged' \subseteq Unlogged \cup X,
         cut_off' \in Nat, cut_off + Cardinality(X) <= cut_off'
  PROVE  IsFiniteSet(Unlogged') /\ UnloggedOnlyWhenCutOff'
<1>1. IsFiniteSet(Unlogged) /\ Cardinality(Unlogged) \in Nat /\ Cardinality(Unlogged) <= cut_off
  BY FS_CardinalityType DEF UnloggedInv, UnloggedOnlyWhenCutOff
<1>2. Cardinality(X) \in Nat
  BY FS_CardinalityType
<1>3. /\ IsFiniteSet(Unlogged \cup X)
      /\ Cardinality(Unlogged \cup X) <= Cardinality(Unlogged) + Cardinality(X)
  <2>1. /\ IsFiniteSet(Unlogged \cup X)
        /\ IsFiniteSet(Unlogged \cap X)
        /\ Cardinality(Unlogged \cup X)
              = Cardinality(Unlogged) + Cardinality(X) - Cardinality(Unlogged \cap X)
    BY <1>1, FS_Union, FS_Intersection
  <2>2. Cardinality(Unlogged \cap X) \in Nat
    BY <2>1, FS_CardinalityType
  <2> QED
    BY <1>1, <1>2, <2>1, <2>2
<1>4. /\ IsFiniteSet(Unlogged') /\ Cardinality(Unlogged') \in Nat
      /\ Cardinality(Unlogged') <= Cardinality(Unlogged \cup X)
      /\ Cardinality(Unlogged \cup X) \in Nat
  BY <1>3, FS_Subset, FS_CardinalityType
<1>5. cut_off \in Nat
  BY BoundsAssumption DEF UnloggedInv, AuditInv, TablesInv, TypeOK
<1> QED
  BY <1>1, <1>2, <1>3, <1>4, <1>5 DEF UnloggedOnlyWhenCutOff

\* What was committed and stays logged is not unlogged later.
LEMMA UnloggedWithin ==
  ASSUME NEW X,
         \A change \in committed : Logged(change) => Logged(change)' \/ change \in X,
         \A change \in committed' \ committed : Logged(change)'
  PROVE  Unlogged' \subseteq Unlogged \cup X
BY DEF Unlogged

LEMMA UnloggedStep ==
  ASSUME UnloggedInv, [Next]_vars, TypeOK'
  PROVE  IsFiniteSet(Unlogged') /\ UnloggedOnlyWhenCutOff'
<1> TablesInv /\ TypeOK
  BY DEF UnloggedInv, AuditInv, TablesInv
<1>1. cut_off \in Nat /\ cut_off' \in Nat
  BY BoundsAssumption DEF TypeOK
<1>2. ASSUME Unlogged' \subseteq Unlogged, cut_off' = cut_off
      PROVE  IsFiniteSet(Unlogged') /\ UnloggedOnlyWhenCutOff'
  <2>1. IsFiniteSet({}) /\ Cardinality({}) = 0 /\ Unlogged' \subseteq Unlogged \cup {}
    BY <1>2, FS_EmptySet
  <2>2. cut_off + Cardinality({}) <= cut_off'
    BY <1>1, <1>2, <2>1
  <2> QED
    BY <1>1, <2>1, <2>2, UnloggedBound
<1>3. ASSUME NEW w \in Workers, NEW next, NEW done, Go(w, next, done), pc[w] # "audit",
             audit_logs' = audit_logs, cut_off' = cut_off,
             \A change \in committed' \ committed : Logged(change)'
      PROVE  IsFiniteSet(Unlogged') /\ UnloggedOnlyWhenCutOff'
  <2>1. Unlogged' \subseteq Unlogged \cup {}
    BY <1>3, LoggedKept, UnloggedWithin
  <2> QED
    BY <1>2, <1>3, <2>1
<1>4. CASE UNCHANGED vars
  BY <1>2, <1>4 DEF vars, Unlogged, Logged, Reported, Change
\* A statement that commits a change is followed by the report of that change.
<1>5. ASSUME NEW w \in Workers, NEW done, Go(w, "audit", done), pc[w] # "audit",
             audit_logs' = audit_logs, cut_off' = cut_off,
             committed' = committed \cup {Reported(done)}
      PROVE  IsFiniteSet(Unlogged') /\ UnloggedOnlyWhenCutOff'
  <2>1. pc'[w] = "audit" /\ job'[w] = done
    BY <1>5, OnlyActor
  <2>2. Reported(job[w])' = Reported(done)
    BY <2>1 DEF Reported, Change
  <2>3. Logged(Reported(done))'
    BY <2>1, <2>2 DEF Logged
  <2> QED
    BY <1>3, <1>5, <2>3
<1>6. ASSUME NEW w \in Workers, NEW id \in BotIds, NEW bot \in NewBots, create_bot(w, id, bot)
      PROVE  IsFiniteSet(Unlogged') /\ UnloggedOnlyWhenCutOff'
  <2>1. pc[w] = "idle" /\ cut_off' = cut_off
    BY <1>6 DEF create_bot, Handle
  <2>2. CASE Go(w, "idle", NoJob) /\ UNCHANGED database
    BY <1>3, <2>1, <2>2 DEF database
  <2> DEFINE done == [NoJob EXCEPT !.event = "bot.created", !.entity = id]
  <2>3. CASE /\ Go(w, "audit", done) /\ bots' = [bots EXCEPT ![id] = bot]
             /\ Commits("bot.created", id, bots'[id].status) /\ audit_logs' = audit_logs
    <3>1. bots'[id].status = "active"
      BY <2>3 DEF TypeOK, NewBots
    <3>2. Reported(done) = Change("bot.created", id, "active")
      BY DEF Reported, NoJob
    <3>3. committed' = committed \cup {Reported(done)}
      BY <2>3, <3>1, <3>2 DEF Commits
    <3> HIDE DEF done
    <3> QED
      BY <1>5, <2>1, <2>3, <3>3
  <2> QED
    BY <1>6, <2>2, <2>3 DEF create_bot, Handle
<1>7. ASSUME NEW w \in Workers,
             \/ \E id \in BotIds, value \in Values : propose(w, id, value)
             \/ \E id \in ProposalIds, decision \in {"approved", "rejected"} : decide(w, id, decision)
      PROVE  IsFiniteSet(Unlogged') /\ UnloggedOnlyWhenCutOff'
  <2>1. /\ UNCHANGED database /\ cut_off' = cut_off /\ pc[w] = "idle"
        /\ \E next, done : Go(w, next, done)
    BY <1>7 DEF propose, decide, Handle
  <2> QED
    BY <1>3, <2>1 DEF database
<1>8. ASSUME NEW w \in Workers, NEW id \in ProposalIds, InsertProposal(w, id)
      PROVE  IsFiniteSet(Unlogged') /\ UnloggedOnlyWhenCutOff'
  <2>1. PICK done : done = [job[w] EXCEPT !.entity = id]
    OBVIOUS
  <2>2. Go(w, "audit", done) /\ pc[w] = "insert" /\ UNCHANGED <<audit_logs, cut_off>>
    BY <1>8, <2>1 DEF InsertProposal
  <2>3. done.event = "proposal.created" /\ done.entity = id /\ done.status = job[w].status
    BY <1>8, <2>1 DEF InsertProposal, TablesInv, JobsExplained, MayInsert, TypeOK, Job
  <2>4. proposals'[id].status = job[w].status
    BY <1>8 DEF InsertProposal, TypeOK
  <2>5. committed' = committed \cup {Reported(done)}
    BY <1>8, <2>3, <2>4 DEF InsertProposal, Commits, Reported
  <2> QED
    BY <1>5, <2>2, <2>5
<1>9. ASSUME NEW w \in Workers, UpdateProposal(w)
      PROVE  IsFiniteSet(Unlogged') /\ UnloggedOnlyWhenCutOff'
  <2>1. PICK done : done = job[w]
    OBVIOUS
  <2>2. Go(w, "audit", done) /\ pc[w] = "update" /\ UNCHANGED <<audit_logs, cut_off>>
    BY <1>9, <2>1 DEF UpdateProposal
  <2>3. done.event = "proposal.decided" /\ done.entity \in Rows
    BY <2>1, <2>2 DEF TablesInv, JobsExplained, MayUpdate, AsksForDecision
  <2>4. proposals[done.entity] \in Proposal /\ done.entity \in ProposalIds
    BY <2>3, ReadProposalTyped
  <2>5. proposals'[done.entity].status = done.status
    BY <1>9, <2>1, <2>4 DEF UpdateProposal, Proposal, TypeOK
  <2>6. committed' = committed \cup {Reported(done)}
    BY <1>9, <2>1, <2>3, <2>5 DEF UpdateProposal, Commits, Reported
  <2> QED
    BY <1>5, <2>2, <2>6
<1>10. ASSUME NEW w \in Workers, WriteAudit(w)
      PROVE  IsFiniteSet(Unlogged') /\ UnloggedOnlyWhenCutOff'
  <2>1. PICK row : row = Reported(job[w])
    OBVIOUS
  <2>2. /\ pc[w] = "audit" /\ Go(w, "idle", NoJob) /\ UNCHANGED <<committed, cut_off>>
        /\ audit_logs' = audit_logs \o <<row>>
    BY <1>10, <2>1 DEF WriteAudit, Audited
  <2>3. /\ \A i \in DOMAIN audit_logs : i \in DOMAIN audit_logs' /\ audit_logs'[i] = audit_logs[i]
        /\ Len(audit_logs) + 1 \in DOMAIN audit_logs' /\ audit_logs'[Len(audit_logs) + 1] = row
    BY <2>2 DEF TypeOK
  <2>4. ASSUME NEW change, Logged(change) PROVE Logged(change)'
    <3>1. CASE \E i \in DOMAIN audit_logs : audit_logs[i] = change
      BY <2>3, <3>1 DEF Logged
    <3>2. ASSUME NEW v \in Workers, pc[v] = "audit", Reported(job[v]) = change
          PROVE  Logged(change)'
      <4>1. CASE v = w
        BY <2>1, <2>3, <3>2, <4>1 DEF Logged
      <4>2. CASE v # w
        <5>1. pc'[v] = pc[v] /\ job'[v] = job[v]
          BY <2>2, <4>2, OnlyActor
        <5>2. pc'[v] = "audit" /\ Reported(job[v])' = change
          BY <3>2, <5>1 DEF Reported, Change
        <5> QED
          BY <5>2 DEF Logged
      <4> QED
        BY <4>1, <4>2
    <3> QED
      BY <2>4, <3>1, <3>2 DEF Logged
  <2>5. Unlogged' \subseteq Unlogged
    BY <2>2, <2>4 DEF Unlogged
  <2> QED
    BY <1>2, <2>2, <2>5
<1>11. ASSUME NEW w \in Workers, StatementFails(w)
       PROVE  IsFiniteSet(Unlogged') /\ UnloggedOnlyWhenCutOff'
  <2>1. Go(w, "idle", NoJob) /\ UNCHANGED database /\ cut_off' = cut_off + 1
    BY <1>11 DEF StatementFails
  <2>2. PICK lost : lost = Reported(job[w])
    OBVIOUS
  <2>3. ASSUME NEW change, Logged(change) PROVE Logged(change)' \/ change \in {lost}
    <3>1. CASE \E i \in DOMAIN audit_logs : audit_logs[i] = change
      BY <2>1, <3>1 DEF Logged, database
    <3>2. ASSUME NEW v \in Workers, pc[v] = "audit", Reported(job[v]) = change
          PROVE  Logged(change)' \/ change \in {lost}
      <4>1. CASE v = w
        BY <2>2, <3>2, <4>1
      <4>2. CASE v # w
        <5>1. pc'[v] = pc[v] /\ job'[v] = job[v]
          BY <2>1, <4>2, OnlyActor
        <5>2. pc'[v] = "audit" /\ Reported(job[v])' = change
          BY <3>2, <5>1 DEF Reported, Change
        <5> QED
          BY <5>2 DEF Logged
      <4> QED
        BY <4>1, <4>2
    <3> QED
      BY <2>3, <3>1, <3>2 DEF Logged
  <2>4. Unlogged' \subseteq Unlogged \cup {lost}
    <3>1. committed' = committed
      BY <2>1 DEF database
    <3> QED
      BY <2>3, <3>1 DEF Unlogged
  <2>5. IsFiniteSet({lost}) /\ Cardinality({lost}) = 1
    BY FS_Singleton
  <2>6. cut_off + Cardinality({lost}) <= cut_off'
    BY <1>1, <2>1, <2>5
  <2> QED
    BY <1>1, <2>4, <2>5, <2>6, UnloggedBound
<1>12. ASSUME Restart
       PROVE  IsFiniteSet(Unlogged') /\ UnloggedOnlyWhenCutOff'
  <2>1. PICK running : running = {w \in Workers : pc[w] # "idle"}
    OBVIOUS
  <2>2. PICK reports : reports = [w \in running |-> Reported(job[w])]
    OBVIOUS
  <2> DEFINE lost == {reports[w] : w \in running}
  <2>3. /\ IsFiniteSet(running) /\ Cardinality(running) \in Nat
        /\ cut_off' = cut_off + Cardinality(running) /\ UNCHANGED database
    BY <1>12, <2>1, WorkersAssumption, FS_Subset, FS_CardinalityType DEF Restart
  <2>4. IsFiniteSet(lost) /\ Cardinality(lost) <= Cardinality(running) /\ Cardinality(lost) \in Nat
    <3>1. reports \in Surjection(running, lost)
      BY <2>2 DEF Surjection
    <3>2. IsFiniteSet(lost) /\ Cardinality(lost) <= Cardinality(running)
      BY <2>3, <3>1, FS_Surjection
    <3> QED
      BY <3>2, FS_CardinalityType
  <2>5. ASSUME NEW change, Logged(change) PROVE Logged(change)' \/ change \in lost
    <3>1. CASE \E i \in DOMAIN audit_logs : audit_logs[i] = change
      BY <2>3, <3>1 DEF Logged, database
    <3>2. CASE \E w \in Workers : pc[w] = "audit" /\ Reported(job[w]) = change
      BY <2>1, <2>2, <3>2
    <3> QED
      BY <2>5, <3>1, <3>2 DEF Logged
  <2>6. Unlogged' \subseteq Unlogged \cup lost
    <3>1. committed' = committed
      BY <2>3 DEF database
    <3> HIDE DEF lost
    <3> QED
      BY <2>5, <3>1 DEF Unlogged
  <2>7. cut_off + Cardinality(lost) <= cut_off'
    BY <1>1, <2>3, <2>4
  <2> HIDE DEF lost
  <2> QED
    BY <1>1, <2>4, <2>6, <2>7, UnloggedBound
<1> QED
  BY <1>4, <1>6, <1>7, <1>8, <1>9, <1>10, <1>11, <1>12 DEF Next, Request, Continue

-----------------------------------------------------------------------------

LEMMA InvInit == Init => UnloggedInv
<1> SUFFICES ASSUME Init PROVE UnloggedInv
  OBVIOUS
<1>1. TypeOK
  BY TypeInit
<1>2. Bots = {} /\ Rows = {} /\ audit_logs = <<>> /\ \A w \in Workers : pc[w] = "idle"
  BY DEF Init, Bots, Rows
<1>3. TablesInv
  BY <1>1, <1>2 DEF TablesInv, JobsExplained, BotsActive, MayInsert, MayUpdate, PendingAsks,
                    StatusExplained
<1>4. AuditInv
  BY <1>2, <1>3 DEF AuditInv, AuditExplained, Init
<1>5. Unlogged = {}
  BY DEF Unlogged, Init
<1>6. cut_off = 0
  BY DEF Init
<1> QED
  BY <1>4, <1>5, <1>6, FS_EmptySet DEF UnloggedInv, UnloggedOnlyWhenCutOff

LEMMA InvStep == UnloggedInv /\ [Next]_vars => UnloggedInv'
<1> SUFFICES ASSUME UnloggedInv, [Next]_vars PROVE UnloggedInv'
  OBVIOUS
<1>1. TypeOK'
  BY TypeStep DEF UnloggedInv, AuditInv, TablesInv
<1>2. TablesInv'
  BY <1>1, JobsStep, StatusStep DEF UnloggedInv, AuditInv, TablesInv
<1>3. AuditInv'
  BY <1>2, AuditStep DEF UnloggedInv, AuditInv
<1> QED
  BY <1>1, <1>3, UnloggedStep DEF UnloggedInv

LEMMA Invariant == Spec => []UnloggedInv
BY InvInit, InvStep, PTL DEF Spec

\* Every variable of the API keeps its type, and so does every row
\* (server/app.py, server/database.py).
THEOREM TypeCorrect == Spec => []TypeOK
<1>1. UnloggedInv => TypeOK
  BY DEF UnloggedInv, AuditInv, TablesInv
<1> QED
  BY <1>1, Invariant, PTL

\* Whatever the status of a proposal is, its bot's mode or an administrator
\* explains it, however handlers interleave and are cut off (propose, decide).
THEOREM StatusInvariant == Spec => []StatusExplained
<1>1. UnloggedInv => StatusExplained
  BY DEF UnloggedInv, AuditInv, TablesInv
<1> QED
  BY <1>1, Invariant, PTL

\* Each row of the audit log reports a change that was committed, with the status the
\* row of the table was given, and only another decision has changed it since
\* (Database.audit).
THEOREM AuditInvariant == Spec => []AuditTellsTheTruth
<1>1. ASSUME UnloggedInv PROVE AuditTellsTheTruth
  <2>1. ASSUME NEW i \in DOMAIN audit_logs
        PROVE  audit_logs[i] \in committed /\ True(audit_logs[i])
    BY <1>1, <2>1 DEF UnloggedInv, AuditInv, AuditExplained
  <2> QED
    BY <2>1 DEF True, AuditTellsTheTruth, Bots, Rows
<1> QED
  BY <1>1, Invariant, PTL

\* No more changes, of decisions as of created rows, are missing from the audit log
\* than requests were cut off by a failed statement or a stop of the server.
THEOREM UnloggedInvariant == Spec => []UnloggedOnlyWhenCutOff
<1>1. UnloggedInv => UnloggedOnlyWhenCutOff
  BY DEF UnloggedInv
<1> QED
  BY <1>1, Invariant, PTL
=============================================================================
